---------------------------- MODULE LibraryProofs ----------------------------
(***************************************************************************)
(* Proofs about Library: what the functions return, for every argument.    *)
(***************************************************************************)
EXTENDS Library, CounterArith, SequenceTheorems

---------------------------------------------------------------------------
\* Every step is a call or the return from one.

\* What a step that ends with a call of `fn` has done.
LEMMA Calls ==
  ASSUME [Next]_vars
  PROVE  /\ FillTxSegment \/ UNCHANGED call \/ call'.fn # "mlx5_fill_tx_segment"
         /\ Copy \/ UNCHANGED call \/ call'.fn # "rte_memcpy"
         /\ CopyRequest \/ UNCHANGED call \/ call'.fn # "do_client"
         /\ CopyReply \/ UNCHANGED call \/ call'.fn # "process_server_requests"
         /\ FindNext \/ UNCHANGED call \/ call'.fn # "bitmap_find_next"
         /\ ForEach \/ UNCHANGED call \/ call'.fn # "bitmap_for_each"
         /\ Combine \/ UNCHANGED call \/ call'.fn # "combine"
         /\ ParseList \/ UNCHANGED call \/ call'.fn # "string_to_bitmap"
         /\ CreatePool \/ UNCHANGED call \/ call'.fn # "mempool_create"
         /\ MakeRequests \/ UNCHANGED call \/ call'.fn # "initialize_client_requests"
         /\ Answer \/ UNCHANGED call \/ call'.fn # "answer"
<1>1. FillTxSegment => call'.fn = "mlx5_fill_tx_segment"
  BY DEF FillTxSegment
<1>2. Copy => call'.fn = "rte_memcpy"
  BY DEF Copy
<1>3. CopyRequest => call'.fn = "do_client"
  BY DEF CopyRequest
<1>4. CopyReply => call'.fn = "process_server_requests"
  BY DEF CopyReply
<1>5. FindNext => call'.fn = "bitmap_find_next"
  BY DEF FindNext
<1>6. ForEach => call'.fn = "bitmap_for_each"
  BY DEF ForEach
<1>7. Combine => call'.fn = "combine"
  BY DEF Combine
<1>8. ParseList => call'.fn = "string_to_bitmap"
  BY DEF ParseList
<1>9. CreatePool => call'.fn = "mempool_create"
  BY DEF CreatePool
<1>10. MakeRequests => call'.fn = "initialize_client_requests"
  BY DEF MakeRequests
<1>11. Answer => call'.fn = "answer"
  BY DEF Answer
<1>12. Return => call'.fn = "none"
  BY DEF Return, Idle
<1> QED
  BY <1>1, <1>2, <1>3, <1>4, <1>5, <1>6, <1>7, <1>8, <1>9, <1>10, <1>11, <1>12 DEF Next, vars

---------------------------------------------------------------------------
\* Pools.

\* The pages of a region and the items of a page.
LEMMA Grid ==
  ASSUME NEW len \in Nat, NEW pgsize \in Nat \ {0}, NEW item_len \in Nat \ {0}, len % pgsize = 0,
         NEW per \in Nat, per = pgsize \div item_len, NEW pages \in Nat, pages = len \div pgsize
  PROVE  per * item_len <= pgsize /\ pgsize * pages = len
<1>1. len = pgsize * pages
  BY DivMod
<1>2. PICK d \in Int, r \in 0 .. item_len - 1 : pgsize = item_len * d + r /\ d = pgsize \div item_len
  <2>1. pgsize \in Int
    OBVIOUS
  <2> QED
    BY <2>1, DivMod
<1> QED
  BY <1>1, <1>2, Z3

\* Item k has a page q and a place r in it.
LEMMA Cell ==
  ASSUME NEW per \in Nat, NEW pages \in Nat, NEW k \in 1 .. pages * per
  PROVE  \E q \in 0 .. pages - 1, r \in 0 .. per - 1 :
            q = (k - 1) \div per /\ r = (k - 1) % per /\ k - 1 = per * q + r
<1>1. per # 0
  BY Z3
<1>2. PICK q \in Int, r \in 0 .. per - 1 : k - 1 = per * q + r /\ q = (k - 1) \div per /\ r = (k - 1) % per
  BY <1>1, DivMod
<1>3. q >= 0
  BY <1>2, Z3
<1>4. q < pages
  BY <1>2, Z3
<1> QED
  BY <1>2, <1>3, <1>4

\* The place of the later of two items is the later.
LEMMA CellOrder ==
  ASSUME NEW per \in Nat, NEW p \in Nat, NEW q \in Nat, NEW s \in 0 .. per - 1, NEW r \in 0 .. per - 1,
         per * p + s < per * q + r
  PROVE  p < q \/ (p = q /\ s < r)
<1>1. CASE p = q
  <2>1. PICK a \in Int : a = per * q
    BY Z3
  <2>2. a + s < a + r
    BY <1>1, <2>1
  <2> QED
    BY <1>1, <2>2
<1>2. CASE q < p
  <2>1. per * (q + 1) <= per * p
    BY <1>2, Z3
  <2>2. PICK a \in Nat, b \in Nat : a = per * q /\ b = per * p
    BY Z3
  <2>3. a + per <= b
    BY <2>1, <2>2, Z3
  <2>4. b + s < a + r
    BY <2>2
  <2> QED
    BY <2>3, <2>4
<1>3. p < q \/ p = q \/ q < p
  OBVIOUS
<1> QED
  BY <1>1, <1>2, <1>3

\* An item lies in its page, and the items of a page one behind the other.
LEMMA ItemAt ==
  ASSUME NEW pgsize \in Nat \ {0}, NEW item_len \in Nat \ {0}, NEW per \in Nat,
         per * item_len <= pgsize, NEW pages \in Nat, NEW q \in 0 .. pages - 1, NEW r \in 0 .. per - 1
  PROVE  /\ pgsize * q + item_len * r \in Nat
         /\ pgsize * q <= pgsize * q + item_len * r
         /\ pgsize * q + item_len * r + item_len - 1 < pgsize * (q + 1)
         /\ pgsize * (q + 1) <= pgsize * pages
         /\ (pgsize * q + item_len * r) \div pgsize = q
         /\ (pgsize * q + item_len * r + item_len - 1) \div pgsize = q
<1>1. PICK x \in Nat : x = item_len * r
  BY Z3
<1>2. x + item_len <= pgsize
  <2>1. r + 1 <= per
    OBVIOUS
  <2>2. item_len * (r + 1) <= item_len * per
    BY <2>1, Z3
  <2> QED
    BY <1>1, <2>2, Z3
<1>3. PICK y \in Nat : y = pgsize * q
  BY Z3
<1>4. pgsize * (q + 1) = y + pgsize
  BY <1>3, Z3
<1>5. pgsize * (q + 1) <= pgsize * pages
  BY Z3
<1>6. x \in 0 .. pgsize - 1 /\ x + item_len - 1 \in 0 .. pgsize - 1
  BY <1>2
<1>7. y + x = pgsize * q + x /\ y + x + item_len - 1 = pgsize * q + (x + item_len - 1)
  BY <1>3
<1>8. (y + x) \div pgsize = q /\ (y + x + item_len - 1) \div pgsize = q
  <2>1. y + x \in Int /\ y + x + item_len - 1 \in Int /\ q \in Int
    OBVIOUS
  <2> QED
    BY <1>6, <1>7, <2>1, ModUnique
<1> QED
  BY <1>1, <1>2, <1>3, <1>4, <1>5, <1>8

\* Items of one page do not overlap.
LEMMA ItemsInPage ==
  ASSUME NEW item_len \in Nat \ {0}, NEW y \in Nat, NEW r \in Nat, NEW s \in Nat, r < s
  PROVE  y + item_len * r + item_len - 1 < y + item_len * s
<1>1. r + 1 <= s
  OBVIOUS
<1>2. item_len * (r + 1) <= item_len * s
  BY <1>1, Z3
<1> QED
  BY <1>2, Z3

\* What mempool_populate returns.
LEMMA ItemsApart ==
  ASSUME NEW len \in Nat, NEW pgsize \in Nat \ {0}, NEW item_len \in Nat \ {0}, len % pgsize = 0,
         NEW items, items = Pool!mempool_populate(len, pgsize, item_len)
  PROVE  \A k \in DOMAIN items :
            /\ items[k] + item_len - 1 < len
            /\ items[k] \div pgsize = (items[k] + item_len - 1) \div pgsize
            /\ \A j \in DOMAIN items :
                  j # k => items[j] + item_len - 1 < items[k] \/ items[k] + item_len - 1 < items[j]
<1>1. PICK per \in Nat, pages \in Nat : per = pgsize \div item_len /\ pages = len \div pgsize
  <2>1. pgsize \div item_len \in Nat /\ len \div pgsize \in Nat
    BY Z3
  <2> QED
    BY <2>1
<1>2. per * item_len <= pgsize /\ pgsize * pages = len
  BY <1>1, Grid
<1>3. items = [k \in 1 .. pages * per |-> pgsize * ((k - 1) \div per) + item_len * ((k - 1) % per)]
  BY <1>1 DEF Pool!mempool_populate
<1>4. ASSUME NEW k \in 1 .. pages * per
      PROVE  \E q \in 0 .. pages - 1, r \in 0 .. per - 1 :
                /\ items[k] = pgsize * q + item_len * r /\ k - 1 = per * q + r
                /\ items[k] \in Nat /\ pgsize * q <= items[k]
                /\ items[k] + item_len - 1 < pgsize * (q + 1) /\ pgsize * (q + 1) <= len
                /\ items[k] \div pgsize = q /\ (items[k] + item_len - 1) \div pgsize = q
  <2>1. PICK q \in 0 .. pages - 1, r \in 0 .. per - 1 :
            q = (k - 1) \div per /\ r = (k - 1) % per /\ k - 1 = per * q + r
    BY <1>1, Cell
  <2>2. PICK x : x = pgsize * q + item_len * r
    OBVIOUS
  <2>3. items[k] = x
    BY <1>3, <2>1, <2>2
  <2>4. /\ x \in Nat /\ pgsize * q <= x /\ x + item_len - 1 < pgsize * (q + 1)
        /\ pgsize * (q + 1) <= pgsize * pages
        /\ x \div pgsize = q /\ (x + item_len - 1) \div pgsize = q
    BY <1>2, <2>2, ItemAt
  <2> QED
    BY <1>2, <2>1, <2>2, <2>3, <2>4
<1>5. ASSUME NEW k \in 1 .. pages * per, NEW j \in 1 .. pages * per, j < k
      PROVE  items[j] + item_len - 1 < items[k]
  <2>1. PICK q \in 0 .. pages - 1, r \in 0 .. per - 1 :
            /\ items[k] = pgsize * q + item_len * r /\ k - 1 = per * q + r
            /\ items[k] \in Nat /\ pgsize * q <= items[k]
    BY <1>4
  <2>2. PICK p \in 0 .. pages - 1, s \in 0 .. per - 1 :
            /\ items[j] = pgsize * p + item_len * s /\ j - 1 = per * p + s
            /\ items[j] \in Nat /\ items[j] + item_len - 1 < pgsize * (p + 1)
    BY <1>4
  <2>3. p < q \/ (p = q /\ s < r)
    <3>1. PICK a \in Int, b \in Int : a = per * q + r /\ b = per * p + s
      BY Z3
    <3>2. k \in Int /\ j \in Int /\ a = k - 1 /\ b = j - 1
      BY <2>1, <2>2, <3>1
    <3>3. b < a
      BY <1>5, <3>2
    <3>4. per \in Nat /\ p \in Nat /\ q \in Nat /\ s \in 0 .. per - 1 /\ r \in 0 .. per - 1
      BY <1>1, <2>1, <2>2
    <3>5. per * p + s < per * q + r
      BY <3>1, <3>3
    <3> QED
      BY <3>4, <3>5, CellOrder
  <2>4. CASE p = q /\ s < r
    <3>1. s < r
      BY <2>4
    <3>2. PICK y \in Nat : y = pgsize * q
      BY Z3
    <3>3. y + item_len * s + item_len - 1 < y + item_len * r
      BY <3>1, <3>2, ItemsInPage
    <3> QED
      BY <2>1, <2>2, <2>4, <3>2, <3>3
  <2>5. CASE p < q
    <3>1. pgsize * (p + 1) <= pgsize * q
      BY <2>5, Z3
    <3>2. PICK a \in Nat, b \in Nat : a = pgsize * (p + 1) /\ b = pgsize * q
      BY Z3
    <3>3. items[j] + item_len - 1 < a /\ a <= b /\ b <= items[k]
      BY <2>1, <2>2, <3>1, <3>2
    <3>4. items[j] \in Nat /\ items[k] \in Nat
      BY <2>1, <2>2
    <3> QED
      BY <3>3, <3>4
  <2> QED
    BY <2>3, <2>4, <2>5
<1>6. DOMAIN items = 1 .. pages * per
  BY <1>3
<1>7. ASSUME NEW k \in 1 .. pages * per
      PROVE  items[k] + item_len - 1 < len /\ items[k] \div pgsize = (items[k] + item_len - 1) \div pgsize
  <2>1. PICK q \in 0 .. pages - 1 :
            /\ items[k] \in Nat /\ items[k] + item_len - 1 < pgsize * (q + 1) /\ pgsize * (q + 1) <= len
            /\ items[k] \div pgsize = q /\ (items[k] + item_len - 1) \div pgsize = q
    BY <1>4
  <2>2. PICK a \in Int : a = pgsize * (q + 1)
    BY Z3
  <2> QED
    BY <2>1, <2>2
<1>8. ASSUME NEW k \in 1 .. pages * per, NEW j \in 1 .. pages * per, j # k
      PROVE  items[j] + item_len - 1 < items[k] \/ items[k] + item_len - 1 < items[j]
  <2>1. j < k \/ k < j
    <3>1. j \in Int /\ k \in Int
      OBVIOUS
    <3> QED
      BY <1>8, <3>1
  <2> QED
    BY <1>5, <2>1
<1> QED
  BY <1>6, <1>7, <1>8

\* The items of a pool never overlap, leave the region or straddle a page:
\* for every region, page and item that mempool_create accepts.
THEOREM PoolsHold == Spec => []PoolItemsApart
<1>1. Init => PoolItemsApart
  BY DEF Init, Idle, PoolItemsApart
<1>2. ASSUME PoolItemsApart, [Next]_vars PROVE PoolItemsApart'
  <2>1. CASE UNCHANGED call
    BY <1>2, <2>1 DEF PoolItemsApart
  <2>2. CASE call'.fn # "mempool_create"
    BY <2>2 DEF PoolItemsApart
  <2>3. CASE CreatePool
    <3>1. PICK len \in PoolSizes, pgsize \in PoolSizes, item_len \in PoolSizes :
            /\ Pool!MempoolParams(len, pgsize, item_len)
            /\ call' = [fn |-> "mempool_create", len |-> len, pgsize |-> pgsize, item_len |-> item_len,
                        ret |-> Pool!mempool_create(len, pgsize, item_len)]
      BY <2>3 DEF CreatePool
    <3>2. len \in Nat /\ pgsize \in Nat /\ item_len \in Nat \ {0} /\ len % pgsize = 0
      BY <3>1, LibraryAssumption DEF Pool!MempoolParams
    <3>3. pgsize # 0
      BY <3>1 DEF Pool!MempoolParams, Pool!is_power_of_two
    <3>4. PICK items : items = Pool!mempool_populate(len, pgsize, item_len)
      OBVIOUS
    <3>5. /\ call'.ret.free_items = items /\ call'.len = len /\ call'.pgsize = pgsize
          /\ call'.item_len = item_len
      BY <3>1, <3>4 DEF Pool!mempool_create
    <3> QED
      BY <3>2, <3>3, <3>4, <3>5, ItemsApart DEF PoolItemsApart
  <2> QED
    BY <1>2, <2>1, <2>2, <2>3, Calls
<1> QED
  BY <1>1, <1>2, PTL DEF Spec

---------------------------------------------------------------------------
\* Copies.

\* Two ranges that touch or overlap.
LEMMA Abut ==
  ASSUME NEW a \in Int, NEW b \in Int, NEW c \in Int, NEW d \in Int, a <= c, c <= b + 1, b <= d
  PROVE  (a .. b) \cup (c .. d) = a .. d
<1>1. ASSUME NEW o PROVE o \in (a .. b) \cup (c .. d) <=> o \in a .. d
  OBVIOUS
<1> QED
  BY <1>1, Zenon

\* A move of each size writes that many bytes: the smallest, and two of half
\* the size for each of the others.
LEMMA Move16 ==
  ASSUME NEW p \in Int
  PROVE  Mem!rte_mov16(p) = p .. p + 15
BY DEF Mem!rte_mov16, Mem!Bytes

\* Two moves of 16 bytes.
LEMMA Move32 ==
  ASSUME NEW p \in Int
  PROVE  Mem!rte_mov32(p) = p .. p + 31
<1>1. PICK r \in Int : r = p + 16 /\ r + 15 = p + 31
  OBVIOUS
<1>2. (p .. p + 15) \cup (r .. p + 31) = p .. p + 31
  BY <1>1, Abut
<1>3. Mem!rte_mov16(p) = p .. p + 15 /\ Mem!rte_mov16(r) = r .. r + 15
  BY <1>1, Move16
<1> QED
  BY <1>1, <1>2, <1>3 DEF Mem!rte_mov32

\* Two moves of 32 bytes.
LEMMA Move64 ==
  ASSUME NEW p \in Int
  PROVE  Mem!rte_mov64(p) = p .. p + 63
<1>1. PICK r \in Int : r = p + 32 /\ r + 31 = p + 63
  OBVIOUS
<1>2. (p .. p + 31) \cup (r .. p + 63) = p .. p + 63
  BY <1>1, Abut
<1>3. Mem!rte_mov32(p) = p .. p + 31 /\ Mem!rte_mov32(r) = r .. r + 31
  BY <1>1, Move32
<1> QED
  BY <1>1, <1>2, <1>3 DEF Mem!rte_mov64

\* Two moves of 64 bytes.
LEMMA Move128 ==
  ASSUME NEW p \in Int
  PROVE  Mem!rte_mov128(p) = p .. p + 127
<1>1. PICK r \in Int : r = p + 64 /\ r + 63 = p + 127
  OBVIOUS
<1>2. (p .. p + 63) \cup (r .. p + 127) = p .. p + 127
  BY <1>1, Abut
<1>3. Mem!rte_mov64(p) = p .. p + 63 /\ Mem!rte_mov64(r) = r .. r + 63
  BY <1>1, Move64
<1> QED
  BY <1>1, <1>2, <1>3 DEF Mem!rte_mov128

\* Two moves of 128 bytes.
LEMMA Move256 ==
  ASSUME NEW p \in Int
  PROVE  Mem!rte_mov256(p) = p .. p + 255
<1>1. PICK r \in Int : r = p + 128 /\ r + 127 = p + 255
  OBVIOUS
<1>2. (p .. p + 127) \cup (r .. p + 255) = p .. p + 255
  BY <1>1, Abut
<1>3. Mem!rte_mov128(p) = p .. p + 127 /\ Mem!rte_mov128(r) = r .. r + 127
  BY <1>1, Move128
<1> QED
  BY <1>1, <1>2, <1>3 DEF Mem!rte_mov256

\* Byte o is in one of m moves of one size, each behind the one before.
LEMMA MovesInARow ==
  ASSUME NEW size \in Nat \ {0}, NEW from \in Int, NEW m \in Nat, NEW end \in Int,
         end = from + size * m, NEW o \in Int
  PROVE  (\E k \in 0 .. m - 1 : from + size * k <= o /\ o < from + size * k + size)
            <=> (from <= o /\ o < end)
<1>1. ASSUME NEW k \in 0 .. m - 1, from + size * k <= o, o < from + size * k + size
      PROVE  from <= o /\ o < end
  <2>1. size * (k + 1) <= size * m
    BY Z3
  <2>2. PICK a \in Nat, b \in Nat : a = size * k /\ b = size * m
    BY Z3
  <2>3. a + size <= b
    BY <2>1, <2>2, Z3
  <2>4. from + a <= o /\ o < from + a + size /\ end = from + b
    BY <1>1, <2>2
  <2> QED
    BY <2>3, <2>4
<1>2. ASSUME from <= o, o < end
      PROVE  \E k \in 0 .. m - 1 : from + size * k <= o /\ o < from + size * k + size
  <2>1. PICK b \in Nat : b = size * m
    BY Z3
  <2>2. PICK i \in Nat : i = o - from /\ i < b
    <3>1. end = from + b
      BY <2>1
    <3> QED
      BY <1>2, <3>1
  <2>3. PICK k \in Int, r \in 0 .. size - 1 : i = size * k + r /\ k = i \div size /\ r = i % size
    <3>1. i \in Int
      BY <2>2
    <3> QED
      BY <3>1, DivMod
  <2>4. PICK c \in Int : c = size * k
    BY Z3
  <2>5. i = c + r
    BY <2>3, <2>4
  <2>6. k >= 0
    <3> SUFFICES ASSUME k <= -1 PROVE FALSE
      OBVIOUS
    <3>1. c <= -size
      BY <2>4, Z3
    <3> QED
      BY <2>5, <3>1
  <2>7. k < m
    <3> SUFFICES ASSUME m <= k PROVE FALSE
      OBVIOUS
    <3>1. b <= c
      BY <2>1, <2>4, Z3
    <3> QED
      BY <2>2, <2>5, <3>1
  <2>8. from + c <= o /\ o < from + c + size
    BY <2>2, <2>5
  <2> QED
    BY <2>4, <2>6, <2>7, <2>8
<1> QED
  BY <1>1, <1>2

\* Fewer than 16 bytes: the moves are as long as the bits of n.
LEMMA SmallCopies ==
  ASSUME NEW n \in 0 .. 15
  PROVE  Mem!SmallCopy(n) = 0 .. n - 1
<1>1. PICK a \in 0 .. 1, b \in 0 .. 1, c \in 0 .. 1, d \in 0 .. 1 : n = 8 * a + 4 * b + 2 * c + d
  BY Z3
<1>2. n % 1 = 0 /\ n % 2 = d /\ n % 4 = 2 * c + d /\ n % 8 = 4 * b + 2 * c + d
  BY <1>1, Z3
<1>3. n \div 1 = n /\ n \div 2 = 4 * a + 2 * b + c /\ n \div 4 = 2 * a + b /\ n \div 8 = a
  BY <1>1, Z3
<1>4. (n \div 1) % 2 = d /\ (n \div 2) % 2 = c /\ (n \div 4) % 2 = b /\ (n \div 8) % 2 = a
  BY <1>1, <1>3, Z3
<1>5. Mem!SmallCopy(n) = UNION {Mem!Bytes(n % k, k) : k \in {l \in {1, 2, 4, 8} : (n \div l) % 2 = 1}}
  BY DEF Mem!SmallCopy, Mem!Bit
<1>6. ASSUME NEW o
      PROVE  o \in Mem!SmallCopy(n) <=> \/ d = 1 /\ o \in 0 .. 0
                                        \/ c = 1 /\ o \in d .. d + 1
                                        \/ b = 1 /\ o \in 2 * c + d .. 2 * c + d + 3
                                        \/ a = 1 /\ o \in 4 * b + 2 * c + d .. 4 * b + 2 * c + d + 7
  <2>1. o \in Mem!SmallCopy(n) <=> \E k \in {1, 2, 4, 8} : (n \div k) % 2 = 1 /\ o \in Mem!Bytes(n % k, k)
    BY <1>5, Zenon
  <2>2. /\ Mem!Bytes(n % 1, 1) = 0 .. 0 /\ Mem!Bytes(n % 2, 2) = d .. d + 1
        /\ Mem!Bytes(n % 4, 4) = 2 * c + d .. 2 * c + d + 3
        /\ Mem!Bytes(n % 8, 8) = 4 * b + 2 * c + d .. 4 * b + 2 * c + d + 7
    BY <1>2 DEF Mem!Bytes
  <2> QED
    BY <1>4, <2>1, <2>2, Zenon
<1>7. ASSUME NEW o
      PROVE  o \in 0 .. n - 1 <=> \/ d = 1 /\ o \in 0 .. 0
                                  \/ c = 1 /\ o \in d .. d + 1
                                  \/ b = 1 /\ o \in 2 * c + d .. 2 * c + d + 3
                                  \/ a = 1 /\ o \in 4 * b + 2 * c + d .. 4 * b + 2 * c + d + 7
  BY <1>1
<1> QED
  BY <1>6, <1>7, Zenon

\* More than 128 bytes.
LEMMA LargeCopies ==
  ASSUME NEW n \in Nat, n > 128
  PROVE  Mem!LargeCopy(n) = 0 .. n - 1
<1> DEFINE d256 == n - (n % 256)
           d64 == n - (n % 64)
           d16 == n - (n % 16)
           A == d256 \div 256
           B == (d64 - d256) \div 64
           C == (d16 - d64) \div 16
<1>1. ASSUME NEW o
      PROVE  o \in Mem!LargeCopy(n) <=>
                \/ \E k \in 0 .. A - 1 : o \in Mem!rte_mov256(256 * k)
                \/ \E k \in 0 .. B - 1 : o \in Mem!rte_mov64(d256 + 64 * k)
                \/ \E k \in 0 .. C - 1 : o \in Mem!rte_mov16(d64 + 16 * k)
                \/ o \in Mem!Rest(d16, n - d16)
  BY DEF Mem!LargeCopy
<1>2. /\ d256 \in Nat /\ d64 \in Nat /\ d16 \in Nat
      /\ d256 <= d64 /\ d64 <= d16 /\ 16 <= d16 /\ d16 <= n /\ n < d16 + 16
      /\ d256 % 256 = 0 /\ d64 % 64 = 0 /\ d16 % 16 = 0
  BY Z3
<1>3. A \in Nat /\ B \in Nat /\ C \in Nat /\ d256 = 256 * A /\ d64 = d256 + 64 * B /\ d16 = d64 + 16 * C
  <2> HIDE DEF d256, d64, d16
  <2> QED
    BY <1>2, Z3
<1> HIDE DEF d256, d64, d16, A, B, C
<1>4. ASSUME NEW o
      PROVE  (\E k \in 0 .. A - 1 : o \in Mem!rte_mov256(256 * k)) <=> o \in 0 .. d256 - 1
  <2>1. ASSUME NEW k \in 0 .. A - 1 PROVE Mem!rte_mov256(256 * k) = (256 * k) .. (256 * k) + 255
    <3>1. 256 * k \in Int
      BY <1>2, <1>3
    <3> QED
      BY <3>1, Move256
  <2>2. (\E k \in 0 .. A - 1 : o \in Mem!rte_mov256(256 * k))
          <=> \E k \in 0 .. A - 1 : o \in (256 * k) .. (256 * k) + 255
    <3> DEFINE Move(k) == Mem!rte_mov256(256 * k)
               Bytes(k) == (256 * k) .. (256 * k) + 255
    <3>1. \A k \in 0 .. A - 1 : Move(k) = Bytes(k)
      BY <2>1
    <3>2. (\E k \in 0 .. A - 1 : o \in Move(k)) <=> \E k \in 0 .. A - 1 : o \in Bytes(k)
      <4> HIDE DEF Move, Bytes
      <4> QED
        BY <3>1, Zenon
    <3> QED
      BY <3>2
  <2>3. CASE o \in Int
    <3>1. (\E k \in 0 .. A - 1 : 0 + 256 * k <= o /\ o < 0 + 256 * k + 256) <=> (0 <= o /\ o < d256)
      <4>1. PICK size \in Nat \ {0}, from \in Int, to \in Int, m \in Nat :
                size = 256 /\ from = 0 /\ to = d256 /\ m = A /\ to = from + size * m
        BY <1>2, <1>3
      <4>2. (\E k \in 0 .. m - 1 : from + size * k <= o /\ o < from + size * k + size) <=> (from <= o /\ o < to)
        <5>1. to = from + size * m
          BY <4>1
        <5> QED
          BY <2>3, <5>1, MovesInARow
      <4> QED
        BY <4>1, <4>2
    <3>2. \A k \in 0 .. A - 1 : o \in (256 * k) .. (256 * k) + 255
                                  <=> (0 + 256 * k <= o /\ o < 0 + 256 * k + 256)
      BY <1>2, <1>3, <2>3
    <3> QED
      BY <1>2, <2>2, <2>3, <3>1, <3>2
  <2>4. CASE o \notin Int
    BY <1>2, <1>3, <2>2, <2>4
  <2> QED
    BY <2>3, <2>4
<1>5. ASSUME NEW o
      PROVE  (\E k \in 0 .. B - 1 : o \in Mem!rte_mov64(d256 + 64 * k)) <=> o \in d256 .. d64 - 1
  <2>1. ASSUME NEW k \in 0 .. B - 1 PROVE Mem!rte_mov64(d256 + 64 * k) = (d256 + 64 * k) .. (d256 + 64 * k) + 63
    <3>1. d256 + 64 * k \in Int
      BY <1>2, <1>3
    <3> QED
      BY <3>1, Move64
  <2>2. (\E k \in 0 .. B - 1 : o \in Mem!rte_mov64(d256 + 64 * k))
          <=> \E k \in 0 .. B - 1 : o \in (d256 + 64 * k) .. (d256 + 64 * k) + 63
    <3> DEFINE Move(k) == Mem!rte_mov64(d256 + 64 * k)
               Bytes(k) == (d256 + 64 * k) .. (d256 + 64 * k) + 63
    <3>1. \A k \in 0 .. B - 1 : Move(k) = Bytes(k)
      BY <2>1
    <3>2. (\E k \in 0 .. B - 1 : o \in Move(k)) <=> \E k \in 0 .. B - 1 : o \in Bytes(k)
      <4> HIDE DEF Move, Bytes
      <4> QED
        BY <3>1, Zenon
    <3> QED
      BY <3>2
  <2>3. CASE o \in Int
    <3>1. (\E k \in 0 .. B - 1 : d256 + 64 * k <= o /\ o < d256 + 64 * k + 64) <=> (d256 <= o /\ o < d64)
      <4>1. PICK size \in Nat \ {0}, from \in Int, to \in Int, m \in Nat :
                size = 64 /\ from = d256 /\ to = d64 /\ m = B /\ to = from + size * m
        BY <1>2, <1>3
      <4>2. (\E k \in 0 .. m - 1 : from + size * k <= o /\ o < from + size * k + size) <=> (from <= o /\ o < to)
        <5>1. to = from + size * m
          BY <4>1
        <5> QED
          BY <2>3, <5>1, MovesInARow
      <4> QED
        BY <4>1, <4>2
    <3>2. \A k \in 0 .. B - 1 : o \in (d256 + 64 * k) .. (d256 + 64 * k) + 63
                                  <=> (d256 + 64 * k <= o /\ o < d256 + 64 * k + 64)
      BY <1>2, <1>3, <2>3
    <3> QED
      BY <1>2, <2>2, <2>3, <3>1, <3>2
  <2>4. CASE o \notin Int
    BY <1>2, <1>3, <2>2, <2>4
  <2> QED
    BY <2>3, <2>4
<1>6. ASSUME NEW o
      PROVE  (\E k \in 0 .. C - 1 : o \in Mem!rte_mov16(d64 + 16 * k)) <=> o \in d64 .. d16 - 1
  <2>1. ASSUME NEW k \in 0 .. C - 1 PROVE Mem!rte_mov16(d64 + 16 * k) = (d64 + 16 * k) .. (d64 + 16 * k) + 15
    <3>1. d64 + 16 * k \in Int
      BY <1>2, <1>3
    <3> QED
      BY <3>1, Move16
  <2>2. (\E k \in 0 .. C - 1 : o \in Mem!rte_mov16(d64 + 16 * k))
          <=> \E k \in 0 .. C - 1 : o \in (d64 + 16 * k) .. (d64 + 16 * k) + 15
    <3> DEFINE Move(k) == Mem!rte_mov16(d64 + 16 * k)
               Bytes(k) == (d64 + 16 * k) .. (d64 + 16 * k) + 15
    <3>1. \A k \in 0 .. C - 1 : Move(k) = Bytes(k)
      BY <2>1
    <3>2. (\E k \in 0 .. C - 1 : o \in Move(k)) <=> \E k \in 0 .. C - 1 : o \in Bytes(k)
      <4> HIDE DEF Move, Bytes
      <4> QED
        BY <3>1, Zenon
    <3> QED
      BY <3>2
  <2>3. CASE o \in Int
    <3>1. (\E k \in 0 .. C - 1 : d64 + 16 * k <= o /\ o < d64 + 16 * k + 16) <=> (d64 <= o /\ o < d16)
      <4>1. PICK size \in Nat \ {0}, from \in Int, to \in Int, m \in Nat :
                size = 16 /\ from = d64 /\ to = d16 /\ m = C /\ to = from + size * m
        BY <1>2, <1>3
      <4>2. (\E k \in 0 .. m - 1 : from + size * k <= o /\ o < from + size * k + size) <=> (from <= o /\ o < to)
        <5>1. to = from + size * m
          BY <4>1
        <5> QED
          BY <2>3, <5>1, MovesInARow
      <4> QED
        BY <4>1, <4>2
    <3>2. \A k \in 0 .. C - 1 : o \in (d64 + 16 * k) .. (d64 + 16 * k) + 15
                                  <=> (d64 + 16 * k <= o /\ o < d64 + 16 * k + 16)
      BY <1>2, <1>3, <2>3
    <3> QED
      BY <1>2, <2>2, <2>3, <3>1, <3>2
  <2>4. CASE o \notin Int
    BY <1>2, <1>3, <2>2, <2>4
  <2> QED
    BY <2>3, <2>4
<1>7. Mem!Rest(d16, n - d16) = IF n = d16 THEN {} ELSE n - 16 .. n - 1
  <2>1. CASE n = d16
    BY <2>1, <1>2 DEF Mem!Rest
  <2>2. CASE n # d16
    <3>1. n - d16 # 0
      BY <2>2, <1>2
    <3>2. PICK p \in Int : p = d16 - 16 + (n - d16) /\ p = n - 16 /\ p + 15 = n - 1
      BY <1>2
    <3>3. Mem!Rest(d16, n - d16) = Mem!rte_mov16(p)
      BY <3>1, <3>2, Zenon DEF Mem!Rest
    <3> QED
      BY <2>2, <3>2, <3>3, Move16
  <2> QED
    BY <2>1, <2>2
<1>8. ASSUME NEW o
      PROVE o \in 0 .. n - 1 <=> \/ o \in 0 .. d256 - 1 \/ o \in d256 .. d64 - 1 \/ o \in d64 .. d16 - 1
                                 \/ o \in IF n = d16 THEN {} ELSE n - 16 .. n - 1
  BY <1>2
<1> QED
  <2>1. \A o : o \in Mem!LargeCopy(n) <=> o \in 0 .. n - 1
    BY <1>1, <1>4, <1>5, <1>6, <1>7, <1>8, ZenonT(30)
  <2> QED
    BY <2>1, Zenon

\* rte_memcpy_func writes the n bytes of the destination and not one more,
\* whichever of its branches n takes.
THEOREM MemcpyExact == \A n \in Nat : Mem!rte_memcpy_func(n) = 0 .. n - 1
<1> SUFFICES ASSUME NEW n \in Nat PROVE Mem!rte_memcpy_func(n) = 0 .. n - 1
  OBVIOUS
<1>1. CASE n < 16
  <2>1. Mem!rte_memcpy_func(n) = Mem!SmallCopy(n)
    BY <1>1 DEF Mem!rte_memcpy_func
  <2>2. n \in 0 .. 15
    BY <1>1
  <2> QED
    BY <2>1, <2>2, SmallCopies
<1>2. CASE n \in 16 .. 32
  <2>1. Mem!rte_memcpy_func(n) = Mem!rte_mov16(0) \cup Mem!rte_mov16(n - 16)
    BY <1>2 DEF Mem!rte_memcpy_func
  <2>2. PICK p \in Int : p = n - 16 /\ p + 15 = n - 1
    OBVIOUS
  <2>3. Mem!rte_mov16(0) = 0 .. 15 /\ Mem!rte_mov16(p) = p .. n - 1
    <3>1. 0 \in Int /\ 0 + 15 = 15
      OBVIOUS
    <3> QED
      BY <2>2, <3>1, Move16
  <2>4. (0 .. 15) \cup (p .. n - 1) = 0 .. n - 1
    <3>1. PICK a \in Int, b \in Int, d \in Int : a = 0 /\ b = 15 /\ d = n - 1 /\ a <= p /\ p <= b + 1 /\ b <= d
      BY <1>2, <2>2
    <3>2. (a .. b) \cup (p .. d) = a .. d
      <4>1. a <= p /\ p <= b + 1 /\ b <= d
        BY <3>1
      <4> QED
        BY <4>1, Abut
    <3> QED
      BY <3>1, <3>2
  <2> QED
    BY <2>1, <2>2, <2>3, <2>4, Zenon
<1>3. CASE n \in 33 .. 64
  <2>1. Mem!rte_memcpy_func(n) = Mem!rte_mov32(0) \cup Mem!rte_mov32(n - 32)
    BY <1>3 DEF Mem!rte_memcpy_func
  <2>2. PICK p \in Int : p = n - 32 /\ p + 31 = n - 1
    OBVIOUS
  <2>3. Mem!rte_mov32(0) = 0 .. 31 /\ Mem!rte_mov32(p) = p .. n - 1
    <3>1. 0 \in Int /\ 0 + 31 = 31
      OBVIOUS
    <3> QED
      BY <2>2, <3>1, Move32
  <2>4. (0 .. 31) \cup (p .. n - 1) = 0 .. n - 1
    <3>1. PICK a \in Int, b \in Int, d \in Int : a = 0 /\ b = 31 /\ d = n - 1 /\ a <= p /\ p <= b + 1 /\ b <= d
      BY <1>3, <2>2
    <3>2. (a .. b) \cup (p .. d) = a .. d
      <4>1. a <= p /\ p <= b + 1 /\ b <= d
        BY <3>1
      <4> QED
        BY <4>1, Abut
    <3> QED
      BY <3>1, <3>2
  <2> QED
    BY <2>1, <2>2, <2>3, <2>4, Zenon
<1>4. CASE n \in 65 .. 128
  <2>1. Mem!rte_memcpy_func(n) = Mem!rte_mov64(0) \cup Mem!rte_mov64(n - 64)
    BY <1>4 DEF Mem!rte_memcpy_func
  <2>2. PICK p \in Int : p = n - 64 /\ p + 63 = n - 1
    OBVIOUS
  <2>3. Mem!rte_mov64(0) = 0 .. 63 /\ Mem!rte_mov64(p) = p .. n - 1
    <3>1. 0 \in Int /\ 0 + 63 = 63
      OBVIOUS
    <3> QED
      BY <2>2, <3>1, Move64
  <2>4. (0 .. 63) \cup (p .. n - 1) = 0 .. n - 1
    <3>1. PICK a \in Int, b \in Int, d \in Int : a = 0 /\ b = 63 /\ d = n - 1 /\ a <= p /\ p <= b + 1 /\ b <= d
      BY <1>4, <2>2
    <3>2. (a .. b) \cup (p .. d) = a .. d
      <4>1. a <= p /\ p <= b + 1 /\ b <= d
        BY <3>1
      <4> QED
        BY <4>1, Abut
    <3> QED
      BY <3>1, <3>2
  <2> QED
    BY <2>1, <2>2, <2>3, <2>4, Zenon
<1>5. CASE n > 128
  <2>1. Mem!rte_memcpy_func(n) = Mem!LargeCopy(n)
    BY <1>5 DEF Mem!rte_memcpy_func
  <2> QED
    BY <1>5, <2>1, LargeCopies
<1> QED
  BY <1>1, <1>2, <1>3, <1>4, <1>5

---------------------------------------------------------------------------
\* The layout of work requests.

\* HeaderEnd adds the lengths up.
LEMMA HeaderEnds ==
  /\ HeaderEnd(0) = 0
  /\ \A k \in 1 .. Len(InlinedHeaders) : HeaderEnd(k) = HeaderEnd(k - 1) + InlinedHeaders[k]
  /\ \A k \in 0 .. Len(InlinedHeaders) : HeaderEnd(k) \in Nat
<1> DEFINE N == Len(InlinedHeaders)
           Step(g) == [i \in 0 .. N |-> IF i = 0 THEN 0 ELSE g[i - 1] + InlinedHeaders[i]]
           end == CHOOSE g : g = Step(g)
<1>1. N \in Nat /\ \A i \in 1 .. N : InlinedHeaders[i] \in Nat
  BY LayoutAssumption
<1>2. PICK next : next = [p \in (1 .. N) \X Nat |-> p[2] + InlinedHeaders[p[1]]]
  OBVIOUS
<1>3. next \in [(1 .. N) \X Nat -> Nat]
  BY <1>1, <1>2
<1>4. PICK g \in [0 .. N -> Nat] : g[0] = 0 /\ \A i \in 1 .. N : g[i] = next[<<i, g[i - 1]>>]
  <2> HIDE DEF N
  <2>1. PICK V : V = Nat
    OBVIOUS
  <2>a. PICK base \in V : base = 0
    BY <2>1
  <2>2. next \in [(1 .. N) \X V -> V]
    BY <1>3, <2>1
  <2>3. PICK g : g \in Recursive(N, V, base, next)
    BY <1>1, <2>2, Recursion
  <2> QED
    BY <2>1, <2>a, <2>3 DEF Recursive
<1>5. ASSUME NEW i \in 1 .. N PROVE g[i] = g[i - 1] + InlinedHeaders[i]
  <2> HIDE DEF N
  <2>1. PICK v \in Nat : v = g[i - 1]
    BY <1>1, <1>4
  <2>2. next[<<i, v>>] = v + InlinedHeaders[i]
    BY <1>2
  <2> QED
    BY <1>4, <2>1, <2>2
<1>6. g = Step(g)
  <2> HIDE DEF N
  <2> QED
    BY <1>1, <1>4, <1>5
<1>7. end = Step(end)
  <2> HIDE DEF Step
  <2> QED
    BY <1>6, Zenon
<1>8. \A k : HeaderEnd(k) = end[k]
  BY DEF HeaderEnd
<1> HIDE DEF end
<1>9. end[0] = 0 /\ \A i \in 1 .. N : end[i] = end[i - 1] + InlinedHeaders[i]
  <2> HIDE DEF N
  <2>1. PICK f : f = end /\ f = [i \in 0 .. N |-> IF i = 0 THEN 0 ELSE f[i - 1] + InlinedHeaders[i]]
    BY <1>7
  <2> QED
    BY <1>1, <2>1
<1>10. \A i \in 0 .. N : end[i] \in Nat
  <2> DEFINE S == {i \in 0 .. N : end[i] \in Nat}
  <2> HIDE DEF N
  <2>1. 0 \in S
    BY <1>1, <1>9
  <2>2. ASSUME NEW n \in 0 .. N - 1, n \in S PROVE n + 1 \in S
    <3>1. n + 1 \in 1 .. N /\ n + 1 - 1 = n /\ n + 1 \in 0 .. N
      BY <1>1
    <3>2. end[n + 1] = end[n] + InlinedHeaders[n + 1] /\ InlinedHeaders[n + 1] \in Nat
      BY <1>1, <1>9, <3>1
    <3> QED
      BY <2>2, <3>1, <3>2
  <2>3. \A n \in 0 .. N : n \in S
    <3> HIDE DEF S
    <3> QED
      BY <1>1, <2>1, <2>2, UpTo
  <2> QED
    BY <2>3
<1> QED
  BY <1>8, <1>9, <1>10

\* No header ends behind the last one.
LEMMA HeaderEndsInside ==
  ASSUME NEW k \in 0 .. Len(InlinedHeaders)
  PROVE  HeaderEnd(k) <= InlinedLen /\ InlinedLen \in Nat
<1>1. PICK N \in Nat : N = Len(InlinedHeaders)
  BY LayoutAssumption
<1>2. \A i \in 1 .. N : InlinedHeaders[i] \in Nat
  BY <1>1, LayoutAssumption
<1> DEFINE S == {n \in 0 .. N : HeaderEnd(N - n) <= HeaderEnd(N)}
<1>3. 0 \in S
  BY <1>1, HeaderEnds
<1>4. ASSUME NEW n \in 0 .. N - 1, n \in S PROVE n + 1 \in S
  <2>1. N - n \in 1 .. N /\ N - n - 1 \in 0 .. N /\ N - (n + 1) = N - n - 1
    OBVIOUS
  <2>2. HeaderEnd(N - n) = HeaderEnd(N - n - 1) + InlinedHeaders[N - n]
    BY <1>1, <2>1, HeaderEnds
  <2>3. HeaderEnd(N - n - 1) \in Nat /\ HeaderEnd(N) \in Nat /\ InlinedHeaders[N - n] \in Nat
    <3>1. N \in 0 .. N
      OBVIOUS
    <3> QED
      BY <1>1, <1>2, <2>1, <3>1, HeaderEnds, SMTT(30)
  <2> QED
    BY <1>4, <2>1, <2>2, <2>3
<1>5. \A n \in 0 .. N : n \in S
  <2> HIDE DEF S
  <2> QED
    BY <1>3, <1>4, UpTo
<1>6. N - k \in 0 .. N /\ N - (N - k) = k
  BY <1>1
<1>7. HeaderEnd(k) <= HeaderEnd(N)
  BY <1>5, <1>6
<1> QED
  BY <1>1, <1>7, HeaderEnds DEF InlinedLen

\* A request that does not wrap while its headers are written has their bytes
\* one behind the other.
LEMMA InlinedInARow ==
  ASSUME NEW ptr \in Nat, ptr + InlinedLen <= RingEnd
  PROVE  Inlined(ptr) = [j \in 1 .. InlinedLen |-> ptr + j - 1]
<1> DEFINE N == Len(InlinedHeaders)
           Step(g) == [i \in 0 .. N |-> IF i = 0 THEN <<>>
                                        ELSE g[i - 1] \o mlx5_inline_data(ptr, HeaderEnd(i - 1), InlinedHeaders[i])]
           done == CHOOSE g : g = Step(g)
           G == [i \in 0 .. N |-> [j \in 1 .. HeaderEnd(i) |-> ptr + j - 1]]
<1>1. N \in Nat /\ \A i \in 1 .. N : InlinedHeaders[i] \in Nat \ {0}
  BY LayoutAssumption
<1>2. ASSUME NEW i \in 1 .. N
      PROVE  [j \in 1 .. HeaderEnd(i - 1) |-> ptr + j - 1] \o mlx5_inline_data(ptr, HeaderEnd(i - 1), InlinedHeaders[i])
               = [j \in 1 .. HeaderEnd(i) |-> ptr + j - 1]
  <2>1. PICK a \in Nat, n \in Nat \ {0} : a = HeaderEnd(i - 1) /\ n = InlinedHeaders[i] /\ HeaderEnd(i) = a + n
    <3>1. i - 1 \in 0 .. N
      BY <1>1
    <3>2. HeaderEnd(i - 1) \in Nat /\ HeaderEnd(i) = HeaderEnd(i - 1) + InlinedHeaders[i]
      BY <3>1, HeaderEnds
    <3> QED
      BY <1>1, <3>2
  <2>2. a + n <= InlinedLen /\ InlinedLen \in Nat
    BY <2>1, HeaderEndsInside
  <2>3. RingEnd \in Nat
    BY LayoutAssumption DEF RingEnd, Block
  <2>4. mlx5_inline_data(ptr, a, n) = [j \in 1 .. n |-> ptr + a + j - 1]
    <3>1. ~ (ptr + a >= RingEnd) /\ n <= RingEnd - (ptr + a)
      BY <2>2, <2>3
    <3>2. mlx5_inline_data(ptr, a, n)
            = [j \in 1 .. n |-> IF j <= RingEnd - (ptr + a) THEN ptr + a + j - 1 ELSE j - 1 - (RingEnd - (ptr + a))]
      BY <3>1 DEF mlx5_inline_data
    <3>3. \A j \in 1 .. n : j <= RingEnd - (ptr + a)
      BY <3>1, <2>3
    <3> QED
      BY <3>2, <3>3
  <2>5. PICK s \in Seq(Int), t \in Seq(Int) :
            /\ s = [j \in 1 .. a |-> ptr + j - 1] /\ t = [j \in 1 .. n |-> ptr + a + j - 1]
            /\ Len(s) = a /\ Len(t) = n
    <3>1. [j \in 1 .. a |-> ptr + j - 1] \in Seq(Int) /\ [j \in 1 .. n |-> ptr + a + j - 1] \in Seq(Int)
      OBVIOUS
    <3>2. Len([j \in 1 .. a |-> ptr + j - 1]) = a /\ Len([j \in 1 .. n |-> ptr + a + j - 1]) = n
      OBVIOUS
    <3> QED
      BY <3>1, <3>2
  <2>6. s \o t = [j \in 1 .. a + n |-> IF j <= a THEN s[j] ELSE t[j - a]]
    BY <2>5
  <2>7. \A j \in 1 .. a + n : (IF j <= a THEN s[j] ELSE t[j - a]) = ptr + j - 1
    <3>1. ASSUME NEW j \in 1 .. a + n, j <= a PROVE s[j] = ptr + j - 1
      BY <2>5, <3>1
    <3>2. ASSUME NEW j \in 1 .. a + n, ~ (j <= a) PROVE t[j - a] = ptr + j - 1
      <4>1. j - a \in 1 .. n /\ ptr + a + (j - a) - 1 = ptr + j - 1
        BY <3>2
      <4> QED
        BY <2>5, <4>1
    <3> QED
      BY <3>1, <3>2
  <2>8. s \o t = [j \in 1 .. a + n |-> ptr + j - 1]
    BY <2>6, <2>7
  <2> QED
    BY <2>1, <2>4, <2>5, <2>8
<1>3. G = Step(G)
  <2>1. ASSUME NEW i \in 0 .. N PROVE G[i] = Step(G)[i]
    <3>1. CASE i = 0
      <4>1. G[i] = [j \in 1 .. 0 |-> ptr + j - 1]
        BY <3>1, HeaderEnds
      <4>2. [j \in 1 .. 0 |-> ptr + j - 1] = <<>>
        OBVIOUS
      <4>3. Step(G)[i] = <<>>
        BY <3>1
      <4> QED
        BY <4>1, <4>2, <4>3
    <3>2. CASE i # 0
      <4>1. i \in 1 .. N /\ i - 1 \in 0 .. N
        BY <3>2, <1>1
      <4>2. Step(G)[i] = G[i - 1] \o mlx5_inline_data(ptr, HeaderEnd(i - 1), InlinedHeaders[i])
        BY <3>2
      <4>3. G[i - 1] = [j \in 1 .. HeaderEnd(i - 1) |-> ptr + j - 1] /\ G[i] = [j \in 1 .. HeaderEnd(i) |-> ptr + j - 1]
        BY <4>1
      <4> HIDE DEF G, Step
      <4> QED
        BY <4>1, <4>2, <4>3, <1>2
    <3> QED
      BY <3>1, <3>2
  <2>2. DOMAIN G = 0 .. N /\ DOMAIN Step(G) = 0 .. N
    OBVIOUS
  <2>3. G = [i \in 0 .. N |-> G[i]] /\ Step(G) = [i \in 0 .. N |-> Step(G)[i]]
    OBVIOUS
  <2> HIDE DEF G, Step
  <2> QED
    BY <2>1, <2>3
<1>4. done = Step(done)
  <2> HIDE DEF Step, G
  <2> QED
    BY <1>3, Zenon
<1>5. Inlined(ptr) = done[N]
  BY DEF Inlined
<1> HIDE DEF done
<1>6. PICK g : g = done /\ g = [i \in 0 .. N |-> IF i = 0 THEN <<>>
                                ELSE g[i - 1] \o mlx5_inline_data(ptr, HeaderEnd(i - 1), InlinedHeaders[i])]
  BY <1>4
<1> HIDE DEF Step
<1> DEFINE S == {i \in 0 .. N : g[i] = G[i]}
<1>7. 0 \in S
  <2>1. G[0] = [j \in 1 .. 0 |-> ptr + j - 1]
    BY <1>1, HeaderEnds
  <2>2. [j \in 1 .. 0 |-> ptr + j - 1] = <<>>
    OBVIOUS
  <2>3. g[0] = <<>>
    BY <1>1, <1>6
  <2> HIDE DEF G
  <2> QED
    BY <1>1, <2>1, <2>2, <2>3
<1>8. ASSUME NEW n \in 0 .. N - 1, n \in S PROVE n + 1 \in S
  <2>1. PICK i \in 1 .. N : i = n + 1 /\ i - 1 = n /\ i # 0 /\ i \in 0 .. N
    BY <1>1
  <2>2. g[i] = g[i - 1] \o mlx5_inline_data(ptr, HeaderEnd(i - 1), InlinedHeaders[i])
    BY <1>6, <2>1
  <2>3. g[i - 1] = [j \in 1 .. HeaderEnd(i - 1) |-> ptr + j - 1]
    BY <1>8, <2>1
  <2>4. G[i] = [j \in 1 .. HeaderEnd(i) |-> ptr + j - 1]
    BY <2>1
  <2>5. g[i] = G[i]
    <3> HIDE DEF G, S
    <3> QED
      BY <1>2, <2>2, <2>3, <2>4
  <2> HIDE DEF G
  <2> QED
    BY <2>1, <2>5
<1>9. \A n \in 0 .. N : n \in S
  <2> HIDE DEF S, N
  <2> QED
    BY <1>1, <1>7, <1>8, UpTo
<1>10. g[N] = G[N]
  BY <1>1, <1>9
<1>11. G[N] = [j \in 1 .. HeaderEnd(N) |-> ptr + j - 1]
  BY <1>1
<1> HIDE DEF G, S
<1> QED
  BY <1>5, <1>6, <1>10, <1>11 DEF InlinedLen

\* Going on by one in a ring.
LEMMA NextInRing ==
  ASSUME NEW R \in Nat \ {0}, NEW a \in Int
  PROVE  (a + 1) % R = IF (a % R) + 1 = R THEN 0 ELSE (a % R) + 1
<1>1. PICK d \in Int, r \in 0 .. R - 1 : a = R * d + r /\ r = a % R
  BY DivMod
<1>2. PICK c \in Int : c = R * d
  BY Z3
<1>a. a = c + r
  BY <1>1, <1>2
<1>3. CASE r + 1 = R
  <2>1. PICK b \in Int, e \in Int : b = a + 1 /\ e = d + 1
    OBVIOUS
  <2>2. R * e = c + R
    BY <1>2, <2>1, Z3
  <2>3. b = R * e + 0
    <3>1. b = c + R
      BY <1>a, <1>3, <2>1
    <3> QED
      BY <2>2, <3>1, Z3
  <2>4. b % R = 0
    <3>1. 0 \in 0 .. R - 1
      OBVIOUS
    <3> QED
      BY <2>3, <3>1, ModUnique
  <2> QED
    BY <1>1, <1>3, <2>1, <2>4
<1>4. CASE r + 1 # R
  <2>1. PICK b \in Int, s \in 0 .. R - 1 : b = a + 1 /\ s = r + 1
    BY <1>4
  <2>2. b = R * d + s
    <3>1. b = c + s
      BY <1>a, <2>1
    <3> QED
      BY <1>2, <3>1, Z3
  <2>3. b % R = s
    BY <2>2, ModUnique
  <2> QED
    BY <1>1, <1>4, <2>1, <2>3
<1> QED
  BY <1>3, <1>4

\* A remainder of multiples.
LEMMA ModScaled ==
  ASSUME NEW k \in Nat \ {0}, NEW R \in Nat \ {0}, NEW a \in Int
  PROVE  (k * a) % (k * R) = k * (a % R)
<1>1. PICK d \in Int, r \in 0 .. R - 1 : a = R * d + r /\ r = a % R
  BY DivMod
<1>2. PICK M \in Nat \ {0} : M = k * R
  BY Z3
<1>3. PICK x \in Int, y \in 0 .. M - 1 : x = k * a /\ y = k * r
  <2>1. k * r >= 0 /\ k * (r + 1) <= k * R
    BY Z3
  <2>2. k * r \in Int /\ k * r + k <= M
    BY <1>2, <2>1, Z3
  <2>3. k * r \in 0 .. M - 1
    BY <2>1, <2>2
  <2>4. k * a \in Int
    BY Z3
  <2> QED
    BY <2>3, <2>4
<1>4. x = M * d + y
  <2>1. a = R * d + r
    BY <1>1
  <2>2. k * a = k * (R * d) + k * r
    BY <2>1, Z3
  <2>3. k * (R * d) = (k * R) * d
    BY Z3
  <2> QED
    BY <1>2, <1>3, <2>2, <2>3
<1>5. x % M = y
  BY <1>4, ModUnique
<1> QED
  BY <1>1, <1>2, <1>3, <1>5

\* Octowords of the ring.
R16 == 4 * WqeCnt

\* The addresses of the data segments of a request whose first is at octoword
\* q, counted around the ring.
LEMMA DpsegsInARow ==
  ASSUME NEW q \in Int, NEW n \in Nat \ {0}
  PROVE  Dpsegs(16 * (q % R16), n) = [k \in 1 .. n |-> 16 * ((q + k - 1) % R16)]
<1> DEFINE ptr == 16 * (q % R16)
           Step(g) == [k \in 1 .. n |-> IF k = 1 THEN ptr ELSE Wrapped(g[k - 1] + Octoword)]
           at == CHOOSE g : g = Step(g)
           G == [k \in 1 .. n |-> 16 * ((q + k - 1) % R16)]
<1>1. R16 \in Nat \ {0} /\ RingEnd = 16 * R16
  BY LayoutAssumption DEF R16, RingEnd, Block
<1>2. ASSUME NEW a \in Int
      PROVE  Wrapped(16 * (a % R16) + Octoword) = 16 * ((a + 1) % R16)
  <2>1. PICK x \in 0 .. R16 - 1 : x = a % R16
    <3>1. a % R16 \in 0 .. R16 - 1
      BY <1>1, DivMod
    <3> QED
      BY <3>1
  <2>2. (a + 1) % R16 = IF x + 1 = R16 THEN 0 ELSE x + 1
    BY <1>1, <2>1, NextInRing
  <2>3. Wrapped(16 * x + 16) = IF x + 1 = R16 THEN 0 ELSE 16 * x + 16
    BY <1>1 DEF Wrapped
  <2> QED
    BY <1>1, <2>1, <2>2, <2>3 DEF Octoword
<1>3. ASSUME NEW k \in 1 .. n, k # 1
      PROVE  Wrapped(16 * ((q + (k - 1) - 1) % R16) + Octoword) = 16 * ((q + k - 1) % R16)
  <2>1. PICK a \in Int : a = q + (k - 1) - 1 /\ a + 1 = q + k - 1
    OBVIOUS
  <2> QED
    BY <1>2, <2>1
<1>4. G = Step(G)
  <2>1. ASSUME NEW k \in 1 .. n PROVE G[k] = Step(G)[k]
    <3>1. CASE k = 1
      <4>1. q + k - 1 = q
        BY <3>1
      <4> QED
        BY <3>1, <4>1
    <3>2. CASE k # 1
      <4>1. k - 1 \in 1 .. n
        BY <3>2
      <4>2. Step(G)[k] = Wrapped(G[k - 1] + Octoword)
        BY <3>2
      <4>3. G[k - 1] = 16 * ((q + (k - 1) - 1) % R16) /\ G[k] = 16 * ((q + k - 1) % R16)
        BY <4>1
      <4> HIDE DEF G, Step
      <4> QED
        BY <3>2, <4>2, <4>3, <1>3
    <3> QED
      BY <3>1, <3>2
  <2>2. G = [k \in 1 .. n |-> G[k]] /\ Step(G) = [k \in 1 .. n |-> Step(G)[k]]
    OBVIOUS
  <2> HIDE DEF G, Step
  <2> QED
    BY <2>1, <2>2
<1>5. at = Step(at)
  <2> HIDE DEF Step, G
  <2> QED
    BY <1>4, Zenon
<1>6. Dpsegs(ptr, n) = at
  BY DEF Dpsegs
<1> HIDE DEF at
<1>7. PICK g : g = at /\ g = [k \in 1 .. n |-> IF k = 1 THEN ptr ELSE Wrapped(g[k - 1] + Octoword)]
  BY <1>5
<1> HIDE DEF Step
<1> DEFINE S == {i \in 0 .. n - 1 : g[i + 1] = 16 * ((q + (i + 1) - 1) % R16)}
<1>8. 0 \in S
  <2>1. g[1] = ptr /\ q + (0 + 1) - 1 = q
    BY <1>7
  <2> QED
    BY <2>1
<1>9. ASSUME NEW i \in 0 .. (n - 1) - 1, i \in S PROVE i + 1 \in S
  <2>1. PICK k \in 1 .. n : k = i + 1 + 1 /\ k # 1 /\ k - 1 = i + 1 /\ i + 1 \in 0 .. n - 1
    OBVIOUS
  <2>2. g[k] = Wrapped(g[k - 1] + Octoword)
    BY <1>7, <2>1
  <2>3. g[k - 1] = 16 * ((q + (k - 1) - 1) % R16)
    BY <1>9, <2>1
  <2>4. g[k] = 16 * ((q + k - 1) % R16)
    BY <1>3, <2>1, <2>2, <2>3
  <2> QED
    BY <2>1, <2>4
<1>10. \A i \in 0 .. n - 1 : i \in S
  <2>1. PICK N \in Nat : N = n - 1
    OBVIOUS
  <2> HIDE DEF S
  <2> QED
    BY <1>8, <1>9, <2>1, UpTo
<1>11. ASSUME NEW k \in 1 .. n PROVE g[k] = 16 * ((q + k - 1) % R16)
  <2>1. PICK i \in 0 .. n - 1 : k = i + 1
    OBVIOUS
  <2> QED
    BY <1>10, <2>1
<1>12. g = [k \in 1 .. n |-> g[k]]
  BY <1>7
<1> QED
  BY <1>6, <1>7, <1>11, <1>12

\* The first data segment is behind the last octoword of the headers, counted
\* around the ring.
LEMMA FirstDpseg ==
  ASSUME NEW s \in Nat, s % 4 = 0, s < R16, NEW len \in Nat \ {0}, len = InlinedLen,
         NEW hs, hs = NumHdrSegs(len)
  PROVE  PastInlined(16 * s + CtrlSize + InlineHdrStart, len) = 16 * ((s + hs) % R16)
<1>1. hs = 2 + (len + 13) \div 16 /\ hs \in Nat /\ len + 14 <= 16 * (hs - 1) /\ 16 * (hs - 2) <= len + 13
  BY Z3 DEF NumHdrSegs, Octoword
<1>2. R16 \in Nat \ {0} /\ R16 % 4 = 0 /\ RingEnd = 16 * R16 /\ R16 = 4 * WqeCnt
  BY LayoutAssumption, Z3 DEF R16, RingEnd, Block
<1>3. hs % 4 # 0 /\ hs <= R16
  BY <1>2, HeadersAssumption
<1>4. PICK ptr \in Nat : ptr = 16 * s + 30 /\ ptr = 16 * s + CtrlSize + InlineHdrStart
  BY DEF CtrlSize, InlineHdrStart
<1>5. s + hs # R16
  BY <1>1, <1>2, <1>3, Z3
<1>6. CASE s + hs < R16
  <2>1. ~ (RingEnd - ptr < len)
    BY <1>1, <1>2, <1>4, <1>6
  <2>2. PastInlined(ptr, len) = ptr + 2 + Padded(len - 2)
    BY <2>1 DEF PastInlined
  <2>3. Padded(len - 2) = 16 * (hs - 2)
    BY <1>1, Z3 DEF Padded, Octoword
  <2>4. s + hs \in 0 .. R16 - 1 /\ s + hs \in Int
    BY <1>1, <1>2, <1>6
  <2>5. (s + hs) % R16 = s + hs
    BY <1>2, <2>4, ModNear
  <2>6. ptr + 2 + 16 * (hs - 2) = 16 * (s + hs)
    BY <1>1, <1>4
  <2> QED
    BY <1>4, <2>2, <2>3, <2>5, <2>6
<1>7. CASE s + hs > R16
  <2>1. RingEnd - ptr < len
    BY <1>1, <1>2, <1>4, <1>7
  <2>2. PastInlined(ptr, len) = Padded(len - (RingEnd - ptr))
    BY <2>1 DEF PastInlined
  <2>3. Padded(len - (RingEnd - ptr)) = 16 * (s + hs - R16)
    <3>1. PICK y \in Int : y = len - (RingEnd - ptr) + 15 /\ y = 16 * (s + 2 - R16) + (len + 13)
      BY <1>2, <1>4
    <3>2. y \div 16 = s + hs - R16
      BY <1>1, <1>2, <3>1, Z3
    <3>3. Padded(len - (RingEnd - ptr)) = (y \div 16) * 16
      BY <3>1 DEF Padded, Octoword
    <3> QED
      BY <1>1, <1>2, <3>2, <3>3
  <2>4. s + hs \in R16 .. 2 * R16 - 1 /\ s + hs \in Int
    BY <1>1, <1>2, <1>3, <1>7
  <2>5. (s + hs) % R16 = s + hs - R16
    <3>1. PICK x \in Int : x = s + hs
      BY <2>4
    <3>2. x \in R16 .. 2 * R16 - 1
      BY <2>4, <3>1
    <3>3. x % R16 = x - R16
      BY <1>2, <3>2, ModNear
    <3> QED
      BY <1>1, <1>2, <3>1, <3>3
  <2> QED
    BY <1>4, <2>2, <2>3, <2>5
<1> QED
  BY <1>1, <1>2, <1>5, <1>6, <1>7

\* A request of any shape at the first byte of any block.
LEMMA FilledInPlace ==
  ASSUME NEW block \in 0 .. WqeCnt - 1, NEW len \in {0, InlinedLen}, NEW n \in 1 .. MaxSegs,
         NEW start \in Nat, start = block * Block,
         NEW ret, ret = mlx5_fill_tx_segment(start, len, n)
  PROVE  /\ \A k \in DOMAIN ret.dpsegs :
               /\ ret.dpsegs[k] = (start + Octoword * (NumHdrSegs(len) + k - 1)) % RingEnd
               /\ Octoword * (NumHdrSegs(len) + k) <= NumWqes(len, n) * Block
         /\ start + CtrlSize + InlineHdrStart + len <= RingEnd =>
               \A i \in DOMAIN ret.inlined :
                  ret.inlined[i] = (start + (CtrlSize + InlineHdrStart + i - 1)) % RingEnd
<1>1. R16 \in Nat \ {0} /\ RingEnd = 16 * R16 /\ R16 = 4 * WqeCnt /\ RingEnd \in Nat \ {0}
  BY LayoutAssumption DEF R16, RingEnd, Block
<1>2. PICK s \in Nat : s = 4 * block /\ start = 16 * s /\ s % 4 = 0 /\ s < R16 /\ s + 2 < R16
  <2>1. WqeCnt \in Nat /\ block \in Nat /\ block + 1 <= WqeCnt
    BY LayoutAssumption
  <2>2. (4 * block) % 4 = 0
    BY <2>1, Z3
  <2> QED
    BY <1>1, <2>1, <2>2 DEF Block
<1>3. len \in Nat
  <2>1. 0 \in 0 .. Len(InlinedHeaders)
    BY LayoutAssumption
  <2> QED
    BY <2>1, HeaderEndsInside
<1>4. PICK hs \in Nat : hs = NumHdrSegs(len)
  BY <1>3, Z3 DEF NumHdrSegs, Octoword
<1>5. n \in Nat \ {0}
  BY LayoutAssumption
<1>6. ret.dpsegs = Dpsegs(16 * ((s + hs) % R16), n)
  <2>1. CASE len = 0
    <3>1. ret.dpsegs = Dpsegs(Wrapped(start + CtrlSize + Octoword), n)
      BY <2>1 DEF mlx5_fill_tx_segment
    <3>2. hs = 2
      BY <1>4, <2>1 DEF NumHdrSegs
    <3>3. s + hs \in 0 .. R16 - 1 /\ s + hs \in Int
      BY <1>1, <1>2, <3>2
    <3>4. (s + hs) % R16 = s + hs
      BY <1>1, <3>3, ModNear
    <3>5. Wrapped(start + CtrlSize + Octoword) = 16 * (s + hs)
      BY <1>1, <1>2, <3>2 DEF Wrapped, CtrlSize, Octoword
    <3> QED
      BY <3>1, <3>4, <3>5
  <2>2. CASE len # 0
    <3>1. ret.dpsegs = Dpsegs(PastInlined(start + CtrlSize + InlineHdrStart, len), n)
      BY <1>3, <2>2 DEF mlx5_fill_tx_segment
    <3>2. PastInlined(16 * s + CtrlSize + InlineHdrStart, len) = 16 * ((s + hs) % R16)
      BY <1>2, <1>3, <1>4, <2>2, FirstDpseg
    <3> QED
      BY <1>2, <3>1, <3>2
  <2> QED
    BY <2>1, <2>2
<1>7. ret.dpsegs = [k \in 1 .. n |-> 16 * ((s + hs + k - 1) % R16)]
  <2>1. PICK q \in Int : q = s + hs
    OBVIOUS
  <2> QED
    BY <1>5, <1>6, <2>1, DpsegsInARow
<1>8. ASSUME NEW k \in 1 .. n
      PROVE  /\ ret.dpsegs[k] = (start + Octoword * (hs + k - 1)) % RingEnd
             /\ Octoword * (hs + k) <= NumWqes(len, n) * Block
  <2>1. PICK a \in Int : a = s + hs + k - 1
    OBVIOUS
  <2>2. (16 * a) % (16 * R16) = 16 * (a % R16)
    <3>1. PICK c \in Nat \ {0} : c = 16
      OBVIOUS
    <3>2. (c * a) % (c * R16) = c * (a % R16)
      BY <1>1, ModScaled
    <3> QED
      BY <3>1, <3>2
  <2>3. start + Octoword * (hs + k - 1) = 16 * a
    BY <1>2, <2>1 DEF Octoword
  <2>4. 16 * (hs + k) <= ((hs + n + 3) \div 4) * 64
    BY <1>5, Z3
  <2>5. ret.dpsegs[k] = 16 * (a % R16)
    BY <1>7, <2>1
  <2>6. Octoword * (hs + k) <= NumWqes(len, n) * Block
    BY <1>4, <2>4 DEF NumWqes, Octoword, Block
  <2> QED
    BY <1>1, <2>2, <2>3, <2>5, <2>6
<1>9. ASSUME start + CtrlSize + InlineHdrStart + len <= RingEnd, NEW i \in DOMAIN ret.inlined
      PROVE  ret.inlined[i] = (start + (CtrlSize + InlineHdrStart + i - 1)) % RingEnd
  <2>1. CASE len = 0
    <3>1. ret.inlined = <<>>
      BY <2>1 DEF mlx5_fill_tx_segment
    <3> QED
      BY <3>1
  <2>2. CASE len # 0
    <3>1. PICK ptr \in Nat : ptr = start + 30 /\ ptr = start + CtrlSize + InlineHdrStart
      BY DEF CtrlSize, InlineHdrStart
    <3>2. ret.inlined = Inlined(ptr)
      BY <1>3, <2>2, <3>1 DEF mlx5_fill_tx_segment
    <3>3. len = InlinedLen /\ ptr + len <= RingEnd
      BY <1>9, <2>2, <3>1
    <3>4. ret.inlined = [j \in 1 .. len |-> ptr + j - 1]
      BY <3>2, <3>3, InlinedInARow
    <3>5. i \in 1 .. len
      BY <3>4
    <3>6. ret.inlined[i] = ptr + i - 1
      BY <3>4, <3>5
    <3>7. ptr + i - 1 \in 0 .. RingEnd - 1 /\ ptr + i - 1 \in Int
      BY <1>1, <1>3, <3>3, <3>5
    <3>8. (ptr + i - 1) % RingEnd = ptr + i - 1
      BY <1>1, <3>7, ModNear
    <3>9. start + (CtrlSize + InlineHdrStart + i - 1) = ptr + i - 1
      BY <1>3, <3>1, <3>5 DEF CtrlSize, InlineHdrStart
    <3> QED
      BY <3>6, <3>8, <3>9
  <2> QED
    BY <2>1, <2>2
<1>10. DOMAIN ret.dpsegs = 1 .. n
  BY <1>7
<1> QED
  BY <1>4, <1>8, <1>9, <1>10

\* The hardware finds every part of a work request where mlx5_fill_tx_segment
\* has put it, around the end of the ring too, for every ring and number of
\* segments and for all headers that do not end with a block.
THEOREM LayoutHolds == Spec => []WqeInPlace
<1>1. Init => WqeInPlace
  BY DEF Init, Idle, WqeInPlace
<1>2. ASSUME WqeInPlace, [Next]_vars PROVE WqeInPlace'
  <2>1. CASE UNCHANGED call
    BY <1>2, <2>1 DEF WqeInPlace, ByteAt, InlinedAt
  <2>2. CASE call'.fn # "mlx5_fill_tx_segment"
    BY <2>2 DEF WqeInPlace
  <2>3. CASE FillTxSegment
    <3>1. PICK block \in 0 .. WqeCnt - 1, len \in {0, InlinedLen}, n \in 1 .. MaxSegs :
            call' = [fn |-> "mlx5_fill_tx_segment", start |-> block * Block, len |-> len, nb_segs |-> n,
                     ret |-> mlx5_fill_tx_segment(block * Block, len, n)]
      BY <2>3 DEF FillTxSegment
    <3>2. PICK start \in Nat : start = block * Block
      BY LayoutAssumption DEF Block
    <3> DEFINE ret == mlx5_fill_tx_segment(start, len, n)
    <3>3. call'.start = start /\ call'.len = len /\ call'.nb_segs = n /\ call'.ret = ret
      BY <3>1, <3>2
    <3>4. /\ \A k \in DOMAIN ret.dpsegs :
               /\ ret.dpsegs[k] = (start + Octoword * (NumHdrSegs(len) + k - 1)) % RingEnd
               /\ Octoword * (NumHdrSegs(len) + k) <= NumWqes(len, n) * Block
          /\ start + CtrlSize + InlineHdrStart + len <= RingEnd =>
               \A i \in DOMAIN ret.inlined :
                  ret.inlined[i] = (start + (CtrlSize + InlineHdrStart + i - 1)) % RingEnd
      BY <3>2, FilledInPlace
    <3> HIDE DEF ret
    <3> QED
      BY <3>3, <3>4, Zenon DEF WqeInPlace, ByteAt, InlinedAt
  <2> QED
    BY <1>2, <2>1, <2>2, <2>3, Calls
<1> QED
  BY <1>1, <1>2, PTL DEF Spec

---------------------------------------------------------------------------
\* Bitmaps.

\* Min, of a set that has one.
LEMMA MinOf ==
  ASSUME NEW T, T \subseteq Nat, T # {}
  PROVE  Bits!Min(T) \in T /\ \A y \in T : Bits!Min(T) <= y
<1>1. \E x \in T : \A y \in T : x <= y
  BY NatMin
<1> QED
  BY <1>1, Zenon DEF Bits!Min

\* The smaller of two.
LEMMA MinOfTwo ==
  ASSUME NEW a \in Nat, NEW b \in Nat
  PROVE  Bits!Min({a, b}) = IF a <= b THEN a ELSE b
<1>1. Bits!Min({a, b}) \in {a, b} /\ \A y \in {a, b} : Bits!Min({a, b}) <= y
  <2>1. {a, b} \subseteq Nat /\ {a, b} # {}
    OBVIOUS
  <2> QED
    BY <2>1, MinOf
<1> QED
  BY <1>1

\* The words of a bitmap hold its bits.
LEMMA BitsInWords ==
  ASSUME NEW nbits \in Nat
  PROVE  /\ 0 .. nbits - 1 \subseteq Bits!WordBits(nbits)
         /\ Bits!WordBits(nbits) \subseteq Nat
<1>1. PICK w \in Nat : w = Bits!BITMAP_LONG_SIZE(nbits) /\ nbits <= 4 * w
  <2>1. PICK x \in Nat : x = nbits + 3
    OBVIOUS
  <2>2. x \div 4 \in Nat /\ x - 3 <= 4 * (x \div 4)
    BY Z3
  <2>3. Bits!BITMAP_LONG_SIZE(nbits) = x \div 4
    BY <2>1 DEF Bits!BITMAP_LONG_SIZE, Bits!BITS_PER_LONG
  <2> QED
    BY <2>1, <2>2, <2>3
<1>2. Bits!WordBits(nbits) = 0 .. 4 * w - 1
  BY <1>1 DEF Bits!WordBits, Bits!BITS_PER_LONG
<1> QED
  BY <1>1, <1>2

\* The positions from pos on that a search looks for.
Hits(bits, nbits, pos, invert) == {p \in pos .. nbits - 1 : (p \in bits) # invert}

\* A search, which goes by words, gives the first of them.
LEMMA FirstHit ==
  ASSUME NEW nbits \in Nat, NEW bits, bits \subseteq Bits!WordBits(nbits), NEW pos \in Nat, NEW invert \in BOOLEAN,
         NEW ret, ret = Bits!bitmap_find_next(bits, nbits, pos, invert)
  PROVE  IF Hits(bits, nbits, pos, invert) = {} THEN ret = nbits
         ELSE ret \in Hits(bits, nbits, pos, invert) /\ \A p \in Hits(bits, nbits, pos, invert) : ret <= p
<1> DEFINE H == Hits(bits, nbits, pos, invert)
           W(p) == p - (p % 4)
           sought == {b \in IF invert THEN Bits!WordBits(nbits) \ bits ELSE bits : b >= pos}
           words == {i \in W(pos) .. nbits - 1 : i % 4 = 0 /\ (i .. i + 4 - 1) \cap sought # {}}
           idx == Bits!Min(words)
           V == (idx .. idx + 4 - 1) \cap sought
           v == Bits!Min(V)
<1>1. ret = IF words = {} THEN nbits ELSE Bits!Min({v, nbits})
  BY DEF Bits!bitmap_find_next, Bits!align_down, Bits!BITS_PER_LONG
<1>2. sought \subseteq Nat /\ \A p \in Nat : p \in H <=> p \in sought /\ p < nbits
  <2>1. ASSUME NEW p \in Nat PROVE p \in H <=> p \in sought /\ p < nbits
    <3>1. p < nbits => p \in Bits!WordBits(nbits)
      BY BitsInWords
    <3>2. CASE invert
      <4>1. ((p \in bits) # invert) <=> p \notin bits
        BY <3>2, Zenon
      <4>2. p \in H <=> p >= pos /\ p < nbits /\ ((p \in bits) # invert)
        BY DEF Hits
      <4> QED
        BY <3>1, <3>2, <4>1, <4>2, BitsInWords
    <3>3. CASE ~invert
      <4>1. ((p \in bits) # invert) <=> p \in bits
        <5>1. invert = FALSE
          BY <3>3
        <5>2. CASE p \in bits
          <6>1. (p \in bits) = TRUE
            BY <5>2
          <6> QED
            BY <5>1, <5>2, <6>1
        <5>3. CASE p \notin bits
          <6>1. (p \in bits) = FALSE
            BY <5>3
          <6> QED
            BY <5>1, <5>3, <6>1
        <5> QED
          BY <5>2, <5>3
      <4>2. p \in H <=> p >= pos /\ p < nbits /\ ((p \in bits) # invert)
        BY DEF Hits
      <4> QED
        BY <3>1, <3>3, <4>1, <4>2, BitsInWords
    <3> QED
      BY <3>2, <3>3
  <2>2. sought \subseteq Nat
    BY BitsInWords
  <2> QED
    BY <2>1, <2>2
<1>3. \A p \in sought : p >= pos
  OBVIOUS
<1>4. H \subseteq Nat
  BY DEF Hits
<1> HIDE DEF sought, H
<1>5. \A p \in Nat : W(p) \in Nat /\ W(p) <= p /\ p <= W(p) + 3 /\ W(p) % 4 = 0
  BY Z3
<1>6. \A p \in Nat, i \in Nat : i % 4 = 0 /\ i <= p => i <= W(p)
  BY Z3
<1>7. words \subseteq Nat
  BY <1>5
<1>8. ASSUME NEW p \in H PROVE W(p) \in words
  <2>1. p \in Nat /\ p \in sought /\ p < nbits /\ p >= pos
    BY <1>2, <1>3, <1>4
  <2>2. W(p) \in Nat /\ W(p) <= p /\ p <= W(p) + 3 /\ W(p) % 4 = 0
    BY <1>5, <2>1
  <2>3. W(pos) \in Nat /\ W(pos) <= pos /\ W(pos) % 4 = 0
    BY <1>5
  <2>4. W(pos) <= W(p)
    <3>1. W(pos) <= p
      BY <2>1, <2>3
    <3> HIDE DEF W
    <3> QED
      BY <1>6, <2>1, <2>3, <3>1
  <2> HIDE DEF W
  <2>5. p \in (W(p) .. W(p) + 4 - 1) \cap sought
    BY <2>1, <2>2
  <2>6. W(p) \in W(pos) .. nbits - 1
    BY <2>1, <2>2, <2>3, <2>4
  <2> QED
    BY <2>2, <2>5, <2>6
<1>9. CASE words = {}
  <2>1. H = {}
    BY <1>8, <1>9
  <2> QED
    BY <1>1, <1>9, <2>1 DEF H
<1>10. CASE words # {}
  <2>1. idx \in words /\ \A i \in words : idx <= i
    <3> HIDE DEF words
    <3> QED
      BY <1>7, <1>10, MinOf
  <2>2. idx \in Nat /\ idx % 4 = 0 /\ V # {} /\ V \subseteq Nat
    BY <1>2, <1>7, <2>1
  <2>3. v \in V /\ \A y \in V : v <= y
    <3> HIDE DEF V
    <3> QED
      BY <2>2, MinOf
  <2>4. v \in Nat /\ v \in sought /\ v <= idx + 3
    BY <2>2, <2>3
  <2>5. ret = IF v <= nbits THEN v ELSE nbits
    <3>1. Bits!Min({v, nbits}) = IF v <= nbits THEN v ELSE nbits
      <4> HIDE DEF v
      <4> QED
        BY <2>4, MinOfTwo
    <3> QED
      BY <1>1, <1>10, <3>1
  <2>6. ASSUME NEW p \in H PROVE v <= p
    <3>1. p \in Nat /\ p \in sought
      BY <1>2, <1>4
    <3>2. W(p) \in words /\ W(p) \in Nat /\ W(p) % 4 = 0 /\ W(p) <= p /\ p <= W(p) + 3
      BY <1>5, <1>8, <3>1
    <3>3. idx <= W(p)
      BY <2>1, <3>2
    <3> HIDE DEF W, idx
    <3>4. CASE W(p) = idx
      <4>1. p \in V
        BY <2>2, <3>1, <3>2, <3>4
      <4> QED
        BY <2>3, <4>1
    <3>5. CASE W(p) # idx
      <4>1. PICK w \in Nat, i \in Nat : w = W(p) /\ i = idx
        BY <2>2, <3>2
      <4>2. w % 4 = 0 /\ i % 4 = 0 /\ i < w
        BY <2>2, <3>2, <3>3, <3>5, <4>1
      <4>3. i + 4 <= w
        BY <4>2, Z3
      <4> HIDE DEF v
      <4> QED
        BY <2>4, <3>1, <3>2, <4>1, <4>3
    <3> QED
      BY <3>4, <3>5
  <2> HIDE DEF v, words, V, idx
  <2>7. CASE H = {}
    <3>1. ~(v < nbits)
      BY <1>2, <2>4, <2>7
    <3> QED
      BY <2>4, <2>5, <2>7, <3>1 DEF H
  <2>8. CASE H # {}
    <3>1. PICK p \in H : TRUE
      BY <2>8
    <3>2. v <= p /\ p \in Nat /\ p < nbits
      BY <1>2, <1>4, <2>6
    <3>3. v < nbits /\ v \in H
      BY <1>2, <2>4, <3>2
    <3> QED
      BY <2>4, <2>5, <2>6, <2>8, <3>3 DEF H
  <2> QED
    BY <2>7, <2>8
<1> QED
  BY <1>9, <1>10

\* A loop over a bitmap stops at every position sought.
LEMMA StopsAtHits ==
  ASSUME NEW nbits \in Nat, NEW bits, bits \subseteq Bits!WordBits(nbits), NEW invert \in BOOLEAN
  PROVE  Bits!bitmap_for_each(bits, nbits, invert) = Hits(bits, nbits, 0, invert)
<1> DEFINE find(pos) == IF invert THEN Bits!bitmap_find_next_cleared(bits, nbits, pos)
                        ELSE Bits!bitmap_find_next_set(bits, nbits, pos)
           H(pos) == Hits(bits, nbits, pos, invert)
           next(g, pos) == IF find(pos) >= nbits THEN {} ELSE {find(pos)} \cup g[find(pos) + 1]
           Step(g) == [pos \in 0 .. nbits + 1 |-> next(g, pos)]
           From == CHOOSE g : g = Step(g)
           G == [pos \in 0 .. nbits + 1 |-> H(pos)]
<1>1. Bits!bitmap_for_each(bits, nbits, invert) = From[0]
  BY DEF Bits!bitmap_for_each
<1>2. ASSUME NEW pos \in 0 .. nbits + 1
      PROVE  /\ find(pos) >= nbits => H(pos) = {}
             /\ ~ (find(pos) >= nbits) => /\ find(pos) + 1 \in pos + 1 .. nbits
                                          /\ H(pos) = {find(pos)} \cup H(find(pos) + 1)
  <2>1. PICK q \in Nat : q = pos
    OBVIOUS
  <2>2. PICK p : p = find(pos)
    OBVIOUS
  <2>3. IF H(q) = {} THEN p = nbits ELSE p \in H(q) /\ \A y \in H(q) : p <= y
    <3>1. p = Bits!bitmap_find_next(bits, nbits, q, invert)
      <4>1. invert = TRUE \/ invert = FALSE
        OBVIOUS
      <4> QED
        BY <2>1, <2>2, <4>1 DEF Bits!bitmap_find_next_cleared, Bits!bitmap_find_next_set
    <3> QED
      BY <3>1, FirstHit
  <2>4. \A x : H(x) = {y \in x .. nbits - 1 : (y \in bits) # invert}
    BY DEF Hits
  <2> DEFINE X(y) == (y \in bits) # invert
  <2>5. \A x : H(x) = {y \in x .. nbits - 1 : X(y)}
    BY <2>4
  <2> HIDE DEF find, H, X
  <2>6. CASE H(q) = {}
    BY <2>1, <2>2, <2>3, <2>6
  <2>7. CASE H(q) # {}
    <3>1. p \in q .. nbits - 1 /\ X(p)
      BY <2>3, <2>5, <2>7
    <3>2. ASSUME NEW y PROVE y \in H(q) <=> y = p \/ y \in H(p + 1)
      <4>1. y \in H(q) => y \in Nat /\ p <= y /\ y < nbits /\ X(y)
        BY <2>3, <2>5, <2>7
      <4>2. y \in H(p + 1) <=> y \in Int /\ p + 1 <= y /\ y <= nbits - 1 /\ X(y)
        BY <2>5, <3>1
      <4>3. y \in H(q) <=> y \in Int /\ q <= y /\ y <= nbits - 1 /\ X(y)
        BY <2>5
      <4> QED
        BY <3>1, <4>1, <4>2, <4>3
    <3>3. H(q) = {p} \cup H(p + 1)
      BY <3>2
    <3> QED
      BY <2>1, <2>2, <3>1, <3>3
  <2> QED
    BY <2>6, <2>7
<1> HIDE DEF find, H
<1>3. G = Step(G)
  <2>1. ASSUME NEW pos \in 0 .. nbits + 1 PROVE H(pos) = next(G, pos)
    <3>1. CASE find(pos) >= nbits
      BY <1>2, <3>1
    <3>2. CASE ~ (find(pos) >= nbits)
      <4>1. PICK p : p = find(pos) + 1 /\ p \in 0 .. nbits + 1
        BY <1>2, <3>2
      <4>2. G[p] = H(p)
        BY <4>1
      <4> QED
        BY <1>2, <3>2, <4>1, <4>2
    <3> QED
      BY <3>1, <3>2
  <2> HIDE DEF H, next
  <2> QED
    BY <2>1
<1>4. From = Step(From)
  <2> HIDE DEF Step, G
  <2> QED
    BY <1>3, Zenon
<1>5. PICK g : g = From /\ g = [pos \in 0 .. nbits + 1 |-> next(g, pos)]
  BY <1>4
<1> HIDE DEF From, Step
<1> DEFINE S == {n \in 0 .. nbits + 1 : \A pos \in nbits + 1 - n .. nbits + 1 : g[pos] = H(pos)}
<1>6. ASSUME NEW pos \in 0 .. nbits + 1, find(pos) >= nbits \/ g[find(pos) + 1] = H(find(pos) + 1)
      PROVE  g[pos] = H(pos)
  <2>1. g[pos] = next(g, pos)
    BY <1>5
  <2> QED
    BY <1>2, <1>6, <2>1
<1>7. 0 \in S
  <2>1. ASSUME NEW pos \in nbits + 1 .. nbits + 1 PROVE find(pos) >= nbits
    <3>1. pos \in 0 .. nbits + 1 /\ pos = nbits + 1
      OBVIOUS
    <3> QED
      BY <1>2, <3>1
  <2> QED
    BY <1>6, <2>1
<1>8. ASSUME NEW n \in 0 .. nbits + 1 - 1, n \in S PROVE n + 1 \in S
  <2>1. ASSUME NEW pos \in nbits + 1 - (n + 1) .. nbits + 1 PROVE g[pos] = H(pos)
    <3>1. pos \in 0 .. nbits + 1 /\ pos >= nbits - n
      OBVIOUS
    <3>2. find(pos) >= nbits \/ find(pos) + 1 \in nbits + 1 - n .. nbits + 1
      BY <1>2, <3>1
    <3>3. \A x \in nbits + 1 - n .. nbits + 1 : g[x] = H(x)
      BY <1>8
    <3> QED
      BY <1>6, <3>1, <3>2, <3>3
  <2> QED
    BY <2>1
<1>9. \A n \in 0 .. nbits + 1 : n \in S
  <2>1. PICK N \in Nat : N = nbits + 1
    OBVIOUS
  <2> HIDE DEF S
  <2> QED
    BY <1>7, <1>8, <2>1, UpTo
<1>10. g[0] = H(0)
  <2>1. nbits + 1 \in S
    BY <1>9
  <2> QED
    BY <2>1
<1> QED
  BY <1>1, <1>5, <1>10 DEF H

\* A bitmap made by setting bits has these.
LEMMA BitsSet ==
  ASSUME NEW nbits \in Nat, NEW on, on \subseteq 0 .. nbits - 1
  PROVE  SetBits(nbits, on) = on
<1> DEFINE next(g, p) == IF p = 0 THEN {} ELSE IF p - 1 \in on THEN g[p - 1] \cup {p - 1} ELSE g[p - 1]
           Step(g) == [p \in 0 .. nbits |-> next(g, p)]
           made == CHOOSE g : g = Step(g)
           G == [p \in 0 .. nbits |-> {q \in on : q < p}]
<1>1. SetBits(nbits, on) = made[nbits]
  BY DEF SetBits, Bits!bitmap_init, Bits!bitmap_set
<1>2. ASSUME NEW p \in 1 .. nbits
      PROVE  {q \in on : q < p} = IF p - 1 \in on THEN {q \in on : q < p - 1} \cup {p - 1} ELSE {q \in on : q < p - 1}
  <2>1. ASSUME NEW q \in on PROVE q < p <=> q < p - 1 \/ q = p - 1
    OBVIOUS
  <2> QED
    BY <2>1
<1>3. {q \in on : q < 0} = {}
  <2>1. ASSUME NEW q \in on PROVE ~ (q < 0)
    OBVIOUS
  <2> QED
    BY <2>1
<1>4. G = Step(G)
  <2>1. ASSUME NEW p \in 0 .. nbits PROVE {q \in on : q < p} = next(G, p)
    <3>1. CASE p = 0
      BY <1>3, <3>1
    <3>2. CASE p # 0
      <4>1. p \in 1 .. nbits /\ p - 1 \in 0 .. nbits
        BY <3>2
      <4>2. G[p - 1] = {q \in on : q < p - 1}
        BY <4>1
      <4> QED
        BY <1>2, <3>2, <4>1, <4>2
    <3> QED
      BY <3>1, <3>2
  <2> HIDE DEF next
  <2> QED
    BY <2>1
<1>5. made = Step(made)
  <2> HIDE DEF Step, G
  <2> QED
    BY <1>4, Zenon
<1>6. PICK g : g = made /\ g = [p \in 0 .. nbits |-> next(g, p)]
  BY <1>5
<1> HIDE DEF made, Step
<1> DEFINE S == {p \in 0 .. nbits : g[p] = {q \in on : q < p}}
<1>7. 0 \in S
  BY <1>3, <1>6
<1>8. ASSUME NEW n \in 0 .. nbits - 1, n \in S PROVE n + 1 \in S
  <2>1. PICK p \in 1 .. nbits : p = n + 1 /\ p - 1 = n /\ p # 0
    OBVIOUS
  <2>2. g[p] = next(g, p)
    <3>1. p \in 0 .. nbits
      OBVIOUS
    <3> HIDE DEF next
    <3> QED
      BY <1>6, <3>1
  <2>3. g[p - 1] = {q \in on : q < p - 1}
    BY <1>8, <2>1
  <2>4. g[p] = {q \in on : q < p}
    BY <1>2, <2>1, <2>2, <2>3
  <2> QED
    BY <2>1, <2>4
<1>9. \A n \in 0 .. nbits : n \in S
  <2> HIDE DEF S
  <2> QED
    BY <1>7, <1>8, UpTo
<1>10. g[nbits] = {q \in on : q < nbits}
  BY <1>9
<1>11. {q \in on : q < nbits} = on
  <2>1. ASSUME NEW q \in on PROVE q < nbits
    OBVIOUS
  <2> QED
    BY <2>1
<1> QED
  BY <1>1, <1>6, <1>10, <1>11

\* A bitmap made by clearing bits has the others, up to the end of its words.
LEMMA BitsCleared ==
  ASSUME NEW nbits \in Nat, NEW off, off \subseteq 0 .. nbits - 1
  PROVE  ClearBits(nbits, off) = Bits!WordBits(nbits) \ off
<1> DEFINE all == Bits!WordBits(nbits)
           next(g, p) == IF p = 0 THEN all ELSE IF p - 1 \in off THEN g[p - 1] \ {p - 1} ELSE g[p - 1]
           Step(g) == [p \in 0 .. nbits |-> next(g, p)]
           made == CHOOSE g : g = Step(g)
           left(p) == all \ {q \in off : q < p}
           G == [p \in 0 .. nbits |-> left(p)]
<1>1. ClearBits(nbits, off) = made[nbits]
  BY DEF ClearBits, Bits!bitmap_init, Bits!bitmap_clear
<1> HIDE DEF all
<1>2. ASSUME NEW p \in 1 .. nbits
      PROVE  left(p) = IF p - 1 \in off THEN left(p - 1) \ {p - 1} ELSE left(p - 1)
  <2>1. ASSUME NEW q \in off PROVE q < p <=> q < p - 1 \/ q = p - 1
    OBVIOUS
  <2> QED
    BY <2>1
<1>3. left(0) = all
  <2>1. ASSUME NEW q \in off PROVE ~ (q < 0)
    OBVIOUS
  <2> QED
    BY <2>1
<1>4. left(nbits) = all \ off
  <2>1. ASSUME NEW q \in off PROVE q < nbits
    OBVIOUS
  <2> QED
    BY <2>1
<1> HIDE DEF left
<1>5. G = Step(G)
  <2>1. ASSUME NEW p \in 0 .. nbits PROVE left(p) = next(G, p)
    <3>1. CASE p = 0
      BY <1>3, <3>1
    <3>2. CASE p # 0
      <4>1. p \in 1 .. nbits /\ p - 1 \in 0 .. nbits
        BY <3>2
      <4>2. G[p - 1] = left(p - 1)
        BY <4>1
      <4> QED
        BY <1>2, <3>2, <4>1, <4>2
    <3> QED
      BY <3>1, <3>2
  <2> HIDE DEF next
  <2> QED
    BY <2>1
<1>6. made = Step(made)
  <2> HIDE DEF Step, G
  <2> QED
    BY <1>5, Zenon
<1>7. PICK g : g = made /\ g = [p \in 0 .. nbits |-> next(g, p)]
  BY <1>6
<1> HIDE DEF made, Step
<1> DEFINE S == {p \in 0 .. nbits : g[p] = left(p)}
<1>8. 0 \in S
  BY <1>3, <1>7
<1>9. ASSUME NEW n \in 0 .. nbits - 1, n \in S PROVE n + 1 \in S
  <2>1. PICK p \in 1 .. nbits : p = n + 1 /\ p - 1 = n /\ p # 0
    OBVIOUS
  <2>2. g[p] = next(g, p)
    <3>1. p \in 0 .. nbits
      OBVIOUS
    <3> HIDE DEF next
    <3> QED
      BY <1>7, <3>1
  <2>3. g[p - 1] = left(p - 1)
    BY <1>9, <2>1
  <2>4. g[p] = left(p)
    BY <1>2, <2>1, <2>2, <2>3
  <2> QED
    BY <2>1, <2>4
<1>10. \A n \in 0 .. nbits : n \in S
  <2> HIDE DEF S
  <2> QED
    BY <1>8, <1>9, UpTo
<1>11. g[nbits] = left(nbits)
  BY <1>10
<1> QED
  BY <1>1, <1>4, <1>7, <1>11 DEF all

\* What two bitmaps combined are to be.
Combinations(nbits, on, off, anded, ored, xored) ==
    /\ anded \subseteq Bits!WordBits(nbits)
    /\ ored \subseteq Bits!WordBits(nbits)
    /\ xored \subseteq Bits!WordBits(nbits)
    /\ \A p \in 0 .. nbits - 1 :
          /\ p \in anded <=> p \in on /\ p \notin off
          /\ p \in ored <=> p \in on \/ p \notin off
          /\ p \in xored <=> (p \in on <=> p \in off)

\* One made by setting bits and one made by clearing them are.
LEMMA Combined ==
  ASSUME NEW nbits \in Nat, NEW on, on \subseteq 0 .. nbits - 1, NEW off, off \subseteq 0 .. nbits - 1,
         NEW a, a = SetBits(nbits, on), NEW b, b = ClearBits(nbits, off)
  PROVE  Combinations(nbits, on, off, Bits!bitmap_and(a, b, nbits), Bits!bitmap_or(a, b, nbits),
                      Bits!bitmap_xor(a, b, nbits))
<1>1. a = on /\ b = Bits!WordBits(nbits) \ off
  BY BitsSet, BitsCleared
<1>2. \A p \in 0 .. nbits - 1 : p \in Bits!WordBits(nbits)
  BY BitsInWords
<1>3. ASSUME NEW p \in 0 .. nbits - 1
      PROVE  p \in Bits!bitmap_xor(a, b, nbits) <=> (p \in on <=> p \in off)
  <2>1. p \in Bits!bitmap_xor(a, b, nbits) <=> ((p \in a) # (p \in b))
    BY <1>2 DEF Bits!bitmap_xor
  <2>2. p \in a <=> p \in on
    BY <1>1
  <2>3. p \in b <=> p \notin off
    BY <1>1, <1>2
  <2>4. ((p \in a) # (p \in b)) <=> ~ (p \in a <=> p \in b)
    OBVIOUS
  <2> QED
    BY <2>1, <2>2, <2>3, <2>4
<1> QED
  BY <1>1, <1>2, <1>3 DEF Bits!bitmap_and, Bits!bitmap_or, Bits!bitmap_xor, Combinations

---------------------------------------------------------------------------
\* The parsers of bit lists.

\* What is at a position of a text, and past its end.
LEMMA CharAt ==
  ASSUME NEW text \in Seq(Bits!Chars), NEW p \in Nat
  PROVE  /\ Bits!At(text, p) \in 0 .. 24
         /\ p \in 1 .. Len(text) => Bits!At(text, p) = text[p] /\ text[p] \in 0 .. 23
         /\ p \notin 1 .. Len(text) => Bits!At(text, p) = 24
<1>1. \A i \in 1 .. Len(text) : text[i] \in 0 .. 23
  <2>1. Bits!Chars = 0 .. 23
    BY DEF Bits!Chars, Bits!Other
  <2>2. \A i \in 1 .. Len(text) : text[i] \in Bits!Chars
    OBVIOUS
  <2> QED
    BY <2>1, <2>2, Zenon
<1>2. DOMAIN text = 1 .. Len(text)
  OBVIOUS
<1> QED
  BY <1>1, <1>2 DEF Bits!At, Bits!NUL

\* The first position from p on where something holds that holds at the end.
LEMMA FirstFrom ==
  ASSUME NEW L \in Nat, NEW p \in 1 .. L + 1, NEW T, L + 1 \in T,
         NEW m, m = Bits!Min({q \in p .. L + 1 : q \in T})
  PROVE  m \in p .. L + 1 /\ m \in T /\ \A q \in p .. m - 1 : q \notin T
<1> DEFINE F == {q \in p .. L + 1 : q \in T}
<1>1. m \in F /\ \A y \in F : m <= y
  <2>1. F \subseteq Nat /\ F # {}
    OBVIOUS
  <2> HIDE DEF F
  <2> QED
    BY <2>1, MinOf DEF F
<1> QED
  BY <1>1

\* The digits from p on.
Digits(text, p, base, e) ==
    /\ e \in p .. Len(text) + 1
    /\ Bits!At(text, e) \notin 0 .. base - 1
    /\ \A q \in p .. e - 1 : Bits!At(text, q) \in 0 .. base - 1

\* Run finds them, and their value is a number, that of the digit when it is
\* only one.
LEMMA RunIs ==
  ASSUME NEW text \in Seq(Bits!Chars), NEW p \in 1 .. Len(text) + 1, NEW base \in 1 .. 16,
         NEW n, n = Bits!Run(text, p, base)
  PROVE  /\ n = [end |-> n.end, val |-> n.val]
         /\ Digits(text, p, base, n.end)
         /\ n.val \in Nat
         /\ n.end = p + 1 => n.val = text[p]
<1> DEFINE T == {q \in Nat : Bits!At(text, q) \notin 0 .. base - 1}
           end == Bits!Min({q \in p .. Len(text) + 1 : Bits!At(text, q) \notin 0 .. base - 1})
           N == end - p
           Val(g) == [i \in 0 .. N |-> IF i = 0 THEN 0 ELSE g[i - 1] * base + text[p + i - 1]]
           val == CHOOSE g : g = Val(g)
<1>0. PICK L \in Nat : L = Len(text)
  OBVIOUS
<1>1. n = [end |-> end, val |-> val[N]]
  BY Zenon DEF Bits!Run
<1>2. PICK e \in p .. L + 1 : e = end /\ e \in T /\ \A q \in p .. e - 1 : q \notin T
  <2>1. L + 1 \in T
    BY <1>0, CharAt
  <2>2. {q \in p .. L + 1 : q \in T} = {q \in p .. L + 1 : Bits!At(text, q) \notin 0 .. base - 1}
    OBVIOUS
  <2>3. PICK m : m = end /\ m = Bits!Min({q \in p .. L + 1 : q \in T})
    BY <1>0, <2>2
  <2>4. p \in 1 .. L + 1
    BY <1>0
  <2> HIDE DEF T, end
  <2>5. m \in p .. L + 1 /\ m \in T /\ \A q \in p .. m - 1 : q \notin T
    BY <2>1, <2>3, <2>4, FirstFrom
  <2> QED
    BY <2>3, <2>5
<1>3. N \in Nat /\ N = e - p
  BY <1>0, <1>2
<1>4. \A i \in 1 .. N : text[p + i - 1] \in Nat
  <2>1. ASSUME NEW i \in 1 .. N PROVE text[p + i - 1] \in Nat
    <3>1. PICK j \in 1 .. L : j = p + i - 1
      BY <1>0, <1>2, <1>3
    <3>2. j \in Nat /\ j \in 1 .. Len(text)
      BY <1>0
    <3>3. text[j] \in 0 .. 23
      BY <3>2, CharAt, Zenon
    <3>4. \A v \in 0 .. 23 : v \in Nat
      OBVIOUS
    <3>5. text[j] \in Nat
      BY <3>3, <3>4, Zenon
    <3> QED
      BY <3>1, <3>5, Zenon
  <2> QED
    BY <2>1
<1> HIDE DEF N
<1>5. val = Val(val)
  <2>1. PICK V, zero : V = Nat /\ zero = 0 /\ zero \in V
    OBVIOUS
  <2>2. PICK next : next = [x \in (1 .. N) \X V |-> x[2] * base + text[p + x[1] - 1]]
    OBVIOUS
  <2>3. next \in [(1 .. N) \X V -> V]
    <3>1. ASSUME NEW i \in 1 .. N, NEW v \in Nat PROVE v * base + text[p + i - 1] \in Nat
      BY <1>4
    <3> QED
      BY <2>1, <2>2, <3>1
  <2>4. PICK G : G \in Recursive(N, V, zero, next)
    BY <1>3, <2>1, <2>3, Recursion
  <2>5. G = Val(G)
    <3>1. G \in [0 .. N -> V] /\ G[0] = zero /\ \A i \in 1 .. N : G[i] = next[<<i, G[i - 1]>>]
      BY <2>4 DEF Recursive
    <3>2. ASSUME NEW i \in 1 .. N PROVE G[i] = G[i - 1] * base + text[p + i - 1]
      <4>1. <<i, G[i - 1]>> \in (1 .. N) \X V
        BY <1>3, <3>1
      <4> QED
        BY <2>2, <3>1, <4>1
    <3> QED
      BY <1>3, <2>1, <3>1, <3>2
  <2> HIDE DEF Val
  <2> QED
    BY <2>5, Zenon
<1>6. PICK g : g = val /\ g = [i \in 0 .. N |-> IF i = 0 THEN 0 ELSE g[i - 1] * base + text[p + i - 1]]
  BY <1>5
<1> HIDE DEF val
<1>7. g[0] = 0 /\ \A i \in 1 .. N : g[i] = g[i - 1] * base + text[p + i - 1]
  <2>1. \A i \in 0 .. N : g[i] = IF i = 0 THEN 0 ELSE g[i - 1] * base + text[p + i - 1]
    BY <1>6, Zenon
  <2>2. 0 \in 0 .. N /\ \A i \in 1 .. N : i \in 0 .. N /\ i # 0
    BY <1>3
  <2> QED
    BY <2>1, <2>2, Zenon
<1> DEFINE S == {i \in 0 .. N : g[i] \in Nat}
<1>8. 0 \in S
  BY <1>3, <1>7
<1>9. ASSUME NEW i \in 0 .. N - 1, i \in S PROVE i + 1 \in S
  <2>1. PICK k \in 1 .. N : k = i + 1 /\ k - 1 = i
    BY <1>3
  <2>2. g[k] = g[k - 1] * base + text[p + k - 1] /\ g[k - 1] \in Nat /\ text[p + k - 1] \in Nat
    BY <1>4, <1>7, <1>9, <2>1
  <2>3. PICK x \in Nat, y \in Nat : x = g[k - 1] /\ y = text[p + k - 1] /\ g[k] = x * base + y
    BY <2>2
  <2>4. x * base + y \in Nat
    OBVIOUS
  <2>5. g[k] \in Nat
    BY <2>3, <2>4, Zenon
  <2> QED
    BY <2>1, <2>5
<1>10. \A i \in 0 .. N : i \in S
  <2> HIDE DEF S
  <2> QED
    BY <1>3, <1>8, <1>9, UpTo
<1>11. g[N] \in Nat
  BY <1>3, <1>10
<1>12. n.end = e /\ n.val = g[N]
  BY <1>1, <1>2, <1>6
<1>13. Digits(text, p, base, e)
  BY <1>0, <1>2 DEF Digits
<1>14. e = p + 1 => g[N] = text[p]
  <2>1. ASSUME e = p + 1 PROVE g[N] = text[p]
    <3>1. N = 1
      BY <1>3, <2>1
    <3>2. g[1] = g[1 - 1] * base + text[p + 1 - 1] /\ text[p + 1 - 1] \in Nat
      BY <1>4, <1>7, <3>1
    <3>3. p + 1 - 1 = p /\ 1 - 1 = 0 /\ 0 * base = 0
      OBVIOUS
    <3> QED
      BY <1>7, <3>1, <3>2, <3>3
  <2> QED
    BY <2>1
<1> QED
  BY <1>1, <1>11, <1>12, <1>13, <1>14

\* The digits from p on are the same however they are found.
LEMMA DigitsOnce ==
  ASSUME NEW text, NEW p \in Nat, NEW base, NEW d, NEW e, Digits(text, p, base, d), Digits(text, p, base, e), Len(text) \in Nat
  PROVE  d = e
<1>1. d \in Nat /\ e \in Nat /\ p <= d /\ p <= e
  BY DEF Digits
<1>2. ~ (d < e)
  BY <1>1 DEF Digits
<1>3. ~ (e < d)
  BY <1>1 DEF Digits
<1> QED
  BY <1>1, <1>2, <1>3

\* What nexttoken returns: the position after the first separator, or NULL.
LEMMA TokenIs ==
  ASSUME NEW text \in Seq(Bits!Chars), NEW q \in 1 .. Len(text) + 1, NEW sep,
         NEW c, c = Bits!nexttoken(text, q, sep)
  PROVE  /\ c = 0 <=> \A k \in q .. Len(text) : text[k] # sep
         /\ c # 0 => /\ c \in q + 1 .. Len(text) + 1
                     /\ text[c - 1] = sep
                     /\ \A k \in q .. c - 2 : text[k] # sep
<1> DEFINE found == {k \in q .. Len(text) : text[k] = sep}
<1>1. c = IF found = {} THEN 0 ELSE Bits!Min(found) + 1
  BY DEF Bits!nexttoken, Bits!NULL
<1>2. CASE found = {}
  BY <1>1, <1>2
<1>3. CASE found # {}
  <2>1. PICK m : m = Bits!Min(found) /\ m \in found /\ \A y \in found : m <= y
    <3>1. found \subseteq Nat
      OBVIOUS
    <3> HIDE DEF found
    <3> QED
      BY <1>3, <3>1, MinOf
  <2>2. c = m + 1
    BY <1>1, <1>3, <2>1
  <2>3. m \in Nat /\ c - 1 = m /\ c - 2 = m - 1 /\ m \in q .. Len(text) /\ text[m] = sep
    BY <2>1, <2>2
  <2>4. \A k \in q .. m - 1 : text[k] # sep
    BY <2>1, <2>3
  <2>5. c # 0 /\ c \in q + 1 .. Len(text) + 1
    BY <2>2, <2>3
  <2> QED
    BY <2>3, <2>4, <2>5
<1> QED
  BY <1>2, <1>3

\* A number a reader returns, and where it stopped.
Number(L, v) == v.end \in 1 .. L + 1 /\ v.val \in Nat

\* Run returns one.
LEMMA RunNumber ==
  ASSUME NEW text \in Seq(Bits!Chars), NEW p \in 1 .. Len(text) + 1, NEW base \in 1 .. 16,
         NEW n, n = Bits!Run(text, p, base)
  PROVE  Number(Len(text), n)
<1>1. Digits(text, p, base, n.end) /\ n.val \in Nat
  BY RunIs
<1>2. n.end \in p .. Len(text) + 1
  BY <1>1 DEF Digits
<1> QED
  BY <1>1, <1>2 DEF Number

\* A position with a character is not the last one.
LEMMA CharInside ==
  ASSUME NEW text \in Seq(Bits!Chars), NEW q \in 1 .. Len(text) + 1, Bits!At(text, q) \in 0 .. 23
  PROVE  q \in 1 .. Len(text) /\ q + 1 \in 1 .. Len(text) + 1
<1>1. q \in Nat
  OBVIOUS
<1>2. q \in 1 .. Len(text)
  <2>1. q \notin 1 .. Len(text) => Bits!At(text, q) = 24
    BY <1>1, CharAt, Zenon
  <2>2. 24 \notin 0 .. 23
    OBVIOUS
  <2> QED
    BY <2>1, <2>2, Zenon
<1> QED
  BY <1>2

\* Converting keeps the end and gives a number.
LEMMA ConvertedIs ==
  ASSUME NEW n, n.val \in Nat, NEW negative \in BOOLEAN, NEW v, v = Bits!Converted(n, negative)
  PROVE  v.end = n.end /\ v.erange \in BOOLEAN /\ v.val \in Nat
<1>1. v = [end |-> n.end, erange |-> n.val >= 64,
           val |-> IF n.val >= 64 THEN 63 ELSE IF negative THEN (64 - n.val) % 64 ELSE n.val]
  BY DEF Bits!Converted, Bits!ULongMod
<1>2. PICK x \in Nat : x = n.val
  OBVIOUS
<1>3. (64 - x) % 64 \in Nat
  BY Z3
<1>4. v.end = n.end /\ v.erange = (x >= 64) /\ v.val = IF x >= 64 THEN 63 ELSE IF negative THEN (64 - x) % 64 ELSE x
  BY <1>1, <1>2
<1> QED
  BY <1>3, <1>4

\* nextnumber gives a number of an unsigned int, and stops in the text or at
\* its end.
LEMMA NextNumberIs ==
  ASSUME NEW text \in Seq(Bits!Chars), NEW p \in 1 .. Len(text) + 1, NEW v, v = Bits!nextnumber(text, p)
  PROVE  /\ v = [ok |-> v.ok, end |-> v.end, val |-> v.val]
         /\ v.ok \in BOOLEAN /\ Number(Len(text), v)
<1>1. PICK n : n = Bits!Run(text, p, 10)
  OBVIOUS
<1>2. n.val \in Nat /\ n.end \in 1 .. Len(text) + 1
  <2>1. PICK ten \in 1 .. 16 : ten = 10
    OBVIOUS
  <2>2. Number(Len(text), n)
    BY <1>1, <2>1, RunNumber
  <2> QED
    BY <2>2 DEF Number
<1>3. PICK u : u = Bits!strtoul(text, p) /\ u = Bits!Converted(n, FALSE)
  BY <1>1 DEF Bits!strtoul
<1>4. u.end = n.end /\ u.erange \in BOOLEAN /\ u.val \in Nat
  BY <1>2, <1>3, ConvertedIs
<1>5. v = IF Bits!At(text, p) \notin 0 .. 9 THEN [ok |-> FALSE, end |-> p, val |-> 0]
          ELSE [ok |-> ~u.erange, end |-> u.end, val |-> u.val % 32]
  BY <1>3 DEF Bits!nextnumber, Bits!UIntMod
<1>6. \A x \in Nat : x % 32 \in Nat
  BY Z3
<1>7. CASE Bits!At(text, p) \notin 0 .. 9
  <2>1. v = [ok |-> FALSE, end |-> p, val |-> 0]
    BY <1>5, <1>7
  <2> QED
    BY <2>1 DEF Number
<1>8. CASE Bits!At(text, p) \in 0 .. 9
  <2>1. v = [ok |-> ~u.erange, end |-> u.end, val |-> u.val % 32]
    BY <1>5, <1>8
  <2>2. u.val % 32 \in Nat
    BY <1>4, <1>6
  <2> QED
    BY <1>2, <1>4, <2>1, <2>2 DEF Number
<1> QED
  BY <1>7, <1>8

\* A range as next_range returns it.
LEMMA NextRangeIs ==
  ASSUME NEW text \in Seq(Bits!Chars), NEW p \in 1 .. Len(text) + 1, NEW r, r = Bits!next_range(text, p)
  PROVE  r.ok \in BOOLEAN /\ r.a \in Nat /\ r.b \in Nat /\ r.s \in Nat /\ r.end \in 1 .. Len(text) + 1
<1>1. PICK a : /\ a = Bits!nextnumber(text, p)
               /\ a = [ok |-> a.ok, end |-> a.end, val |-> a.val]
               /\ a.ok \in BOOLEAN /\ Number(Len(text), a)
  BY NextNumberIs
<1>2. PICK c2 : c2 = Bits!nexttoken(text, a.end, Bits!Comma)
  OBVIOUS
<1> DEFINE before(c) == c # Bits!NULL /\ (c2 = Bits!NULL \/ c < c2)
<1>3. PICK c1 : c1 = Bits!nexttoken(text, a.end, Bits!Dash) /\ (before(c1) => c1 \in 1 .. Len(text) + 1)
  <2>1. PICK e \in 1 .. Len(text) + 1 : e = a.end
    BY <1>1 DEF Number
  <2>2. PICK c : c = Bits!nexttoken(text, e, Bits!Dash)
    OBVIOUS
  <2>3. c # 0 => c \in 1 .. Len(text) + 1
    BY <2>2, TokenIs
  <2> QED
    BY <2>1, <2>2, <2>3 DEF Bits!NULL
<1>4. PICK b : /\ b = IF before(c1) THEN Bits!nextnumber(text, c1) ELSE a
               /\ b = [ok |-> b.ok, end |-> b.end, val |-> b.val]
               /\ b.ok \in BOOLEAN /\ Number(Len(text), b)
  <2>1. CASE before(c1)
    BY <1>3, <2>1, NextNumberIs
  <2>2. CASE ~before(c1)
    BY <1>1, <2>2
  <2> QED
    BY <2>1, <2>2
<1>5. PICK c3 : c3 = Bits!nexttoken(text, b.end, Bits!Colon) /\ (before(c3) => c3 \in 1 .. Len(text) + 1)
  <2>1. PICK e \in 1 .. Len(text) + 1 : e = b.end
    BY <1>4 DEF Number
  <2>2. PICK c : c = Bits!nexttoken(text, e, Bits!Colon)
    OBVIOUS
  <2>3. c # 0 => c \in 1 .. Len(text) + 1
    BY <2>2, TokenIs
  <2> QED
    BY <2>1, <2>2, <2>3 DEF Bits!NULL
<1>6. PICK s : s = (IF before(c1) /\ before(c3) THEN Bits!nextnumber(text, c3) ELSE [b EXCEPT !.val = 1])
  OBVIOUS
<1>7. r = [ok |-> a.ok /\ b.ok /\ s.ok, a |-> a.val, b |-> b.val, s |-> s.val, end |-> s.end]
  BY <1>1, <1>2, <1>3, <1>4, <1>5, <1>6, Zenon DEF Bits!next_range
<1>8. s.end \in 1 .. Len(text) + 1 /\ s.val \in Nat
  <2>1. CASE before(c1) /\ before(c3)
    <3>1. Number(Len(text), s)
      <4>1. s = Bits!nextnumber(text, c3)
        BY <1>6, <2>1, Zenon
      <4> QED
        BY <1>5, <2>1, <4>1, NextNumberIs
    <3> QED
      BY <3>1 DEF Number
  <2>2. CASE ~(before(c1) /\ before(c3))
    <3>1. s = [b EXCEPT !.val = 1]
      BY <1>6, <2>2, Zenon
    <3>2. b = [ok |-> b.ok, end |-> b.end, val |-> b.val]
      BY <1>4
    <3> QED
      BY <1>4, <3>1, <3>2 DEF Number
  <2> QED
    BY <2>1, <2>2
<1> QED
  BY <1>1, <1>4, <1>7, <1>8 DEF Number

\* strtoull gives a number and stops in the text or at its end.
LEMMA StrtoullIs ==
  ASSUME NEW text \in Seq(Bits!Chars), NEW p \in 1 .. Len(text) + 1, NEW v, v = Bits!strtoull(text, p)
  PROVE  Number(Len(text), v)
<1>0. PICK L \in Nat : L = Len(text)
  OBVIOUS
<1>1. PICK s : s = Bits!Min({q \in p .. Len(text) + 1 : Bits!At(text, q) \notin {Bits!Blank, Bits!Newline}})
               /\ s \in p .. L + 1
  <2>1. PICK T : T = {q \in Nat : Bits!At(text, q) \notin {Bits!Blank, Bits!Newline}}
    OBVIOUS
  <2>2. L + 1 \in T
    <3>1. Bits!At(text, L + 1) = 24
      BY <1>0, CharAt
    <3> QED
      BY <2>1, <3>1 DEF Bits!Blank, Bits!Newline
  <2>3. {q \in p .. Len(text) + 1 : Bits!At(text, q) \notin {Bits!Blank, Bits!Newline}} = {q \in p .. L + 1 : q \in T}
    BY <1>0, <2>1
  <2>4. Bits!Min({q \in p .. L + 1 : q \in T}) \in p .. L + 1
    BY <1>0, <2>2, FirstFrom
  <2> QED
    BY <2>3, <2>4
<1>3. PICK first \in 1 .. L + 1 : first = IF Bits!At(text, s) \in {Bits!Dash, Bits!Plus} THEN s + 1 ELSE s
  <2>1. Bits!At(text, s) \in {Bits!Dash, Bits!Plus} => Bits!At(text, s) \in 0 .. 23
    BY DEF Bits!Dash, Bits!Plus
  <2>2. s \in 1 .. Len(text) + 1 /\ s \in 1 .. L + 1
    BY <1>0, <1>1
  <2> QED
    BY <1>0, <2>1, <2>2, CharInside
<1>4. PICK hex \in BOOLEAN : hex = (Bits!At(text, first) = 0 /\ Bits!At(text, first + 1) = Bits!X
                                    /\ Bits!At(text, first + 2) \in 0 .. 15)
  OBVIOUS
<1>5. PICK n : n = IF hex THEN Bits!Run(text, first + 2, 16)
                   ELSE Bits!Run(text, first, IF Bits!At(text, first) = 0 THEN 8 ELSE 10)
  OBVIOUS
<1>6. n.end \in 1 .. L + 1 /\ n.val \in Nat
  <2>1. CASE hex
    <3>1. PICK x \in 1 .. L + 1 : x = first + 1
      <4>1. Bits!At(text, first) \in 0 .. 23
        <5>1. Bits!At(text, first) = 0
          BY <1>4, <2>1
        <5> QED
          BY <5>1
      <4> QED
        BY <1>0, <4>1, CharInside
    <3>2. first + 2 \in 1 .. L + 1
      <4>1. Bits!At(text, x) \in 0 .. 23
        <5>1. Bits!At(text, x) = 16
          BY <1>4, <2>1, <3>1 DEF Bits!X
        <5> QED
          BY <5>1
      <4>2. x + 1 \in 1 .. L + 1
        BY <1>0, <4>1, CharInside
      <4> QED
        BY <3>1, <4>2
    <3>3. PICK d \in 1 .. Len(text) + 1 : d = first + 2
      BY <1>0, <3>2
    <3>4. n = Bits!Run(text, d, 16)
      BY <1>5, <2>1, <3>3
    <3>5. PICK base \in 1 .. 16 : base = 16
      OBVIOUS
    <3>6. Number(Len(text), n)
      BY <3>4, <3>5, RunNumber
    <3> QED
      BY <1>0, <3>6 DEF Number
  <2>2. CASE ~hex
    <3>1. PICK base \in 1 .. 16 : base = IF Bits!At(text, first) = 0 THEN 8 ELSE 10
      OBVIOUS
    <3>2. n = Bits!Run(text, first, base)
      BY <1>5, <2>2, <3>1
    <3>3. first \in 1 .. Len(text) + 1
      BY <1>0
    <3>4. Number(Len(text), n)
      BY <3>2, <3>3, RunNumber
    <3> QED
      BY <1>0, <3>4 DEF Number
  <2> QED
    BY <2>1, <2>2
<1>7. v = IF n.end = first THEN [end |-> p, erange |-> FALSE, val |-> 0]
          ELSE Bits!Converted(n, Bits!At(text, s) = Bits!Dash)
  BY <1>1, <1>3, <1>4, <1>5, Zenon DEF Bits!strtoull
<1>8. PICK negative \in BOOLEAN : negative = (Bits!At(text, s) = Bits!Dash)
  OBVIOUS
<1>9. CASE n.end = first
  BY <1>0, <1>7, <1>9 DEF Number
<1>10. CASE n.end # first
  <2>1. v = Bits!Converted(n, negative)
    BY <1>7, <1>8, <1>10, Zenon
  <2>2. v.end = n.end /\ v.val \in Nat
    BY <1>6, <2>1, ConvertedIs
  <2> QED
    BY <1>0, <1>6, <2>2 DEF Number
<1> QED
  BY <1>9, <1>10

\* What read_range may return.
Verdicts == {"read", "ok", "error"}

\* A range as read_range returns it.
LEMMA ReadRangeIs ==
  ASSUME NEW line \in Seq(Bits!Chars), NEW p \in 1 .. Len(line) + 1, NEW errno, NEW r,
         r = Bits!read_range(line, p, errno)
  PROVE  r.ret \in Verdicts /\ r.a \in Nat /\ r.b \in Nat /\ r.end \in 1 .. Len(line) + 1
<1>1. PICK a : a = Bits!strtoull(line, p) /\ Number(Len(line), a)
  BY StrtoullIs
<1>2. PICK dash \in BOOLEAN : dash = (Bits!At(line, a.end) = Bits!Dash)
  OBVIOUS
<1>3. PICK b : b = IF dash THEN Bits!strtoull(line, a.end + 1) ELSE a
  OBVIOUS
<1>4. Number(Len(line), b)
  <2>1. CASE dash
    <3>1. PICK e \in 1 .. Len(line) : e = a.end
      <4>1. a.end \in 1 .. Len(line) + 1
        BY <1>1 DEF Number
      <4>2. Bits!At(line, a.end) = 18
        BY <1>2, <2>1 DEF Bits!Dash
      <4> QED
        BY <4>1, <4>2, CharAt
    <3>2. PICK d \in 1 .. Len(line) + 1 : d = a.end + 1
      BY <3>1
    <3>3. b = Bits!strtoull(line, d)
      BY <1>3, <2>1, <3>2
    <3> QED
      BY <3>3, StrtoullIs
  <2>2. CASE ~dash
    BY <1>1, <1>3, <2>2
  <2> QED
    BY <2>1, <2>2
<1>5. PICK first : first = Bits!Verdict(a, p, errno)
  OBVIOUS
<1>6. r = [ret |-> IF dash /\ first = "read" THEN Bits!Verdict(b, a.end + 1, errno) ELSE first,
           a |-> a.val, b |-> b.val, end |-> b.end]
  BY <1>1, <1>2, <1>3, <1>5, Zenon DEF Bits!read_range
<1>7. \A n, q : Bits!Verdict(n, q, errno) \in Verdicts
  BY DEF Bits!Verdict, Verdicts
<1>8. r.ret \in Verdicts
  BY <1>5, <1>6, <1>7
<1> QED
  BY <1>1, <1>4, <1>6, <1>8 DEF Number

\* A turn of string_to_bitmap sets no bit past nbits, whatever the range.
LEMMA StepInside ==
  ASSUME NEW nbits \in Nat, NEW bits, bits \subseteq 0 .. nbits - 1,
         NEW r, r.a \in Nat, r.s \in Nat, NEW ret, ret = Bits!RangeStep(nbits, bits, r)
  PROVE  ret.ok \in BOOLEAN /\ ret.bits \subseteq 0 .. nbits - 1
<1> DEFINE at(k) == (r.a + k * r.s) % 32
           stops == {k \in 0 .. 32 : at(k) > r.b \/ at(k) >= nbits}
           turns == {k \in 0 .. 32 : \A j \in stops : k < j}
<1>1. ret = IF ~r.ok \/ r.s = 0 \/ r.a > r.b THEN Bits!Parsed(FALSE, bits)
            ELSE Bits!Parsed(\E k \in stops : at(k) > r.b /\ \A j \in stops : k <= j, bits \cup {at(k) : k \in turns})
  BY DEF Bits!RangeStep, Bits!UIntMod
<1>2. ASSUME NEW k \in 0 .. 32 PROVE at(k) \in Nat
  <2>1. PICK x \in Nat : x = r.a + k * r.s
    <3>1. PICK a \in Nat, s \in Nat, i \in Nat : a = r.a /\ s = r.s /\ i = k
      OBVIOUS
    <3>2. a + i * s \in Nat
      OBVIOUS
    <3> QED
      BY <3>1, <3>2
  <2>2. x % 32 \in Nat
    BY Z3
  <2> QED
    BY <2>1, <2>2
<1> HIDE DEF at
<1>3. ASSUME NEW k \in turns PROVE at(k) \in 0 .. nbits - 1
  <2>1. k \in 0 .. 32 /\ k \notin stops
    <3>1. k \in 0 .. 32 /\ \A j \in stops : k < j
      OBVIOUS
    <3>2. ~(k < k)
      BY <3>1
    <3> QED
      BY <3>1, <3>2
  <2>2. ~(at(k) >= nbits)
    BY <2>1
  <2> QED
    BY <1>2, <2>1, <2>2
<1>4. {at(k) : k \in turns} \subseteq 0 .. nbits - 1
  <2> HIDE DEF turns
  <2> QED
    BY <1>3
<1>5. PICK more : more = {at(k) : k \in turns} /\ more \subseteq 0 .. nbits - 1
  BY <1>4
<1>6. PICK over \in BOOLEAN : over = (\E k \in stops : at(k) > r.b /\ \A j \in stops : k <= j)
  OBVIOUS
<1>7. ret = IF ~r.ok \/ r.s = 0 \/ r.a > r.b THEN Bits!Parsed(FALSE, bits) ELSE Bits!Parsed(over, bits \cup more)
  BY <1>1, <1>5, <1>6, Zenon
<1>8. ret = Bits!Parsed(FALSE, bits) \/ ret = Bits!Parsed(over, bits \cup more)
  BY <1>7, Zenon
<1>9. bits \cup more \subseteq 0 .. nbits - 1
  BY <1>5
<1>10. ASSUME NEW ok \in BOOLEAN, NEW set, set \subseteq 0 .. nbits - 1, ret = Bits!Parsed(ok, set)
       PROVE  ret.ok \in BOOLEAN /\ ret.bits \subseteq 0 .. nbits - 1
  <2>1. ret = [ok |-> ok, bits |-> set]
    BY <1>10 DEF Bits!Parsed
  <2>2. ret.ok = ok /\ ret.bits = set
    BY <2>1
  <2> QED
    BY <1>10, <2>2
<1> QED
  BY <1>8, <1>9, <1>10, Zenon

\* What becomes of a range a-b.
Outcome(nbits, bits, a, b, ret) ==
    /\ ret.ok <=> a <= b /\ b < nbits
    /\ ret.ok => ret.bits = bits \cup (a .. b)

\* A range without a stride that an int can hold is set when it is inside.
LEMMA OneRange ==
  ASSUME NEW nbits \in Nat, NEW bits, NEW r, r.ok,
         NEW a \in 0 .. 15, NEW b \in 0 .. 15, r.a = a, r.b = b, r.s = 1,
         NEW ret, ret = Bits!RangeStep(nbits, bits, r)
  PROVE  Outcome(nbits, bits, a, b, ret)
<1> DEFINE at(k) == (r.a + k * r.s) % 32
           stops == {k \in 0 .. 32 : at(k) > r.b \/ at(k) >= nbits}
           turns == {k \in 0 .. 32 : \A j \in stops : k < j}
<1>1. ret = IF ~r.ok \/ r.s = 0 \/ r.a > r.b THEN Bits!Parsed(FALSE, bits)
            ELSE Bits!Parsed(\E k \in stops : at(k) > r.b /\ \A j \in stops : k <= j, bits \cup {at(k) : k \in turns})
  BY DEF Bits!RangeStep, Bits!UIntMod
<1> HIDE DEF at
<1>2. CASE a > b
  <2>1. ret = Bits!Parsed(FALSE, bits)
    BY <1>1, <1>2
  <2> QED
    BY <1>2, <2>1 DEF Bits!Parsed, Outcome
<1>3. CASE a <= b
  <2>2. ASSUME NEW k \in 0 .. b + 1 - a PROVE at(k) = a + k
    <3>1. k * 1 = k
      OBVIOUS
    <3>2. \A x \in 0 .. 31 : x % 32 = x
      BY Z3
    <3>3. a + k \in 0 .. 31
      OBVIOUS
    <3> QED
      BY <3>1, <3>2, <3>3 DEF at
  <2>3. b + 1 - a \in stops
    <3>1. PICK k \in 0 .. b + 1 - a : k = b + 1 - a
      BY <1>3
    <3>2. at(k) = b + 1
      BY <2>2, <3>1
    <3>3. k \in 0 .. 32
      BY <1>3, <3>1
    <3>4. at(k) > r.b
      BY <3>2
    <3> QED
      BY <3>1, <3>3, <3>4
  <2>4. PICK e \in stops : \A k \in stops : e <= k
    <3>1. stops \subseteq Nat /\ stops # {}
      BY <2>3
    <3> HIDE DEF stops
    <3> QED
      BY <3>1, NatMin
  <2>5. e \in 0 .. b + 1 - a /\ e \in 0 .. 32
    <3>1. e \in Nat /\ e <= b + 1 - a /\ e <= 32
      BY <2>3, <2>4
    <3> QED
      BY <1>3, <3>1
  <2>6. at(e) = a + e
    BY <2>2, <2>5
  <2>7. \A k \in 0 .. 32 : k \in turns <=> k < e
    <3>1. ASSUME NEW k \in 0 .. 32 PROVE (\A j \in stops : k < j) <=> k < e
      <4>1. \A j \in stops : j \in 0 .. 32
        OBVIOUS
      <4> HIDE DEF stops
      <4> QED
        BY <2>4, <4>1
    <3> QED
      BY <3>1
  <2>8. (\E k \in stops : at(k) > r.b /\ \A j \in stops : k <= j) <=> a + e > b
    <3>1. ASSUME NEW k \in stops, \A j \in stops : k <= j PROVE k = e
      <4>1. k \in 0 .. 32 /\ e \in 0 .. 32 /\ k <= e /\ e <= k
        BY <2>4, <3>1
      <4> QED
        BY <4>1
    <3> HIDE DEF stops
    <3> QED
      BY <2>4, <2>6, <3>1
  <2>9. {at(k) : k \in turns} = a .. a + e - 1
    <3>1. ASSUME NEW o \in a .. a + e - 1 PROVE \E k \in turns : o = at(k)
      <4>1. PICK k \in 0 .. e - 1 : k = o - a
        BY <2>5
      <4>2. k \in 0 .. b + 1 - a /\ k \in 0 .. 32 /\ k < e
        BY <2>5, <4>1
      <4>3. k \in turns
        BY <2>7, <4>2
      <4>4. at(k) = a + k /\ a + k = o
        BY <2>2, <4>1, <4>2
      <4> HIDE DEF turns
      <4> QED
        BY <4>3, <4>4
    <3>2. ASSUME NEW k \in turns PROVE at(k) \in a .. a + e - 1
      <4>1. k \in 0 .. 32 /\ k < e
        BY <2>7
      <4>2. k \in 0 .. b + 1 - a
        BY <2>5, <4>1
      <4> QED
        BY <2>2, <2>5, <4>1, <4>2
    <3> HIDE DEF turns
    <3> QED
      BY <3>1, <3>2
  <2>10. ret = Bits!Parsed(\E k \in stops : at(k) > r.b /\ \A j \in stops : k <= j, bits \cup {at(k) : k \in turns})
    <3>1. ~(~r.ok \/ r.s = 0 \/ r.a > r.b)
      BY <1>3
    <3> HIDE DEF stops, turns
    <3> QED
      BY <1>1, <3>1
  <2>11. PICK over \in BOOLEAN : (over <=> a + e > b) /\ ret = Bits!Parsed(over, bits \cup (a .. a + e - 1))
    <3>1. PICK over \in BOOLEAN : over = (\E k \in stops : at(k) > r.b /\ \A j \in stops : k <= j)
      OBVIOUS
    <3> HIDE DEF stops, turns
    <3>2. over <=> a + e > b
      BY <2>8, <3>1
    <3>3. ret = Bits!Parsed(over, bits \cup (a .. a + e - 1))
      BY <2>9, <2>10, <3>1, Zenon
    <3> QED
      BY <3>1, <3>2, <3>3
  <2>12. a + e > b <=> b < nbits
    <3>1. CASE b < nbits
      <4>1. at(e) > r.b \/ at(e) >= nbits
        BY <2>4
      <4> QED
        BY <2>5, <2>6, <3>1, <4>1
    <3>2. CASE ~ (b < nbits)
      <4>1. b - a \in 0 .. b + 1 - a /\ b - a \in 0 .. 32
        BY <1>3
      <4>2. at(b - a) = b
        BY <2>2, <4>1
      <4>3. b - a \in stops
        BY <3>2, <4>1, <4>2
      <4>4. e <= b - a
        BY <2>4, <4>3
      <4> QED
        BY <2>5, <3>2, <4>4
    <3> QED
      BY <3>1, <3>2
  <2>13. (ret.ok <=> a + e > b) /\ ret.bits = bits \cup (a .. a + e - 1)
    BY <2>11 DEF Bits!Parsed
  <2>14. a + e > b => a + e - 1 = b
    BY <2>5
  <2> QED
    BY <1>3, <2>12, <2>13, <2>14 DEF Outcome
<1> QED
  BY <1>2, <1>3

\* The states of the loop of string_to_bitmap.
StringStates(L, nbits) == [q : 0 .. L + 1, end : 1 .. L + 1, ok : BOOLEAN, bits : SUBSET (0 .. nbits - 1)]

\* A turn leads to a state.
LEMMA StringTurnIs ==
  ASSUME NEW text \in Seq(Bits!Chars), NEW nbits \in Nat, NEW t \in StringStates(Len(text), nbits)
  PROVE  Bits!StringTurn(text, nbits, t) \in StringStates(Len(text), nbits)
<1>1. CASE t.q = Bits!NULL \/ ~t.ok
  <2>1. Bits!StringTurn(text, nbits, t) = t
    BY <1>1, Zenon DEF Bits!StringTurn, Bits!StringState
  <2> QED
    BY <2>1
<1>2. CASE ~(t.q = Bits!NULL \/ ~t.ok)
  <2>1. PICK q \in 1 .. Len(text) + 1 : q = t.q
    BY <1>2 DEF StringStates, Bits!NULL
  <2>2. PICK r : r = Bits!next_range(text, q)
    OBVIOUS
  <2>3. r.a \in Nat /\ r.s \in Nat /\ r.end \in 1 .. Len(text) + 1
    BY <2>2, NextRangeIs
  <2>4. PICK bits : bits = t.bits /\ bits \subseteq 0 .. nbits - 1
    BY DEF StringStates
  <2>5. PICK done : done = Bits!RangeStep(nbits, bits, r)
    OBVIOUS
  <2>6. done.ok \in BOOLEAN /\ done.bits \subseteq 0 .. nbits - 1
    BY <2>3, <2>4, <2>5, StepInside
  <2>7. PICK c : c = Bits!nexttoken(text, q, Bits!Comma)
    OBVIOUS
  <2>8. c \in 0 .. Len(text) + 1
    <3>1. c # 0 => c \in q + 1 .. Len(text) + 1
      BY <2>7, TokenIs
    <3>2. 0 \in 0 .. Len(text) + 1
      OBVIOUS
    <3> QED
      BY <3>1, <3>2
  <2>9. Bits!StringTurn(text, nbits, t) = [q |-> c, end |-> r.end, ok |-> done.ok, bits |-> done.bits]
    BY <1>2, <2>1, <2>2, <2>4, <2>5, <2>7, Zenon DEF Bits!StringTurn, Bits!StringState
  <2> QED
    BY <2>3, <2>6, <2>8, <2>9 DEF StringStates
<1> QED
  BY <1>1, <1>2

\* Runs of that loop.
StringRuns(text, nbits, N) ==
    \E g \in [0 .. N -> StringStates(Len(text), nbits)] :
        /\ g[0] = Bits!StringStart(nbits)
        /\ \A k \in 1 .. N : g[k] = Bits!StringTurn(text, nbits, g[k - 1])
        /\ Bits!string_to_bitmap(text, nbits) =
              Bits!Parsed(g[N].ok /\ Bits!At(text, g[N].end) = Bits!NUL, g[N].bits)

\* string_to_bitmap is its turns, Len(text) + 1 at most.
LEMMA StringTurns ==
  ASSUME NEW text \in Seq(Bits!Chars), NEW nbits \in Nat, NEW N \in Nat, N = Len(text) + 1
  PROVE  StringRuns(text, nbits, N)
<1> DEFINE Step(g) == [k \in 0 .. Len(text) + 1 |-> IF k = 0 THEN Bits!StringStart(nbits) ELSE Bits!StringTurn(text, nbits, g[k - 1])]
           turn == CHOOSE g : g = Step(g)
<1>1. Bits!string_to_bitmap(text, nbits) =
         Bits!Parsed(turn[Len(text) + 1].ok /\ Bits!At(text, turn[Len(text) + 1].end) = Bits!NUL, turn[Len(text) + 1].bits)
  BY Zenon DEF Bits!string_to_bitmap, Bits!StringResult
<1>2. PICK V : V = StringStates(Len(text), nbits)
  OBVIOUS
<1>3. PICK base : base = Bits!StringStart(nbits) /\ base \in V
  <2>1. 1 \in 0 .. Len(text) + 1 /\ 1 \in 1 .. Len(text) + 1
    OBVIOUS
  <2>2. Bits!StringStart(nbits) \in V
    BY <1>2, <2>1 DEF Bits!StringStart, StringStates, Bits!bitmap_init
  <2> QED
    BY <2>2
<1>4. PICK next : next = [x \in (1 .. N) \X V |-> Bits!StringTurn(text, nbits, x[2])]
  OBVIOUS
<1>5. next \in [(1 .. N) \X V -> V]
  BY <1>2, <1>4, StringTurnIs
<1>6. PICK G : G \in Recursive(N, V, base, next)
  BY <1>3, <1>5, Recursion
<1>7. G \in [0 .. N -> V] /\ G[0] = base /\ \A k \in 1 .. N : G[k] = Bits!StringTurn(text, nbits, G[k - 1])
  <2>1. G \in [0 .. N -> V] /\ G[0] = base /\ \A i \in 1 .. N : G[i] = next[<<i, G[i - 1]>>]
    BY <1>6 DEF Recursive
  <2>2. ASSUME NEW i \in 1 .. N PROVE G[i] = Bits!StringTurn(text, nbits, G[i - 1])
    <3>1. <<i, G[i - 1]>> \in (1 .. N) \X V
      <4>1. i - 1 \in 0 .. N
        OBVIOUS
      <4> QED
        BY <2>1, <4>1
    <3> QED
      BY <1>4, <2>1, <3>1
  <2> QED
    BY <2>1, <2>2
<1>8. turn = Step(turn)
  <2>1. G = Step(G)
    BY <1>3, <1>7
  <2> HIDE DEF Step
  <2> QED
    BY <2>1, Zenon
<1> HIDE DEF turn
<1>9. PICK g : g = turn /\ g = [k \in 0 .. N |-> IF k = 0 THEN Bits!StringStart(nbits) ELSE Bits!StringTurn(text, nbits, g[k - 1])]
  BY <1>8
<1>10. DOMAIN g = 0 .. N /\ g[0] = Bits!StringStart(nbits) /\ \A k \in 1 .. N : g[k] = Bits!StringTurn(text, nbits, g[k - 1])
  <2>1. \A k \in 0 .. N : g[k] = IF k = 0 THEN Bits!StringStart(nbits) ELSE Bits!StringTurn(text, nbits, g[k - 1])
    BY <1>9, Zenon
  <2>2. 0 \in 0 .. N /\ \A k \in 1 .. N : k \in 0 .. N /\ k # 0
    OBVIOUS
  <2>3. DOMAIN g = 0 .. N
    BY <1>9, Zenon
  <2> QED
    BY <2>1, <2>2, <2>3, Zenon
<1> DEFINE S == {k \in 0 .. N : g[k] \in V}
<1>11. 0 \in S
  BY <1>3, <1>10
<1>12. ASSUME NEW k \in 0 .. N - 1, k \in S PROVE k + 1 \in S
  <2>1. PICK i \in 1 .. N : i = k + 1 /\ i - 1 = k
    OBVIOUS
  <2>2. g[i] = Bits!StringTurn(text, nbits, g[i - 1]) /\ g[i - 1] \in V
    BY <1>10, <1>12, <2>1
  <2>3. g[i] \in V
    BY <1>2, <2>2, StringTurnIs
  <2> QED
    BY <2>1, <2>3
<1>13. \A k \in 0 .. N : k \in S
  <2> HIDE DEF S
  <2> QED
    BY <1>11, <1>12, UpTo
<1>14. g \in [0 .. N -> V]
  <2>1. g = [k \in 0 .. N |-> g[k]]
    BY <1>9, <1>10, Zenon
  <2> QED
    BY <1>13, <2>1
<1> QED
  <2>1. Bits!string_to_bitmap(text, nbits) =
           Bits!Parsed(g[N].ok /\ Bits!At(text, g[N].end) = Bits!NUL, g[N].bits)
    BY <1>1, <1>9
  <2> QED
    BY <1>2, <1>10, <1>14, <2>1 DEF StringRuns

\* The states of the loop of sysfs_parse_bitlist.
SysfsStates(L, nbits) == [pos : 1 .. L + 1, ret : Verdicts, bits : SUBSET (0 .. nbits - 1)]

\* The loop itself.
SysfsLoop(line, nbits, errno) ==
    CHOOSE g : g = [k \in 0 .. Len(line) + 1 |-> IF k = 0 THEN Bits!SysfsStart(nbits) ELSE Bits!SysfsTurn(line, nbits, errno, g[k - 1])]

\* The position after the commas.
LEMMA SkipsTo ==
  ASSUME NEW line \in Seq(Bits!Chars), NEW p \in 1 .. Len(line) + 1,
         NEW m, m = Bits!Min({q \in p .. Len(line) + 1 : Bits!At(line, q) # Bits!Comma})
  PROVE  /\ m \in p .. Len(line) + 1
         /\ Bits!At(line, m) # Bits!Comma
         /\ \A q \in p .. m - 1 : Bits!At(line, q) = Bits!Comma
<1>1. PICK L \in Nat : L = Len(line)
  OBVIOUS
<1>2. PICK T : T = {q \in Nat : Bits!At(line, q) # Bits!Comma}
  OBVIOUS
<1>3. L + 1 \in T
  <2>1. Bits!At(line, L + 1) = 24
    BY <1>1, CharAt
  <2> QED
    BY <1>2, <2>1 DEF Bits!Comma
<1>4. {q \in p .. Len(line) + 1 : Bits!At(line, q) # Bits!Comma} = {q \in p .. L + 1 : q \in T}
  BY <1>1, <1>2
<1>5. m = Bits!Min({q \in p .. L + 1 : q \in T})
  BY <1>4
<1>6. m \in p .. L + 1 /\ m \in T /\ \A q \in p .. m - 1 : q \notin T
  BY <1>1, <1>3, <1>5, FirstFrom
<1> QED
  BY <1>1, <1>2, <1>6

\* A turn leads to a state.
LEMMA SysfsTurnIs ==
  ASSUME NEW line \in Seq(Bits!Chars), NEW nbits \in Nat, NEW errno, NEW t \in SysfsStates(Len(line), nbits)
  PROVE  Bits!SysfsTurn(line, nbits, errno, t) \in SysfsStates(Len(line), nbits)
<1>1. PICK pos : pos = Bits!Min({q \in t.pos .. Len(line) + 1 : Bits!At(line, q) # Bits!Comma})
  OBVIOUS
<1>2. pos \in 1 .. Len(line) + 1
  <2>1. PICK p \in 1 .. Len(line) + 1 : p = t.pos
    BY DEF SysfsStates
  <2>2. pos \in p .. Len(line) + 1
    BY <1>1, <2>1, SkipsTo
  <2> QED
    BY <2>2
<1>3. PICK r : r = Bits!read_range(line, pos, errno)
  OBVIOUS
<1>4. r.ret \in Verdicts /\ r.a \in Nat /\ r.b \in Nat /\ r.end \in 1 .. Len(line) + 1
  BY <1>2, <1>3, ReadRangeIs
<1>5. PICK new : new = Bits!SysfsTurn(line, nbits, errno, t)
  OBVIOUS
<1>6. new = IF t.ret # "read" THEN t
            ELSE IF Bits!At(line, pos) \in {Bits!NUL, Bits!Newline} THEN [t EXCEPT !.ret = "ok"]
            ELSE IF r.ret # "read" THEN [t EXCEPT !.ret = r.ret]
            ELSE IF r.b < r.a \/ r.b >= nbits THEN [t EXCEPT !.ret = "error"]
            ELSE [t EXCEPT !.pos = r.end, !.bits = @ \cup r.a .. r.b]
  BY <1>1, <1>3, <1>5, Zenon DEF Bits!SysfsTurn, Bits!SysfsRange
<1>7. \/ new = t
      \/ \E v \in Verdicts : new = [t EXCEPT !.ret = v]
      \/ ~(r.b < r.a \/ r.b >= nbits) /\ new = [t EXCEPT !.pos = r.end, !.bits = @ \cup r.a .. r.b]
  <2>1. "ok" \in Verdicts /\ "error" \in Verdicts
    BY DEF Verdicts
  <2> QED
    BY <1>4, <1>6, <2>1, Zenon
<1>8. CASE \E v \in Verdicts : new = [t EXCEPT !.ret = v]
  BY <1>5, <1>8 DEF SysfsStates
<1>9. CASE ~(r.b < r.a \/ r.b >= nbits) /\ new = [t EXCEPT !.pos = r.end, !.bits = @ \cup r.a .. r.b]
  <2>1. r.a .. r.b \subseteq 0 .. nbits - 1
    BY <1>4, <1>9
  <2> QED
    BY <1>4, <1>5, <1>9, <2>1 DEF SysfsStates
<1> QED
  BY <1>5, <1>7, <1>8, <1>9

\* Runs of that loop.
SysfsRuns(text, line, nbits, errno, N) ==
    \E g \in [0 .. N -> SysfsStates(Len(line), nbits)] :
        /\ g[0] = Bits!SysfsStart(nbits)
        /\ \A k \in 1 .. N : g[k] = Bits!SysfsTurn(line, nbits, errno, g[k - 1])
        /\ Bits!sysfs_parse_bitlist(text, nbits, errno) =
              Bits!Parsed(text # <<>> /\ g[N].ret = "ok", g[N].bits)
\* sysfs_parse_bitlist is its turns.
LEMMA SysfsTurns ==
  ASSUME NEW text, NEW line \in Seq(Bits!Chars), line = Bits!fgets(text), NEW nbits \in Nat, NEW errno,
         NEW N \in Nat, N = Len(line) + 1
  PROVE  SysfsRuns(text, line, nbits, errno, N)
<1> DEFINE Step(g) == [k \in 0 .. Len(line) + 1 |-> IF k = 0 THEN Bits!SysfsStart(nbits) ELSE Bits!SysfsTurn(line, nbits, errno, g[k - 1])]
           turn == CHOOSE g : g = Step(g)
<1>1. Bits!sysfs_parse_bitlist(text, nbits, errno) =
         Bits!Parsed(text # <<>> /\ turn[Len(line) + 1].ret = "ok", turn[Len(line) + 1].bits)
  <2>1. Bits!sysfs_parse_bitlist(text, nbits, errno) =
           Bits!Parsed(text # <<>> /\ SysfsLoop(Bits!fgets(text), nbits, errno)[Len(Bits!fgets(text)) + 1].ret = "ok",
                       SysfsLoop(Bits!fgets(text), nbits, errno)[Len(Bits!fgets(text)) + 1].bits)
    BY Zenon DEF Bits!sysfs_parse_bitlist, SysfsLoop
  <2>2. turn = SysfsLoop(line, nbits, errno)
    BY Zenon DEF SysfsLoop
  <2> HIDE DEF turn
  <2> QED
    BY <2>1, <2>2
<1>2. PICK V : V = SysfsStates(Len(line), nbits)
  OBVIOUS
<1>3. PICK base : base = Bits!SysfsStart(nbits) /\ base \in V
  <2>1. 1 \in 1 .. Len(line) + 1 /\ "read" \in Verdicts
    BY DEF Verdicts
  <2>2. Bits!SysfsStart(nbits) \in V
    BY <1>2, <2>1 DEF Bits!SysfsStart, SysfsStates, Bits!bitmap_init
  <2> QED
    BY <2>2
<1>4. PICK next : next = [x \in (1 .. N) \X V |-> Bits!SysfsTurn(line, nbits, errno, x[2])]
  OBVIOUS
<1>5. next \in [(1 .. N) \X V -> V]
  BY <1>2, <1>4, SysfsTurnIs
<1>6. PICK G : G \in Recursive(N, V, base, next)
  BY <1>3, <1>5, Recursion
<1>7. G \in [0 .. N -> V] /\ G[0] = base /\ \A k \in 1 .. N : G[k] = Bits!SysfsTurn(line, nbits, errno, G[k - 1])
  <2>1. G \in [0 .. N -> V] /\ G[0] = base /\ \A i \in 1 .. N : G[i] = next[<<i, G[i - 1]>>]
    BY <1>6 DEF Recursive
  <2>2. ASSUME NEW i \in 1 .. N PROVE G[i] = Bits!SysfsTurn(line, nbits, errno, G[i - 1])
    <3>1. <<i, G[i - 1]>> \in (1 .. N) \X V
      <4>1. i - 1 \in 0 .. N
        OBVIOUS
      <4> QED
        BY <2>1, <4>1
    <3> QED
      BY <1>4, <2>1, <3>1
  <2> QED
    BY <2>1, <2>2
<1>8. turn = Step(turn)
  <2>1. G = Step(G)
    BY <1>3, <1>7
  <2> HIDE DEF Step
  <2> QED
    BY <2>1, Zenon
<1> HIDE DEF turn
<1>9. PICK g : g = turn /\ g = [k \in 0 .. N |-> IF k = 0 THEN Bits!SysfsStart(nbits) ELSE Bits!SysfsTurn(line, nbits, errno, g[k - 1])]
  BY <1>8
<1>10. DOMAIN g = 0 .. N /\ g[0] = Bits!SysfsStart(nbits) /\ \A k \in 1 .. N : g[k] = Bits!SysfsTurn(line, nbits, errno, g[k - 1])
  <2>1. \A k \in 0 .. N : g[k] = IF k = 0 THEN Bits!SysfsStart(nbits) ELSE Bits!SysfsTurn(line, nbits, errno, g[k - 1])
    BY <1>9, Zenon
  <2>2. 0 \in 0 .. N /\ \A k \in 1 .. N : k \in 0 .. N /\ k # 0
    OBVIOUS
  <2>3. DOMAIN g = 0 .. N
    BY <1>9, Zenon
  <2> QED
    BY <2>1, <2>2, <2>3, Zenon
<1> DEFINE S == {k \in 0 .. N : g[k] \in V}
<1>11. 0 \in S
  BY <1>3, <1>10
<1>12. ASSUME NEW k \in 0 .. N - 1, k \in S PROVE k + 1 \in S
  <2>1. PICK i \in 1 .. N : i = k + 1 /\ i - 1 = k
    OBVIOUS
  <2>2. g[i] = Bits!SysfsTurn(line, nbits, errno, g[i - 1]) /\ g[i - 1] \in V
    BY <1>10, <1>12, <2>1
  <2>3. g[i] \in V
    BY <1>2, <2>2, SysfsTurnIs
  <2> QED
    BY <2>1, <2>3
<1>13. \A k \in 0 .. N : k \in S
  <2> HIDE DEF S
  <2> QED
    BY <1>11, <1>12, UpTo
<1>14. g \in [0 .. N -> V]
  <2>1. g = [k \in 0 .. N |-> g[k]]
    BY <1>9, <1>10, Zenon
  <2> QED
    BY <1>13, <2>1
<1> QED
  <2>1. Bits!sysfs_parse_bitlist(text, nbits, errno) = Bits!Parsed(text # <<>> /\ g[N].ret = "ok", g[N].bits)
    BY <1>1, <1>9
  <2> QED
    BY <1>2, <1>10, <1>14, <2>1 DEF SysfsRuns

\* The characters of a plain list, and its numbers.
LEMMA PlainChars ==
  ASSUME NEW text \in Seq(Bits!Chars), PlainList(text)
  PROVE  /\ Len(text) >= 1
         /\ \A p \in 1 .. Len(text) :
               \/ Bits!At(text, p) \in 0 .. 9
               \/ Bits!At(text, p) \in {17, 18} /\ IsDigit(text, p - 1) /\ IsDigit(text, p + 1)
         /\ \A p \in 1 .. Len(text) : IsDigit(text, p) /\ ~IsDigit(text, p - 1) =>
               /\ text[p] = 0 => ~IsDigit(text, p + 1)
               /\ Bits!Run(text, p, 10).val <= 15
         /\ \A p, q \in 1 .. Len(text) :
               p < q /\ text[p] = 18 /\ text[q] = 18 => \E c \in p .. q : text[c] = 17
<1>1. DOMAIN text = 1 .. Len(text)
  OBVIOUS
<1>2. /\ text # <<>>
      /\ \A p \in 1 .. Len(text) :
            \/ IsDigit(text, p)
            \/ text[p] \in {17, 18} /\ IsDigit(text, p - 1) /\ IsDigit(text, p + 1)
      /\ \A p \in {p \in 1 .. Len(text) : IsDigit(text, p) /\ ~IsDigit(text, p - 1)} :
            /\ text[p] = 0 => ~IsDigit(text, p + 1)
            /\ Bits!Run(text, p, 10).val <= 15
      /\ \A p, q \in 1 .. Len(text) :
            p < q /\ text[p] = 18 /\ text[q] = 18 => \E c \in p .. q : text[c] = 17
  BY <1>1, Zenon DEF PlainList, Bits!Comma, Bits!Dash, Bits!INT_MAX
<1>3. Len(text) >= 1
  BY <1>2
<1>4. \A p \in 1 .. Len(text) : Bits!At(text, p) = text[p]
  BY <1>1, Zenon DEF Bits!At
<1> QED
  BY <1>2, <1>3, <1>4, Zenon DEF IsDigit

\* What a run of digits is.
RunGood(text, p, base, n) ==
    /\ n = [end |-> n.end, val |-> n.val]
    /\ Digits(text, p, base, n.end)
    /\ n.val \in Nat
    /\ n.end = p + 1 => n.val = text[p]

\* Run finds one.
LEMMA RunIsGood ==
  ASSUME NEW text \in Seq(Bits!Chars), NEW p \in 1 .. Len(text), NEW base \in {8, 10}
  PROVE  RunGood(text, p, base, Bits!Run(text, p, base))
<1>1. PICK n : n = Bits!Run(text, p, base)
  OBVIOUS
<1>2. base \in 1 .. 16 /\ p \in 1 .. Len(text) + 1
  OBVIOUS
<1>3. RunGood(text, p, base, n)
  <2>1. n = [end |-> n.end, val |-> n.val]
    <3>1. PICK E, V : n = [end |-> E, val |-> V]
      BY <1>1, Zenon DEF Bits!Run
    <3> QED
      BY <3>1
  <2>2. Digits(text, p, base, n.end) /\ n.val \in Nat
    BY <1>1, <1>2, RunIs
  <2>3. n.end = p + 1 => n.val = text[p]
    BY <1>1, <1>2, RunIs
  <2> QED
    BY <2>1, <2>2, <2>3 DEF RunGood
<1> QED
  BY <1>1, <1>3

\* Numbers of an int, and digits.
LEMMA Small ==
  /\ \A x \in Nat : x <= 15 => x \in 0 .. 15
  /\ \A x \in 0 .. 15 : ~(x >= 64)
  /\ \A x \in 0 .. 9 : x \notin {17, 18, 20, 22, 24}
  /\ \A x \in 0 .. 9 \cup {17, 18} : x # 20
  OBVIOUS

\* Both readers return a number of a plain list.
LEMMA PlainNumber ==
  ASSUME NEW text \in Seq(Bits!Chars), PlainList(text),
         NEW p \in 1 .. Len(text), IsDigit(text, p), ~IsDigit(text, p - 1)
  PROVE  \E v \in 0 .. 15, e \in p + 1 .. Len(text) + 1 :
            /\ Digits(text, p, 10, e)
            /\ Bits!nextnumber(text, p) = [ok |-> TRUE, end |-> e, val |-> v]
            /\ Bits!strtoull(text, p) = [end |-> e, erange |-> FALSE, val |-> v]
            /\ e = Len(text) + 1 \/ Bits!At(text, e) \in {17, 18}
<1>1. PICK n : n = Bits!Run(text, p, 10)
  OBVIOUS
<1>2. n = [end |-> n.end, val |-> n.val] /\ Digits(text, p, 10, n.end) /\ n.val \in Nat /\ (n.end = p + 1 => n.val = text[p])
  <2>1. RunGood(text, p, 10, n)
    BY <1>1, RunIsGood
  <2> QED
    BY <2>1, Zenon DEF RunGood
<1>3. n.val <= 15 /\ (text[p] = 0 => ~IsDigit(text, p + 1))
  BY <1>1, PlainChars
<1>4. PICK v \in 0 .. 15 : v = n.val
  BY <1>2, <1>3, Small, Zenon
<1>5. PICK e : e = n.end /\ Digits(text, p, 10, e)
  BY <1>2
<1>6. Bits!At(text, p) \in 0 .. 9
  BY DEF IsDigit
<1>7. e \in p + 1 .. Len(text) + 1
  <2>1. e \in p .. Len(text) + 1 /\ e # p
    BY <1>5, <1>6 DEF Digits
  <2> QED
    BY <2>1
<1>8. \A negative \in BOOLEAN : negative = FALSE => Bits!Converted(n, negative) = [end |-> e, erange |-> FALSE, val |-> v]
  <2>1. SUFFICES Bits!Converted(n, FALSE) = [end |-> e, erange |-> FALSE, val |-> v]
    OBVIOUS
  <2>2. ~(n.val >= 64)
    BY <1>4, Small, Zenon
  <2>3. (n.val >= 64) = FALSE
    BY <2>2
  <2>4. Bits!Converted(n, FALSE) = [end |-> n.end, erange |-> FALSE, val |-> n.val]
    BY <2>2, <2>3, Zenon DEF Bits!Converted, Bits!ULongMod
  <2> QED
    BY <1>4, <1>5, <2>4
<1>9. Bits!nextnumber(text, p) = [ok |-> TRUE, end |-> e, val |-> v]
  <2>1. PICK u : u = Bits!strtoul(text, p) /\ u = [end |-> e, erange |-> FALSE, val |-> v]
    BY <1>1, <1>8 DEF Bits!strtoul
  <2>2. Bits!nextnumber(text, p) = [ok |-> ~u.erange, end |-> u.end, val |-> u.val % 32]
    BY <1>6, <2>1 DEF Bits!nextnumber, Bits!UIntMod
  <2>3. v % 32 = v
    <3>1. \A x \in 0 .. 15 : x % 32 = x
      BY Z3
    <3> QED
      BY <3>1
  <2>4. u.end = e /\ (~u.erange) = TRUE /\ u.val = v
    BY <2>1
  <2> QED
    BY <2>2, <2>3, <2>4, Zenon
<1>10. e = Len(text) + 1 \/ Bits!At(text, e) \in {17, 18}
  <2>1. Bits!At(text, e) \notin 0 .. 9
    <3>1. 0 .. 10 - 1 = 0 .. 9
      OBVIOUS
    <3> QED
      BY <1>5, <3>1 DEF Digits
  <2>2. e \in 1 .. Len(text) \/ e = Len(text) + 1
    BY <1>7
  <2> QED
    BY <2>1, <2>2, PlainChars, Zenon
<1>11. Bits!strtoull(text, p) = [end |-> e, erange |-> FALSE, val |-> v]
  <2>1. Bits!Min({q \in p .. Len(text) + 1 : Bits!At(text, q) \notin {Bits!Blank, Bits!Newline}}) = p
    <3>1. PICK T : T = {q \in p .. Len(text) + 1 : Bits!At(text, q) \notin {Bits!Blank, Bits!Newline}}
      OBVIOUS
    <3>2. p \in T /\ T \subseteq Nat /\ \A q \in T : p <= q
      BY <1>6, <3>1 DEF Bits!Blank, Bits!Newline
    <3>3. Bits!Min(T) \in T /\ Bits!Min(T) <= p
      BY <3>2, MinOf
    <3>4. Bits!Min(T) = p
      <4>1. PICK m \in Nat : m = Bits!Min(T) /\ m \in T /\ m <= p
        BY <3>2, <3>3
      <4>2. p <= m
        BY <3>2, <4>1
      <4> QED
        BY <4>1, <4>2
    <3> QED
      BY <3>1, <3>4
  <2>2. Bits!At(text, p) \notin {Bits!Dash, Bits!Plus}
    BY <1>6 DEF Bits!Dash, Bits!Plus
  <2>3. Bits!At(text, p + 1) # Bits!X
    <3>1. CASE p + 1 \in 1 .. Len(text)
      <4>1. Bits!At(text, p + 1) \in 0 .. 9 \/ Bits!At(text, p + 1) \in {17, 18}
        BY <3>1, PlainChars
      <4> QED
        BY <4>1 DEF Bits!X
    <3>2. CASE p + 1 \notin 1 .. Len(text)
      <4>1. Bits!At(text, p + 1) = 24
        BY <3>2, CharAt
      <4> QED
        BY <4>1 DEF Bits!X
    <3> QED
      BY <3>1, <3>2
  <2>4. PICK base : base = IF Bits!At(text, p) = 0 THEN 8 ELSE 10
    OBVIOUS
  <2>5. Bits!Run(text, p, base) = n
    <3>1. CASE Bits!At(text, p) # 0
      BY <1>1, <2>4, <3>1
    <3>2. CASE Bits!At(text, p) = 0
      <4>1. Bits!At(text, p) = text[p]
        BY CharAt
      <4>2. Bits!At(text, p + 1) \notin 0 .. 9
        BY <1>3, <3>2, <4>1 DEF IsDigit
      <4>3. PICK eight, m : eight = 8 /\ eight = base /\ m = Bits!Run(text, p, eight)
        BY <2>4, <3>2
      <4>4. m = [end |-> m.end, val |-> m.val] /\ Digits(text, p, eight, m.end) /\ (m.end = p + 1 => m.val = text[p])
        <5>1. RunGood(text, p, 8, m)
          BY <4>3, RunIsGood
        <5> QED
          BY <4>3, <5>1, Zenon DEF RunGood
      <4>5. \A d, b : b \in {8, 10} /\ Digits(text, p, b, d) => d = p + 1
        <5>1. SUFFICES ASSUME NEW d, NEW b \in {8, 10}, Digits(text, p, b, d) PROVE d = p + 1
          OBVIOUS
        <5>2. d \in p .. Len(text) + 1 /\ Bits!At(text, d) \notin 0 .. b - 1 /\ \A q \in p .. d - 1 : Bits!At(text, q) \in 0 .. b - 1
          BY <5>1 DEF Digits
        <5>3. d # p
          BY <3>2, <5>2
        <5>4. ~(p + 1 < d)
          <6>1. ASSUME p + 1 < d PROVE FALSE
            <7>1. p + 1 \in p .. d - 1
              BY <5>2, <6>1
            <7>2. Bits!At(text, p + 1) \in 0 .. b - 1
              BY <5>2, <7>1
            <7>3. \A x \in 0 .. b - 1 : x \in 0 .. 9
              OBVIOUS
            <7> QED
              BY <4>2, <7>2, <7>3
          <6> QED
            BY <6>1
        <5> QED
          BY <5>2, <5>3, <5>4
      <4>6. m.end = p + 1 /\ n.end = p + 1
        <5>1. Digits(text, p, 10, n.end) /\ Digits(text, p, 8, m.end)
          BY <1>2, <4>3, <4>4
        <5> QED
          BY <4>5, <5>1, Zenon
      <4>7. m = n
        BY <1>2, <4>4, <4>6
      <4> QED
        BY <4>3, <4>7
    <3> QED
      BY <3>1, <3>2
  <2>6. n.end # p
    BY <1>5, <1>7
  <2>7. PICK hex \in BOOLEAN : hex = FALSE /\ hex = (Bits!At(text, p) = 0 /\ Bits!At(text, p + 1) = Bits!X
                                                  /\ Bits!At(text, p + 2) \in 0 .. 15)
    BY <2>3
  <2>8. Bits!strtoull(text, p) = IF n.end = p THEN [end |-> p, erange |-> FALSE, val |-> 0]
                                 ELSE Bits!Converted(n, Bits!At(text, p) = Bits!Dash)
    BY <2>1, <2>2, <2>3, <2>4, <2>5, Zenon DEF Bits!strtoull
  <2>9. PICK negative \in BOOLEAN : negative = FALSE /\ negative = (Bits!At(text, p) = Bits!Dash)
    BY <2>2
  <2>10. Bits!strtoull(text, p) = Bits!Converted(n, negative)
    BY <2>6, <2>8, <2>9, Zenon
  <2> QED
    BY <1>8, <2>9, <2>10
<1> QED
  BY <1>5, <1>7, <1>9, <1>10, <1>11

\* A search passes over what is not the separator.
LEMMA TokenPast ==
  ASSUME NEW text \in Seq(Bits!Chars), NEW p \in 1 .. Len(text) + 1, NEW e \in p .. Len(text) + 1, NEW sep,
         \A k \in p .. e - 1 : text[k] # sep
  PROVE  Bits!nexttoken(text, p, sep) = Bits!nexttoken(text, e, sep)
<1> DEFINE from(q) == {k \in q .. Len(text) : text[k] = sep}
<1>1. from(p) = from(e)
  <2>1. \A k \in p .. Len(text) : text[k] = sep => k \in e .. Len(text)
    OBVIOUS
  <2>2. \A k \in e .. Len(text) : k \in p .. Len(text)
    OBVIOUS
  <2> QED
    BY <2>1, <2>2
<1>2. \A q : Bits!nexttoken(text, q, sep) = IF from(q) = {} THEN 0 ELSE Bits!Min(from(q)) + 1
  BY Zenon DEF Bits!nexttoken, Bits!NULL
<1> HIDE DEF from
<1> QED
  BY <1>1, <1>2, Zenon

\* A search from the separator, and one from the end.
LEMMA TokenHere ==
  ASSUME NEW text \in Seq(Bits!Chars), NEW sep
  PROVE  /\ \A q \in 1 .. Len(text) : text[q] = sep => Bits!nexttoken(text, q, sep) = q + 1
         /\ Bits!nexttoken(text, Len(text) + 1, sep) = 0
<1>1. ASSUME NEW q \in 1 .. Len(text), text[q] = sep PROVE Bits!nexttoken(text, q, sep) = q + 1
  <2>1. PICK c : c = Bits!nexttoken(text, q, sep)
    OBVIOUS
  <2>2. q \in 1 .. Len(text) + 1 /\ q \in q .. Len(text)
    OBVIOUS
  <2>3. c # 0 /\ c \in q + 1 .. Len(text) + 1 /\ \A k \in q .. c - 2 : text[k] # sep
    BY <1>1, <2>1, <2>2, TokenIs
  <2>4. ~(q <= c - 2)
    <3>1. ASSUME q <= c - 2 PROVE FALSE
      <4>1. q \in q .. c - 2
        BY <2>3, <3>1
      <4> QED
        BY <1>1, <2>3, <4>1
    <3> QED
      BY <3>1
  <2> QED
    BY <2>1, <2>3, <2>4
<1>2. Bits!nexttoken(text, Len(text) + 1, sep) = 0
  <2>1. PICK q \in 1 .. Len(text) + 1 : q = Len(text) + 1
    OBVIOUS
  <2>2. \A k \in q .. Len(text) : text[k] # sep
    BY <2>1
  <2> QED
    BY <2>1, <2>2, TokenIs
<1> QED
  BY <1>1, <1>2

\* sysfs_parse_bitlist goes on after a number that an int can hold.
LEMMA ReadVerdict ==
  ASSUME NEW p \in Nat, NEW e \in Nat, e # p, NEW v \in 0 .. 15, NEW errno,
         NEW n, n = [end |-> e, erange |-> FALSE, val |-> v]
  PROVE  Bits!Verdict(n, p, errno) = "read"
<1>1. n.end = e /\ n.val = v
  OBVIOUS
<1>2. ~(v = 64 - 1) /\ ~(v > 15)
  OBVIOUS
<1> QED
  BY <1>1, <1>2, Zenon DEF Bits!Verdict, Bits!ULongMod, Bits!INT_MAX

\* Where a range of a list starts, and what both parsers read there.
RangeStart(text, q) == q \in 1 .. Len(text) /\ IsDigit(text, q) /\ ~IsDigit(text, q - 1)
RangeRead(text, q, errno, a, b, e) ==
    /\ Bits!next_range(text, q) = [ok |-> TRUE, a |-> a, b |-> b, s |-> 1, end |-> e]
    /\ Bits!read_range(text, q, errno) = [ret |-> "read", a |-> a, b |-> b, end |-> e]
    /\ e \in q + 1 .. Len(text) + 1
    /\ \/ e = Len(text) + 1 /\ Bits!nexttoken(text, q, Bits!Comma) = 0
       \/ Bits!At(text, e) = Bits!Comma /\ Bits!nexttoken(text, q, Bits!Comma) = e + 1 /\ RangeStart(text, e + 1)

\* The digits of a number hold no separator.
LEMMA NoTokenInDigits ==
  ASSUME NEW text \in Seq(Bits!Chars), NEW p \in 1 .. Len(text) + 1, NEW e, Digits(text, p, 10, e),
         NEW sep \in {17, 18, 20}
  PROVE  Bits!nexttoken(text, p, sep) = Bits!nexttoken(text, e, sep) /\ \A k \in p .. e - 1 : text[k] \in 0 .. 9
<1>1. e \in p .. Len(text) + 1 /\ \A k \in p .. e - 1 : Bits!At(text, k) \in 0 .. 10 - 1
  BY Zenon DEF Digits
<1>2. ASSUME NEW k \in p .. e - 1 PROVE text[k] \in 0 .. 9
  <2>1. k \in Nat /\ k \in 1 .. Len(text)
    BY <1>1
  <2>2. Bits!At(text, k) = text[k]
    BY <2>1, CharAt
  <2>3. 0 .. 10 - 1 = 0 .. 9
    OBVIOUS
  <2> QED
    BY <1>1, <2>2, <2>3, Zenon
<1>3. \A k \in p .. e - 1 : text[k] # sep
  BY <1>2, Small, Zenon
<1> QED
  BY <1>1, <1>2, <1>3, TokenPast

\* What stands after a number of a plain list.
LEMMA AfterNumber ==
  ASSUME NEW text \in Seq(Bits!Chars), PlainList(text), NEW e \in 1 .. Len(text), Bits!At(text, e) \in {17, 18}
  PROVE  RangeStart(text, e + 1) /\ text[e] = Bits!At(text, e)
<1>1. Bits!At(text, e) \notin 0 .. 9
  OBVIOUS
<1>2. IsDigit(text, e + 1)
  BY <1>1, PlainChars, Zenon
<1>3. PICK d \in 1 .. Len(text) + 1 : d = e + 1
  OBVIOUS
<1>4. Bits!At(text, d) \in 0 .. 9
  BY <1>2, <1>3 DEF IsDigit
<1>5. d \in 1 .. Len(text)
  <2>1. Bits!At(text, d) \in 0 .. 23
    BY <1>4
  <2> QED
    BY <2>1, CharInside
<1>6. d - 1 = e
  BY <1>3
<1>7. RangeStart(text, d)
  BY <1>1, <1>4, <1>5, <1>6, Zenon DEF RangeStart, IsDigit
<1>8. text[e] = Bits!At(text, e)
  BY CharAt
<1> QED
  BY <1>3, <1>7, <1>8

\* The step of a range that names none.
LEMMA StepOne ==
  ASSUME NEW e, NEW v, NEW x, x = [ok |-> TRUE, end |-> e, val |-> v], NEW s, s = [x EXCEPT !.val = 1]
  PROVE  s.ok = TRUE /\ s.val = 1 /\ s.end = e
<1>1. s = [ok |-> TRUE, end |-> e, val |-> 1]
  OBVIOUS
<1> QED
  BY <1>1

\* Both parsers read the same range of a plain list.
LEMMA PlainRange ==
  ASSUME NEW text \in Seq(Bits!Chars), PlainList(text), NEW q, RangeStart(text, q), NEW errno
  PROVE  \E a \in 0 .. 15, b \in 0 .. 15, e \in q + 1 .. Len(text) + 1 : RangeRead(text, q, errno, a, b, e)
<1>0. PICK L \in Nat : L = Len(text) /\ q \in 1 .. L
  BY DEF RangeStart
<1>1. PICK v1 \in 0 .. 15, e1 \in q + 1 .. Len(text) + 1 :
         /\ Digits(text, q, 10, e1)
         /\ Bits!nextnumber(text, q) = [ok |-> TRUE, end |-> e1, val |-> v1]
         /\ Bits!strtoull(text, q) = [end |-> e1, erange |-> FALSE, val |-> v1]
         /\ e1 = Len(text) + 1 \/ Bits!At(text, e1) \in {17, 18}
  BY PlainNumber DEF RangeStart
<1>2. PICK a1 : a1 = Bits!nextnumber(text, q) /\ a1.ok = TRUE /\ a1.end = e1 /\ a1.val = v1
                /\ a1 = [ok |-> TRUE, end |-> e1, val |-> v1]
  BY <1>1
<1>3. PICK a2 : a2 = Bits!strtoull(text, q) /\ a2.end = e1 /\ a2.val = v1 /\ Bits!Verdict(a2, q, errno) = "read"
  <2>1. PICK x : x = [end |-> e1, erange |-> FALSE, val |-> v1]
    OBVIOUS
  <2>2. q \in Nat /\ e1 \in Nat /\ e1 # q
    BY <1>0
  <2>3. Bits!Verdict(x, q, errno) = "read"
    BY <2>1, <2>2, ReadVerdict
  <2>4. x.end = e1 /\ x.val = v1
    BY <2>1
  <2> QED
    BY <1>1, <2>1, <2>3, <2>4, Zenon
<1>4. PICK c1, c2 : c1 = Bits!nexttoken(text, e1, 18) /\ c2 = Bits!nexttoken(text, e1, 17)
  OBVIOUS
<1>5. Bits!nexttoken(text, q, 17) = c2
  <2>1. q \in 1 .. Len(text) + 1 /\ 17 \in {17, 18, 20}
    BY <1>0
  <2> QED
    BY <1>1, <1>4, <2>1, NoTokenInDigits, Zenon
<1>6. e1 \in 1 .. Len(text) + 1
  BY <1>0
<1>7. CASE ~(c1 # 0 /\ (c2 = 0 \/ c1 < c2)) /\ Bits!At(text, e1) # 18
           /\ \/ e1 = Len(text) + 1 /\ c2 = 0
              \/ Bits!At(text, e1) = 17 /\ c2 = e1 + 1 /\ RangeStart(text, e1 + 1)
  <2>1. PICK s : s = [a1 EXCEPT !.val = 1] /\ s.ok = TRUE /\ s.val = 1 /\ s.end = e1
    <3>1. PICK s : s = [a1 EXCEPT !.val = 1]
      OBVIOUS
    <3>2. a1 = [ok |-> TRUE, end |-> e1, val |-> v1]
      BY <1>2
    <3>3. s.ok = TRUE /\ s.val = 1 /\ s.end = e1
      BY <3>1, <3>2, StepOne
    <3> QED
      BY <3>1, <3>3
  <2>2. Bits!next_range(text, q) = [ok |-> a1.ok /\ a1.ok /\ s.ok, a |-> a1.val, b |-> a1.val, s |-> s.val, end |-> s.end]
    BY <1>2, <1>4, <1>7, <2>1, ZenonT(60) DEF Bits!next_range, Bits!NULL, Bits!Comma, Bits!Dash
  <2>3. (a1.ok /\ a1.ok /\ s.ok) = TRUE
    BY <1>2, <2>1
  <2>4. Bits!next_range(text, q) = [ok |-> TRUE, a |-> v1, b |-> v1, s |-> 1, end |-> e1]
    BY <1>2, <2>1, <2>2, <2>3, Zenon
  <2>5. Bits!read_range(text, q, errno) = [ret |-> "read", a |-> a2.val, b |-> a2.val, end |-> a2.end]
    BY <1>3, <1>7, Zenon DEF Bits!read_range, Bits!Dash
  <2>6. RangeRead(text, q, errno, v1, v1, e1)
    BY <1>1, <1>3, <1>5, <1>7, <2>4, <2>5, Zenon DEF RangeRead, Bits!Comma
  <2> QED
    BY <2>6
<1>8. CASE Bits!At(text, e1) = 18 /\ e1 \in 1 .. Len(text)
  <2>1. RangeStart(text, e1 + 1) /\ text[e1] = 18
    BY <1>8, AfterNumber
  <2>2. PICK p : p = e1 + 1
    OBVIOUS
  <2>3. PICK v2 \in 0 .. 15, e2 \in p + 1 .. Len(text) + 1 :
           /\ Digits(text, p, 10, e2)
           /\ Bits!nextnumber(text, p) = [ok |-> TRUE, end |-> e2, val |-> v2]
           /\ Bits!strtoull(text, p) = [end |-> e2, erange |-> FALSE, val |-> v2]
           /\ e2 = Len(text) + 1 \/ Bits!At(text, e2) \in {17, 18}
    BY <2>1, <2>2, PlainNumber DEF RangeStart
  <2>4. p \in 1 .. Len(text) + 1 /\ e2 \in 1 .. Len(text) + 1 /\ e1 \in 1 .. e2 - 1
    BY <1>6, <1>8, <2>2
  <2>5. PICK b1 : b1 = Bits!nextnumber(text, p) /\ b1.ok = TRUE /\ b1.end = e2 /\ b1.val = v2
                  /\ b1 = [ok |-> TRUE, end |-> e2, val |-> v2]
    BY <2>3
  <2>6. PICK b2 : b2 = Bits!strtoull(text, p) /\ b2.end = e2 /\ b2.val = v2 /\ Bits!Verdict(b2, p, errno) = "read"
    <3>1. PICK x : x = [end |-> e2, erange |-> FALSE, val |-> v2]
      OBVIOUS
    <3>2. p \in Nat /\ e2 \in Nat /\ e2 # p
      BY <2>4
    <3>3. Bits!Verdict(x, p, errno) = "read"
      BY <3>1, <3>2, ReadVerdict
    <3>4. x.end = e2 /\ x.val = v2
      BY <3>1
    <3> QED
      BY <2>3, <3>1, <3>3, <3>4, Zenon
  <2>7. \A k \in p .. e2 - 1 : text[k] \in 0 .. 9
    BY <2>3, <2>4, NoTokenInDigits
  <2>8. Bits!nexttoken(text, p, 17) = Bits!nexttoken(text, e2, 17)
    <3>1. 17 \in {17, 18, 20}
      OBVIOUS
    <3> QED
      BY <2>3, <2>4, <3>1, NoTokenInDigits, Zenon
  <2>9. c1 = e1 + 1
    BY <1>4, <1>8, <2>1, TokenHere
  <2>10. c2 = Bits!nexttoken(text, e2, 17)
    <3>1. \A k \in e1 .. p - 1 : text[k] # 17
      BY <2>1, <2>2
    <3>2. e1 \in 1 .. Len(text) + 1 /\ p \in e1 .. Len(text) + 1
      BY <1>6, <2>2, <2>4
    <3>3. Bits!nexttoken(text, e1, 17) = Bits!nexttoken(text, p, 17)
      BY <3>1, <3>2, TokenPast
    <3> QED
      BY <1>4, <2>8, <3>3
  <2>11. c2 = 0 \/ c1 < c2
    <3>1. c2 # 0 => c2 \in e2 + 1 .. Len(text) + 1
      BY <2>4, <2>10, TokenIs
    <3> QED
      BY <2>4, <2>9, <3>1
  <2>12. Bits!nexttoken(text, e2, 20) = 0
    <3>1. ASSUME NEW k \in e2 .. Len(text) PROVE text[k] # 20
      <4>1. k \in 1 .. Len(text) /\ k \in Nat
        BY <2>4
      <4>2. Bits!At(text, k) = text[k]
        BY <4>1, CharAt
      <4>3. Bits!At(text, k) \in 0 .. 9 \/ Bits!At(text, k) \in {17, 18}
        BY <4>1, PlainChars, Zenon
      <4>4. text[k] \in 0 .. 9 \cup {17, 18}
        BY <4>2, <4>3, Zenon
      <4> QED
        BY <4>4, Small, Zenon
    <3> QED
      BY <2>4, <3>1, TokenIs
  <2>13. \/ e2 = Len(text) + 1 /\ c2 = 0
         \/ e2 \in 1 .. Len(text) /\ Bits!At(text, e2) = 17 /\ c2 = e2 + 1 /\ RangeStart(text, e2 + 1)
    <3>1. CASE e2 = Len(text) + 1
      BY <2>10, <3>1, TokenHere
    <3>2. CASE e2 \in 1 .. Len(text)
      <4>1. Bits!At(text, e2) \in {17, 18} /\ text[e2] = Bits!At(text, e2) /\ RangeStart(text, e2 + 1)
        <5>1. Bits!At(text, e2) \in {17, 18}
          BY <2>3, <3>2
        <5> QED
          BY <3>2, <5>1, AfterNumber
      <4>2. text[e2] # 18
        <5>1. ASSUME text[e2] = 18 PROVE FALSE
          <6>1. e1 \in 1 .. Len(text) /\ e1 < e2
            BY <1>8, <2>4
          <6>2. PICK c \in e1 .. e2 : text[c] = 17
            BY <2>1, <3>2, <5>1, <6>1, PlainChars, Zenon
          <6>3. c # e1 /\ c # e2
            BY <2>1, <5>1, <6>2
          <6>4. c \in p .. e2 - 1
            BY <2>2, <2>4, <6>3
          <6>5. text[c] \in 0 .. 9 /\ 17 \in {17, 18, 20, 22, 24}
            BY <2>7, <6>4
          <6> QED
            BY <6>2, <6>5, Small, Zenon
        <5> QED
          BY <5>1
      <4>3. c2 = e2 + 1
        BY <2>10, <3>2, <4>1, <4>2, TokenHere
      <4> QED
        BY <3>2, <4>1, <4>2, <4>3
    <3> QED
      BY <2>4, <3>1, <3>2
  <2>14. PICK s : s = [b1 EXCEPT !.val = 1] /\ s.ok = TRUE /\ s.val = 1 /\ s.end = e2
    <3>1. PICK s : s = [b1 EXCEPT !.val = 1]
      OBVIOUS
    <3>2. b1 = [ok |-> TRUE, end |-> e2, val |-> v2]
      BY <2>5
    <3>3. s.ok = TRUE /\ s.val = 1 /\ s.end = e2
      BY <3>1, <3>2, StepOne
    <3> QED
      BY <3>1, <3>3
  <2>15. c1 # 0 /\ (c2 = 0 \/ c1 < c2) /\ c1 = p
    BY <2>2, <2>4, <2>9, <2>11
  <2>16. Bits!next_range(text, q) = [ok |-> a1.ok /\ b1.ok /\ s.ok, a |-> a1.val, b |-> b1.val, s |-> s.val, end |-> s.end]
    BY <1>2, <1>4, <2>5, <2>12, <2>14, <2>15, ZenonT(60) DEF Bits!next_range, Bits!NULL, Bits!Comma, Bits!Dash, Bits!Colon
  <2>17. (a1.ok /\ b1.ok /\ s.ok) = TRUE
    BY <1>2, <2>5, <2>14
  <2>18. Bits!next_range(text, q) = [ok |-> TRUE, a |-> v1, b |-> v2, s |-> 1, end |-> e2]
    BY <1>2, <2>5, <2>14, <2>16, <2>17, Zenon
  <2>19. Bits!read_range(text, q, errno) = [ret |-> "read", a |-> a2.val, b |-> b2.val, end |-> b2.end]
    BY <1>3, <1>8, <2>2, <2>6, Zenon DEF Bits!read_range, Bits!Dash
  <2>20. e2 \in q + 1 .. Len(text) + 1
    BY <1>0, <2>4
  <2>21. RangeRead(text, q, errno, v1, v2, e2)
    BY <1>3, <1>5, <2>6, <2>13, <2>18, <2>19, <2>20, Zenon DEF RangeRead, Bits!Comma
  <2> QED
    BY <2>20, <2>21
<1>9. e1 = Len(text) + 1 => c1 = 0 /\ c2 = 0 /\ Bits!At(text, e1) # 18
  <2>1. Bits!At(text, Len(text) + 1) = 24
    BY CharAt
  <2> QED
    BY <1>4, <2>1, TokenHere
<1>10. Bits!At(text, e1) = 17 /\ e1 \in 1 .. Len(text) => ~(c1 # 0 /\ (c2 = 0 \/ c1 < c2)) /\ c2 = e1 + 1 /\ RangeStart(text, e1 + 1)
  <2>1. SUFFICES ASSUME Bits!At(text, e1) = 17, e1 \in 1 .. Len(text)
                 PROVE  ~(c1 # 0 /\ (c2 = 0 \/ c1 < c2)) /\ c2 = e1 + 1 /\ RangeStart(text, e1 + 1)
    OBVIOUS
  <2>2. RangeStart(text, e1 + 1) /\ text[e1] = 17
    BY <2>1, AfterNumber
  <2>3. c2 = e1 + 1
    BY <1>4, <2>1, <2>2, TokenHere
  <2>4. c1 # 0 => c1 \in e1 + 1 .. Len(text) + 1 /\ text[c1 - 1] = 18
    BY <1>4, <1>6, TokenIs
  <2>5. c1 # e1 + 1
    <3>1. ASSUME c1 = e1 + 1 PROVE FALSE
      <4>1. c1 # 0 /\ c1 - 1 = e1
        BY <2>1, <3>1
      <4> QED
        BY <2>2, <2>4, <4>1
    <3> QED
      BY <3>1
  <2>6. ~(c1 # 0 /\ (c2 = 0 \/ c1 < c2))
    BY <2>1, <2>3, <2>4, <2>5
  <2> QED
    BY <2>2, <2>3, <2>6
<1>11. e1 \in 1 .. Len(text) \/ e1 = Len(text) + 1
  BY <1>6
<1>12. 17 # 18
  OBVIOUS
<1> QED
  BY <1>1, <1>7, <1>8, <1>9, <1>10, <1>11, <1>12, Zenon

\* The two loops after k turns each on a plain list: both are before the same
\* range, or past the last one, or have refused the list.
Before(text, k, t, u) ==
    /\ t.ok /\ u.ret = "read" /\ u.bits = t.bits
    /\ t.q >= k + 1 /\ RangeStart(text, t.q)
    /\ \/ u.pos = t.q
       \/ u.pos = t.q - 1 /\ Bits!At(text, u.pos) = Bits!Comma
Past(text, k, t, u) ==
    /\ t.ok /\ t.q = 0 /\ t.end = Len(text) + 1 /\ u.bits = t.bits
    /\ \/ u.ret = "ok"
       \/ u.ret = "read" /\ u.pos = Len(text) + 1 /\ k <= Len(text)
Refused(t, u) == ~t.ok /\ u.ret = "error"
InStep(text, k, t, u) == Before(text, k, t, u) \/ Past(text, k, t, u) \/ Refused(t, u)

\* Both start before the first range.
LEMMA StartInStep ==
  ASSUME NEW text \in Seq(Bits!Chars), PlainList(text), NEW nbits
  PROVE  InStep(text, 0, Bits!StringStart(nbits), Bits!SysfsStart(nbits))
<1>1. Bits!At(text, 0) = 24
  BY CharAt
<1>2. ~IsDigit(text, 1 - 1)
  BY <1>1 DEF IsDigit
<1>3. 1 \in 1 .. Len(text)
  BY PlainChars
<1>4. Bits!At(text, 1) \in 0 .. 9
  BY <1>2, <1>3, PlainChars, Zenon
<1>5. RangeStart(text, 1)
  BY <1>2, <1>3, <1>4, Zenon DEF RangeStart, IsDigit
<1>6. Before(text, 0, Bits!StringStart(nbits), Bits!SysfsStart(nbits))
  <2>1. PICK t, u : t = Bits!StringStart(nbits) /\ u = Bits!SysfsStart(nbits)
    OBVIOUS
  <2>2. t.ok /\ t.q = 1 /\ t.bits = Bits!bitmap_init(nbits, FALSE)
    BY <2>1 DEF Bits!StringStart
  <2>3. u.ret = "read" /\ u.pos = 1 /\ u.bits = Bits!bitmap_init(nbits, FALSE)
    BY <2>1 DEF Bits!SysfsStart
  <2>4. 1 >= 0 + 1
    OBVIOUS
  <2>5. u.bits = t.bits /\ u.pos = t.q /\ t.q >= 0 + 1 /\ RangeStart(text, t.q)
    BY <1>5, <2>2, <2>3, <2>4, Zenon
  <2>6. Before(text, 0, t, u)
    BY <2>2, <2>3, <2>5, Zenon DEF Before
  <2> QED
    BY <2>1, <2>6
<1> QED
  BY <1>6 DEF InStep

\* They go on together.
LEMMA TurnsInStep ==
  ASSUME NEW text \in Seq(Bits!Chars), PlainList(text), NEW nbits \in Nat, NEW errno,
         NEW k \in 0 .. Len(text), NEW t \in StringStates(Len(text), nbits), NEW u \in SysfsStates(Len(text), nbits),
         InStep(text, k, t, u)
  PROVE  InStep(text, k + 1, Bits!StringTurn(text, nbits, t), Bits!SysfsTurn(text, nbits, errno, u))
<1>1. PICK t1, u1 : t1 = Bits!StringTurn(text, nbits, t) /\ u1 = Bits!SysfsTurn(text, nbits, errno, u)
  OBVIOUS
<1>2. PICK p \in 1 .. Len(text) + 1 : p = u.pos
  BY DEF SysfsStates
<1>3. PICK m : m = Bits!Min({q \in p .. Len(text) + 1 : Bits!At(text, q) # Bits!Comma})
  OBVIOUS
<1>4. m \in p .. Len(text) + 1 /\ Bits!At(text, m) # Bits!Comma /\ \A q \in p .. m - 1 : Bits!At(text, q) = Bits!Comma
  BY <1>3, SkipsTo
<1>5. PICK r : r = Bits!read_range(text, m, errno)
  OBVIOUS
<1>6. u1 = IF u.ret # "read" THEN u
           ELSE IF Bits!At(text, m) \in {Bits!NUL, Bits!Newline} THEN [u EXCEPT !.ret = "ok"]
           ELSE IF r.ret # "read" THEN [u EXCEPT !.ret = r.ret]
           ELSE IF r.b < r.a \/ r.b >= nbits THEN [u EXCEPT !.ret = "error"]
           ELSE [u EXCEPT !.pos = r.end, !.bits = @ \cup r.a .. r.b]
  BY <1>1, <1>2, <1>3, <1>5, Zenon DEF Bits!SysfsTurn, Bits!SysfsRange
<1>7. \A v : LET w == [u EXCEPT !.ret = v] IN w.ret = v /\ w.pos = u.pos /\ w.bits = u.bits
  BY DEF SysfsStates
<1>8. CASE Refused(t, u)
  <2>1. t1 = t
    BY <1>1, <1>8, Zenon DEF Bits!StringTurn, Bits!StringState, Refused
  <2>2. u.ret # "read"
    BY <1>8 DEF Refused
  <2>3. u1 = u
    BY <1>6, <2>2, Zenon
  <2> QED
    BY <1>1, <1>8, <2>1, <2>3, Zenon DEF InStep
<1>9. CASE Past(text, k, t, u)
  <2>1. t1 = t
    BY <1>1, <1>9, Zenon DEF Bits!StringTurn, Bits!StringState, Past, Bits!NULL
  <2>2. CASE u.ret = "ok"
    <3>1. u1 = u
      BY <1>6, <2>2
    <3>2. Past(text, k + 1, t, u)
      BY <1>9, <2>2, Zenon DEF Past
    <3>3. Past(text, k + 1, t1, u1)
      BY <2>1, <3>1, <3>2
    <3> QED
      BY <1>1, <3>3, Zenon DEF InStep
  <2>3. CASE u.ret = "read" /\ u.pos = Len(text) + 1
    <3>1. m = Len(text) + 1
      BY <1>2, <1>4, <2>3
    <3>2. Bits!At(text, m) = Bits!NUL
      BY <3>1, CharAt DEF Bits!NUL
    <3>3. u1 = [u EXCEPT !.ret = "ok"]
      BY <1>6, <2>3, <3>2, Zenon
    <3>4. u1.ret = "ok" /\ u1.bits = u.bits
      BY <1>7, <3>3, Zenon
    <3>5. t1.ok /\ t1.q = 0 /\ t1.end = Len(text) + 1 /\ u1.bits = t1.bits
      <4>1. t.ok /\ t.q = 0 /\ t.end = Len(text) + 1 /\ u.bits = t.bits
        BY <1>9, Zenon DEF Past
      <4> QED
        BY <2>1, <3>4, <4>1, Zenon
    <3>6. Past(text, k + 1, t1, u1)
      BY <3>4, <3>5, Zenon DEF Past
    <3> QED
      BY <1>1, <3>6, Zenon DEF InStep
  <2> QED
    BY <1>9, <2>2, <2>3 DEF Past
<1>10. CASE Before(text, k, t, u)
  <2>1. PICK q \in 1 .. Len(text) : q = t.q /\ RangeStart(text, q) /\ q >= k + 1
    BY <1>10 DEF Before, RangeStart
  <2>2. t.ok /\ u.ret = "read" /\ u.bits = t.bits /\ (p = q \/ (p = q - 1 /\ Bits!At(text, p) = 17))
    BY <1>2, <1>10, <2>1, Zenon DEF Before, Bits!Comma
  <2>3. PICK a \in 0 .. 15, b \in 0 .. 15, e \in q + 1 .. Len(text) + 1 : RangeRead(text, q, errno, a, b, e)
    BY <2>1, PlainRange
  <2>4. Bits!At(text, q) \in 0 .. 9
    BY <2>1 DEF RangeStart, IsDigit
  <2>5. m = q
    <3>1. m # q - 1
      <4>1. ASSUME m = q - 1 PROVE FALSE
        <5>1. p = q - 1 /\ Bits!At(text, p) = 17
          BY <1>4, <2>2, <4>1
        <5> QED
          BY <1>4, <4>1, <5>1 DEF Bits!Comma
      <4> QED
        BY <4>1
    <3>2. ~(q < m)
      <4>1. ASSUME q < m PROVE FALSE
        <5>1. q \in p .. m - 1
          BY <1>4, <2>2, <4>1
        <5>2. Bits!At(text, q) = 17
          BY <1>4, <5>1 DEF Bits!Comma
        <5> QED
          BY <2>4, <5>2
      <4> QED
        BY <4>1
    <3> QED
      BY <1>4, <2>2, <3>1, <3>2
  <2>6. PICK n : n = Bits!next_range(text, q) /\ n = [ok |-> TRUE, a |-> a, b |-> b, s |-> 1, end |-> e]
    BY <2>3, Zenon DEF RangeRead
  <2>7. n.ok /\ n.a = a /\ n.b = b /\ n.s = 1 /\ n.end = e
    BY <2>6
  <2>8. r = [ret |-> "read", a |-> a, b |-> b, end |-> e]
    BY <1>5, <2>3, <2>5, Zenon DEF RangeRead
  <2>9. r.ret = "read" /\ r.a = a /\ r.b = b /\ r.end = e
    BY <2>8
  <2>10. PICK done : done = Bits!RangeStep(nbits, t.bits, n)
    OBVIOUS
  <2>11. (done.ok <=> a <= b /\ b < nbits) /\ (done.ok => done.bits = t.bits \cup (a .. b))
    <3>1. Outcome(nbits, t.bits, a, b, done)
      BY <2>7, <2>10, OneRange
    <3> QED
      BY <3>1, Zenon DEF Outcome
  <2>12. done.ok \in BOOLEAN
    <3>1. t.bits \subseteq 0 .. nbits - 1
      BY DEF StringStates
    <3>2. n.a \in Nat /\ n.s \in Nat
      BY <2>7
    <3> QED
      BY <2>10, <3>1, <3>2, StepInside
  <2>13. PICK c : c = Bits!nexttoken(text, q, Bits!Comma)
    OBVIOUS
  <2>14. t1 = [q |-> c, end |-> e, ok |-> done.ok, bits |-> done.bits]
    <3>1. ~(t.q = Bits!NULL \/ ~t.ok)
      BY <2>1, <2>2 DEF Bits!NULL
    <3> QED
      BY <1>1, <2>1, <2>6, <2>7, <2>10, <2>13, <3>1, Zenon DEF Bits!StringTurn, Bits!StringState
  <2>15. t1.q = c /\ t1.end = e /\ t1.ok = done.ok /\ t1.bits = done.bits
    BY <2>14
  <2>16. u1 = IF b < a \/ b >= nbits THEN [u EXCEPT !.ret = "error"]
              ELSE [u EXCEPT !.pos = e, !.bits = @ \cup a .. b]
    <3>1. ~(Bits!At(text, m) \in {Bits!NUL, Bits!Newline})
      BY <2>4, <2>5, Small, Zenon DEF Bits!NUL, Bits!Newline
    <3> QED
      BY <1>6, <2>2, <2>9, <3>1, Zenon
  <2>17. CASE ~(a <= b /\ b < nbits)
    <3>1. u1 = [u EXCEPT !.ret = "error"]
      <4>1. b < a \/ b >= nbits
        BY <2>17
      <4> QED
        BY <2>16, <4>1, Zenon
    <3>2. u1.ret = "error"
      BY <1>7, <3>1, Zenon
    <3>3. ~t1.ok
      BY <2>11, <2>12, <2>15, <2>17
    <3> QED
      BY <1>1, <3>2, <3>3, Zenon DEF InStep, Refused
  <2>18. CASE a <= b /\ b < nbits
    <3>1. u1 = [u EXCEPT !.pos = e, !.bits = @ \cup a .. b]
      <4>1. ~(b < a \/ b >= nbits)
        BY <2>18
      <4> QED
        BY <2>16, <4>1, Zenon
    <3>2. u1.ret = "read" /\ u1.pos = e /\ u1.bits = t.bits \cup (a .. b)
      BY <2>2, <3>1 DEF SysfsStates
    <3>3. t1.ok /\ t1.bits = t.bits \cup (a .. b)
      BY <2>11, <2>12, <2>15, <2>18
    <3>4. e \in q + 1 .. Len(text) + 1
      BY <2>3, Zenon DEF RangeRead
    <3>5. \/ e = Len(text) + 1 /\ c = 0
          \/ Bits!At(text, e) = Bits!Comma /\ c = e + 1 /\ RangeStart(text, e + 1)
      BY <2>3, <2>13, Zenon DEF RangeRead
    <3>6. CASE e = Len(text) + 1 /\ c = 0
      <4>1. k + 1 <= Len(text)
        BY <2>1
      <4>2. Past(text, k + 1, t1, u1)
        BY <2>15, <3>2, <3>3, <3>6, <4>1, Zenon DEF Past
      <4> QED
        BY <1>1, <4>2, Zenon DEF InStep
    <3>7. CASE Bits!At(text, e) = Bits!Comma /\ c = e + 1 /\ RangeStart(text, e + 1)
      <4>1. c >= k + 1 + 1
        BY <2>1, <3>4, <3>7
      <4>2. e = c - 1
        BY <3>4, <3>7
      <4>3. Before(text, k + 1, t1, u1)
        BY <2>15, <3>2, <3>3, <3>7, <4>1, <4>2, Zenon DEF Before
      <4> QED
        BY <1>1, <4>3, Zenon DEF InStep
    <3> QED
      BY <3>5, <3>6, <3>7
  <2> QED
    BY <2>17, <2>18
<1> QED
  BY <1>8, <1>9, <1>10 DEF InStep

\* The file of a plain list is that line.
LEMMA PlainLine ==
  ASSUME NEW text \in Seq(Bits!Chars), PlainList(text)
  PROVE  Bits!fgets(text) = text
<1>1. PICK L \in Nat : L = Len(text) /\ DOMAIN text = 1 .. L
  OBVIOUS
<1>2. {k \in DOMAIN text : text[k] = Bits!Newline} = {}
  <2>1. ASSUME NEW k \in 1 .. L PROVE text[k] # 22
    <3>1. k \in 1 .. Len(text) /\ k \in Nat
      BY <1>1
    <3>2. Bits!At(text, k) = text[k]
      BY <3>1, CharAt
    <3>3. Bits!At(text, k) \in 0 .. 9 \/ Bits!At(text, k) \in {17, 18}
      BY <3>1, PlainChars, Zenon
    <3> QED
      BY <3>2, <3>3
  <2> QED
    BY <1>1, <2>1 DEF Bits!Newline
<1>3. {k \in DOMAIN text : text[k] = Bits!Newline} \cup {Len(text)} = {L}
  BY <1>1, <1>2
<1>4. Bits!Min({L}) = L
  <2>1. {L} \subseteq Nat /\ {L} # {}
    OBVIOUS
  <2>2. Bits!Min({L}) \in {L}
    BY <2>1, MinOf
  <2> QED
    BY <2>2
<1>5. Bits!fgets(text) = SubSeq(text, 1, L)
  BY <1>3, <1>4, Zenon DEF Bits!fgets
<1>6. SubSeq(text, 1, L) = text
  BY <1>1
<1> QED
  BY <1>5, <1>6

\* A line of a file is a text.
LEMMA LineIsText ==
  ASSUME NEW text \in Seq(Bits!Chars)
  PROVE  Bits!fgets(text) \in Seq(Bits!Chars)
<1> DEFINE ends == {k \in DOMAIN text : text[k] = Bits!Newline} \cup {Len(text)}
<1>1. PICK L \in Nat : L = Len(text) /\ DOMAIN text = 1 .. L
  OBVIOUS
<1>2. Bits!Min(ends) \in 0 .. L
  <2>1. ends \subseteq 0 .. L
    BY <1>1
  <2>2. ends \subseteq Nat /\ ends # {}
    BY <1>1
  <2> HIDE DEF ends
  <2>3. Bits!Min(ends) \in ends
    BY <2>2, MinOf
  <2> QED
    BY <2>1, <2>3
<1>3. PICK m \in 0 .. L : m = Bits!Min(ends)
  BY <1>2
<1>4. Bits!fgets(text) = SubSeq(text, 1, m)
  BY <1>3, Zenon DEF Bits!fgets
<1>5. SubSeq(text, 1, m) \in Seq(Bits!Chars)
  <2>1. 1 \in 1 .. Len(text) + 1 /\ m \in 1 - 1 .. Len(text)
    BY <1>1
  <2> QED
    BY <2>1, SubSeqProperties
<1> QED
  BY <1>4, <1>5

\* The parts of a result.
LEMMA ParsedHas ==
  ASSUME NEW ok, NEW bits
  PROVE  Bits!Parsed(ok, bits).ok = ok /\ Bits!Parsed(ok, bits).bits = bits
  BY DEF Bits!Parsed

\* Every text sets only bits of the bitmap, in both parsers.
LEMMA ParsersInside ==
  ASSUME NEW text \in Seq(Bits!Chars), NEW nbits \in Nat, NEW errno
  PROVE  /\ Bits!string_to_bitmap(text, nbits).bits \subseteq 0 .. nbits - 1
         /\ Bits!sysfs_parse_bitlist(text, nbits, errno).bits \subseteq 0 .. nbits - 1
<1>1. PICK N \in Nat : N = Len(text) + 1
  OBVIOUS
<1>2. PICK g \in [0 .. N -> StringStates(Len(text), nbits)] :
        Bits!string_to_bitmap(text, nbits) = Bits!Parsed(g[N].ok /\ Bits!At(text, g[N].end) = Bits!NUL, g[N].bits)
  <2>1. StringRuns(text, nbits, N)
    BY <1>1, StringTurns
  <2> QED
    BY <2>1, Zenon DEF StringRuns
<1>3. PICK line \in Seq(Bits!Chars) : line = Bits!fgets(text)
  BY LineIsText
<1>4. PICK M \in Nat : M = Len(line) + 1
  OBVIOUS
<1>5. PICK h \in [0 .. M -> SysfsStates(Len(line), nbits)] :
        Bits!sysfs_parse_bitlist(text, nbits, errno) = Bits!Parsed(text # <<>> /\ h[M].ret = "ok", h[M].bits)
  <2>1. SysfsRuns(text, line, nbits, errno, M)
    BY <1>3, <1>4, SysfsTurns
  <2> QED
    BY <2>1, Zenon DEF SysfsRuns
<1>6. g[N].bits \subseteq 0 .. nbits - 1
  BY DEF StringStates
<1>7. h[M].bits \subseteq 0 .. nbits - 1
  BY DEF SysfsStates
<1>8. Bits!string_to_bitmap(text, nbits).bits = g[N].bits
  <2>1. PICK ok : ok = (g[N].ok /\ Bits!At(text, g[N].end) = Bits!NUL)
    OBVIOUS
  <2>2. Bits!string_to_bitmap(text, nbits) = Bits!Parsed(ok, g[N].bits)
    BY <1>2, <2>1, Zenon
  <2> QED
    BY <2>2, ParsedHas
<1>9. Bits!sysfs_parse_bitlist(text, nbits, errno).bits = h[M].bits
  <2>1. PICK ok : ok = (text # <<>> /\ h[M].ret = "ok")
    OBVIOUS
  <2>2. Bits!sysfs_parse_bitlist(text, nbits, errno) = Bits!Parsed(ok, h[M].bits)
    BY <1>5, <2>1, Zenon
  <2> QED
    BY <2>2, ParsedHas
<1> QED
  BY <1>6, <1>7, <1>8, <1>9

\* On a plain list the two return the same.
LEMMA ParsersAgree ==
  ASSUME NEW text \in Seq(Bits!Chars), PlainList(text), NEW nbits \in Nat, NEW errno,
         NEW ret, ret = Bits!string_to_bitmap(text, nbits),
         NEW sysfs, sysfs = Bits!sysfs_parse_bitlist(text, nbits, errno)
  PROVE  ret.ok = sysfs.ok /\ (ret.ok => ret.bits = sysfs.bits)
<1>1. PICK N \in Nat : N = Len(text) + 1 /\ N - 1 = Len(text)
  OBVIOUS
<1>2. PICK g \in [0 .. N -> StringStates(Len(text), nbits)] :
        /\ g[0] = Bits!StringStart(nbits)
        /\ \A k \in 1 .. N : g[k] = Bits!StringTurn(text, nbits, g[k - 1])
        /\ ret = Bits!Parsed(g[N].ok /\ Bits!At(text, g[N].end) = Bits!NUL, g[N].bits)
  <2>1. StringRuns(text, nbits, N)
    BY <1>1, StringTurns
  <2> QED
    BY <2>1, Zenon DEF StringRuns
<1>3. PICK h \in [0 .. N -> SysfsStates(Len(text), nbits)] :
        /\ h[0] = Bits!SysfsStart(nbits)
        /\ \A k \in 1 .. N : h[k] = Bits!SysfsTurn(text, nbits, errno, h[k - 1])
        /\ sysfs = Bits!Parsed(text # <<>> /\ h[N].ret = "ok", h[N].bits)
  <2>1. text = Bits!fgets(text)
    BY PlainLine
  <2>2. SysfsRuns(text, text, nbits, errno, N)
    BY <1>1, <2>1, SysfsTurns
  <2> QED
    BY <2>2, Zenon DEF SysfsRuns
<1> DEFINE S == {k \in 0 .. N : InStep(text, k, g[k], h[k])}
<1>4. 0 \in S
  BY <1>2, <1>3, StartInStep
<1>5. ASSUME NEW k \in 0 .. N - 1, k \in S PROVE k + 1 \in S
  <2>1. PICK i \in 1 .. N : i = k + 1 /\ i - 1 = k
    OBVIOUS
  <2>2. g[i] = Bits!StringTurn(text, nbits, g[k]) /\ h[i] = Bits!SysfsTurn(text, nbits, errno, h[k])
    BY <1>2, <1>3, <2>1
  <2>3. k \in 0 .. Len(text) /\ InStep(text, k, g[k], h[k]) /\ g[k] \in StringStates(Len(text), nbits)
        /\ h[k] \in SysfsStates(Len(text), nbits)
    BY <1>1, <1>5
  <2>4. InStep(text, k + 1, g[i], h[i])
    BY <2>2, <2>3, TurnsInStep
  <2> QED
    BY <2>1, <2>4
<1>6. \A k \in 0 .. N : k \in S
  <2> HIDE DEF S
  <2> QED
    BY <1>4, <1>5, UpTo
<1>7. PICK t, u : t = g[N] /\ u = h[N] /\ InStep(text, N, t, u) /\ t.ok \in BOOLEAN
  <2>1. N \in S
    BY <1>6
  <2>2. g[N].ok \in BOOLEAN
    BY DEF StringStates
  <2> QED
    BY <2>1, <2>2
<1>8. ~Before(text, N, t, u)
  <2>1. ASSUME Before(text, N, t, u) PROVE FALSE
    <3>1. t.q \in 1 .. Len(text) /\ t.q >= N + 1
      BY <2>1, Zenon DEF Before, RangeStart
    <3> QED
      BY <1>1, <3>1
  <2> QED
    BY <2>1
<1>9. PICK end : end = (t.ok /\ Bits!At(text, t.end) = Bits!NUL) /\ ret = Bits!Parsed(end, t.bits)
  BY <1>2, <1>7, Zenon
<1>10. PICK done : done = (text # <<>> /\ u.ret = "ok") /\ sysfs = Bits!Parsed(done, u.bits)
  BY <1>3, <1>7, Zenon
<1>11. ret.ok = end /\ ret.bits = t.bits /\ sysfs.ok = done /\ sysfs.bits = u.bits
  BY <1>9, <1>10 DEF Bits!Parsed
<1>12. text # <<>>
  BY DEF PlainList
<1>13. CASE Past(text, N, t, u)
  <2>1. t.ok /\ t.end = Len(text) + 1 /\ u.bits = t.bits
    BY <1>13, Zenon DEF Past
  <2>2. u.ret = "ok"
    <3>1. ~(N <= Len(text))
      BY <1>1
    <3> QED
      BY <1>13, <3>1, Zenon DEF Past
  <2>3. Bits!At(text, t.end) = Bits!NUL
    BY <2>1, CharAt DEF Bits!NUL
  <2>4. end = TRUE /\ done = TRUE
    BY <1>9, <1>10, <1>12, <2>1, <2>2, <2>3
  <2> QED
    BY <1>11, <2>1, <2>4
<1>14. CASE Refused(t, u)
  <2>1. ~t.ok /\ u.ret # "ok"
    BY <1>14 DEF Refused
  <2>2. end = FALSE /\ done = FALSE
    BY <1>9, <1>10, <2>1
  <2> QED
    BY <1>11, <2>2
<1> QED
  BY <1>7, <1>8, <1>13, <1>14 DEF InStep

\* The cases of BitmapsExact.

\* A search.
Searched(c) ==
    LET hits == {p \in c.pos .. c.nbits - 1 : (p \in c.bits) # c.invert}
    IN  IF hits = {} THEN c.ret = c.nbits
        ELSE c.ret \in hits /\ \A p \in hits : c.ret <= p

\* A loop over a bitmap, and the number of its bits.
Visited(c) ==
    /\ c.ret = {p \in 0 .. c.nbits - 1 : (p \in c.bits) # c.invert}
    /\ ~c.invert /\ c.bits \subseteq 0 .. c.nbits - 1 => c.popcount = Cardinality(c.ret)

\* Two bitmaps put together.
Merged(c) ==
    /\ c.visited = c.set
    /\ c.set = {p \in 0 .. c.nbits - 1 :
                   CASE c.op = "and" -> p \in c.on /\ p \notin c.off
                     [] c.op = "or" -> p \in c.on \/ p \notin c.off
                     [] OTHER -> (p \in c.on) = (p \in c.off)}

\* What BitmapsExact says of two parsers.
SameLists(c) ==
    /\ c.ret.bits \subseteq 0 .. c.nbits - 1 /\ c.sysfs.bits \subseteq 0 .. c.nbits - 1
    /\ PlainList(c.text) => c.ret.ok = c.sysfs.ok /\ (c.ret.ok => c.ret.bits = c.sysfs.bits)

\* Every search finds what it should.
LEMMA FindNextExact ==
  ASSUME FindNext
  PROVE  Searched(call')
<1>1. PICK nbits \in 1 .. MaxBits, invert \in BOOLEAN :
        \E bits \in SUBSET Bits!WordBits(nbits), pos \in 0 .. nbits :
            call' = [fn |-> "bitmap_find_next", bits |-> bits, nbits |-> nbits, pos |-> pos, invert |-> invert,
                     ret |-> Bits!bitmap_find_next(bits, nbits, pos, invert)]
  BY Zenon DEF FindNext
<1>2. PICK bits \in SUBSET Bits!WordBits(nbits), pos \in 0 .. nbits :
        call' = [fn |-> "bitmap_find_next", bits |-> bits, nbits |-> nbits, pos |-> pos, invert |-> invert,
                 ret |-> Bits!bitmap_find_next(bits, nbits, pos, invert)]
  BY <1>1
<1>3. PICK c : c = call'
  OBVIOUS
<1>4. c.bits = bits /\ c.nbits = nbits /\ c.pos = pos /\ c.invert = invert
      /\ c.ret = Bits!bitmap_find_next(bits, nbits, pos, invert)
  BY <1>2, <1>3
<1>5. nbits \in Nat /\ pos \in Nat /\ bits \subseteq Bits!WordBits(nbits)
  BY LibraryAssumption
<1>6. IF Hits(bits, nbits, pos, invert) = {} THEN c.ret = nbits
      ELSE c.ret \in Hits(bits, nbits, pos, invert) /\ \A p \in Hits(bits, nbits, pos, invert) : c.ret <= p
  BY <1>4, <1>5, FirstHit
<1>7. Hits(bits, nbits, pos, invert) = {p \in c.pos .. c.nbits - 1 : (p \in c.bits) # c.invert}
  BY <1>4, Zenon DEF Hits
<1>8. Searched(c)
  BY <1>4, <1>6, <1>7, Zenon DEF Searched
<1> QED
  BY <1>3, <1>8

\* Every loop stops where it should.
LEMMA ForEachExact ==
  ASSUME ForEach
  PROVE  Visited(call')
<1>1. PICK nbits \in 1 .. MaxBits, invert \in BOOLEAN :
        \E bits \in SUBSET Bits!WordBits(nbits) :
            call' = [fn |-> "bitmap_for_each", bits |-> bits, nbits |-> nbits, invert |-> invert,
                     ret |-> Bits!bitmap_for_each(bits, nbits, invert),
                     popcount |-> Bits!bitmap_popcount(bits, nbits)]
  BY Zenon DEF ForEach
<1>2. PICK bits \in SUBSET Bits!WordBits(nbits) :
        call' = [fn |-> "bitmap_for_each", bits |-> bits, nbits |-> nbits, invert |-> invert,
                 ret |-> Bits!bitmap_for_each(bits, nbits, invert),
                 popcount |-> Bits!bitmap_popcount(bits, nbits)]
  BY <1>1
<1>3. PICK c : c = call'
  OBVIOUS
<1>4. c.bits = bits /\ c.nbits = nbits /\ c.invert = invert
      /\ c.ret = Bits!bitmap_for_each(bits, nbits, invert) /\ c.popcount = Bits!bitmap_popcount(bits, nbits)
  BY <1>2, <1>3
<1>5. nbits \in Nat /\ bits \subseteq Bits!WordBits(nbits)
  BY LibraryAssumption
<1>6. c.ret = {p \in 0 .. nbits - 1 : (p \in bits) # invert}
  <2>1. c.ret = Hits(bits, nbits, 0, invert)
    BY <1>4, <1>5, StopsAtHits
  <2> QED
    BY <2>1, Zenon DEF Hits
<1>7. ASSUME ~invert, bits \subseteq 0 .. nbits - 1
      PROVE  c.popcount = Cardinality(c.ret)
  <2>1. bits \cap Bits!WordBits(nbits) = bits
    BY <1>5
  <2>2. ASSUME NEW p \in 0 .. nbits - 1 PROVE ((p \in bits) # invert) <=> p \in bits
    <3>1. invert = FALSE
      BY <1>7
    <3>2. CASE p \in bits
      <4>1. (p \in bits) = TRUE
        BY <3>2
      <4> QED
        BY <3>1, <3>2, <4>1
    <3>3. CASE p \notin bits
      <4>1. (p \in bits) = FALSE
        BY <3>3
      <4> QED
        BY <3>1, <3>3, <4>1
    <3> QED
      BY <3>2, <3>3
  <2>3. c.ret = bits
    BY <1>6, <1>7, <2>2
  <2> QED
    BY <1>4, <2>1, <2>3 DEF Bits!bitmap_popcount, Cardinality, Bits!Cardinality
<1> QED
  BY <1>3, <1>4, <1>6, <1>7, Zenon DEF Visited

\* Every bitmap put together of two has the bits it should.
LEMMA CombineExact ==
  ASSUME Combine
  PROVE  Merged(call')
<1>0. PICK nbits \in 1 .. MaxBits - 2 : \E on, off \in SUBSET (0 .. nbits - 1) :
        \E op \in {[name |-> "and", ret |-> Bits!bitmap_and(SetBits(nbits, on), ClearBits(nbits, off), nbits)],
                   [name |-> "or", ret |-> Bits!bitmap_or(SetBits(nbits, on), ClearBits(nbits, off), nbits)],
                   [name |-> "xor", ret |-> Bits!bitmap_xor(SetBits(nbits, on), ClearBits(nbits, off), nbits)]} :
            call' = [fn |-> "combine", op |-> op.name, nbits |-> nbits, on |-> on, off |-> off,
                     set |-> {p \in 0 .. nbits - 1 : Bits!bitmap_test(op.ret, p)},
                     visited |-> Bits!bitmap_for_each(op.ret, nbits, FALSE)]
  BY Zenon DEF Combine
<1>1. PICK on \in SUBSET (0 .. nbits - 1), off \in SUBSET (0 .. nbits - 1) :
        \E op \in {[name |-> "and", ret |-> Bits!bitmap_and(SetBits(nbits, on), ClearBits(nbits, off), nbits)],
                   [name |-> "or", ret |-> Bits!bitmap_or(SetBits(nbits, on), ClearBits(nbits, off), nbits)],
                   [name |-> "xor", ret |-> Bits!bitmap_xor(SetBits(nbits, on), ClearBits(nbits, off), nbits)]} :
            call' = [fn |-> "combine", op |-> op.name, nbits |-> nbits, on |-> on, off |-> off,
                     set |-> {p \in 0 .. nbits - 1 : Bits!bitmap_test(op.ret, p)},
                     visited |-> Bits!bitmap_for_each(op.ret, nbits, FALSE)]
  BY <1>0
<1>2. PICK a, b : a = SetBits(nbits, on) /\ b = ClearBits(nbits, off)
  OBVIOUS
<1>3. PICK op \in {[name |-> "and", ret |-> Bits!bitmap_and(a, b, nbits)],
                   [name |-> "or", ret |-> Bits!bitmap_or(a, b, nbits)],
                   [name |-> "xor", ret |-> Bits!bitmap_xor(a, b, nbits)]} :
            call' = [fn |-> "combine", op |-> op.name, nbits |-> nbits, on |-> on, off |-> off,
                     set |-> {p \in 0 .. nbits - 1 : Bits!bitmap_test(op.ret, p)},
                     visited |-> Bits!bitmap_for_each(op.ret, nbits, FALSE)]
  BY <1>1, <1>2
<1>4. PICK c : c = call'
  OBVIOUS
<1>5. c.op = op.name /\ c.nbits = nbits /\ c.on = on /\ c.off = off
      /\ c.set = {p \in 0 .. nbits - 1 : p \in op.ret} /\ c.visited = Bits!bitmap_for_each(op.ret, nbits, FALSE)
  BY <1>3, <1>4 DEF Bits!bitmap_test
<1>6. nbits \in Nat /\ on \subseteq 0 .. nbits - 1 /\ off \subseteq 0 .. nbits - 1
  BY LibraryAssumption
<1>7. /\ Bits!bitmap_and(a, b, nbits) \subseteq Bits!WordBits(nbits)
      /\ Bits!bitmap_or(a, b, nbits) \subseteq Bits!WordBits(nbits)
      /\ Bits!bitmap_xor(a, b, nbits) \subseteq Bits!WordBits(nbits)
      /\ \A p \in 0 .. nbits - 1 :
            /\ p \in Bits!bitmap_and(a, b, nbits) <=> p \in on /\ p \notin off
            /\ p \in Bits!bitmap_or(a, b, nbits) <=> p \in on \/ p \notin off
            /\ p \in Bits!bitmap_xor(a, b, nbits) <=> (p \in on <=> p \in off)
  <2>1. Combinations(nbits, on, off, Bits!bitmap_and(a, b, nbits), Bits!bitmap_or(a, b, nbits),
                     Bits!bitmap_xor(a, b, nbits))
    BY <1>2, <1>6, Combined
  <2> QED
    BY <2>1, Zenon DEF Combinations
<1>8. c.visited = c.set
  <2>1. op.ret \subseteq Bits!WordBits(nbits)
    BY <1>3, <1>7
  <2>2. PICK invert \in BOOLEAN : invert = FALSE
    OBVIOUS
  <2>3. c.visited = Hits(op.ret, nbits, 0, invert)
    BY <1>5, <1>6, <2>1, <2>2, StopsAtHits
  <2>4. ASSUME NEW p PROVE ((p \in op.ret) # invert) <=> p \in op.ret
    <3>1. CASE p \in op.ret
      <4>1. (p \in op.ret) = TRUE
        BY <3>1
      <4> QED
        BY <2>2, <3>1, <4>1
    <3>2. CASE p \notin op.ret
      <4>1. (p \in op.ret) = FALSE
        BY <3>2
      <4> QED
        BY <2>2, <3>2, <4>1
    <3> QED
      BY <3>1, <3>2
  <2>5. c.visited = {p \in 0 .. nbits - 1 : (p \in op.ret) # invert}
    BY <2>3, Zenon DEF Hits
  <2> QED
    BY <1>5, <2>4, <2>5
<1>9. CASE op.name = "and"
  <2>1. op.ret = Bits!bitmap_and(a, b, nbits)
    BY <1>3, <1>9
  <2>2. c.set = {p \in 0 .. nbits - 1 : p \in on /\ p \notin off}
    BY <1>5, <1>7, <2>1
  <2> QED
    BY <1>4, <1>5, <1>8, <1>9, <2>2 DEF Merged
<1>10. CASE op.name = "or"
  <2>1. op.ret = Bits!bitmap_or(a, b, nbits)
    BY <1>3, <1>10
  <2>2. c.set = {p \in 0 .. nbits - 1 : p \in on \/ p \notin off}
    BY <1>5, <1>7, <2>1
  <2> QED
    BY <1>4, <1>5, <1>8, <1>10, <2>2 DEF Merged
<1>11. CASE op.name = "xor"
  <2>1. op.ret = Bits!bitmap_xor(a, b, nbits)
    BY <1>3, <1>11
  <2>2. c.set = {p \in 0 .. nbits - 1 : (p \in on) = (p \in off)}
    <3>1. \A p \in 0 .. nbits - 1 : p \in op.ret <=> (p \in on <=> p \in off)
      BY <1>7, <2>1, Zenon
    <3>2. \A p : ((p \in on) = (p \in off)) <=> (p \in on <=> p \in off)
      OBVIOUS
    <3> QED
      BY <1>5, <3>1, <3>2
  <2> QED
    BY <1>4, <1>5, <1>8, <1>11, <2>2 DEF Merged
<1> QED
  BY <1>3, <1>9, <1>10, <1>11

\* Every text is parsed as BitmapsExact says.
LEMMA ParseListExact ==
  ASSUME ParseList
  PROVE  SameLists(call')
<1>1. PICK nbits \in 1 .. MaxBits, text \in Texts, errno \in BOOLEAN :
        call' = [fn |-> "string_to_bitmap", text |-> text, nbits |-> nbits,
                 ret |-> Bits!string_to_bitmap(text, nbits),
                 sysfs |-> Bits!sysfs_parse_bitlist(text, nbits, errno)]
  BY Zenon DEF ParseList
<1>2. PICK c : c = call'
  OBVIOUS
<1>3. c.text = text /\ c.nbits = nbits /\ c.ret = Bits!string_to_bitmap(text, nbits)
      /\ c.sysfs = Bits!sysfs_parse_bitlist(text, nbits, errno)
  BY <1>1, <1>2
<1>4. text \in Seq(Bits!Chars) /\ nbits \in Nat
  BY TextsAssumption, LibraryAssumption
<1>5. c.ret.bits \subseteq 0 .. c.nbits - 1 /\ c.sysfs.bits \subseteq 0 .. c.nbits - 1
  BY <1>3, <1>4, ParsersInside
<1>6. PlainList(c.text) => c.ret.ok = c.sysfs.ok /\ (c.ret.ok => c.ret.bits = c.sysfs.bits)
  BY <1>3, <1>4, ParsersAgree
<1> QED
  BY <1>2, <1>5, <1>6 DEF SameLists

\* For every length of a bitmap and all its bits: searches and loops, which go
\* by words, find the bits and nothing past the end, and a combination of two
\* bitmaps has the bits it should.  For every text: neither parser of bit lists
\* sets a bit past the end, and on a plain list the two agree.
THEOREM BitmapsHold == Spec => []BitmapsExact
<1> DEFINE Exact(c) ==
        /\ c.fn = "bitmap_find_next" => Searched(c)
        /\ c.fn = "bitmap_for_each" => Visited(c)
        /\ c.fn = "combine" => Merged(c)
        /\ c.fn = "string_to_bitmap" => SameLists(c)
<1>1. (BitmapsExact <=> Exact(call)) /\ (BitmapsExact' <=> Exact(call'))
  BY Zenon DEF BitmapsExact, Searched, Visited, Merged, SameLists
<1> HIDE DEF Exact
<1>2. Init => BitmapsExact
  BY DEF Init, Idle, BitmapsExact
<1>3. ASSUME BitmapsExact, [Next]_vars PROVE BitmapsExact'
  <2>1. CASE UNCHANGED call
    BY <1>1, <1>3, <2>1
  <2>2. CASE call' # call
    <3>1. call'.fn = "bitmap_find_next" => Searched(call')
      BY <1>3, <2>2, Calls, FindNextExact
    <3>2. call'.fn = "bitmap_for_each" => Visited(call')
      BY <1>3, <2>2, Calls, ForEachExact
    <3>3. call'.fn = "combine" => Merged(call')
      BY <1>3, <2>2, Calls, CombineExact
    <3>4. call'.fn = "string_to_bitmap" => SameLists(call')
      BY <1>3, <2>2, Calls, ParseListExact
    <3> QED
      BY <1>1, <3>1, <3>2, <3>3, <3>4 DEF Exact
  <2> QED
    BY <2>1, <2>2
<1> QED
  BY <1>2, <1>3, PTL DEF Spec

---------------------------------------------------------------------------
\* The pointer chase.

\* The orders of the segments 0 .. len - 1 that name each once.
Orders(len) ==
    {f \in [0 .. len - 1 -> 0 .. len - 1] : \A x, y \in 0 .. len - 1 : f[x] = f[y] => x = y}

\* A swap leaves an order an order.
LEMMA Swapped ==
  ASSUME NEW len \in Nat, NEW f \in Orders(len), NEW i \in 0 .. len - 1, NEW j \in 0 .. len - 1
  PROVE  Work!Swap(f, i, j) \in Orders(len)
<1>1. PICK D : D = 0 .. len - 1
  OBVIOUS
<1>2. f \in [D -> D] /\ (\A x, y \in D : f[x] = f[y] => x = y) /\ i \in D /\ j \in D
  BY <1>1 DEF Orders
<1>3. PICK g : g = Work!Swap(f, i, j)
  OBVIOUS
<1>4. g \in [D -> D] /\ \A x \in D : g[x] = IF x = j THEN f[i] ELSE IF x = i THEN f[j] ELSE f[x]
  <2>1. g = [[f EXCEPT ![i] = f[j]] EXCEPT ![j] = f[i]]
    BY <1>3 DEF Work!Swap
  <2> QED
    BY <1>2, <2>1
<1>5. \A x, y \in D : g[x] = g[y] => x = y
  BY <1>2, <1>4
<1> QED
  BY <1>1, <1>3, <1>4, <1>5 DEF Orders

\* Whatever rand returns, the shuffled list is an order.
LEMMA Shuffled ==
  ASSUME NEW len \in Nat \ {0}, NEW rands \in [1 .. len - 1 -> Nat]
  PROVE  Work!shuffled(len, rands) \in Orders(len)
<1> DEFINE to(i) == i - 1 + (rands[i] % (len - (i - 1)))
           id == [k \in 0 .. len - 1 |-> k]
           swap(f, i) == Work!Swap(f, i - 1, to(i))
           Step(g) == [i \in 0 .. len - 1 |-> IF i = 0 THEN id ELSE swap(g[i - 1], i)]
           after == CHOOSE g : g = Step(g)
<1>1. Work!shuffled(len, rands) = after[len - 1]
  BY DEF Work!shuffled
<1>2. PICK N \in Nat : N = len - 1
  OBVIOUS
<1>3. PICK V : V = Orders(len)
  OBVIOUS
<1>4. PICK base \in V : base = id
  <2>1. id \in Orders(len)
    BY DEF Orders
  <2> QED
    BY <1>3, <2>1
<1>5. ASSUME NEW i \in 1 .. N, NEW f \in V PROVE swap(f, i) \in V
  <2>1. PICK left \in Nat \ {0} : left = len - (i - 1)
    BY <1>2
  <2>2. rands[i] \in Nat
    BY <1>2
  <2>3. PICK r \in 0 .. left - 1 : r = rands[i] % left
    <3>1. PICK a \in Int : a = rands[i]
      BY <2>2
    <3>2. a % left \in 0 .. left - 1
      BY DivMod
    <3> QED
      BY <3>1, <3>2
  <2>4. to(i) \in 0 .. len - 1 /\ i - 1 \in 0 .. len - 1
    BY <1>2, <2>1, <2>3
  <2> HIDE DEF to
  <2> QED
    BY <1>3, <2>4, Swapped
<1> HIDE DEF swap, id
<1>6. after = Step(after)
  <2>1. PICK next : next = [p \in (1 .. N) \X V |-> swap(p[2], p[1])]
    OBVIOUS
  <2>2. next \in [(1 .. N) \X V -> V]
    BY <1>5, <2>1
  <2>3. PICK G : G \in Recursive(N, V, base, next)
    BY <2>2, Recursion
  <2>4. G = Step(G)
    <3>1. G \in [0 .. N -> V] /\ G[0] = base /\ \A i \in 1 .. N : G[i] = next[<<i, G[i - 1]>>]
      BY <2>3 DEF Recursive
    <3>2. ASSUME NEW i \in 1 .. N PROVE G[i] = swap(G[i - 1], i)
      <4>1. <<i, G[i - 1]>> \in (1 .. N) \X V
        BY <3>1
      <4> QED
        BY <2>1, <3>1, <4>1
    <3> QED
      BY <1>2, <1>4, <3>1, <3>2
  <2> HIDE DEF Step
  <2> QED
    BY <2>4, Zenon
<1>7. PICK g : g = after /\ g = [i \in 0 .. len - 1 |-> IF i = 0 THEN id ELSE swap(g[i - 1], i)]
  BY <1>6
<1> HIDE DEF after
<1> DEFINE S == {i \in 0 .. N : g[i] \in V}
<1>8. 0 \in S
  BY <1>2, <1>4, <1>7
<1>9. ASSUME NEW n \in 0 .. N - 1, n \in S PROVE n + 1 \in S
  <2>1. PICK i \in 1 .. N : i = n + 1 /\ i - 1 = n /\ i # 0 /\ i \in 0 .. len - 1
    BY <1>2
  <2>2. g[i] = swap(g[i - 1], i)
    BY <1>7, <2>1
  <2>3. g[i - 1] \in V
    BY <1>9, <2>1
  <2>4. g[i] \in V
    BY <1>5, <2>2, <2>3
  <2> QED
    BY <2>1, <2>4
<1>10. \A n \in 0 .. N : n \in S
  <2> HIDE DEF S
  <2> QED
    BY <1>8, <1>9, UpTo
<1>11. g[N] \in V
  <2>1. N \in S
    BY <1>10
  <2> QED
    BY <2>1
<1> QED
  BY <1>1, <1>2, <1>3, <1>7, <1>11

\* So are the pointers.
LEMMA PointersInOrder ==
  ASSUME NEW len \in Nat \ {0}, NEW rands \in [1 .. len - 1 -> Nat]
  PROVE  Work!initialize_pointer_chasing_at_client(len, rands) \in Orders(len)
<1>1. PICK f : f = Work!shuffled(len, rands)
  OBVIOUS
<1>2. f \in [0 .. len - 1 -> 0 .. len - 1] /\ \A x, y \in 0 .. len - 1 : f[x] = f[y] => x = y
  BY <1>1, Shuffled DEF Orders
<1>3. PICK g : g = Work!initialize_pointer_chasing_at_client(len, rands)
  OBVIOUS
<1>4. g = [i \in 0 .. len - 1 |-> IF i = len - 1 THEN f[0] ELSE f[i + 1]]
  BY <1>1, <1>3 DEF Work!initialize_pointer_chasing_at_client
<1>5. 0 \in 0 .. len - 1 /\ \A i \in 0 .. len - 1 : i # len - 1 => i + 1 \in 0 .. len - 1 /\ i + 1 # 0
  OBVIOUS
<1>6. g \in [0 .. len - 1 -> 0 .. len - 1]
  BY <1>2, <1>4, <1>5
<1>7. ASSUME NEW x \in 0 .. len - 1, NEW y \in 0 .. len - 1, g[x] = g[y] PROVE x = y
  <2>1. CASE x = len - 1
    BY <1>2, <1>4, <1>5, <1>7, <2>1
  <2>2. CASE y = len - 1
    BY <1>2, <1>4, <1>5, <1>7, <2>2
  <2>3. CASE x # len - 1 /\ y # len - 1
    <3>1. f[x + 1] = f[y + 1]
      BY <1>4, <1>7, <2>3
    <3>2. x + 1 = y + 1
      BY <1>2, <1>5, <2>3, <3>1
    <3> QED
      BY <3>2
  <2> QED
    BY <2>1, <2>2, <2>3
<1> QED
  BY <1>3, <1>6, <1>7 DEF Orders

\* A chase along pointers that are an order names segments, and is back at
\* segment 0 before it names one again.
Chased(cur, len, n) ==
    /\ \A k \in 0 .. n - 1 : cur[k] \in 0 .. len - 1
    /\ \A k \in 0 .. n - 1 : \A j \in 0 .. k - 1 : cur[j] = cur[k] => cur[k - j] = 0

\* Every chase does.
LEMMA ChaseReturns ==
  ASSUME NEW len \in Nat \ {0}, NEW pointers \in Orders(len), NEW n \in Nat \ {0}
  PROVE  Chased(Work!Chase(pointers, n), len, n)
<1> DEFINE Step(g) == [k \in 0 .. n - 1 |-> IF k = 0 THEN 0 ELSE pointers[g[k - 1]]]
           cur == CHOOSE g : g = Step(g)
<1>1. Work!Chase(pointers, n) = cur
  BY DEF Work!Chase
<1>2. PICK N \in Nat : N = n - 1
  OBVIOUS
<1>3. PICK V : V = 0 .. len - 1
  OBVIOUS
<1>4. PICK base \in V : base = 0
  BY <1>3
<1>5. pointers \in [V -> V] /\ \A x, y \in V : pointers[x] = pointers[y] => x = y
  BY <1>3 DEF Orders
<1>6. cur = Step(cur)
  <2>1. PICK next : next = [p \in (1 .. N) \X V |-> pointers[p[2]]]
    OBVIOUS
  <2>2. next \in [(1 .. N) \X V -> V]
    BY <1>5, <2>1
  <2>3. PICK G : G \in Recursive(N, V, base, next)
    BY <2>2, Recursion
  <2>4. G = Step(G)
    <3>1. G \in [0 .. N -> V] /\ G[0] = base /\ \A i \in 1 .. N : G[i] = next[<<i, G[i - 1]>>]
      BY <2>3 DEF Recursive
    <3>2. ASSUME NEW i \in 1 .. N PROVE G[i] = pointers[G[i - 1]]
      <4>1. <<i, G[i - 1]>> \in (1 .. N) \X V
        BY <3>1
      <4> QED
        BY <2>1, <3>1, <4>1
    <3> QED
      BY <1>2, <1>4, <3>1, <3>2
  <2> HIDE DEF Step
  <2> QED
    BY <2>4, Zenon
<1>7. PICK g : g = cur /\ g = [k \in 0 .. n - 1 |-> IF k = 0 THEN 0 ELSE pointers[g[k - 1]]]
  BY <1>6
<1> HIDE DEF cur
<1>8. g[0] = 0 /\ \A k \in 1 .. n - 1 : g[k] = pointers[g[k - 1]]
  <2>1. \A k \in 0 .. n - 1 : g[k] = IF k = 0 THEN 0 ELSE pointers[g[k - 1]]
    BY <1>7
  <2>2. 0 \in 0 .. n - 1 /\ \A k \in 1 .. n - 1 : k \in 0 .. n - 1 /\ k # 0
    OBVIOUS
  <2> QED
    BY <2>1, <2>2
<1> DEFINE S == {k \in 0 .. N : g[k] \in V}
<1>9. 0 \in S
  BY <1>4, <1>8
<1>10. ASSUME NEW m \in 0 .. N - 1, m \in S PROVE m + 1 \in S
  <2>1. PICK k \in 1 .. n - 1 : k = m + 1 /\ k - 1 = m
    BY <1>2
  <2>2. g[k] \in V
    BY <1>5, <1>8, <1>10, <2>1
  <2> QED
    BY <1>2, <2>1, <2>2
<1>11. \A k \in 0 .. n - 1 : g[k] \in V
  <2>1. \A k \in 0 .. N : k \in S
    <3> HIDE DEF S
    <3> QED
      BY <1>9, <1>10, UpTo
  <2> QED
    BY <1>2, <2>1
<1>12. ASSUME NEW k \in 0 .. n - 1, NEW j \in 0 .. k - 1, g[j] = g[k] PROVE g[k - j] = 0
  <2> DEFINE T == {t \in 0 .. j : g[j - t] = g[k - t]}
  <2>1. 0 \in T
    BY <1>12
  <2>2. ASSUME NEW t \in 0 .. j - 1, t \in T PROVE t + 1 \in T
    <3>1. PICK x \in 1 .. n - 1, y \in 1 .. n - 1 : x = j - t /\ y = k - t
      OBVIOUS
    <3>2. g[x] = pointers[g[x - 1]] /\ g[y] = pointers[g[y - 1]] /\ g[x] = g[y]
      BY <1>8, <2>2, <3>1
    <3>3. g[x - 1] \in V /\ g[y - 1] \in V
      BY <1>11
    <3>4. g[x - 1] = g[y - 1]
      BY <1>5, <3>2, <3>3
    <3>5. x - 1 = j - (t + 1) /\ y - 1 = k - (t + 1) /\ t + 1 \in 0 .. j
      BY <3>1
    <3> QED
      BY <3>4, <3>5
  <2>3. \A t \in 0 .. j : t \in T
    <3>1. j \in Nat
      OBVIOUS
    <3> HIDE DEF T
    <3> QED
      BY <2>1, <2>2, <3>1, UpTo
  <2>4. g[j - j] = g[k - j]
    BY <2>3
  <2> QED
    BY <1>8, <2>4
<1> QED
  BY <1>1, <1>3, <1>7, <1>11, <1>12 DEF Chased

\* The letter of a segment: all bytes of its region have it.
LEMMA LetterOf ==
  ASSUME NEW size \in Nat \ {0}, NEW len \in Nat \ {0}, NEW array_size \in Nat, array_size = len * size,
         len = array_size \div size, NEW idx \in 0 .. len - 1,
         NEW memory, memory = Work!initialize_server_memory(size, array_size)
  PROVE  /\ Work!get_server_region(idx, size) \subseteq DOMAIN memory
         /\ \A b \in Work!get_server_region(idx, size) : memory[b] = idx % 26
<1>1. memory = [byte \in 0 .. array_size - 1 |->
                  (CHOOSE i \in 0 .. len - 1 : byte \in Work!get_server_region(i, size)) % 26]
  <2>1. memory = [byte \in 0 .. array_size - 1 |->
                    (CHOOSE i \in 0 .. array_size \div size - 1 : byte \in Work!get_server_region(i, size)) % 26]
    BY DEF Work!initialize_server_memory
  <2>2. PICK q : q = array_size \div size
    OBVIOUS
  <2>3. memory = [byte \in 0 .. array_size - 1 |->
                    (CHOOSE i \in 0 .. q - 1 : byte \in Work!get_server_region(i, size)) % 26]
    BY <2>1, <2>2, Zenon
  <2>4. q = len
    BY <2>2
  <2> QED
    BY <2>3, <2>4, Zenon
<1>2. ASSUME NEW i \in 0 .. len - 1, NEW b
      PROVE  b \in Work!get_server_region(i, size) <=> b \in Int /\ i * size <= b /\ b < i * size + size
  <2>1. (i + 1) * size = i * size + size
    BY Z3
  <2>2. PICK p \in Int : p = i * size
    BY Z3
  <2> QED
    BY <2>1, <2>2 DEF Work!get_server_region
<1>3. ASSUME NEW b \in Work!get_server_region(idx, size) PROVE b \in 0 .. array_size - 1
  <2>1. b \in Int /\ idx * size <= b /\ b < idx * size + size
    BY <1>2
  <2>2. 0 <= idx * size /\ idx * size + size <= len * size
    BY Z3
  <2>3. PICK p \in Int : p = idx * size
    BY Z3
  <2> QED
    BY <2>1, <2>2, <2>3
<1>4. ASSUME NEW b \in Work!get_server_region(idx, size), NEW i \in 0 .. len - 1, b \in Work!get_server_region(i, size)
      PROVE  i = idx
  <2>1. PICK r \in 0 .. size - 1 : b = size * i + r
    <3>1. b \in Int /\ i * size <= b /\ b < i * size + size
      BY <1>2, <1>4
    <3>2. PICK p \in Int : p = i * size /\ p = size * i
      BY Z3
    <3>3. b - p \in 0 .. size - 1 /\ b = p + (b - p)
      BY <3>1, <3>2
    <3> QED
      BY <3>2, <3>3
  <2>2. PICK s \in 0 .. size - 1 : b = size * idx + s
    <3>1. b \in Int /\ idx * size <= b /\ b < idx * size + size
      BY <1>2
    <3>2. PICK p \in Int : p = idx * size /\ p = size * idx
      BY Z3
    <3>3. b - p \in 0 .. size - 1 /\ b = p + (b - p)
      BY <3>1, <3>2
    <3> QED
      BY <3>2, <3>3
  <2>3. b \in Int
    BY <1>3
  <2>4. PICK B \in Int, p \in Int, q \in Int : B = b /\ p = i /\ q = idx
    BY <2>3
  <2>5. B = size * p + r
    BY <2>1, <2>4
  <2>6. B \div size = p
    BY <2>5, ModUnique
  <2>7. B \div size = q
    <3>1. B = size * q + s
      BY <2>2, <2>4
    <3>2. PICK t \in 0 .. size - 1 : t = s /\ B = size * q + t
      BY <3>1
    <3> QED
      BY <3>2, ModUnique
  <2> QED
    BY <2>4, <2>6, <2>7
<1>5. ASSUME NEW b \in Work!get_server_region(idx, size) PROVE memory[b] = idx % 26
  <2>1. (CHOOSE i \in 0 .. len - 1 : b \in Work!get_server_region(i, size)) = idx
    BY <1>4, Zenon
  <2> QED
    BY <1>1, <1>3, <2>1
<1> QED
  BY <1>1, <1>3, <1>5

\* What RequestsChase says of requests for `n` segments each.
Named(ret) ==
    [k \in 1 .. Len(ret) * Len(ret[1]) |-> ret[(k - 1) \div Len(ret[1]) + 1][((k - 1) % Len(ret[1])) + 1]]
ChaseGood(ret, memory, size) ==
    \A k \in DOMAIN Named(ret) :
        /\ /\ Work!get_server_region(Named(ret)[k], size) \subseteq DOMAIN memory
           /\ \A b \in Work!get_server_region(Named(ret)[k], size) : memory[b] = Named(ret)[k] % 26
        /\ \A j \in 1 .. k - 1 : Named(ret)[j] = Named(ret)[k] => Named(ret)[k - j + 1] = 0

\* The requests of every shuffle chase well.
LEMMA RequestsGood ==
  ASSUME NEW size \in Nat \ {0}, NEW len \in Nat \ {0}, NEW array_size \in Nat, array_size = len * size,
         len = array_size \div size, NEW rands \in [1 .. len - 1 -> Nat], NEW n \in Nat \ {0},
         NEW ret, ret = Work!initialize_client_requests(Work!initialize_pointer_chasing_at_client(len, rands), len, n),
         NEW memory, memory = Work!initialize_server_memory(size, array_size)
  PROVE  ChaseGood(ret, memory, size)
<1>1. PICK pointers : pointers = Work!initialize_pointer_chasing_at_client(len, rands)
  OBVIOUS
<1>2. PICK total \in Nat \ {0} : total = len * n
  BY Z3
<1>3. PICK cur : cur = Work!Chase(pointers, total)
  OBVIOUS
<1>4. Chased(cur, len, total)
  BY <1>1, <1>3, PointersInOrder, ChaseReturns
<1>5. ret = [iter \in 1 .. len |-> [i \in 1 .. n |-> cur[(iter - 1) * n + i - 1]]]
  BY <1>1, <1>2, <1>3 DEF Work!initialize_client_requests
<1>6. Len(ret) = len /\ ret[1] = [i \in 1 .. n |-> cur[(1 - 1) * n + i - 1]] /\ Len(ret[1]) = n
  <2>1. Len(ret) = len
    BY <1>5
  <2>2. 1 \in 1 .. len
    OBVIOUS
  <2>3. ret[1] = [i \in 1 .. n |-> cur[(1 - 1) * n + i - 1]]
    BY <1>5, <2>2
  <2>4. Len(ret[1]) = n
    BY <2>3
  <2> QED
    BY <2>1, <2>3, <2>4
<1> DEFINE named == [k \in 1 .. total |-> ret[(k - 1) \div n + 1][((k - 1) % n) + 1]]
<1>7. ASSUME NEW k \in 1 .. total PROVE named[k] = cur[k - 1]
  <2>1. PICK q \in 0 .. len - 1, r \in 0 .. n - 1 : q = (k - 1) \div n /\ r = (k - 1) % n /\ k - 1 = n * q + r
    <3>1. k \in 1 .. len * n
      BY <1>2
    <3> QED
      BY <3>1, Cell
  <2>2. q + 1 \in 1 .. len /\ r + 1 \in 1 .. n
    OBVIOUS
  <2>3. PICK it \in 1 .. len, i \in 1 .. n : it = q + 1 /\ i = r + 1
    BY <2>2
  <2>4. ret[it][i] = cur[(it - 1) * n + i - 1]
    <3>1. ret[it] = [j \in 1 .. n |-> cur[(it - 1) * n + j - 1]]
      BY <1>5
    <3> QED
      BY <3>1, Zenon
  <2>5. (it - 1) * n + i - 1 = k - 1
    <3>1. it - 1 = q
      BY <2>3
    <3>2. PICK p \in Int : p = q * n /\ p = n * q
      BY Z3
    <3> QED
      BY <2>1, <2>3, <3>1, <3>2
  <2>6. named[k] = ret[it][i]
    BY <2>1, <2>3
  <2> QED
    BY <2>4, <2>5, <2>6
<1>8. DOMAIN named = 1 .. total
  OBVIOUS
<1> HIDE DEF named
<1>9. ASSUME NEW k \in 1 .. total
      PROVE  /\ Work!get_server_region(named[k], size) \subseteq DOMAIN memory
             /\ \A b \in Work!get_server_region(named[k], size) : memory[b] = named[k] % 26
  <2>1. PICK idx \in 0 .. len - 1 : idx = named[k]
    <3>1. k - 1 \in 0 .. total - 1
      OBVIOUS
    <3> QED
      BY <1>4, <1>7, <3>1 DEF Chased
  <2> QED
    BY <2>1, LetterOf
<1>10. ASSUME NEW k \in 1 .. total, NEW j \in 1 .. k - 1, named[j] = named[k]
       PROVE  named[k - j + 1] = 0
  <2>1. k - 1 \in 0 .. total - 1 /\ j - 1 \in 0 .. (k - 1) - 1 /\ j \in 1 .. total /\ k - j + 1 \in 1 .. total
    OBVIOUS
  <2>2. cur[j - 1] = cur[k - 1]
    BY <1>7, <1>10, <2>1
  <2>3. PICK x \in 0 .. total - 1, y \in Int : x = k - 1 /\ y = j - 1 /\ y \in 0 .. x - 1
    BY <2>1
  <2>4. cur[x - y] = 0
    BY <1>4, <2>2, <2>3 DEF Chased
  <2>5. x - y = k - j + 1 - 1
    BY <2>3
  <2> QED
    BY <1>7, <2>1, <2>4, <2>5
<1>11. Named(ret) = named
  BY <1>2, <1>6, Zenon DEF named, Named
<1> QED
  BY <1>8, <1>9, <1>10, <1>11, Zenon DEF ChaseGood

\* For every number and size of segments, every length of a request and every
\* outcome of rand: the requests name segments of the working set and name
\* none again before the chase is back at its start.
THEOREM ChaseHolds == Spec => []RequestsChase
<1>1. Init => RequestsChase
  <2>1. Init => call.fn # "initialize_client_requests"
    BY DEF Init, Idle
  <2> QED
    BY <2>1, Zenon DEF RequestsChase
<1>2. (call.fn = "initialize_client_requests" => ChaseGood(call.ret, call.memory, call.segment_size)) <=> RequestsChase
  BY Zenon DEF RequestsChase, ChaseGood, Named
<1>3. ((call'.fn = "initialize_client_requests" => ChaseGood(call'.ret, call'.memory, call'.segment_size))
         <=> RequestsChase')
  BY Zenon DEF RequestsChase, ChaseGood, Named
<1>4. ASSUME MakeRequests PROVE ChaseGood(call'.ret, call'.memory, call'.segment_size)
  <2>1. PICK array_size \in 1 .. 2 * MaxLen, size \in 1 .. 2, n \in 1 .. 2 :
          /\ Work!Aligned(array_size, size) /\ array_size \div size <= MaxLen
          /\ \E rands \in [1 .. (array_size \div size) - 1 -> 0 .. (array_size \div size) - 1] :
              LET pointers == Work!initialize_pointer_chasing_at_client(array_size \div size, rands)
              IN  call' = [fn |-> "initialize_client_requests", segment_size |-> size,
                           ret |-> Work!initialize_client_requests(pointers, array_size \div size, n),
                           memory |-> Work!initialize_server_memory(size, array_size)]
    BY <1>4, Zenon DEF MakeRequests
  <2>2. array_size \in Nat \ {0} /\ size \in Nat \ {0} /\ n \in Nat \ {0}
    BY LibraryAssumption
  <2>3. PICK len \in Nat \ {0} : len = array_size \div size /\ array_size = len * size
    <3>1. PICK q \in Int, r \in 0 .. size - 1 : array_size = size * q + r /\ q = array_size \div size /\ r = array_size % size
      BY <2>2, DivMod
    <3>2. r = 0
      BY <2>1, <3>1 DEF Work!Aligned
    <3>3. array_size = q * size
      BY <3>1, <3>2, Z3
    <3>4. q \in Nat \ {0}
      BY <2>2, <3>3, Z3
    <3> QED
      BY <3>1, <3>3, <3>4
  <2>4. PICK rands \in [1 .. len - 1 -> 0 .. len - 1] :
          call' = [fn |-> "initialize_client_requests", segment_size |-> size,
                   ret |-> Work!initialize_client_requests(Work!initialize_pointer_chasing_at_client(len, rands), len, n),
                   memory |-> Work!initialize_server_memory(size, array_size)]
    BY <2>1, <2>3
  <2>5. rands \in [1 .. len - 1 -> Nat]
    OBVIOUS
  <2>6. PICK ret, memory :
          /\ ret = Work!initialize_client_requests(Work!initialize_pointer_chasing_at_client(len, rands), len, n)
          /\ memory = Work!initialize_server_memory(size, array_size)
    OBVIOUS
  <2>7. ChaseGood(ret, memory, size)
    BY <2>2, <2>3, <2>5, <2>6, RequestsGood
  <2>8. call'.ret = ret /\ call'.memory = memory /\ call'.segment_size = size
    BY <2>4, <2>6
  <2> QED
    BY <2>7, <2>8
<1>5. ASSUME RequestsChase, [Next]_vars PROVE RequestsChase'
  <2>1. CASE UNCHANGED call
    BY <1>2, <1>3, <1>5, <2>1
  <2>2. CASE call'.fn # "initialize_client_requests"
    BY <1>3, <2>2
  <2>3. CASE MakeRequests
    BY <1>3, <1>4, <2>3
  <2> QED
    BY <1>5, <2>1, <2>2, <2>3, Calls
<1> QED
  BY <1>1, <1>5, PTL DEF Spec

---------------------------------------------------------------------------
\* Packets put together from copies.

\* What a copy of n bytes writes, wherever it is made.
LEMMA BufCopies ==
  ASSUME NEW n \in Nat
  PROVE  Buf!Mem!rte_memcpy_func(n) = 0 .. n - 1
<1>1. Buf!Mem!rte_memcpy_func(n) = Mem!rte_memcpy_func(n)
  BY Zenon DEF Mem!rte_memcpy_func, Buf!Mem!rte_memcpy_func, Mem!SmallCopy, Buf!Mem!SmallCopy, Mem!LargeCopy, Buf!Mem!LargeCopy,
     Mem!Rest, Buf!Mem!Rest, Mem!rte_mov16, Buf!Mem!rte_mov16, Mem!rte_mov32, Buf!Mem!rte_mov32,
     Mem!rte_mov64, Buf!Mem!rte_mov64, Mem!rte_mov128, Buf!Mem!rte_mov128, Mem!rte_mov256, Buf!Mem!rte_mov256,
     Mem!Bytes, Buf!Mem!Bytes, Mem!Bit, Buf!Mem!Bit
<1> QED
  BY <1>1, MemcpyExact

\* Buffers, with the memory D from their head on.
Mbufs(D) == [bytes : [D -> Int], head_len : Int, data : Int, len : Int]

\* The memory after a copy of source to the offset `to`.
Written(D, bytes, to, source) ==
    [o \in D |-> IF o \in to .. to + Len(source) - 1 THEN source[o - to + 1] ELSE bytes[o]]

LEMMA WrittenIsMemory ==
  ASSUME NEW D, D \subseteq Int, NEW bytes \in [D -> Int], NEW to \in Int, NEW source \in Seq(Int)
  PROVE  Written(D, bytes, to, source) \in [D -> Int]
<1>1. ASSUME NEW o \in D PROVE (IF o \in to .. to + Len(source) - 1 THEN source[o - to + 1] ELSE bytes[o]) \in Int
  <2>1. CASE o \in to .. to + Len(source) - 1
    <3>1. o - to + 1 \in 1 .. Len(source)
      BY <2>1
    <3> QED
      BY <2>1, <3>1
  <2>2. CASE o \notin to .. to + Len(source) - 1
    BY <2>2
  <2> QED
    BY <2>1, <2>2
<1> QED
  BY <1>1 DEF Written

\* What mbuf_copy makes of a buffer.
CopyDone(D, m, source, off, r) ==
    /\ r \in Mbufs(D) /\ r.len = m.len + Len(source) /\ r.bytes = Written(D, m.bytes, m.data + off, source)
    /\ r.data = m.data /\ r.head_len = m.head_len

LEMMA CopyIs ==
  ASSUME NEW D, D \subseteq Int, NEW m \in Mbufs(D), NEW source \in Seq(Int), NEW off \in Int
  PROVE  CopyDone(D, m, source, off, Buf!mbuf_copy(m, source, off))
<1>1. PICK len \in Nat : len = Len(source)
  OBVIOUS
<1>2. PICK written : written = Buf!Mem!rte_memcpy_func(Len(source)) /\ written = 0 .. len - 1
  BY <1>1, BufCopies
<1>3. PICK bytes : bytes = [o \in DOMAIN m.bytes |-> IF o - m.data - off \in written THEN source[o - m.data - off + 1] ELSE m.bytes[o]]
  OBVIOUS
<1>4. Buf!mbuf_copy(m, source, off) = [[m EXCEPT !.len = @ + Len(source)] EXCEPT !.bytes = bytes]
  BY <1>2, <1>3, Zenon DEF Buf!mbuf_copy
<1>5. m.bytes \in [D -> Int] /\ m.data \in Int /\ m.len \in Int /\ m.head_len \in Int
  BY DEF Mbufs
<1>6. bytes = Written(D, m.bytes, m.data + off, source)
  <2>1. ASSUME NEW o \in D
        PROVE  /\ o - m.data - off \in written <=> o \in m.data + off .. m.data + off + Len(source) - 1
               /\ o - m.data - off + 1 = o - (m.data + off) + 1
    BY <1>1, <1>2, <1>5
  <2>2. DOMAIN m.bytes = D
    BY <1>5
  <2>3. bytes = [o \in D |-> IF o - m.data - off \in written THEN source[o - m.data - off + 1] ELSE m.bytes[o]]
    BY <1>3, <2>2
  <2>4. ASSUME NEW o \in D
        PROVE  (IF o - m.data - off \in written THEN source[o - m.data - off + 1] ELSE m.bytes[o])
             = (IF o \in m.data + off .. m.data + off + Len(source) - 1 THEN source[o - (m.data + off) + 1] ELSE m.bytes[o])
    BY <2>1, Zenon
  <2> QED
    BY <2>3, <2>4, Zenon DEF Written
<1>7. m.data + off \in Int
  BY <1>5
<1>8. bytes \in [D -> Int]
  BY <1>5, <1>6, <1>7, WrittenIsMemory
<1>9. PICK n \in Int : n = m.len + Len(source)
  BY <1>5
<1>10. PICK r : r = [bytes |-> bytes, head_len |-> m.head_len, data |-> m.data, len |-> n]
  OBVIOUS
<1>11. m = [bytes |-> m.bytes, head_len |-> m.head_len, data |-> m.data, len |-> m.len]
  BY DEF Mbufs
<1>12. [[m EXCEPT !.len = @ + Len(source)] EXCEPT !.bytes = bytes] = r
  <2>1. PICK a, h, d, l : a = m.bytes /\ h = m.head_len /\ d = m.data /\ l = m.len
    OBVIOUS
  <2>2. m = [bytes |-> a, head_len |-> h, data |-> d, len |-> l]
    BY <1>11, <2>1
  <2>3. [m EXCEPT !.len = @ + Len(source)] = [m EXCEPT !.len = n]
    BY <1>9, Zenon
  <2>4. [m EXCEPT !.len = n] = [bytes |-> a, head_len |-> h, data |-> d, len |-> n]
    BY <2>2
  <2>5. [[bytes |-> a, head_len |-> h, data |-> d, len |-> n] EXCEPT !.bytes = bytes]
        = [bytes |-> bytes, head_len |-> h, data |-> d, len |-> n]
    OBVIOUS
  <2> QED
    BY <1>10, <2>1, <2>3, <2>4, <2>5, Zenon
<1>13. r \in Mbufs(D)
  BY <1>5, <1>8, <1>10 DEF Mbufs
<1>14. r.len = n /\ r.bytes = bytes /\ r.data = m.data /\ r.head_len = m.head_len
  BY <1>10
<1> QED
  BY <1>4, <1>6, <1>9, <1>12, <1>13, <1>14, Zenon DEF CopyDone

\* The sizes of the fields of a header, summed up.
LEMMA FieldSizes ==
  ASSUME NEW hdr, NEW n \in Nat, \A i \in 1 .. n : hdr[i][2] \in Nat
  PROVE  \E g \in [0 .. n -> Nat] : g[0] = 0 /\ (\A i \in 1 .. n : g[i] = g[i - 1] + hdr[i][2]) /\ Net!SizeOfFields(hdr, n) = g[n]
<1> DEFINE Step(g) == [i \in 0 .. n |-> IF i = 0 THEN 0 ELSE g[i - 1] + hdr[i][2]]
           size == CHOOSE g : g = Step(g)
<1>1. Net!SizeOfFields(hdr, n) = size[n]
  BY DEF Net!SizeOfFields
<1>2. PICK next : next = [p \in (1 .. n) \X Nat |-> p[2] + hdr[p[1]][2]]
  OBVIOUS
<1>3. next \in [(1 .. n) \X Nat -> Nat]
  BY <1>2
<1>4. PICK G : G \in Recursive(n, Nat, 0, next)
  <2>1. 0 \in Nat
    OBVIOUS
  <2> QED
    BY <1>3, <2>1, Recursion
<1>5. G \in [0 .. n -> Nat] /\ G[0] = 0 /\ \A i \in 1 .. n : G[i] = G[i - 1] + hdr[i][2]
  <2>1. G \in [0 .. n -> Nat] /\ G[0] = 0 /\ \A i \in 1 .. n : G[i] = next[<<i, G[i - 1]>>]
    BY <1>4 DEF Recursive
  <2>2. ASSUME NEW i \in 1 .. n PROVE G[i] = G[i - 1] + hdr[i][2]
    <3>1. <<i, G[i - 1]>> \in (1 .. n) \X Nat
      BY <2>1
    <3> QED
      BY <1>2, <2>1, <3>1
  <2> QED
    BY <2>1, <2>2
<1>6. G = Step(G)
  BY <1>5
<1>7. size = Step(size)
  <2> HIDE DEF Step
  <2> QED
    BY <1>6, Zenon
<1>8. PICK g : g = size /\ g = [i \in 0 .. n |-> IF i = 0 THEN 0 ELSE g[i - 1] + hdr[i][2]]
  BY <1>7
<1> HIDE DEF size
<1> DEFINE S == {i \in 0 .. n : g[i] \in Nat}
<1>9. 0 \in S
  BY <1>8
<1>10. ASSUME NEW k \in 0 .. n - 1, k \in S PROVE k + 1 \in S
  <2>1. PICK i \in 1 .. n : i = k + 1 /\ i - 1 = k
    OBVIOUS
  <2>2. g[i] = g[i - 1] + hdr[i][2]
    BY <1>8
  <2>3. g[i - 1] \in Nat
    BY <1>10, <2>1
  <2>4. g[i] \in Nat
    BY <2>2, <2>3
  <2> QED
    BY <2>1, <2>4
<1>11. \A i \in 0 .. n : i \in S
  <2> HIDE DEF S
  <2> QED
    BY <1>9, <1>10, UpTo
<1>12. g \in [0 .. n -> Nat]
  <2>1. DOMAIN g = 0 .. n
    BY <1>8
  <2>2. \A i \in 0 .. n : g[i] \in Nat
    BY <1>11
  <2>3. g = [i \in 0 .. n |-> g[i]]
    BY <1>8, <2>1, Zenon
  <2> QED
    BY <2>2, <2>3
<1>13. g[0] = 0 /\ \A i \in 1 .. n : g[i] = g[i - 1] + hdr[i][2]
  BY <1>8
<1> QED
  BY <1>1, <1>8, <1>12, <1>13

\* The size of the first n fields, from that of the n - 1 first.
LEMMA SizeOfNone ==
  ASSUME NEW hdr
  PROVE  Net!SizeOfFields(hdr, 0) = 0
<1>1. PICK n \in Nat : n = 0
  OBVIOUS
<1>2. \A i \in 1 .. n : hdr[i][2] \in Nat
  BY <1>1
<1>3. PICK g \in [0 .. n -> Nat] : g[0] = 0 /\ Net!SizeOfFields(hdr, n) = g[n]
  BY <1>2, FieldSizes
<1> QED
  BY <1>1, <1>3

LEMMA SizeOfOneMore ==
  ASSUME NEW hdr, NEW n \in Nat \ {0}, \A i \in 1 .. n : hdr[i][2] \in Nat
  PROVE  /\ Net!SizeOfFields(hdr, n - 1) \in Nat
         /\ Net!SizeOfFields(hdr, n) = Net!SizeOfFields(hdr, n - 1) + hdr[n][2]
<1>1. PICK m \in Nat : m = n - 1
  OBVIOUS
<1>2. PICK g \in [0 .. n -> Nat] : g[0] = 0 /\ (\A i \in 1 .. n : g[i] = g[i - 1] + hdr[i][2]) /\ Net!SizeOfFields(hdr, n) = g[n]
  <2>1. n \in Nat
    OBVIOUS
  <2> QED
    BY <2>1, FieldSizes
<1>3. PICK h \in [0 .. m -> Nat] : h[0] = 0 /\ (\A i \in 1 .. m : h[i] = h[i - 1] + hdr[i][2]) /\ Net!SizeOfFields(hdr, m) = h[m]
  <2>1. \A i \in 1 .. m : hdr[i][2] \in Nat
    BY <1>1
  <2> QED
    BY <2>1, FieldSizes
<1> DEFINE S == {i \in 0 .. m : h[i] = g[i]}
<1>4. 0 \in S
  BY <1>2, <1>3
<1>5. ASSUME NEW k \in 0 .. m - 1, k \in S PROVE k + 1 \in S
  <2>1. PICK i \in 1 .. m : i = k + 1 /\ i - 1 = k /\ i \in 1 .. n
    BY <1>1
  <2>2. h[i] = h[i - 1] + hdr[i][2] /\ g[i] = g[i - 1] + hdr[i][2] /\ h[i - 1] = g[i - 1]
    BY <1>2, <1>3, <1>5, <2>1
  <2> QED
    BY <2>1, <2>2
<1>6. \A i \in 0 .. m : i \in S
  <2> HIDE DEF S
  <2> QED
    BY <1>4, <1>5, UpTo
<1>7. h[m] = g[m]
  BY <1>6
<1>8. g[n] = g[n - 1] + hdr[n][2] /\ g[n - 1] \in Nat
  <2>1. n \in 1 .. n /\ n - 1 \in 0 .. n
    OBVIOUS
  <2> QED
    BY <1>2, <2>1
<1> QED
  BY <1>1, <1>2, <1>3, <1>7, <1>8

\* The sizes of the fields of a header of L fields, all at once.
LEMMA SizesOf ==
  ASSUME NEW hdr, NEW L \in Nat, \A i \in 1 .. L : hdr[i][2] \in Nat
  PROVE  \E sz \in [0 .. L -> Nat] : /\ \A n \in 0 .. L : Net!SizeOfFields(hdr, n) = sz[n]
                                     /\ sz[0] = 0 /\ \A n \in 1 .. L : sz[n] = sz[n - 1] + hdr[n][2]
<1>1. PICK sz : sz = [n \in 0 .. L |-> Net!SizeOfFields(hdr, n)]
  OBVIOUS
<1>2. sz[0] = 0
  BY <1>1, SizeOfNone
<1>3. ASSUME NEW n \in 1 .. L PROVE sz[n - 1] \in Nat /\ sz[n] = sz[n - 1] + hdr[n][2] /\ sz[n] \in Nat
  <2>1. n \in Nat \ {0} /\ \A i \in 1 .. n : hdr[i][2] \in Nat
    OBVIOUS
  <2>2. Net!SizeOfFields(hdr, n - 1) \in Nat /\ Net!SizeOfFields(hdr, n) = Net!SizeOfFields(hdr, n - 1) + hdr[n][2]
    BY <2>1, SizeOfOneMore
  <2>3. sz[n] = Net!SizeOfFields(hdr, n)
    BY <1>1
  <2>4. sz[n - 1] = Net!SizeOfFields(hdr, n - 1)
    <3>1. PICK m \in 0 .. L : m = n - 1
      OBVIOUS
    <3> QED
      BY <1>1, <3>1
  <2>5. hdr[n][2] \in Nat
    OBVIOUS
  <2> QED
    BY <2>2, <2>3, <2>4, <2>5
<1>4. ASSUME NEW n \in 0 .. L PROVE sz[n] \in Nat
  <2>1. CASE n = 0
    BY <1>2, <2>1
  <2>2. CASE n \in 1 .. L
    BY <1>3, <2>2
  <2> QED
    BY <2>1, <2>2
<1>5. sz \in [0 .. L -> Nat]
  BY <1>1, <1>4
<1>6. \A n \in 0 .. L : Net!SizeOfFields(hdr, n) = sz[n]
  BY <1>1
<1> QED
  BY <1>2, <1>3, <1>5, <1>6

\* The fields of the headers, and where they begin.
LEMMA EthSizes ==
  /\ Len(Net!eth_hdr) = 3
  /\ Net!SizeOfFields(Net!eth_hdr, 0) = 0 /\ Net!SizeOfFields(Net!eth_hdr, 1) = 6
  /\ Net!SizeOfFields(Net!eth_hdr, 2) = 12 /\ Net!SizeOfFields(Net!eth_hdr, 3) = 14
<1>1. PICK h : h = Net!eth_hdr
  OBVIOUS
<1>2. Len(h) = 3 /\ h[1][2] = 6 /\ h[2][2] = 6 /\ h[3][2] = 2
  BY <1>1 DEF Net!eth_hdr
<1>3. PICK L \in Nat : L = 3
  OBVIOUS
<1>4. \A i \in 1 .. L : h[i][2] \in Nat
  BY <1>2, <1>3
<1>5. PICK sz \in [0 .. L -> Nat] : /\ \A n \in 0 .. L : Net!SizeOfFields(h, n) = sz[n]
                                    /\ sz[0] = 0 /\ \A n \in 1 .. L : sz[n] = sz[n - 1] + h[n][2]
  BY <1>4, SizesOf
<1>6. sz[1] = 6 /\ sz[2] = 12 /\ sz[3] = 14
  BY <1>2, <1>3, <1>5
<1> QED
  BY <1>1, <1>2, <1>3, <1>5, <1>6

LEMMA UdpSizes ==
  /\ Len(Net!udp_hdr) = 4
  /\ Net!SizeOfFields(Net!udp_hdr, 0) = 0 /\ Net!SizeOfFields(Net!udp_hdr, 1) = 2
  /\ Net!SizeOfFields(Net!udp_hdr, 2) = 4 /\ Net!SizeOfFields(Net!udp_hdr, 3) = 6
  /\ Net!SizeOfFields(Net!udp_hdr, 4) = 8
<1>1. PICK h : h = Net!udp_hdr
  OBVIOUS
<1>2. Len(h) = 4 /\ h[1][2] = 2 /\ h[2][2] = 2 /\ h[3][2] = 2 /\ h[4][2] = 2
  BY <1>1 DEF Net!udp_hdr
<1>3. PICK L \in Nat : L = 4
  OBVIOUS
<1>4. \A i \in 1 .. L : h[i][2] \in Nat
  BY <1>2, <1>3
<1>5. PICK sz \in [0 .. L -> Nat] : /\ \A n \in 0 .. L : Net!SizeOfFields(h, n) = sz[n]
                                    /\ sz[0] = 0 /\ \A n \in 1 .. L : sz[n] = sz[n - 1] + h[n][2]
  BY <1>4, SizesOf
<1>6. sz[1] = 2 /\ sz[2] = 4 /\ sz[3] = 6 /\ sz[4] = 8
  BY <1>2, <1>3, <1>5
<1> QED
  BY <1>1, <1>2, <1>3, <1>5, <1>6

LEMMA IpSizes ==
  /\ Len(Net!ip_hdr) = 10
  /\ Net!SizeOfFields(Net!ip_hdr, 0) = 0 /\ Net!SizeOfFields(Net!ip_hdr, 1) = 1
  /\ Net!SizeOfFields(Net!ip_hdr, 2) = 2 /\ Net!SizeOfFields(Net!ip_hdr, 3) = 4
  /\ Net!SizeOfFields(Net!ip_hdr, 4) = 6 /\ Net!SizeOfFields(Net!ip_hdr, 5) = 8
  /\ Net!SizeOfFields(Net!ip_hdr, 6) = 9 /\ Net!SizeOfFields(Net!ip_hdr, 7) = 10
  /\ Net!SizeOfFields(Net!ip_hdr, 8) = 12 /\ Net!SizeOfFields(Net!ip_hdr, 9) = 16
  /\ Net!SizeOfFields(Net!ip_hdr, 10) = 20
<1>1. PICK h : h = Net!ip_hdr
  OBVIOUS
<1>2. /\ Len(h) = 10 /\ h[1][2] = 1 /\ h[2][2] = 1 /\ h[3][2] = 2 /\ h[4][2] = 2 /\ h[5][2] = 2
      /\ h[6][2] = 1 /\ h[7][2] = 1 /\ h[8][2] = 2 /\ h[9][2] = 4 /\ h[10][2] = 4
  BY <1>1 DEF Net!ip_hdr
<1>3. PICK L \in Nat : L = 10
  OBVIOUS
<1>4. \A i \in 1 .. L : h[i][2] \in Nat
  BY <1>2, <1>3
<1>5. PICK sz \in [0 .. L -> Nat] : /\ \A n \in 0 .. L : Net!SizeOfFields(h, n) = sz[n]
                                    /\ sz[0] = 0 /\ \A n \in 1 .. L : sz[n] = sz[n - 1] + h[n][2]
  BY <1>4, SizesOf
<1>6. \A n \in 1 .. 10 : sz[n] = sz[n - 1] + h[n][2]
  BY <1>3, <1>5
<1>7. ASSUME NEW m \in 0 .. 9, NEW k, k = m + 1 PROVE sz[k] = sz[m] + h[k][2]
  <2>1. k \in 1 .. 10 /\ k - 1 = m
    BY <1>7
  <2> QED
    BY <1>6, <2>1
<1>8. /\ sz[1] = 1 /\ sz[2] = 2 /\ sz[3] = 4 /\ sz[4] = 6 /\ sz[5] = 8
      /\ sz[6] = 9 /\ sz[7] = 10 /\ sz[8] = 12 /\ sz[9] = 16 /\ sz[10] = 20
  <2>1. sz[1] = 1
    <3>1. 1 = 0 + 1 /\ 0 \in 0 .. 9
      OBVIOUS
    <3>2. sz[1] = sz[0] + h[1][2]
      BY <1>7, <3>1, Zenon
    <3> QED
      BY <1>2, <1>5, <3>2
  <2>2. sz[2] = 2
    <3>1. 2 = 1 + 1 /\ 1 \in 0 .. 9
      OBVIOUS
    <3>2. sz[2] = sz[1] + h[2][2]
      BY <1>7, <3>1, Zenon
    <3> QED
      BY <1>2, <2>1, <3>2
  <2>3. sz[3] = 4
    <3>1. 3 = 2 + 1 /\ 2 \in 0 .. 9
      OBVIOUS
    <3>2. sz[3] = sz[2] + h[3][2]
      BY <1>7, <3>1, Zenon
    <3> QED
      BY <1>2, <2>2, <3>2
  <2>4. sz[4] = 6
    <3>1. 4 = 3 + 1 /\ 3 \in 0 .. 9
      OBVIOUS
    <3>2. sz[4] = sz[3] + h[4][2]
      BY <1>7, <3>1, Zenon
    <3> QED
      BY <1>2, <2>3, <3>2
  <2>5. sz[5] = 8
    <3>1. 5 = 4 + 1 /\ 4 \in 0 .. 9
      OBVIOUS
    <3>2. sz[5] = sz[4] + h[5][2]
      BY <1>7, <3>1, Zenon
    <3> QED
      BY <1>2, <2>4, <3>2
  <2>6. sz[6] = 9
    <3>1. 6 = 5 + 1 /\ 5 \in 0 .. 9
      OBVIOUS
    <3>2. sz[6] = sz[5] + h[6][2]
      BY <1>7, <3>1, Zenon
    <3> QED
      BY <1>2, <2>5, <3>2
  <2>7. sz[7] = 10
    <3>1. 7 = 6 + 1 /\ 6 \in 0 .. 9
      OBVIOUS
    <3>2. sz[7] = sz[6] + h[7][2]
      BY <1>7, <3>1, Zenon
    <3> QED
      BY <1>2, <2>6, <3>2
  <2>8. sz[8] = 12
    <3>1. 8 = 7 + 1 /\ 7 \in 0 .. 9
      OBVIOUS
    <3>2. sz[8] = sz[7] + h[8][2]
      BY <1>7, <3>1, Zenon
    <3> QED
      BY <1>2, <2>7, <3>2
  <2>9. sz[9] = 16
    <3>1. 9 = 8 + 1 /\ 8 \in 0 .. 9
      OBVIOUS
    <3>2. sz[9] = sz[8] + h[9][2]
      BY <1>7, <3>1, Zenon
    <3> QED
      BY <1>2, <2>8, <3>2
  <2>10. sz[10] = 20
    <3>1. 10 = 9 + 1 /\ 9 \in 0 .. 9
      OBVIOUS
    <3>2. sz[10] = sz[9] + h[10][2]
      BY <1>7, <3>1, Zenon
    <3> QED
      BY <1>2, <2>9, <3>2
  <2> QED
    BY <2>1, <2>2, <2>3, <2>4, <2>5, <2>6, <2>7, <2>8, <2>9, <2>10
<1>9. \A n \in 0 .. 10 : Net!SizeOfFields(h, n) = sz[n]
  BY <1>3, <1>5
<1>10. h = Net!ip_hdr /\ Len(h) = 10 /\ sz[0] = 0
  BY <1>1, <1>2, <1>5
<1>11. /\ Net!SizeOfFields(h, 0) = sz[0] /\ Net!SizeOfFields(h, 1) = sz[1] /\ Net!SizeOfFields(h, 2) = sz[2]
       /\ Net!SizeOfFields(h, 3) = sz[3] /\ Net!SizeOfFields(h, 4) = sz[4] /\ Net!SizeOfFields(h, 5) = sz[5]
       /\ Net!SizeOfFields(h, 6) = sz[6] /\ Net!SizeOfFields(h, 7) = sz[7] /\ Net!SizeOfFields(h, 8) = sz[8]
       /\ Net!SizeOfFields(h, 9) = sz[9] /\ Net!SizeOfFields(h, 10) = sz[10]
  BY <1>9
<1> QED
  BY <1>8, <1>10, <1>11, Zenon

\* The offsets of the headers in a packet.
LEMMA Offsets ==
  /\ Net!IpAt = 14 /\ Net!UdpAt = 34 /\ Net!PayloadAt = 42
  /\ Net!PaddedIpAt = 16 /\ Net!PaddedUdpAt = 36 /\ Net!PaddedPayloadAt = 44
<1>1. Net!SizeOf(Net!eth_hdr) = 14 /\ Net!SizeOf(Net!ip_hdr) = 20 /\ Net!SizeOf(Net!udp_hdr) = 8
  BY EthSizes, IpSizes, UdpSizes, Zenon DEF Net!SizeOf
<1>2. Net!IpAt = 14 /\ Net!UdpAt = 34 /\ Net!PayloadAt = 42
  BY <1>1 DEF Net!IpAt, Net!UdpAt, Net!PayloadAt
<1>3. ((14 + 3) \div 4) * 4 = 16
  OBVIOUS
<1>4. Net!PaddedIpAt = 16
  BY <1>1, <1>3 DEF Net!PaddedIpAt
<1> QED
  BY <1>1, <1>2, <1>4 DEF Net!PaddedUdpAt, Net!PaddedPayloadAt

\* The buffers use the same layout.
LEMMA BufPayloadAt == Buf!Net!PayloadAt = Net!PayloadAt
  BY Zenon DEF Net!PayloadAt, Net!UdpAt, Net!IpAt, Net!SizeOf, Net!SizeOfFields, Net!eth_hdr, Net!ip_hdr, Net!udp_hdr,
     Buf!Net!PayloadAt, Buf!Net!UdpAt, Buf!Net!IpAt, Buf!Net!SizeOf, Buf!Net!SizeOfFields,
     Buf!Net!eth_hdr, Buf!Net!ip_hdr, Buf!Net!udp_hdr

\* A buffer that nothing was written to.
LEMMA FreshBuffer ==
  ASSUME NEW head_len \in Nat, NEW D, D = 0 .. head_len + 2 * Buf!RX_BUF_HEAD - 1
  PROVE  /\ Memory(head_len) \in [D -> Int] /\ \A o \in D : Memory(head_len)[o] = Untouched
         /\ Buf!mbuf_init(Memory(head_len), head_len, 0) \in Mbufs(D)
         /\ Buf!mbuf_init(Memory(head_len), head_len, 0).bytes = Memory(head_len)
         /\ Buf!mbuf_init(Memory(head_len), head_len, 0).data = 0
         /\ Buf!mbuf_init(Memory(head_len), head_len, 0).len = 0
         /\ Buf!mbuf_init(Memory(head_len), head_len, 0).head_len = head_len
<1>1. Memory(head_len) = [o \in D |-> -1]
  BY DEF Memory, Untouched
<1>2. Memory(head_len) \in [D -> Int] /\ \A o \in D : Memory(head_len)[o] = -1
  BY <1>1
<1>3. Buf!mbuf_init(Memory(head_len), head_len, 0) = [bytes |-> Memory(head_len), head_len |-> head_len, data |-> 0, len |-> 0]
  BY Zenon DEF Buf!mbuf_init
<1> HIDE DEF Memory
<1> QED
  BY <1>2, <1>3 DEF Mbufs, Untouched

\* What CopiesExact says of do_client.
RequestGood(packet, ret) ==
    /\ Buf!mbuf_length(ret) = Len(packet)
    /\ \A o \in DOMAIN ret.bytes : ret.bytes[o] = IF o < Len(packet) THEN packet[o + 1] ELSE Untouched

LEMMA RequestCopied ==
  ASSUME NEW head_len \in Nat, NEW header \in Seq(Int), NEW payload \in Seq(Int)
  PROVE  RequestGood(header \o payload, Buf!client_packet(Memory(head_len), head_len, header, payload))
<1>1. PICK D : D = 0 .. head_len + 2 * Buf!RX_BUF_HEAD - 1
  OBVIOUS
<1>2. D \subseteq Int
  BY <1>1
<1>3. PICK m : m = Buf!mbuf_init(Memory(head_len), head_len, 0)
  OBVIOUS
<1>4. m \in Mbufs(D) /\ m.bytes = Memory(head_len) /\ m.data = 0 /\ m.len = 0
  BY <1>1, <1>3, FreshBuffer, Zenon
<1>5. PICK a, b : a = Buf!mbuf_copy(m, header, 0) /\ b = Buf!mbuf_copy(a, payload, Len(header))
  OBVIOUS
<1>6. PICK h \in Nat, p \in Nat : h = Len(header) /\ p = Len(payload)
  OBVIOUS
<1>7. a \in Mbufs(D) /\ a.len = h /\ a.bytes = Written(D, m.bytes, 0, header) /\ a.data = 0
  <2>1. PICK z \in Int : z = 0
    OBVIOUS
  <2>2. a = Buf!mbuf_copy(m, header, z)
    BY <1>5, <2>1
  <2>3. a \in Mbufs(D) /\ a.len = m.len + Len(header) /\ a.bytes = Written(D, m.bytes, m.data + z, header) /\ a.data = m.data
    <3>1. CopyDone(D, m, header, z, Buf!mbuf_copy(m, header, z))
      BY <1>2, <1>4, CopyIs
    <3> QED
      BY <2>2, <3>1, Zenon DEF CopyDone
  <2>4. m.len + Len(header) = h /\ m.data + z = 0
    BY <1>4, <1>6, <2>1
  <2> QED
    BY <1>4, <2>3, <2>4
<1>8. b \in Mbufs(D) /\ b.len = h + p /\ b.bytes = Written(D, a.bytes, h, payload)
  <2>1. b = Buf!mbuf_copy(a, payload, h)
    BY <1>5, <1>6
  <2>2. b \in Mbufs(D) /\ b.len = a.len + Len(payload) /\ b.bytes = Written(D, a.bytes, a.data + h, payload)
    <3>1. CopyDone(D, a, payload, h, Buf!mbuf_copy(a, payload, h))
      <4>1. h \in Int
        OBVIOUS
      <4> QED
        BY <1>2, <1>7, <4>1, CopyIs
    <3> QED
      BY <2>1, <3>1, Zenon DEF CopyDone
  <2>3. a.data + h = h
    BY <1>7
  <2> QED
    BY <1>6, <1>7, <2>2, <2>3
<1>9. PICK packet : packet = header \o payload
  OBVIOUS
<1>10. Len(packet) = h + p /\ \A i \in 1 .. h + p : packet[i] = IF i <= h THEN header[i] ELSE payload[i - h]
  BY <1>6, <1>9
<1>11. ASSUME NEW o \in D PROVE b.bytes[o] = IF o < Len(packet) THEN packet[o + 1] ELSE Untouched
  <2>1. o \in Nat /\ m.bytes[o] = Untouched
    <3>1. Memory(head_len)[o] = Untouched
      BY <1>1 DEF Memory
    <3> QED
      BY <1>1, <1>4, <3>1
  <2>2. a.bytes[o] = IF o \in 0 .. 0 + Len(header) - 1 THEN header[o - 0 + 1] ELSE m.bytes[o]
    BY <1>7, Zenon DEF Written
  <2>3. b.bytes[o] = IF o \in h .. h + Len(payload) - 1 THEN payload[o - h + 1] ELSE a.bytes[o]
    BY <1>8, Zenon DEF Written
  <2>4. CASE o < h
    <3>1. o \in 0 .. 0 + Len(header) - 1 /\ o \notin h .. h + Len(payload) - 1 /\ o + 1 \in 1 .. h + p /\ o - 0 + 1 = o + 1 /\ o + 1 <= h
      BY <1>6, <2>1, <2>4
    <3>2. b.bytes[o] = header[o + 1]
      BY <2>2, <2>3, <3>1
    <3>3. packet[o + 1] = header[o + 1]
      BY <1>10, <3>1
    <3> QED
      <4>1. o < Len(packet)
        BY <1>6, <1>10, <2>1, <2>4
      <4> QED
        BY <3>2, <3>3, <4>1
  <2>5. CASE o >= h /\ o < h + p
    <3>1. o \in h .. h + p - 1 /\ p = Len(payload) /\ o + 1 \in 1 .. h + p /\ o + 1 - h = o - h + 1 /\ ~ (o + 1 <= h)
      <4>1. o \in Nat
        BY <2>1
      <4> QED
        BY <1>6, <2>5, <4>1
    <3>2. b.bytes[o] = payload[o - h + 1]
      BY <2>3, <3>1
    <3>3. packet[o + 1] = payload[o - h + 1]
      BY <1>10, <3>1
    <3> QED
      <4>1. o < Len(packet)
        BY <1>6, <1>10, <2>1, <2>5
      <4> QED
        BY <3>2, <3>3, <4>1
  <2>6. CASE o >= h + p
    <3>1. o \notin 0 .. 0 + Len(header) - 1 /\ o \notin h .. h + Len(payload) - 1 /\ ~ (o < Len(packet))
      BY <1>6, <1>10, <2>1, <2>6
    <3> QED
      BY <2>1, <2>2, <2>3, <3>1
  <2> QED
    BY <2>1, <2>4, <2>5, <2>6
<1>12. b.bytes \in [D -> Int]
  BY <1>8 DEF Mbufs
<1>13. Buf!client_packet(Memory(head_len), head_len, header, payload) = b
  BY <1>3, <1>5, Zenon DEF Buf!client_packet
<1>14. Buf!mbuf_length(b) = Len(packet)
  BY <1>8, <1>10 DEF Buf!mbuf_length
<1>15. RequestGood(packet, b)
  BY <1>11, <1>12, <1>14 DEF RequestGood
<1> QED
  BY <1>9, <1>13, <1>15, Zenon

\* A value that is all there is read as it was written.
LEMMA ReadUniform ==
  ASSUME NEW pkt, NEW at \in Int, NEW size \in Nat \ {0}, NEW v,
         \A o \in at .. at + size - 1 : pkt[o] = <<v, o - at>>
  PROVE  Net!ReadBytes(pkt, at, size) = v
<1>1. at \in at .. at + size - 1
  OBVIOUS
<1>2. pkt[at][1] = v
  BY <1>1
<1>3. v \in {pkt[o][1] : o \in at .. at + size - 1}
  BY <1>1, <1>2
<1>4. \E w \in {pkt[o][1] : o \in at .. at + size - 1} : \A o \in at .. at + size - 1 : pkt[o] = <<w, o - at>>
  BY <1>3
<1> QED
  BY <1>2, <1>4, Zenon DEF Net!ReadBytes

LEMMA BufReads ==
  ASSUME NEW pkt, NEW at, NEW size
  PROVE  Buf!Net!ReadBytes(pkt, at, size) = Net!ReadBytes(pkt, at, size)
  BY Zenon DEF Net!ReadBytes, Buf!Net!ReadBytes

\* A request in a receive buffer: word k of its payload names segment k.
ReceivedBytes(segments) ==
    LET word(o) == (o - Buf!RX_BUF_HEAD - Net!PayloadAt) \div Buf!WordSize
        len == Net!PayloadAt + Buf!WordSize * (Len(segments) + Buf!SEGLIST_OFFSET)
    IN  [o \in Buf!RX_BUF_HEAD + Net!PayloadAt + Buf!WordSize .. Buf!RX_BUF_HEAD + len - 1 |->
            <<segments[word(o)], (o - Buf!RX_BUF_HEAD - Net!PayloadAt) % Buf!WordSize>>]

\* The segments read from a request are the ones asked for.
Asked(request, n, segments) ==
    \A seg \in 1 .. n : Buf!RequestedSegments(request, n)[seg] = segments[seg]

LEMMA SegmentsRead ==
  ASSUME NEW n \in Nat, NEW segments \in [1 .. n -> Nat], NEW head_len, NEW len
  PROVE  Asked(Buf!mbuf_fill_cqe(ReceivedBytes(segments), head_len, len), n, segments)
<1> SUFFICES ASSUME NEW seg \in 1 .. n
             PROVE  Buf!RequestedSegments(Buf!mbuf_fill_cqe(ReceivedBytes(segments), head_len, len), n)[seg] = segments[seg]
  BY Zenon DEF Asked
<1>1. PICK buf : buf = ReceivedBytes(segments)
  OBVIOUS
<1>2. PICK request : request = Buf!mbuf_fill_cqe(buf, head_len, len)
  OBVIOUS
<1>3. request.bytes = buf /\ request.data = 16
  BY <1>2 DEF Buf!mbuf_fill_cqe, Buf!mbuf_init, Buf!RX_BUF_HEAD
<1>4. PICK at \in Int : at = 58 + 8 * seg
  OBVIOUS
<1>5. Buf!RequestedSegments(request, n)[seg] = Net!ReadBytes(buf, at, 8)
  <2>1. Buf!RequestedSegments(request, n)[seg]
        = Buf!read_u64(request.bytes, request.data + Buf!Net!PayloadAt, seg - 1 + Buf!SEGLIST_OFFSET)
    BY DEF Buf!RequestedSegments, Buf!mbuf_data
  <2>2. seg - 1 + Buf!SEGLIST_OFFSET = seg
    BY DEF Buf!SEGLIST_OFFSET
  <2>3. request.data + Buf!Net!PayloadAt = 58
    BY <1>3, BufPayloadAt, Offsets
  <2>4. Buf!read_u64(buf, 58, seg) = Buf!Net!ReadBytes(buf, 58 + seg * 8, 8)
    BY DEF Buf!read_u64, Buf!WordSize
  <2>5. 58 + seg * 8 = at
    BY <1>4
  <2>6. Buf!RequestedSegments(request, n)[seg] = Buf!Net!ReadBytes(buf, at, 8)
    BY <1>3, <2>1, <2>2, <2>3, <2>4, <2>5, Zenon
  <2> QED
    BY <2>6, BufReads, Zenon
<1>6. ASSUME NEW o \in at .. at + 8 - 1 PROVE buf[o] = <<segments[seg], o - at>>
  <2>1. Len(segments) = n
    OBVIOUS
  <2>2. buf = [p \in 16 + 42 + 8 .. 16 + (42 + 8 * (n + 1)) - 1 |-> <<segments[(p - 16 - 42) \div 8], (p - 16 - 42) % 8>>]
    BY <1>1, <2>1, Offsets, Zenon DEF ReceivedBytes, Buf!RX_BUF_HEAD, Buf!WordSize, Buf!SEGLIST_OFFSET
  <2>3. o \in 16 + 42 + 8 .. 16 + (42 + 8 * (n + 1)) - 1
    BY <1>4
  <2>4. PICK d \in Int, r \in Int : d = o - 16 - 42 /\ r = o - at
    BY <1>4
  <2>5. d = 8 * seg + r /\ r \in 0 .. 7
    BY <1>4, <2>4
  <2>6. d \div 8 = seg /\ d % 8 = r
    BY <2>5
  <2>7. buf[o] = <<segments[(o - 16 - 42) \div 8], (o - 16 - 42) % 8>>
    BY <2>2, <2>3, Zenon
  <2> QED
    BY <2>4, <2>6, <2>7
<1>7. Net!ReadBytes(buf, at, 8) = segments[seg]
  <2>1. PICK size \in Nat \ {0} : size = 8
    OBVIOUS
  <2>2. PICK v : v = segments[seg]
    OBVIOUS
  <2>3. \A o \in at .. at + size - 1 : buf[o] = <<v, o - at>>
    BY <1>6, <2>1, <2>2
  <2> QED
    <3>1. Net!ReadBytes(buf, at, size) = v
      BY <2>3, ReadUniform, Zenon
    <3> QED
      BY <2>1, <2>2, <3>1
<1> QED
  BY <1>1, <1>2, <1>5, <1>7, Zenon

\* What a copied reply holds, o bytes from its head, when k segments of the
\* regions named are in it.
Holds(region, size, k, o) ==
    IF o < Buf!header_len \/ o >= Buf!header_len + k * size THEN Untouched
    ELSE region[(o - Buf!header_len) \div size + 1] + ((o - Buf!header_len) % size)

HoldsAll(D, bytes, region, size, k) == \A o \in D : bytes[o] = Holds(region, size, k, o)

\* One more segment.
LEMMA HoldsMore ==
  ASSUME NEW n \in Nat, NEW region \in [1 .. n -> Int], NEW size \in Nat, NEW k \in 1 .. n,
         NEW D, D \subseteq Int, NEW bytes, HoldsAll(D, bytes, region, size, k - 1),
         NEW source, source = [i \in 1 .. size |-> region[k] + i - 1]
  PROVE  HoldsAll(D, Written(D, bytes, Buf!SegmentAt(k, size), source), region, size, k)
<1> SUFFICES ASSUME NEW o \in D
             PROVE  Written(D, bytes, Buf!SegmentAt(k, size), source)[o] = Holds(region, size, k, o)
  BY DEF HoldsAll
<1>1. PICK H \in Nat : H = Buf!header_len
  BY BufPayloadAt, Offsets DEF Buf!header_len
<1>2. PICK a \in Nat, b \in Nat : a = (k - 1) * size /\ b = k * size /\ b = a + size /\ a = size * (k - 1)
  BY Z3
<1>11. b = a + size
  BY <1>2
<1>12. PICK at : at = H + a
  OBVIOUS
<1>3. Len(source) = size
  OBVIOUS
<1>4. Buf!SegmentAt(k, size) = H + a
  BY <1>1, <1>2 DEF Buf!SegmentAt
<1>5. PICK x \in Int : x = o
  OBVIOUS
<1>6. Written(D, bytes, Buf!SegmentAt(k, size), source)[o]
      = IF x \in H + a .. H + a + size - 1 THEN source[x - (H + a) + 1] ELSE bytes[o]
  <2>1. Buf!SegmentAt(k, size) = at
    BY <1>4, <1>12
  <2>2. Written(D, bytes, at, source)[o] = IF o \in at .. at + Len(source) - 1 THEN source[o - at + 1] ELSE bytes[o]
    BY Zenon DEF Written
  <2> QED
    BY <1>3, <1>5, <1>12, <2>1, <2>2, Zenon
<1>7. bytes[o] = IF x < H \/ x >= H + a THEN Untouched ELSE region[(x - H) \div size + 1] + ((x - H) % size)
  BY <1>1, <1>2, <1>5, Zenon DEF Holds, HoldsAll
<1>8. Holds(region, size, k, o) = IF x < H \/ x >= H + b THEN Untouched ELSE region[(x - H) \div size + 1] + ((x - H) % size)
  BY <1>1, <1>2, <1>5, Zenon DEF Holds
<1>9. CASE x \in H + a .. H + a + size - 1
  <2>1. PICK r \in 0 .. size - 1, d \in Int : d = x - H /\ r = d - a /\ d = a + r
    BY <1>9
  <2>2. size \in Nat \ {0} /\ d = size * (k - 1) + r
    BY <1>2, <2>1
  <2>3. d \div size = k - 1 /\ d % size = r
    <3>1. PICK c \in Int : c = k - 1
      OBVIOUS
    <3>2. PICK per \in Nat \ {0} : per = size
      BY <2>2
    <3>3. d = per * c + r /\ r \in 0 .. per - 1
      BY <2>2, <3>1, <3>2
    <3>4. d % per = r /\ d \div per = c
      BY <3>3, ModUnique
    <3> QED
      BY <3>1, <3>2, <3>4
  <2>4. ~ (x < H \/ x >= H + b)
    BY <1>9, <1>11
  <2>5. Holds(region, size, k, o) = region[k] + r
    <3>1. Holds(region, size, k, o) = region[d \div size + 1] + (d % size)
      BY <1>8, <2>1, <2>4
    <3>2. PICK q \in Int : q = d \div size /\ q + 1 = k
      BY <2>3
    <3> QED
      BY <2>3, <3>1, <3>2, Zenon
  <2>6. source[x - (H + a) + 1] = region[k] + r
    <3>1. x - (H + a) + 1 = r + 1 /\ r + 1 \in 1 .. size /\ region[k] \in Int
      BY <2>1
    <3>2. PICK c \in Int : c = region[k]
      BY <3>1
    <3>3. source[r + 1] = c + (r + 1) - 1
      BY <3>1, <3>2
    <3>4. c + (r + 1) - 1 = c + r
      BY <3>2
    <3> QED
      BY <3>1, <3>2, <3>3, <3>4, Zenon
  <2> QED
    BY <1>6, <1>9, <2>5, <2>6
<1>10. CASE x \notin H + a .. H + a + size - 1
  <2>1. (x < H \/ x >= H + a) <=> (x < H \/ x >= H + b)
    BY <1>10, <1>11
  <2> QED
    BY <1>6, <1>7, <1>8, <1>10, <2>1, Zenon
<1> QED
  BY <1>9, <1>10

\* What CopiesExact says of process_server_requests.
ReplyGood(segments, segment_size, ret) ==
    \A o \in DOMAIN ret.bytes :
        LET i == o - (Net!PayloadAt + 16)
        IN  IF o < Net!PayloadAt + 16 \/ o >= Buf!mbuf_length(ret)
            THEN ret.bytes[o] = Untouched
            ELSE ret.bytes[o] = (segments[i \div segment_size + 1] % num_total_segments)
                                     * segment_size + (i % segment_size)

LEMMA ReplyCopied ==
  ASSUME NEW head_len \in Nat, NEW size \in Nat, NEW n \in Nat \ {0}, NEW segments \in [1 .. n -> Nat],
         NEW request, Asked(request, n, segments)
  PROVE  ReplyGood(segments, size, Buf!copied_packet(Memory(head_len), head_len, request, n, size, num_total_segments))
<1>1. PICK D : D = 0 .. head_len + 2 * Buf!RX_BUF_HEAD - 1
  OBVIOUS
<1>2. D \subseteq Int
  BY <1>1
<1> DEFINE m == Buf!mbuf_init(Memory(head_len), head_len, 0)
           asked == Buf!RequestedSegments(request, n)
<1>4. m \in Mbufs(D) /\ m.bytes = Memory(head_len) /\ m.data = 0 /\ m.len = 0
  BY <1>1, FreshBuffer, Zenon
<1>6. PICK region : region = [seg \in 1 .. n |-> (asked[seg] % num_total_segments) * size]
  OBVIOUS
<1>7. ASSUME NEW seg \in 1 .. n PROVE region[seg] \in Nat /\ region[seg] = (segments[seg] % num_total_segments) * size
  <2>1. PICK t \in Int, s \in Nat : t = segments[seg] /\ s = t % 3
    BY Z3
  <2>2. region[seg] = s * size
    BY <1>6, <2>1 DEF num_total_segments, Asked
  <2>3. s * size \in Nat
    BY Z3
  <2> QED
    BY <2>1, <2>2, <2>3 DEF num_total_segments
<1>8. region \in [1 .. n -> Int]
  BY <1>6, <1>7
<1> DEFINE source(seg) == [i \in 1 .. size |-> (asked[seg] % num_total_segments) * size + i - 1]
           copy(f, seg) == Buf!mbuf_copy(f, source(seg), Buf!SegmentAt(seg, size))
           Step(g) == [seg \in 0 .. n |-> IF seg = 0 THEN m ELSE copy(g[seg - 1], seg)]
           copied == CHOOSE g : g = Step(g)
<1>9. Buf!copied_packet(Memory(head_len), head_len, request, n, size, num_total_segments)
      = [copied[n] EXCEPT !.len = Buf!header_len + size * n]
  BY Zenon DEF Buf!copied_packet
<1> HIDE DEF m
<1>10. ASSUME NEW seg \in 1 .. n
       PROVE  source(seg) = [i \in 1 .. size |-> region[seg] + i - 1] /\ source(seg) \in Seq(Int)
              /\ Buf!SegmentAt(seg, size) \in Int
  <2>1. source(seg) = [i \in 1 .. size |-> region[seg] + i - 1]
    BY <1>6, Zenon
  <2>2. [i \in 1 .. size |-> region[seg] + i - 1] \in Seq(Int)
    BY <1>7
  <2>3. Buf!header_len \in Int
    BY BufPayloadAt, Offsets DEF Buf!header_len
  <2>4. (seg - 1) * size \in Int
    BY Z3
  <2>5. Buf!SegmentAt(seg, size) \in Int
    BY <2>3, <2>4 DEF Buf!SegmentAt
  <2> HIDE DEF source
  <2> QED
    BY <2>1, <2>2, <2>5
<1> HIDE DEF source
<1> DEFINE V == {f \in Mbufs(D) : f.data = 0}
<1>11. ASSUME NEW seg \in 1 .. n, NEW f \in V
       PROVE  copy(f, seg) \in V /\ copy(f, seg).bytes = Written(D, f.bytes, Buf!SegmentAt(seg, size), source(seg))
  <2>1. PICK at \in Int : at = Buf!SegmentAt(seg, size)
    BY <1>10
  <2>2. PICK r : r = copy(f, seg)
    OBVIOUS
  <2>3. CopyDone(D, f, source(seg), at, Buf!mbuf_copy(f, source(seg), at))
    BY <1>2, <1>10, CopyIs
  <2>4. CopyDone(D, f, source(seg), at, r)
    BY <2>1, <2>2, <2>3
  <2>5. f.data = 0 /\ f.data + at = at
    OBVIOUS
  <2>6. r \in Mbufs(D) /\ r.data = 0 /\ r.bytes = Written(D, f.bytes, at, source(seg))
    BY <2>4, <2>5 DEF CopyDone
  <2> QED
    BY <2>1, <2>2, <2>6
<1> HIDE DEF copy
<1>12. copied = Step(copied)
  <2>1. PICK W : W = V
    OBVIOUS
  <2>2. PICK base \in W : base = m
    BY <1>4, <2>1
  <2>3. PICK next : next = [p \in (1 .. n) \X W |-> copy(p[2], p[1])]
    OBVIOUS
  <2>4. next \in [(1 .. n) \X W -> W]
    <3> HIDE DEF V
    <3> QED
      BY <1>11, <2>1, <2>3
  <2>5. PICK G : G \in Recursive(n, W, base, next)
    <3>1. n \in Nat
      OBVIOUS
    <3> QED
      BY <2>4, <3>1, Recursion
  <2>6. G = Step(G)
    <3>1. G \in [0 .. n -> W] /\ G[0] = base /\ \A i \in 1 .. n : G[i] = next[<<i, G[i - 1]>>]
      BY <2>5 DEF Recursive
    <3>2. ASSUME NEW i \in 1 .. n PROVE G[i] = copy(G[i - 1], i)
      <4>1. <<i, G[i - 1]>> \in (1 .. n) \X W
        BY <3>1
      <4> QED
        BY <2>3, <3>1, <4>1
    <3> QED
      BY <2>2, <3>1, <3>2
  <2> HIDE DEF Step
  <2> QED
    BY <2>6, Zenon
<1>13. PICK g : g = copied /\ g = [seg \in 0 .. n |-> IF seg = 0 THEN m ELSE copy(g[seg - 1], seg)]
  BY <1>12
<1> HIDE DEF copied
<1> DEFINE S == {k \in 0 .. n : g[k] \in V /\ \A o \in D : g[k].bytes[o] = Holds(region, size, k, o)}
<1>14. 0 \in S
  <2>1. g[0] = m
    BY <1>13
  <2>2. ASSUME NEW o \in D PROVE m.bytes[o] = Holds(region, size, 0, o)
    <3>1. m.bytes[o] = Untouched
      BY <1>1, <1>4 DEF Memory
    <3>2. PICK H \in Int, x \in Int : H = Buf!header_len /\ x = o
      BY <1>2, BufPayloadAt, Offsets DEF Buf!header_len
    <3>3. H + 0 * size = H
      BY Z3
    <3>4. x < H \/ x >= H + 0 * size
      BY <3>3
    <3> QED
      BY <3>1, <3>2, <3>4 DEF Holds
  <2> QED
    BY <1>4, <2>1, <2>2
<1>15. ASSUME NEW k \in 0 .. n - 1, k \in S PROVE k + 1 \in S
  <2>1. PICK i \in 1 .. n : i = k + 1 /\ i - 1 = k /\ i # 0 /\ i \in 0 .. n
    OBVIOUS
  <2>2. PICK f \in V : f = g[k] /\ \A o \in D : f.bytes[o] = Holds(region, size, i - 1, o)
    BY <1>15, <2>1
  <2>3. g[i] = copy(f, i)
    BY <1>13, <2>1, <2>2
  <2>4. g[i] \in V /\ g[i].bytes = Written(D, f.bytes, Buf!SegmentAt(i, size), source(i))
    <3> HIDE DEF V
    <3> QED
      BY <1>11, <2>3
  <2>5. PICK bytes, src : bytes = f.bytes /\ src = source(i) /\ src = [j \in 1 .. size |-> region[i] + j - 1]
    BY <1>10
  <2>6. HoldsAll(D, bytes, region, size, i - 1)
    BY <2>2, <2>5 DEF HoldsAll
  <2>7. HoldsAll(D, Written(D, bytes, Buf!SegmentAt(i, size), src), region, size, i)
    <3>1. n \in Nat
      OBVIOUS
    <3> QED
      BY <1>2, <1>8, <2>5, <2>6, <3>1, HoldsMore
  <2>8. \A o \in D : g[i].bytes[o] = Holds(region, size, i, o)
    BY <2>4, <2>5, <2>7 DEF HoldsAll
  <2> QED
    BY <2>1, <2>4, <2>8
<1>16. \A k \in 0 .. n : k \in S
  <2>1. n \in Nat
    OBVIOUS
  <2> HIDE DEF S
  <2> QED
    BY <1>14, <1>15, <2>1, UpTo
<1>17. g[n] \in Mbufs(D) /\ \A o \in D : g[n].bytes[o] = Holds(region, size, n, o)
  <2>1. n \in S
    BY <1>16
  <2> QED
    BY <2>1
<1>18. PICK ret : ret = [g[n] EXCEPT !.len = Buf!header_len + size * n]
  OBVIOUS
<1>19. ret.bytes = g[n].bytes /\ ret.len = Buf!header_len + size * n /\ DOMAIN ret.bytes = D
  <2>1. PICK f \in Mbufs(D) : f = g[n]
    BY <1>17
  <2>2. PICK l : l = Buf!header_len + size * n
    OBVIOUS
  <2>3. ret = [f EXCEPT !.len = l]
    BY <1>18, <2>1, <2>2
  <2>4. ret.bytes = f.bytes /\ ret.len = l
    BY <2>3 DEF Mbufs
  <2>5. f.bytes \in [D -> Int]
    BY DEF Mbufs
  <2> QED
    BY <2>1, <2>2, <2>4, <2>5
<1>20. ASSUME NEW o \in D
       PROVE  LET i == o - (Net!PayloadAt + 16)
              IN  IF o < Net!PayloadAt + 16 \/ o >= Buf!mbuf_length(ret)
                  THEN ret.bytes[o] = Untouched
                  ELSE ret.bytes[o] = (segments[i \div size + 1] % num_total_segments) * size + (i % size)
  <2>1. PICK H \in Int, L \in Int : H = Buf!header_len /\ H = Net!PayloadAt + 16 /\ L = H + n * size /\ L = Buf!mbuf_length(ret)
    <3>1. PICK H \in Int : H = Buf!header_len /\ H = Net!PayloadAt + 16
      BY BufPayloadAt, Offsets DEF Buf!header_len
    <3>2. PICK L \in Int : L = H + n * size /\ L = H + size * n
      BY Z3
    <3> QED
      BY <1>19, <3>1, <3>2 DEF Buf!mbuf_length
  <2>2. ret.bytes[o] = Holds(region, size, n, o)
    BY <1>17, <1>19
  <2>3. CASE o < H \/ o >= L
    BY <2>1, <2>2, <2>3, Zenon DEF Holds
  <2>4. CASE ~ (o < H \/ o >= L)
    <3>1. PICK d \in Int : d = o - H
      BY <1>2
    <3>2. d >= 0 /\ d < L - H
      BY <1>2, <2>4, <3>1
    <3>3. L - H = n * size /\ n * size \in Int
      BY <2>1
    <3>4. d < n * size /\ size \in Nat \ {0}
      <4>1. d < n * size
        BY <3>2, <3>3
      <4>2. size # 0
        BY <3>2, <4>1, Z3
      <4> QED
        BY <4>1, <4>2
    <3>5. PICK q \in 0 .. n - 1, r \in 0 .. size - 1 : q = d \div size /\ r = d % size
      <4>1. PICK k \in 1 .. n * size : k = d + 1 /\ k - 1 = d
        BY <3>2, <3>3, <3>4
      <4>2. n \in Nat /\ size \in Nat
        OBVIOUS
      <4>3. PICK q \in 0 .. n - 1, r \in 0 .. size - 1 : q = (k - 1) \div size /\ r = (k - 1) % size
        BY <4>2, Cell
      <4> QED
        BY <4>1, <4>3
    <3>6. q + 1 \in 1 .. n
      OBVIOUS
    <3>7. ret.bytes[o] = region[q + 1] + r
      <4>1. ret.bytes[o] = region[(o - H) \div size + 1] + ((o - H) % size)
        BY <2>1, <2>2, <2>4, Zenon DEF Holds
      <4> QED
        BY <3>1, <3>5, <4>1, Zenon
    <3>8. region[q + 1] = (segments[q + 1] % num_total_segments) * size
      BY <1>7, <3>6, Zenon
    <3>9. ret.bytes[o] = (segments[(o - H) \div size + 1] % num_total_segments) * size + ((o - H) % size)
      BY <3>1, <3>5, <3>7, <3>8, Zenon
    <3> QED
      BY <2>1, <2>4, <3>9, Zenon
  <2> QED
    BY <2>3, <2>4
<1>21. ReplyGood(segments, size, ret)
  BY <1>19, <1>20, Zenon DEF ReplyGood
<1> QED
  BY <1>9, <1>13, <1>18, <1>21, Zenon

\* CopiesExact, whether or not the packet fits its buffer.
CopyInv ==
    /\ call.fn = "rte_memcpy" => call.ret = 0 .. call.n - 1
    /\ call.fn = "do_client" => RequestGood(call.packet, call.ret)
    /\ call.fn = "process_server_requests" => ReplyGood(call.segments, call.segment_size, call.ret)

LEMMA CopyInvGivesCopies == CopyInv => CopiesExact
<1> SUFFICES ASSUME CopyInv PROVE CopiesExact
  OBVIOUS
<1>1. call.fn = "rte_memcpy" => call.ret = 0 .. call.n - 1
  BY DEF CopyInv
<1>2. call.fn = "do_client" => RequestGood(call.packet, call.ret)
  BY DEF CopyInv
<1>3. call.fn = "process_server_requests" => ReplyGood(call.segments, call.segment_size, call.ret)
  BY DEF CopyInv
<1> QED
  BY <1>1, <1>2, <1>3, Zenon DEF CopiesExact, RequestGood, ReplyGood

\* CopyRequest: the arguments of do_client.
LEMMA RequestStep ==
  ASSUME CopyRequest
  PROVE  call'.fn = "do_client" /\ RequestGood(call'.packet, call'.ret)
<1>1. PICK head_len \in BufLens, num_segments \in 1 .. 3 :
        LET header == [i \in 1 .. Net!PaddedPayloadAt |-> i]
            payload == [i \in 1 .. Buf!WordSize * (num_segments + Buf!SEGLIST_OFFSET) |-> Len(header) + i]
        IN  call' = [fn |-> "do_client", packet |-> header \o payload,
                     ret |-> Buf!client_packet(Memory(head_len), head_len, header, payload)]
  BY Zenon DEF CopyRequest
<1>2. PICK header, payload :
        /\ header = [i \in 1 .. Net!PaddedPayloadAt |-> i]
        /\ payload = [i \in 1 .. Buf!WordSize * (num_segments + Buf!SEGLIST_OFFSET) |-> Len(header) + i]
        /\ call' = [fn |-> "do_client", packet |-> header \o payload,
                     ret |-> Buf!client_packet(Memory(head_len), head_len, header, payload)]
  BY <1>1, Zenon
<1>3. header \in Seq(Int) /\ Len(header) \in Nat
  <2>1. header = [i \in 1 .. 44 |-> i]
    BY <1>2, Offsets, Zenon
  <2> QED
    BY <2>1
<1>4. payload \in Seq(Int)
  <2>1. PICK n \in Nat : n = Buf!WordSize * (num_segments + Buf!SEGLIST_OFFSET)
    BY DEF Buf!WordSize, Buf!SEGLIST_OFFSET
  <2>2. PICK h \in Nat : h = Len(header)
    BY <1>3
  <2>3. payload = [i \in 1 .. n |-> h + i]
    BY <1>2, <2>1, <2>2
  <2> QED
    BY <2>3
<1>5. head_len \in Nat
  BY LibraryAssumption
<1>6. RequestGood(header \o payload, Buf!client_packet(Memory(head_len), head_len, header, payload))
  BY <1>3, <1>4, <1>5, RequestCopied
<1>7. PICK packet, ret : packet = header \o payload /\ ret = Buf!client_packet(Memory(head_len), head_len, header, payload)
  OBVIOUS
<1>8. call' = [fn |-> "do_client", packet |-> packet, ret |-> ret] /\ RequestGood(packet, ret)
  BY <1>2, <1>6, <1>7, Zenon
<1>9. call'.fn = "do_client" /\ call'.packet = packet /\ call'.ret = ret
  BY <1>8
<1> QED
  BY <1>8, <1>9, Zenon

\* CopyReply: the arguments of process_server_requests.
LEMMA ReplyStep ==
  ASSUME CopyReply
  PROVE  call'.fn = "process_server_requests" /\ ReplyGood(call'.segments, call'.segment_size, call'.ret)
<1>1. PICK head_len \in BufLens, size \in SegSizes, segments \in UNION {[1 .. n -> 0 .. num_total_segments] : n \in 1 .. 2} :
        LET n == Len(segments)
            word(o) == (o - Buf!RX_BUF_HEAD - Net!PayloadAt) \div Buf!WordSize
            len == Net!PayloadAt + Buf!WordSize * (n + Buf!SEGLIST_OFFSET)
            buf == [o \in Buf!RX_BUF_HEAD + Net!PayloadAt + Buf!WordSize .. Buf!RX_BUF_HEAD + len - 1 |->
                       <<segments[word(o)], (o - Buf!RX_BUF_HEAD - Net!PayloadAt) % Buf!WordSize>>]
        IN  call' = [fn |-> "process_server_requests", segments |-> segments, segment_size |-> size,
                     ret |-> Buf!copied_packet(Memory(head_len), head_len, Buf!mbuf_fill_cqe(buf, head_len, len),
                                               n, size, num_total_segments)]
  BY Zenon DEF CopyReply
<1>2. PICK n \in Nat \ {0} : n = Len(segments) /\ segments \in [1 .. n -> Nat]
  <2>1. PICK n \in 1 .. 2 : segments \in [1 .. n -> 0 .. num_total_segments]
    OBVIOUS
  <2>2. segments \in [1 .. n -> Nat] /\ Len(segments) = n
    BY <2>1 DEF num_total_segments
  <2> QED
    BY <2>2
<1>3. PICK len : len = Net!PayloadAt + Buf!WordSize * (Len(segments) + Buf!SEGLIST_OFFSET)
  OBVIOUS
<1>4. call' = [fn |-> "process_server_requests", segments |-> segments, segment_size |-> size,
               ret |-> Buf!copied_packet(Memory(head_len), head_len, Buf!mbuf_fill_cqe(ReceivedBytes(segments), head_len, len),
                                         Len(segments), size, num_total_segments)]
  BY <1>1, <1>3, Zenon DEF ReceivedBytes
<1>5. PICK request : request = Buf!mbuf_fill_cqe(ReceivedBytes(segments), head_len, len)
  OBVIOUS
<1>6. Asked(request, n, segments)
  <2>1. n \in Nat /\ segments \in [1 .. n -> Nat]
    BY <1>2
  <2>2. Asked(Buf!mbuf_fill_cqe(ReceivedBytes(segments), head_len, len), n, segments)
    BY <2>1, SegmentsRead
  <2> QED
    BY <1>5, <2>2
<1>7. head_len \in Nat /\ size \in Nat
  BY LibraryAssumption
<1>8. PICK ret : ret = Buf!copied_packet(Memory(head_len), head_len, request, n, size, num_total_segments)
  OBVIOUS
<1>9. ReplyGood(segments, size, ret)
  BY <1>2, <1>6, <1>7, <1>8, ReplyCopied
<1>10. call' = [fn |-> "process_server_requests", segments |-> segments, segment_size |-> size, ret |-> ret]
  BY <1>2, <1>4, <1>5, <1>8, Zenon
<1>11. call'.fn = "process_server_requests" /\ call'.segments = segments /\ call'.segment_size = size /\ call'.ret = ret
  BY <1>10
<1> QED
  BY <1>9, <1>11, Zenon

\* For all lengths of a copy, of buffers and of segments and every segment
\* asked for: copies write what they should, and the packets of do_client and
\* process_server_requests are put together right.
THEOREM CopiesHold == Spec => []CopiesExact
<1>1. Init => CopyInv
  BY DEF Init, Idle, CopyInv
<1>2. ASSUME Copy PROVE call'.fn = "rte_memcpy" /\ call'.ret = 0 .. call'.n - 1
  <2>1. PICK n \in 0 .. MaxCopy : call' = [fn |-> "rte_memcpy", n |-> n, ret |-> Mem!rte_memcpy_func(n)]
    BY <1>2, Zenon DEF Copy
  <2>2. n \in Nat
    BY LibraryAssumption
  <2>3. PICK ret : ret = Mem!rte_memcpy_func(n) /\ ret = 0 .. n - 1
    BY <2>2, MemcpyExact
  <2>4. call' = [fn |-> "rte_memcpy", n |-> n, ret |-> ret]
    BY <2>1, <2>3, Zenon
  <2>5. call'.fn = "rte_memcpy" /\ call'.n = n /\ call'.ret = ret
    BY <2>4
  <2> QED
    BY <2>3, <2>5, Zenon
<1>3. ASSUME CopyInv, [Next]_vars PROVE CopyInv'
  <2>1. (call.fn = "rte_memcpy" => call.ret = 0 .. call.n - 1)'
    <3>1. CASE Copy
      BY <1>2, <3>1, Zenon
    <3>2. CASE UNCHANGED call
      BY <1>3, <3>2, Zenon DEF CopyInv
    <3> QED
      BY <1>3, <3>1, <3>2, Calls, Zenon
  <2>2. (call.fn = "do_client" => RequestGood(call.packet, call.ret))'
    <3>1. CASE CopyRequest
      <4>1. call'.fn = "do_client" /\ RequestGood(call'.packet, call'.ret)
        BY <3>1, RequestStep
      <4> QED
        BY <4>1
    <3>2. CASE UNCHANGED call
      BY <1>3, <3>2 DEF CopyInv
    <3> QED
      BY <1>3, <3>1, <3>2, Calls
  <2>3. (call.fn = "process_server_requests" => ReplyGood(call.segments, call.segment_size, call.ret))'
    <3>1. CASE CopyReply
      <4>1. call'.fn = "process_server_requests" /\ ReplyGood(call'.segments, call'.segment_size, call'.ret)
        BY <3>1, ReplyStep
      <4> QED
        BY <4>1
    <3>2. CASE UNCHANGED call
      BY <1>3, <3>2 DEF CopyInv
    <3> QED
      BY <1>3, <3>1, <3>2, Calls
  <2> QED
    BY <2>1, <2>2, <2>3 DEF CopyInv
<1> QED
  BY <1>1, <1>3, CopyInvGivesCopies, PTL DEF Spec

---------------------------------------------------------------------------
\* The bytes of headers.

\* The bytes at .. at + size - 1 of a packet are those of the value v.
Carries(pkt, at, size, v) ==
    \A o \in at .. at + size - 1 : o \in DOMAIN pkt /\ pkt[o] = <<v, o - at>>

LEMMA CarriedIsRead ==
  ASSUME NEW pkt, NEW at \in Int, NEW size \in Nat \ {0}, NEW v, Carries(pkt, at, size, v)
  PROVE  Net!ReadBytes(pkt, at, size) = v
<1>1. \A o \in at .. at + size - 1 : pkt[o] = <<v, o - at>>
  BY DEF Carries
<1> QED
  BY <1>1, ReadUniform, Zenon

LEMMA BytesCarry ==
  ASSUME NEW at \in Int, NEW size \in Nat, NEW v
  PROVE  Carries(Net!Bytes(at, size, v), at, size, v) /\ DOMAIN Net!Bytes(at, size, v) = at .. at + size - 1
<1>1. PICK D : D = at .. at + size - 1
  OBVIOUS
<1>2. Net!Bytes(at, size, v) = [o \in D |-> <<v, o - at>>]
  BY <1>1, Zenon DEF Net!Bytes
<1> QED
  BY <1>1, <1>2 DEF Carries

\* What is written over hides what is below it, and nothing else.
LEMMA OverCarries ==
  ASSUME NEW a, NEW b, NEW at, NEW size, NEW v
  PROVE  /\ Carries(a, at, size, v) => Carries(Net!Over(a, b), at, size, v)
         /\ Carries(b, at, size, v) /\ (at .. at + size - 1) \cap DOMAIN a = {} => Carries(Net!Over(a, b), at, size, v)
<1>1. PICK D : D = at .. at + size - 1
  OBVIOUS
<1>2. DOMAIN Net!Over(a, b) = DOMAIN a \cup DOMAIN b
      /\ \A o \in DOMAIN a \cup DOMAIN b : Net!Over(a, b)[o] = IF o \in DOMAIN a THEN a[o] ELSE b[o]
  BY DEF Net!Over
<1>3. ASSUME Carries(a, at, size, v) PROVE Carries(Net!Over(a, b), at, size, v)
  BY <1>1, <1>2, <1>3, Zenon DEF Carries
<1>4. ASSUME Carries(b, at, size, v), D \cap DOMAIN a = {} PROVE Carries(Net!Over(a, b), at, size, v)
  <2>1. ASSUME NEW o \in D PROVE o \notin DOMAIN a
    BY <1>4
  <2> QED
    BY <1>1, <1>2, <1>4, <2>1, Zenon DEF Carries
<1> QED
  BY <1>1, <1>3, <1>4

\* Sums only grow.
LEMMA Grows ==
  ASSUME NEW L \in Nat, NEW sz \in [0 .. L -> Nat], \A n \in 1 .. L : sz[n - 1] <= sz[n],
         NEW i \in 0 .. L, NEW j \in 0 .. L, i <= j
  PROVE  sz[i] <= sz[j]
<1> DEFINE S == {n \in 0 .. L : i <= n => sz[i] <= sz[n]}
<1>1. 0 \in S
  OBVIOUS
<1>2. ASSUME NEW n \in 0 .. L - 1, n \in S PROVE n + 1 \in S
  <2>1. PICK m \in 1 .. L : m = n + 1 /\ m - 1 = n
    OBVIOUS
  <2>2. sz[m - 1] <= sz[m]
    OBVIOUS
  <2>3. sz[n] \in Nat /\ sz[m] \in Nat /\ sz[i] \in Nat
    BY <2>1
  <2>4. CASE i <= n
    BY <1>2, <2>1, <2>2, <2>3, <2>4
  <2>5. CASE ~ (i <= n)
    <3>1. i <= m => i = m
      BY <2>1, <2>5
    <3> QED
      BY <2>1, <2>3, <3>1
  <2> QED
    BY <2>4, <2>5
<1>3. \A n \in 0 .. L : n \in S
  <2> HIDE DEF S
  <2> QED
    BY <1>1, <1>2, UpTo
<1> QED
  BY <1>3

\* A header whose fields have names of their own and sizes that add up to sz.
IsHeader(hdr, L, sz) ==
    /\ L \in Nat /\ Len(hdr) = L /\ DOMAIN hdr = 1 .. L
    /\ \A i \in 1 .. L : hdr[i][2] \in Nat \ {0}
    /\ \A i, j \in 1 .. L : hdr[i][1] = hdr[j][1] => i = j
    /\ sz \in [0 .. L -> Nat] /\ sz[0] = 0 /\ \A n \in 1 .. L : sz[n] = sz[n - 1] + hdr[n][2]
    /\ \A n \in 0 .. L : Net!SizeOfFields(hdr, n) = sz[n]

LEMMA FieldAt ==
  ASSUME NEW hdr, NEW L, NEW sz, IsHeader(hdr, L, sz), NEW i \in 1 .. L
  PROVE  Net!FieldNo(hdr, hdr[i][1]) = i /\ Net!OffsetOf(hdr, hdr[i][1]) = sz[i - 1]
<1>1. Net!FieldNo(hdr, hdr[i][1]) = i
  <2>1. DOMAIN hdr = 1 .. L /\ \A k \in 1 .. L : hdr[k][1] = hdr[i][1] => k = i
    BY DEF IsHeader
  <2> QED
    BY <2>1, Zenon DEF Net!FieldNo
<1>2. PICK m \in 0 .. L : m = i - 1
  BY DEF IsHeader
<1>3. Net!SizeOfFields(hdr, m) = sz[m]
  BY DEF IsHeader
<1> QED
  BY <1>1, <1>2, <1>3, Zenon DEF Net!OffsetOf

\* The value that Header gives a field.
ValueOf(hdr, values, i) == IF hdr[i][1] \in DOMAIN values THEN values[hdr[i][1]] ELSE "0"

LEMMA HeaderCarries ==
  ASSUME NEW hdr, NEW L, NEW sz, IsHeader(hdr, L, sz), NEW at \in Int, NEW values
  PROVE  /\ DOMAIN Net!Header(at, hdr, values) = at .. at + sz[L] - 1
         /\ \A i \in 1 .. L : Carries(Net!Header(at, hdr, values), at + sz[i - 1], hdr[i][2], ValueOf(hdr, values, i))
<1> DEFINE field(o) == CHOOSE i \in DOMAIN hdr :
              o - at \in Net!OffsetOf(hdr, hdr[i][1]) .. Net!OffsetOf(hdr, hdr[i][1]) + hdr[i][2] - 1
<1>1. PICK total : total = Net!SizeOf(hdr)
  OBVIOUS
<1>2. Net!Header(at, hdr, values)
      = [o \in at .. at + total - 1 |-> <<ValueOf(hdr, values, field(o)), o - at - Net!OffsetOf(hdr, hdr[field(o)][1])>>]
  BY <1>1, Zenon DEF Net!Header, ValueOf
<1>3. /\ L \in Nat /\ Len(hdr) = L /\ DOMAIN hdr = 1 .. L
      /\ \A i \in 1 .. L : hdr[i][2] \in Nat \ {0}
      /\ sz \in [0 .. L -> Nat] /\ sz[0] = 0 /\ \A n \in 1 .. L : sz[n] = sz[n - 1] + hdr[n][2]
      /\ \A n \in 0 .. L : Net!SizeOfFields(hdr, n) = sz[n]
  BY DEF IsHeader
<1>4. total = sz[L]
  <2>1. L \in 0 .. L
    BY <1>3
  <2> QED
    BY <1>1, <1>3, <2>1, Zenon DEF Net!SizeOf
<1>5. ASSUME NEW n \in 1 .. L PROVE sz[n] \in Nat /\ sz[n - 1] \in Nat /\ sz[n - 1] <= sz[n] /\ hdr[n][2] \in Nat \ {0} /\ sz[n] = sz[n - 1] + hdr[n][2]
  <2>1. PICK m \in 0 .. L : m = n - 1
    BY <1>3
  <2>2. n \in 0 .. L /\ sz[m] \in Nat /\ sz[n] \in Nat /\ hdr[n][2] \in Nat \ {0} /\ sz[n] = sz[n - 1] + hdr[n][2]
    BY <1>3
  <2> QED
    BY <2>1, <2>2
<1>6. ASSUME NEW x \in 0 .. L, NEW y \in 0 .. L, x <= y PROVE sz[x] <= sz[y]
  BY <1>3, <1>5, <1>6, Grows
<1>7. ASSUME NEW i \in 1 .. L, NEW o \in at + sz[i - 1] .. at + sz[i - 1] + hdr[i][2] - 1
      PROVE  field(o) = i
  <2>1. PICK d \in Int : d = o - at /\ sz[i - 1] <= d /\ d < sz[i]
    BY <1>5
  <2>2. ASSUME NEW k \in 1 .. L
        PROVE  d \in Net!OffsetOf(hdr, hdr[k][1]) .. Net!OffsetOf(hdr, hdr[k][1]) + hdr[k][2] - 1
               <=> sz[k - 1] <= d /\ d < sz[k]
    <3>1. PICK a \in Int, b \in Int, w \in Int : a = sz[k - 1] /\ b = sz[k] /\ w = hdr[k][2] /\ b = a + w
      BY <1>5
    <3>2. Net!OffsetOf(hdr, hdr[k][1]) = a
      BY <3>1, FieldAt
    <3>3. d \in a .. a + w - 1 <=> a <= d /\ d < b
      BY <3>1
    <3> QED
      BY <3>1, <3>2, <3>3, Zenon
  <2>3. ASSUME NEW k \in 1 .. L, sz[k - 1] <= d, d < sz[k] PROVE k = i
    <3>1. i \in 0 .. L /\ k \in 0 .. L /\ i - 1 \in 0 .. L /\ k - 1 \in 0 .. L /\ i \in Int /\ k \in Int
      BY <1>3
    <3>2. PICK a \in Int, b \in Int, e \in Int, f \in Int : a = sz[k - 1] /\ b = sz[k] /\ e = sz[i - 1] /\ f = sz[i]
      BY <1>5
    <3>3. CASE k < i
      <4>1. k <= i - 1
        BY <3>1, <3>3
      <4>2. sz[k] <= sz[i - 1]
        BY <1>6, <3>1, <4>1
      <4> QED
        BY <2>1, <2>3, <3>2, <4>2
    <3>4. CASE i < k
      <4>1. i <= k - 1
        BY <3>1, <3>4
      <4>2. sz[i] <= sz[k - 1]
        BY <1>6, <3>1, <4>1
      <4> QED
        BY <2>1, <2>3, <3>2, <4>2
    <3> QED
      BY <3>1, <3>3, <3>4
  <2>4. \A k \in DOMAIN hdr : o - at \in Net!OffsetOf(hdr, hdr[k][1]) .. Net!OffsetOf(hdr, hdr[k][1]) + hdr[k][2] - 1 <=> k = i
    BY <1>3, <2>1, <2>2, <2>3, Zenon
  <2>5. i \in DOMAIN hdr
    BY <1>3
  <2> QED
    BY <2>4, <2>5, Zenon
<1> HIDE DEF field
<1>8. ASSUME NEW i \in 1 .. L
      PROVE  Carries(Net!Header(at, hdr, values), at + sz[i - 1], hdr[i][2], ValueOf(hdr, values, i))
  <2>1. ASSUME NEW o \in at + sz[i - 1] .. at + sz[i - 1] + hdr[i][2] - 1
        PROVE  o \in at .. at + total - 1 /\ Net!Header(at, hdr, values)[o] = <<ValueOf(hdr, values, i), o - (at + sz[i - 1])>>
    <3>1. PICK a \in Nat, b \in Nat, w \in Nat \ {0} : a = sz[i - 1] /\ b = sz[i] /\ w = hdr[i][2] /\ b = a + w
      BY <1>5
    <3>2. b <= total /\ total \in Nat
      <4>1. i \in 0 .. L /\ L \in 0 .. L /\ i <= L
        BY <1>3
      <4> QED
        BY <1>3, <1>4, <1>6, <3>1, <4>1
    <3>3. o \in Int /\ o \in at .. at + total - 1 /\ o - at - a = o - (at + a)
      BY <3>1, <3>2
    <3>4. Net!Header(at, hdr, values)[o] = <<ValueOf(hdr, values, i), o - at - Net!OffsetOf(hdr, hdr[i][1])>>
      BY <1>2, <1>7, <3>3, Zenon
    <3>5. Net!OffsetOf(hdr, hdr[i][1]) = a
      BY <3>1, FieldAt
    <3> QED
      BY <3>1, <3>3, <3>4, <3>5, Zenon
  <2>2. DOMAIN Net!Header(at, hdr, values) = at .. at + total - 1
    BY <1>2
  <2> QED
    BY <2>1, <2>2, Zenon DEF Carries
<1> QED
  BY <1>2, <1>4, <1>8

LEMMA EthHeader ==
  \E sz : IsHeader(Net!eth_hdr, 3, sz) /\ sz[0] = 0 /\ sz[1] = 6 /\ sz[2] = 12 /\ sz[3] = 14
<1>1. PICK h : h = Net!eth_hdr
  OBVIOUS
<1>2. Len(h) = 3 /\ DOMAIN h = 1 .. 3
  BY <1>1 DEF Net!eth_hdr
<1>3. h[1][1] = "dhost" /\ h[2][1] = "shost" /\ h[3][1] = "type"
  BY <1>1 DEF Net!eth_hdr
<1>4. h[1][2] = 6 /\ h[2][2] = 6 /\ h[3][2] = 2
  BY <1>1 DEF Net!eth_hdr
<1>5. PICK L \in Nat : L = 3
  OBVIOUS
<1>6. \A i \in 1 .. L : h[i][2] \in Nat \ {0}
  BY <1>4, <1>5
<1>7. \A i, j \in 1 .. L : h[i][1] = h[j][1] => i = j
  BY <1>3, <1>5
<1>8. PICK sz \in [0 .. L -> Nat] : /\ \A n \in 0 .. L : Net!SizeOfFields(h, n) = sz[n]
                                    /\ sz[0] = 0 /\ \A n \in 1 .. L : sz[n] = sz[n - 1] + h[n][2]
  <2>1. \A i \in 1 .. L : h[i][2] \in Nat
    BY <1>6
  <2> QED
    BY <2>1, SizesOf
<1>9. IsHeader(h, L, sz)
  BY <1>2, <1>5, <1>6, <1>7, <1>8, Zenon DEF IsHeader
<1>10. Net!SizeOfFields(h, 0) = sz[0] /\ Net!SizeOfFields(h, 1) = sz[1] /\ Net!SizeOfFields(h, 2) = sz[2] /\ Net!SizeOfFields(h, 3) = sz[3]
  BY <1>5, <1>8
<1>11. sz[0] = 0 /\ sz[1] = 6 /\ sz[2] = 12 /\ sz[3] = 14
  BY <1>1, <1>10, EthSizes
<1> QED
  BY <1>1, <1>5, <1>9, <1>11

LEMMA UdpHeader ==
  \E sz : IsHeader(Net!udp_hdr, 4, sz) /\ sz[0] = 0 /\ sz[1] = 2 /\ sz[2] = 4 /\ sz[3] = 6 /\ sz[4] = 8
<1>1. PICK h : h = Net!udp_hdr
  OBVIOUS
<1>2. Len(h) = 4 /\ DOMAIN h = 1 .. 4
  BY <1>1 DEF Net!udp_hdr
<1>3. h[1][1] = "src_port" /\ h[2][1] = "dst_port" /\ h[3][1] = "len" /\ h[4][1] = "chksum"
  BY <1>1 DEF Net!udp_hdr
<1>4. h[1][2] = 2 /\ h[2][2] = 2 /\ h[3][2] = 2 /\ h[4][2] = 2
  BY <1>1 DEF Net!udp_hdr
<1>5. PICK L \in Nat : L = 4
  OBVIOUS
<1>6. \A i \in 1 .. L : h[i][2] \in Nat \ {0}
  BY <1>4, <1>5
<1>7. \A i, j \in 1 .. L : h[i][1] = h[j][1] => i = j
  BY <1>3, <1>5
<1>8. PICK sz \in [0 .. L -> Nat] : /\ \A n \in 0 .. L : Net!SizeOfFields(h, n) = sz[n]
                                    /\ sz[0] = 0 /\ \A n \in 1 .. L : sz[n] = sz[n - 1] + h[n][2]
  <2>1. \A i \in 1 .. L : h[i][2] \in Nat
    BY <1>6
  <2> QED
    BY <2>1, SizesOf
<1>9. IsHeader(h, L, sz)
  BY <1>2, <1>5, <1>6, <1>7, <1>8, Zenon DEF IsHeader
<1>10. Net!SizeOfFields(h, 0) = sz[0] /\ Net!SizeOfFields(h, 1) = sz[1] /\ Net!SizeOfFields(h, 2) = sz[2] /\ Net!SizeOfFields(h, 3) = sz[3] /\ Net!SizeOfFields(h, 4) = sz[4]
  BY <1>5, <1>8
<1>11. sz[0] = 0 /\ sz[1] = 2 /\ sz[2] = 4 /\ sz[3] = 6 /\ sz[4] = 8
  BY <1>1, <1>10, UdpSizes
<1> QED
  BY <1>1, <1>5, <1>9, <1>11

LEMMA IpHeader ==
  \E sz : IsHeader(Net!ip_hdr, 10, sz) /\ sz[0] = 0 /\ sz[1] = 1 /\ sz[2] = 2 /\ sz[3] = 4 /\ sz[4] = 6 /\ sz[5] = 8 /\ sz[6] = 9 /\ sz[7] = 10 /\ sz[8] = 12 /\ sz[9] = 16 /\ sz[10] = 20
<1>1. PICK h : h = Net!ip_hdr
  OBVIOUS
<1>2. Len(h) = 10 /\ DOMAIN h = 1 .. 10
  BY <1>1 DEF Net!ip_hdr
<1>3. h[1][1] = "version_ihl" /\ h[2][1] = "tos" /\ h[3][1] = "len" /\ h[4][1] = "id" /\ h[5][1] = "off" /\ h[6][1] = "ttl" /\ h[7][1] = "proto" /\ h[8][1] = "chksum" /\ h[9][1] = "saddr" /\ h[10][1] = "daddr"
  BY <1>1 DEF Net!ip_hdr
<1>4. h[1][2] = 1 /\ h[2][2] = 1 /\ h[3][2] = 2 /\ h[4][2] = 2 /\ h[5][2] = 2 /\ h[6][2] = 1 /\ h[7][2] = 1 /\ h[8][2] = 2 /\ h[9][2] = 4 /\ h[10][2] = 4
  BY <1>1 DEF Net!ip_hdr
<1>5. PICK L \in Nat : L = 10
  OBVIOUS
<1>6. \A i \in 1 .. L : h[i][2] \in Nat \ {0}
  BY <1>4, <1>5
<1>7. \A i, j \in 1 .. L : h[i][1] = h[j][1] => i = j
  BY <1>3, <1>5
<1>8. PICK sz \in [0 .. L -> Nat] : /\ \A n \in 0 .. L : Net!SizeOfFields(h, n) = sz[n]
                                    /\ sz[0] = 0 /\ \A n \in 1 .. L : sz[n] = sz[n - 1] + h[n][2]
  <2>1. \A i \in 1 .. L : h[i][2] \in Nat
    BY <1>6
  <2> QED
    BY <2>1, SizesOf
<1>9. IsHeader(h, L, sz)
  BY <1>2, <1>5, <1>6, <1>7, <1>8, Zenon DEF IsHeader
<1>10. Net!SizeOfFields(h, 0) = sz[0] /\ Net!SizeOfFields(h, 1) = sz[1] /\ Net!SizeOfFields(h, 2) = sz[2] /\ Net!SizeOfFields(h, 3) = sz[3] /\ Net!SizeOfFields(h, 4) = sz[4] /\ Net!SizeOfFields(h, 5) = sz[5] /\ Net!SizeOfFields(h, 6) = sz[6] /\ Net!SizeOfFields(h, 7) = sz[7] /\ Net!SizeOfFields(h, 8) = sz[8] /\ Net!SizeOfFields(h, 9) = sz[9] /\ Net!SizeOfFields(h, 10) = sz[10]
  BY <1>5, <1>8
<1>11. sz[0] = 0 /\ sz[1] = 1 /\ sz[2] = 2 /\ sz[3] = 4 /\ sz[4] = 6 /\ sz[5] = 8 /\ sz[6] = 9 /\ sz[7] = 10 /\ sz[8] = 12 /\ sz[9] = 16 /\ sz[10] = 20
  BY <1>1, <1>10, IpSizes
<1> QED
  BY <1>1, <1>5, <1>9, <1>11

\* What the fields of the headers of a packet from src to dst hold.
EthOf(src, dst) == Net!Header(0, Net!eth_hdr, [dhost |-> dst.mac, shost |-> src.mac, type |-> "ETHTYPE_IP"])
IpOf(src, dst, at) == Net!Header(at, Net!ip_hdr, [version_ihl |-> "VERSION_IHL", ttl |-> "64", id |-> "1", proto |-> "IPPROTO_UDP",
                                                  saddr |-> src.ip, daddr |-> dst.ip])
UdpOf(src, dst, at) == Net!Header(at, Net!udp_hdr, [src_port |-> src.port, dst_port |-> dst.port])

LEMMA EthOfCarries ==
  ASSUME NEW src, NEW dst
  PROVE  /\ DOMAIN EthOf(src, dst) = 0 .. 13
         /\ Carries(EthOf(src, dst), 0, 6, dst.mac)
         /\ Carries(EthOf(src, dst), 6, 6, src.mac)
         /\ Carries(EthOf(src, dst), 12, 2, "ETHTYPE_IP")
<1>1. PICK h, values : /\ h = Net!eth_hdr
                       /\ values = [dhost |-> dst.mac, shost |-> src.mac, type |-> "ETHTYPE_IP"]
  OBVIOUS
<1>2. PICK b \in Int, L \in Nat : b = 0 /\ L = 3
  OBVIOUS
<1>3. PICK sz : IsHeader(h, L, sz) /\ sz[0] = 0 /\ sz[1] = 6 /\ sz[2] = 12 /\ sz[3] = 14
  BY <1>1, <1>2, EthHeader
<1>4. /\ DOMAIN Net!Header(b, h, values) = b .. b + sz[L] - 1
      /\ \A i \in 1 .. L : Carries(Net!Header(b, h, values), b + sz[i - 1], h[i][2], ValueOf(h, values, i))
  BY <1>3, HeaderCarries
<1>5. PICK H : H = EthOf(src, dst) /\ H = Net!Header(b, h, values)
  BY <1>1, <1>2, Zenon DEF EthOf
<1>6. Carries(H, 0, 6, dst.mac)
  <2>1. h[1][2] = 6 /\ h[1][1] = "dhost"
    BY <1>1 DEF Net!eth_hdr
  <2>2. ValueOf(h, values, 1) = dst.mac
    BY <1>1, <2>1 DEF ValueOf
  <2>3. PICK i \in 1 .. L : i = 1
    BY <1>2
  <2>4. b + sz[i - 1] = 0
    BY <1>2, <1>3, <2>3
  <2>5. Carries(H, b + sz[i - 1], h[i][2], ValueOf(h, values, i))
    BY <1>4, <1>5
  <2> QED
    BY <2>1, <2>2, <2>3, <2>4, <2>5, Zenon
<1>7. Carries(H, 6, 6, src.mac)
  <2>1. h[2][2] = 6 /\ h[2][1] = "shost"
    BY <1>1 DEF Net!eth_hdr
  <2>2. ValueOf(h, values, 2) = src.mac
    BY <1>1, <2>1 DEF ValueOf
  <2>3. PICK i \in 1 .. L : i = 2
    BY <1>2
  <2>4. b + sz[i - 1] = 6
    BY <1>2, <1>3, <2>3
  <2>5. Carries(H, b + sz[i - 1], h[i][2], ValueOf(h, values, i))
    BY <1>4, <1>5
  <2> QED
    BY <2>1, <2>2, <2>3, <2>4, <2>5, Zenon
<1>8. Carries(H, 12, 2, "ETHTYPE_IP")
  <2>1. h[3][2] = 2 /\ h[3][1] = "type"
    BY <1>1 DEF Net!eth_hdr
  <2>2. ValueOf(h, values, 3) = "ETHTYPE_IP"
    BY <1>1, <2>1 DEF ValueOf
  <2>3. PICK i \in 1 .. L : i = 3
    BY <1>2
  <2>4. b + sz[i - 1] = 12
    BY <1>2, <1>3, <2>3
  <2>5. Carries(H, b + sz[i - 1], h[i][2], ValueOf(h, values, i))
    BY <1>4, <1>5
  <2> QED
    BY <2>1, <2>2, <2>3, <2>4, <2>5, Zenon
<1>9. DOMAIN H = 0 .. 13
  <2>1. b + sz[L] - 1 = 13
    BY <1>2, <1>3
  <2> QED
    BY <1>2, <1>4, <1>5, <2>1, Zenon
<1> QED
  BY <1>5, <1>6, <1>7, <1>8, <1>9, Zenon

LEMMA IpOfCarries ==
  ASSUME NEW src, NEW dst, NEW at \in Int
  PROVE  /\ DOMAIN IpOf(src, dst, at) = at .. at + 19
         /\ Carries(IpOf(src, dst, at), at + 6, 2, "0")
         /\ Carries(IpOf(src, dst, at), at + 9, 1, "IPPROTO_UDP")
         /\ Carries(IpOf(src, dst, at), at + 12, 4, src.ip)
         /\ Carries(IpOf(src, dst, at), at + 16, 4, dst.ip)
<1>1. PICK h, values : /\ h = Net!ip_hdr
                       /\ values = [version_ihl |-> "VERSION_IHL", ttl |-> "64", id |-> "1", proto |-> "IPPROTO_UDP",
                                         saddr |-> src.ip, daddr |-> dst.ip]
  OBVIOUS
<1>2. PICK b \in Int, L \in Nat : b = at /\ L = 10
  OBVIOUS
<1>3. PICK sz : IsHeader(h, L, sz) /\ sz[4] = 6 /\ sz[6] = 9 /\ sz[8] = 12 /\ sz[9] = 16 /\ sz[10] = 20
  BY <1>1, <1>2, IpHeader
<1>4. /\ DOMAIN Net!Header(b, h, values) = b .. b + sz[L] - 1
      /\ \A i \in 1 .. L : Carries(Net!Header(b, h, values), b + sz[i - 1], h[i][2], ValueOf(h, values, i))
  BY <1>3, HeaderCarries
<1>5. PICK H : H = IpOf(src, dst, at) /\ H = Net!Header(b, h, values)
  BY <1>1, <1>2, Zenon DEF IpOf
<1>6. Carries(H, at + 6, 2, "0")
  <2>1. h[5][2] = 2 /\ h[5][1] = "off"
    BY <1>1 DEF Net!ip_hdr
  <2>2. ValueOf(h, values, 5) = "0"
    BY <1>1, <2>1 DEF ValueOf
  <2>3. PICK i \in 1 .. L : i = 5
    BY <1>2
  <2>4. b + sz[i - 1] = at + 6
    BY <1>2, <1>3, <2>3
  <2>5. Carries(H, b + sz[i - 1], h[i][2], ValueOf(h, values, i))
    BY <1>4, <1>5
  <2> QED
    BY <2>1, <2>2, <2>3, <2>4, <2>5, Zenon
<1>7. Carries(H, at + 9, 1, "IPPROTO_UDP")
  <2>1. h[7][2] = 1 /\ h[7][1] = "proto"
    BY <1>1 DEF Net!ip_hdr
  <2>2. ValueOf(h, values, 7) = "IPPROTO_UDP"
    BY <1>1, <2>1 DEF ValueOf
  <2>3. PICK i \in 1 .. L : i = 7
    BY <1>2
  <2>4. b + sz[i - 1] = at + 9
    BY <1>2, <1>3, <2>3
  <2>5. Carries(H, b + sz[i - 1], h[i][2], ValueOf(h, values, i))
    BY <1>4, <1>5
  <2> QED
    BY <2>1, <2>2, <2>3, <2>4, <2>5, Zenon
<1>8. Carries(H, at + 12, 4, src.ip)
  <2>1. h[9][2] = 4 /\ h[9][1] = "saddr"
    BY <1>1 DEF Net!ip_hdr
  <2>2. ValueOf(h, values, 9) = src.ip
    BY <1>1, <2>1 DEF ValueOf
  <2>3. PICK i \in 1 .. L : i = 9
    BY <1>2
  <2>4. b + sz[i - 1] = at + 12
    BY <1>2, <1>3, <2>3
  <2>5. Carries(H, b + sz[i - 1], h[i][2], ValueOf(h, values, i))
    BY <1>4, <1>5
  <2> QED
    BY <2>1, <2>2, <2>3, <2>4, <2>5, Zenon
<1>9. Carries(H, at + 16, 4, dst.ip)
  <2>1. h[10][2] = 4 /\ h[10][1] = "daddr"
    BY <1>1 DEF Net!ip_hdr
  <2>2. ValueOf(h, values, 10) = dst.ip
    BY <1>1, <2>1 DEF ValueOf
  <2>3. PICK i \in 1 .. L : i = 10
    BY <1>2
  <2>4. b + sz[i - 1] = at + 16
    BY <1>2, <1>3, <2>3
  <2>5. Carries(H, b + sz[i - 1], h[i][2], ValueOf(h, values, i))
    BY <1>4, <1>5
  <2> QED
    BY <2>1, <2>2, <2>3, <2>4, <2>5, Zenon
<1>10. DOMAIN H = at .. at + 19
  <2>1. b + sz[L] - 1 = at + 19
    BY <1>2, <1>3
  <2> QED
    BY <1>2, <1>4, <1>5, <2>1, Zenon
<1> QED
  BY <1>5, <1>6, <1>7, <1>8, <1>9, <1>10, Zenon

LEMMA UdpOfCarries ==
  ASSUME NEW src, NEW dst, NEW at \in Int
  PROVE  /\ DOMAIN UdpOf(src, dst, at) = at .. at + 7
         /\ Carries(UdpOf(src, dst, at), at + 0, 2, src.port)
         /\ Carries(UdpOf(src, dst, at), at + 2, 2, dst.port)
<1>1. PICK h, values : /\ h = Net!udp_hdr
                       /\ values = [src_port |-> src.port, dst_port |-> dst.port]
  OBVIOUS
<1>2. PICK b \in Int, L \in Nat : b = at /\ L = 4
  OBVIOUS
<1>3. PICK sz : IsHeader(h, L, sz) /\ sz[0] = 0 /\ sz[1] = 2 /\ sz[4] = 8
  BY <1>1, <1>2, UdpHeader
<1>4. /\ DOMAIN Net!Header(b, h, values) = b .. b + sz[L] - 1
      /\ \A i \in 1 .. L : Carries(Net!Header(b, h, values), b + sz[i - 1], h[i][2], ValueOf(h, values, i))
  BY <1>3, HeaderCarries
<1>5. PICK H : H = UdpOf(src, dst, at) /\ H = Net!Header(b, h, values)
  BY <1>1, <1>2, Zenon DEF UdpOf
<1>6. Carries(H, at + 0, 2, src.port)
  <2>1. h[1][2] = 2 /\ h[1][1] = "src_port"
    BY <1>1 DEF Net!udp_hdr
  <2>2. ValueOf(h, values, 1) = src.port
    BY <1>1, <2>1 DEF ValueOf
  <2>3. PICK i \in 1 .. L : i = 1
    BY <1>2
  <2>4. b + sz[i - 1] = at + 0
    BY <1>2, <1>3, <2>3
  <2>5. Carries(H, b + sz[i - 1], h[i][2], ValueOf(h, values, i))
    BY <1>4, <1>5
  <2> QED
    BY <2>1, <2>2, <2>3, <2>4, <2>5, Zenon
<1>7. Carries(H, at + 2, 2, dst.port)
  <2>1. h[2][2] = 2 /\ h[2][1] = "dst_port"
    BY <1>1 DEF Net!udp_hdr
  <2>2. ValueOf(h, values, 2) = dst.port
    BY <1>1, <2>1 DEF ValueOf
  <2>3. PICK i \in 1 .. L : i = 2
    BY <1>2
  <2>4. b + sz[i - 1] = at + 2
    BY <1>2, <1>3, <2>3
  <2>5. Carries(H, b + sz[i - 1], h[i][2], ValueOf(h, values, i))
    BY <1>4, <1>5
  <2> QED
    BY <2>1, <2>2, <2>3, <2>4, <2>5, Zenon
<1>8. DOMAIN H = at .. at + 7
  <2>1. b + sz[L] - 1 = at + 7
    BY <1>2, <1>3
  <2> QED
    BY <1>2, <1>4, <1>5, <2>1, Zenon
<1> QED
  BY <1>5, <1>6, <1>7, <1>8, Zenon

\* Where a field begins in its header, and its size.
Located(hdr, name, off, size) == Net!OffsetOf(hdr, name) = off /\ hdr[Net!FieldNo(hdr, name)][2] = size

LEMMA EthLocated ==
  /\ Located(Net!eth_hdr, "dhost", 0, 6)
  /\ Located(Net!eth_hdr, "shost", 6, 6)
  /\ Located(Net!eth_hdr, "type", 12, 2)
<1>1. PICK h : h = Net!eth_hdr
  OBVIOUS
<1>2. PICK L \in Nat : L = 3
  OBVIOUS
<1>3. PICK sz : IsHeader(h, L, sz) /\ sz[0] = 0 /\ sz[1] = 6 /\ sz[2] = 12
  BY <1>1, <1>2, EthHeader
<1>4. Located(h, "dhost", 0, 6)
  <2>1. h[1][2] = 6 /\ h[1][1] = "dhost"
    BY <1>1 DEF Net!eth_hdr
  <2>2. PICK i \in 1 .. L : i = 1
    BY <1>2
  <2>3. Net!FieldNo(h, h[i][1]) = i /\ Net!OffsetOf(h, h[i][1]) = sz[i - 1]
    BY <1>3, FieldAt
  <2>4. sz[i - 1] = 0
    BY <1>3, <2>2
  <2> QED
    BY <2>1, <2>2, <2>3, <2>4, Zenon DEF Located
<1>5. Located(h, "shost", 6, 6)
  <2>1. h[2][2] = 6 /\ h[2][1] = "shost"
    BY <1>1 DEF Net!eth_hdr
  <2>2. PICK i \in 1 .. L : i = 2
    BY <1>2
  <2>3. Net!FieldNo(h, h[i][1]) = i /\ Net!OffsetOf(h, h[i][1]) = sz[i - 1]
    BY <1>3, FieldAt
  <2>4. sz[i - 1] = 6
    BY <1>3, <2>2
  <2> QED
    BY <2>1, <2>2, <2>3, <2>4, Zenon DEF Located
<1>6. Located(h, "type", 12, 2)
  <2>1. h[3][2] = 2 /\ h[3][1] = "type"
    BY <1>1 DEF Net!eth_hdr
  <2>2. PICK i \in 1 .. L : i = 3
    BY <1>2
  <2>3. Net!FieldNo(h, h[i][1]) = i /\ Net!OffsetOf(h, h[i][1]) = sz[i - 1]
    BY <1>3, FieldAt
  <2>4. sz[i - 1] = 12
    BY <1>3, <2>2
  <2> QED
    BY <2>1, <2>2, <2>3, <2>4, Zenon DEF Located
<1> QED
  BY <1>1, <1>4, <1>5, <1>6

LEMMA IpLocated ==
  /\ Located(Net!ip_hdr, "proto", 9, 1)
  /\ Located(Net!ip_hdr, "saddr", 12, 4)
  /\ Located(Net!ip_hdr, "daddr", 16, 4)
<1>1. PICK h : h = Net!ip_hdr
  OBVIOUS
<1>2. PICK L \in Nat : L = 10
  OBVIOUS
<1>3. PICK sz : IsHeader(h, L, sz) /\ sz[6] = 9 /\ sz[8] = 12 /\ sz[9] = 16
  BY <1>1, <1>2, IpHeader
<1>4. Located(h, "proto", 9, 1)
  <2>1. h[7][2] = 1 /\ h[7][1] = "proto"
    BY <1>1 DEF Net!ip_hdr
  <2>2. PICK i \in 1 .. L : i = 7
    BY <1>2
  <2>3. Net!FieldNo(h, h[i][1]) = i /\ Net!OffsetOf(h, h[i][1]) = sz[i - 1]
    BY <1>3, FieldAt
  <2>4. sz[i - 1] = 9
    BY <1>3, <2>2
  <2> QED
    BY <2>1, <2>2, <2>3, <2>4, Zenon DEF Located
<1>5. Located(h, "saddr", 12, 4)
  <2>1. h[9][2] = 4 /\ h[9][1] = "saddr"
    BY <1>1 DEF Net!ip_hdr
  <2>2. PICK i \in 1 .. L : i = 9
    BY <1>2
  <2>3. Net!FieldNo(h, h[i][1]) = i /\ Net!OffsetOf(h, h[i][1]) = sz[i - 1]
    BY <1>3, FieldAt
  <2>4. sz[i - 1] = 12
    BY <1>3, <2>2
  <2> QED
    BY <2>1, <2>2, <2>3, <2>4, Zenon DEF Located
<1>6. Located(h, "daddr", 16, 4)
  <2>1. h[10][2] = 4 /\ h[10][1] = "daddr"
    BY <1>1 DEF Net!ip_hdr
  <2>2. PICK i \in 1 .. L : i = 10
    BY <1>2
  <2>3. Net!FieldNo(h, h[i][1]) = i /\ Net!OffsetOf(h, h[i][1]) = sz[i - 1]
    BY <1>3, FieldAt
  <2>4. sz[i - 1] = 16
    BY <1>3, <2>2
  <2> QED
    BY <2>1, <2>2, <2>3, <2>4, Zenon DEF Located
<1> QED
  BY <1>1, <1>4, <1>5, <1>6

LEMMA UdpLocated ==
  /\ Located(Net!udp_hdr, "src_port", 0, 2)
  /\ Located(Net!udp_hdr, "dst_port", 2, 2)
<1>1. PICK h : h = Net!udp_hdr
  OBVIOUS
<1>2. PICK L \in Nat : L = 4
  OBVIOUS
<1>3. PICK sz : IsHeader(h, L, sz) /\ sz[0] = 0 /\ sz[1] = 2
  BY <1>1, <1>2, UdpHeader
<1>4. Located(h, "src_port", 0, 2)
  <2>1. h[1][2] = 2 /\ h[1][1] = "src_port"
    BY <1>1 DEF Net!udp_hdr
  <2>2. PICK i \in 1 .. L : i = 1
    BY <1>2
  <2>3. Net!FieldNo(h, h[i][1]) = i /\ Net!OffsetOf(h, h[i][1]) = sz[i - 1]
    BY <1>3, FieldAt
  <2>4. sz[i - 1] = 0
    BY <1>3, <2>2
  <2> QED
    BY <2>1, <2>2, <2>3, <2>4, Zenon DEF Located
<1>5. Located(h, "dst_port", 2, 2)
  <2>1. h[2][2] = 2 /\ h[2][1] = "dst_port"
    BY <1>1 DEF Net!udp_hdr
  <2>2. PICK i \in 1 .. L : i = 2
    BY <1>2
  <2>3. Net!FieldNo(h, h[i][1]) = i /\ Net!OffsetOf(h, h[i][1]) = sz[i - 1]
    BY <1>3, FieldAt
  <2>4. sz[i - 1] = 2
    BY <1>3, <2>2
  <2> QED
    BY <2>1, <2>2, <2>3, <2>4, Zenon DEF Located
<1> QED
  BY <1>1, <1>4, <1>5

\* The fields that are read: the addresses of both sides, the types, the
\* packet id and the four bytes behind it.
Place == <<0, 6, 12, 23, 26, 30, 34, 36, 42, 46>>
Width == <<6, 6, 2, 1, 4, 4, 2, 2, 4, 4>>

\* What they hold in a packet from src to dst.
Told(src, dst, id) ==
    <<dst.mac, src.mac, "ETHTYPE_IP", "IPPROTO_UDP", src.ip, dst.ip, src.port, dst.port, id, "0">>

\* A packet in which they hold the values given.
Shows(pkt, values) == \A f \in 1 .. 10 : Carries(pkt, Place[f], Width[f], values[f])

LEMMA PlacesApart ==
  /\ \A f \in 1 .. 10 : Place[f] \in Nat /\ Width[f] \in Nat \ {0}
  /\ \A f, k \in 1 .. 10 : f # k => (Place[f] .. Place[f] + Width[f] - 1) \cap (Place[k] .. Place[k] + Width[k] - 1) = {}
<1>1. PICK p, w : p = Place /\ w = Width
  OBVIOUS
<1>2. /\ p[1] = 0 /\ p[2] = 6 /\ p[3] = 12 /\ p[4] = 23 /\ p[5] = 26 /\ p[6] = 30 /\ p[7] = 34 /\ p[8] = 36
      /\ p[9] = 42 /\ p[10] = 46
  BY <1>1 DEF Place
<1>3. /\ w[1] = 6 /\ w[2] = 6 /\ w[3] = 2 /\ w[4] = 1 /\ w[5] = 4 /\ w[6] = 4 /\ w[7] = 2 /\ w[8] = 2
      /\ w[9] = 4 /\ w[10] = 4
  BY <1>1 DEF Width
<1>4. \A f \in 1 .. 10 : p[f] \in Nat /\ w[f] \in Nat \ {0}
  BY <1>2, <1>3
<1>5. \A f, k \in 1 .. 10 : f < k => p[f] + w[f] <= p[k]
  BY <1>2, <1>3
<1>6. ASSUME NEW f \in 1 .. 10, NEW k \in 1 .. 10, f # k
      PROVE  (p[f] .. p[f] + w[f] - 1) \cap (p[k] .. p[k] + w[k] - 1) = {}
  <2>1. PICK a \in Nat, b \in Nat, c \in Nat, d \in Nat : a = p[f] /\ b = w[f] /\ c = p[k] /\ d = w[k]
    BY <1>4
  <2>2. a + b <= c \/ c + d <= a
    BY <1>5, <1>6, <2>1
  <2>3. (a .. a + b - 1) \cap (c .. c + d - 1) = {}
    BY <2>2
  <2> QED
    BY <2>1, <2>3
<1> QED
  BY <1>1, <1>4, <1>6, Zenon

\* A field written over.
LEMMA Overwritten ==
  ASSUME NEW pkt, NEW values, Shows(pkt, values), NEW k \in 1 .. 10,
         NEW new, \A f \in 1 .. 10 : f # k => new[f] = values[f]
  PROVE  Shows(Net!Over(Net!Bytes(Place[k], Width[k], new[k]), pkt), new)
<1>2. PICK v : v = new[k]
  OBVIOUS
<1>3. PICK a : a = Net!Bytes(Place[k], Width[k], v)
  OBVIOUS
<1>4. Place[k] \in Int /\ Width[k] \in Nat
  BY PlacesApart
<1>5. Carries(a, Place[k], Width[k], v) /\ DOMAIN a = Place[k] .. Place[k] + Width[k] - 1
  BY <1>3, <1>4, BytesCarry, Zenon
<1>6. ASSUME NEW f \in 1 .. 10 PROVE Carries(Net!Over(a, pkt), Place[f], Width[f], new[f])
  <2>1. CASE f = k
    <3>1. Carries(Net!Over(a, pkt), Place[k], Width[k], v)
      BY <1>5, OverCarries, Zenon
    <3> QED
      BY <1>2, <2>1, <3>1, Zenon
  <2>2. CASE f # k
    <3>1. Carries(pkt, Place[f], Width[f], values[f])
      BY Zenon DEF Shows
    <3>2. (Place[f] .. Place[f] + Width[f] - 1) \cap DOMAIN a = {}
      BY <1>5, <2>2, PlacesApart, Zenon
    <3>3. Carries(Net!Over(a, pkt), Place[f], Width[f], values[f])
      BY <3>1, <3>2, OverCarries, Zenon
    <3> QED
      BY <1>2, <2>2, <3>3, Zenon
  <2> QED
    BY <2>1, <2>2
<1> QED
  BY <1>2, <1>3, <1>6, Zenon DEF Shows

\* The values read from a packet.
LEMMA ShownIsRead ==
  ASSUME NEW pkt, NEW values, Shows(pkt, values)
  PROVE  /\ Net!Read(pkt, 0, Net!eth_hdr, "dhost") = values[1] /\ Net!Read(pkt, 0, Net!eth_hdr, "shost") = values[2]
         /\ Net!Read(pkt, 0, Net!eth_hdr, "type") = values[3] /\ Net!Read(pkt, Net!IpAt, Net!ip_hdr, "proto") = values[4]
         /\ Net!Read(pkt, Net!IpAt, Net!ip_hdr, "saddr") = values[5] /\ Net!Read(pkt, Net!IpAt, Net!ip_hdr, "daddr") = values[6]
         /\ Net!Read(pkt, Net!UdpAt, Net!udp_hdr, "src_port") = values[7]
         /\ Net!Read(pkt, Net!UdpAt, Net!udp_hdr, "dst_port") = values[8]
         /\ Net!packet_id(pkt) = values[9] /\ Net!ReadBytes(pkt, Net!PayloadAt + 4, 4) = values[10]
<1>1. \A f \in 1 .. 10 : Net!ReadBytes(pkt, Place[f], Width[f]) = values[f]
  <2>1. ASSUME NEW f \in 1 .. 10 PROVE Net!ReadBytes(pkt, Place[f], Width[f]) = values[f]
    <3>1. Carries(pkt, Place[f], Width[f], values[f])
      BY Zenon DEF Shows
    <3>2. PICK at \in Int, size \in Nat \ {0} : at = Place[f] /\ size = Width[f]
      BY PlacesApart
    <3>3. Carries(pkt, at, size, values[f])
      BY <3>1, <3>2
    <3>4. Net!ReadBytes(pkt, at, size) = values[f]
      BY <3>3, CarriedIsRead
    <3> QED
      BY <3>2, <3>4
  <2> QED
    BY <2>1
<1>2. /\ Place[1] = 0 /\ Place[2] = 6 /\ Place[3] = 12 /\ Place[4] = 23 /\ Place[5] = 26 /\ Place[6] = 30 /\ Place[7] = 34
      /\ Place[8] = 36 /\ Place[9] = 42 /\ Place[10] = 46
  BY DEF Place
<1>3. /\ Width[1] = 6 /\ Width[2] = 6 /\ Width[3] = 2 /\ Width[4] = 1 /\ Width[5] = 4 /\ Width[6] = 4 /\ Width[7] = 2
      /\ Width[8] = 2 /\ Width[9] = 4 /\ Width[10] = 4
  BY DEF Width
<1>4. /\ Net!ReadBytes(pkt, Place[1], Width[1]) = values[1] /\ Net!ReadBytes(pkt, Place[2], Width[2]) = values[2]
      /\ Net!ReadBytes(pkt, Place[3], Width[3]) = values[3] /\ Net!ReadBytes(pkt, Place[4], Width[4]) = values[4]
      /\ Net!ReadBytes(pkt, Place[5], Width[5]) = values[5] /\ Net!ReadBytes(pkt, Place[6], Width[6]) = values[6]
      /\ Net!ReadBytes(pkt, Place[7], Width[7]) = values[7] /\ Net!ReadBytes(pkt, Place[8], Width[8]) = values[8]
      /\ Net!ReadBytes(pkt, Place[9], Width[9]) = values[9] /\ Net!ReadBytes(pkt, Place[10], Width[10]) = values[10]
  BY <1>1
<1>5. /\ Net!ReadBytes(pkt, 0, 6) = values[1] /\ Net!ReadBytes(pkt, 6, 6) = values[2]
      /\ Net!ReadBytes(pkt, 12, 2) = values[3] /\ Net!ReadBytes(pkt, 23, 1) = values[4]
      /\ Net!ReadBytes(pkt, 26, 4) = values[5] /\ Net!ReadBytes(pkt, 30, 4) = values[6]
      /\ Net!ReadBytes(pkt, 34, 2) = values[7] /\ Net!ReadBytes(pkt, 36, 2) = values[8]
      /\ Net!ReadBytes(pkt, 42, 4) = values[9] /\ Net!ReadBytes(pkt, 46, 4) = values[10]
  BY <1>2, <1>3, <1>4, Zenon
<1>6. 0 + 0 = 0 /\ 0 + 6 = 6 /\ 0 + 12 = 12 /\ 14 + 9 = 23 /\ 14 + 12 = 26 /\ 14 + 16 = 30 /\ 34 + 0 = 34 /\ 34 + 2 = 36 /\ 42 + 4 = 46
  OBVIOUS
<1>7. /\ Net!Read(pkt, 0, Net!eth_hdr, "dhost") = Net!ReadBytes(pkt, 0 + 0, 6)
      /\ Net!Read(pkt, 0, Net!eth_hdr, "shost") = Net!ReadBytes(pkt, 0 + 6, 6)
      /\ Net!Read(pkt, 0, Net!eth_hdr, "type") = Net!ReadBytes(pkt, 0 + 12, 2)
  BY EthLocated, Zenon DEF Located, Net!Read
<1>8. /\ Net!Read(pkt, Net!IpAt, Net!ip_hdr, "proto") = Net!ReadBytes(pkt, Net!IpAt + 9, 1)
      /\ Net!Read(pkt, Net!IpAt, Net!ip_hdr, "saddr") = Net!ReadBytes(pkt, Net!IpAt + 12, 4)
      /\ Net!Read(pkt, Net!IpAt, Net!ip_hdr, "daddr") = Net!ReadBytes(pkt, Net!IpAt + 16, 4)
  BY IpLocated, Zenon DEF Located, Net!Read
<1>9. /\ Net!Read(pkt, Net!UdpAt, Net!udp_hdr, "src_port") = Net!ReadBytes(pkt, Net!UdpAt + 0, 2)
      /\ Net!Read(pkt, Net!UdpAt, Net!udp_hdr, "dst_port") = Net!ReadBytes(pkt, Net!UdpAt + 2, 2)
  BY UdpLocated, Zenon DEF Located, Net!Read
<1>10. Net!packet_id(pkt) = Net!ReadBytes(pkt, Net!PayloadAt, 4)
  BY Zenon DEF Net!packet_id
<1>11. Net!IpAt = 14 /\ Net!UdpAt = 34 /\ Net!PayloadAt = 42
  BY Offsets
<1> QED
  BY <1>5, <1>6, <1>7, <1>8, <1>9, <1>10, <1>11, Zenon

\* A packet that tells its sender, its receiver and its id.
LEMMA ToldIsRead ==
  ASSUME NEW pkt, NEW src, NEW dst, NEW id, Shows(pkt, Told(src, dst, id))
  PROVE  /\ Net!check_valid_packet(pkt, dst.mac)
         /\ Net!Sender(pkt) = [mac |-> src.mac, ip |-> src.ip, port |-> src.port]
         /\ Net!Receiver(pkt) = [mac |-> dst.mac, ip |-> dst.ip, port |-> dst.port]
         /\ Net!packet_id(pkt) = id /\ Net!ReadBytes(pkt, Net!PayloadAt + 4, 4) = "0"
<1>1. PICK values : values = Told(src, dst, id)
  OBVIOUS
<1>2. /\ values[1] = dst.mac /\ values[2] = src.mac /\ values[3] = "ETHTYPE_IP" /\ values[4] = "IPPROTO_UDP"
      /\ values[5] = src.ip /\ values[6] = dst.ip /\ values[7] = src.port /\ values[8] = dst.port
      /\ values[9] = id /\ values[10] = "0"
  BY <1>1 DEF Told
<1>3. Shows(pkt, values)
  BY <1>1
<1>4. /\ Net!Read(pkt, 0, Net!eth_hdr, "dhost") = dst.mac /\ Net!Read(pkt, 0, Net!eth_hdr, "shost") = src.mac
      /\ Net!Read(pkt, 0, Net!eth_hdr, "type") = "ETHTYPE_IP" /\ Net!Read(pkt, Net!IpAt, Net!ip_hdr, "proto") = "IPPROTO_UDP"
      /\ Net!Read(pkt, Net!IpAt, Net!ip_hdr, "saddr") = src.ip /\ Net!Read(pkt, Net!IpAt, Net!ip_hdr, "daddr") = dst.ip
      /\ Net!Read(pkt, Net!UdpAt, Net!udp_hdr, "src_port") = src.port
      /\ Net!Read(pkt, Net!UdpAt, Net!udp_hdr, "dst_port") = dst.port
      /\ Net!packet_id(pkt) = id /\ Net!ReadBytes(pkt, Net!PayloadAt + 4, 4) = "0"
  <2>1. /\ Net!Read(pkt, 0, Net!eth_hdr, "dhost") = values[1] /\ Net!Read(pkt, 0, Net!eth_hdr, "shost") = values[2]
        /\ Net!Read(pkt, 0, Net!eth_hdr, "type") = values[3] /\ Net!Read(pkt, Net!IpAt, Net!ip_hdr, "proto") = values[4]
        /\ Net!Read(pkt, Net!IpAt, Net!ip_hdr, "saddr") = values[5] /\ Net!Read(pkt, Net!IpAt, Net!ip_hdr, "daddr") = values[6]
        /\ Net!Read(pkt, Net!UdpAt, Net!udp_hdr, "src_port") = values[7]
        /\ Net!Read(pkt, Net!UdpAt, Net!udp_hdr, "dst_port") = values[8]
        /\ Net!packet_id(pkt) = values[9] /\ Net!ReadBytes(pkt, Net!PayloadAt + 4, 4) = values[10]
    BY <1>3, ShownIsRead, Zenon
  <2>2. /\ Net!Read(pkt, 0, Net!eth_hdr, "dhost") = dst.mac /\ Net!Read(pkt, 0, Net!eth_hdr, "shost") = src.mac
        /\ Net!Read(pkt, 0, Net!eth_hdr, "type") = "ETHTYPE_IP" /\ Net!Read(pkt, Net!IpAt, Net!ip_hdr, "proto") = "IPPROTO_UDP"
    BY <1>2, <2>1, Zenon
  <2>3. /\ Net!Read(pkt, Net!IpAt, Net!ip_hdr, "saddr") = src.ip /\ Net!Read(pkt, Net!IpAt, Net!ip_hdr, "daddr") = dst.ip
    BY <1>2, <2>1, Zenon
  <2>4. /\ Net!Read(pkt, Net!UdpAt, Net!udp_hdr, "src_port") = src.port
        /\ Net!Read(pkt, Net!UdpAt, Net!udp_hdr, "dst_port") = dst.port
        /\ Net!packet_id(pkt) = id /\ Net!ReadBytes(pkt, Net!PayloadAt + 4, 4) = "0"
    BY <1>2, <2>1, Zenon
  <2> QED
    BY <2>2, <2>3, <2>4
<1>5. Net!check_valid_packet(pkt, dst.mac)
  BY <1>4, Zenon DEF Net!check_valid_packet
<1>6. Net!Sender(pkt) = [mac |-> src.mac, ip |-> src.ip, port |-> src.port]
  BY <1>4, Zenon DEF Net!Sender
<1>7. Net!Receiver(pkt) = [mac |-> dst.mac, ip |-> dst.ip, port |-> dst.port]
  BY <1>4, Zenon DEF Net!Receiver
<1> QED
  BY <1>4, <1>5, <1>6, <1>7

\* A packet with packed headers and, behind them, the id and four zero bytes.
LEMMA PackedShows ==
  ASSUME NEW src, NEW dst, NEW id, NEW tail, Carries(tail, 42, 4, id), Carries(tail, 46, 4, "0")
  PROVE  Shows(Net!Over(Net!Headers(src, dst, Net!IpAt, Net!UdpAt), tail), Told(src, dst, id))
<1>1. PICK e, i, u : e = EthOf(src, dst) /\ i = IpOf(src, dst, 14) /\ u = UdpOf(src, dst, 34)
  OBVIOUS
<1>2. PICK b, h : b = Net!Over(i, u) /\ h = Net!Over(e, b)
  OBVIOUS
<1>3. Net!Headers(src, dst, Net!IpAt, Net!UdpAt) = h
  BY <1>1, <1>2, Offsets, Zenon DEF Net!Headers, EthOf, IpOf, UdpOf
<1>4. /\ DOMAIN e = 0 .. 13 /\ Carries(e, 0, 6, dst.mac) /\ Carries(e, 6, 6, src.mac) /\ Carries(e, 12, 2, "ETHTYPE_IP")
  BY <1>1, EthOfCarries, Zenon
<1>5. /\ DOMAIN i = 14 .. 33 /\ Carries(i, 23, 1, "IPPROTO_UDP") /\ Carries(i, 26, 4, src.ip) /\ Carries(i, 30, 4, dst.ip)
  <2>1. PICK at \in Int : at = 14
    OBVIOUS
  <2>2. /\ DOMAIN i = at .. at + 19 /\ Carries(i, at + 9, 1, "IPPROTO_UDP") /\ Carries(i, at + 12, 4, src.ip)
        /\ Carries(i, at + 16, 4, dst.ip)
    BY <1>1, <2>1, IpOfCarries, Zenon
  <2>3. at + 19 = 33 /\ at + 9 = 23 /\ at + 12 = 26 /\ at + 16 = 30
    BY <2>1
  <2> QED
    BY <2>1, <2>2, <2>3, Zenon
<1>6. /\ DOMAIN u = 34 .. 41 /\ Carries(u, 34, 2, src.port) /\ Carries(u, 36, 2, dst.port)
  <2>1. PICK at \in Int : at = 34
    OBVIOUS
  <2>2. DOMAIN u = at .. at + 7 /\ Carries(u, at + 0, 2, src.port) /\ Carries(u, at + 2, 2, dst.port)
    BY <1>1, <2>1, UdpOfCarries, Zenon
  <2>3. at + 7 = 41 /\ at + 0 = 34 /\ at + 2 = 36
    BY <2>1
  <2> QED
    BY <2>1, <2>2, <2>3, Zenon
<1>7. DOMAIN b = 14 .. 41 /\ DOMAIN h = 0 .. 41
  <2>1. DOMAIN b = DOMAIN i \cup DOMAIN u /\ DOMAIN h = DOMAIN e \cup DOMAIN b
    BY <1>2 DEF Net!Over
  <2>2. (14 .. 33) \cup (34 .. 41) = 14 .. 41 /\ (0 .. 13) \cup (14 .. 41) = 0 .. 41
    OBVIOUS
  <2> QED
    BY <1>4, <1>5, <1>6, <2>1, <2>2, Zenon
<1>8. /\ (34 .. 34 + 2 - 1) \cap (14 .. 33) = {} /\ (36 .. 36 + 2 - 1) \cap (14 .. 33) = {}
      /\ (23 .. 23 + 1 - 1) \cap (0 .. 13) = {} /\ (26 .. 26 + 4 - 1) \cap (0 .. 13) = {} /\ (30 .. 30 + 4 - 1) \cap (0 .. 13) = {}
      /\ (34 .. 34 + 2 - 1) \cap (0 .. 13) = {} /\ (36 .. 36 + 2 - 1) \cap (0 .. 13) = {}
      /\ (42 .. 42 + 4 - 1) \cap (0 .. 41) = {} /\ (46 .. 46 + 4 - 1) \cap (0 .. 41) = {}
  OBVIOUS
<1>9. /\ Carries(b, 23, 1, "IPPROTO_UDP") /\ Carries(b, 26, 4, src.ip) /\ Carries(b, 30, 4, dst.ip)
      /\ Carries(b, 34, 2, src.port) /\ Carries(b, 36, 2, dst.port)
  BY <1>2, <1>5, <1>6, <1>8, OverCarries, Zenon
<1>10. Carries(h, 0, 6, dst.mac) /\ Carries(h, 6, 6, src.mac) /\ Carries(h, 12, 2, "ETHTYPE_IP")
  BY <1>2, <1>4, OverCarries, Zenon
<1>11. Carries(h, 23, 1, "IPPROTO_UDP") /\ Carries(h, 26, 4, src.ip) /\ Carries(h, 30, 4, dst.ip)
  BY <1>2, <1>4, <1>8, <1>9, OverCarries, Zenon
<1>12. Carries(h, 34, 2, src.port) /\ Carries(h, 36, 2, dst.port)
  BY <1>2, <1>4, <1>8, <1>9, OverCarries, Zenon
<1>13. PICK pkt : pkt = Net!Over(h, tail)
  OBVIOUS
<1>14. /\ Carries(pkt, 0, 6, dst.mac) /\ Carries(pkt, 6, 6, src.mac) /\ Carries(pkt, 12, 2, "ETHTYPE_IP")
       /\ Carries(pkt, 23, 1, "IPPROTO_UDP") /\ Carries(pkt, 26, 4, src.ip) /\ Carries(pkt, 30, 4, dst.ip)
       /\ Carries(pkt, 34, 2, src.port) /\ Carries(pkt, 36, 2, dst.port)
  BY <1>10, <1>11, <1>12, <1>13, OverCarries, Zenon
<1>15. Carries(pkt, 42, 4, id) /\ Carries(pkt, 46, 4, "0")
  BY <1>7, <1>8, <1>13, OverCarries, Zenon
<1>16. Shows(pkt, Told(src, dst, id))
  <2>1. PICK p, w, t : p = Place /\ w = Width /\ t = Told(src, dst, id)
    OBVIOUS
  <2>2. /\ p[1] = 0 /\ p[2] = 6 /\ p[3] = 12 /\ p[4] = 23 /\ p[5] = 26 /\ p[6] = 30 /\ p[7] = 34 /\ p[8] = 36
        /\ p[9] = 42 /\ p[10] = 46
    BY <2>1 DEF Place
  <2>3. /\ w[1] = 6 /\ w[2] = 6 /\ w[3] = 2 /\ w[4] = 1 /\ w[5] = 4 /\ w[6] = 4 /\ w[7] = 2 /\ w[8] = 2
        /\ w[9] = 4 /\ w[10] = 4
    BY <2>1 DEF Width
  <2>4. /\ t[1] = dst.mac /\ t[2] = src.mac /\ t[3] = "ETHTYPE_IP" /\ t[4] = "IPPROTO_UDP" /\ t[5] = src.ip
        /\ t[6] = dst.ip /\ t[7] = src.port /\ t[8] = dst.port /\ t[9] = id /\ t[10] = "0"
    BY <2>1 DEF Told
  <2>5. /\ Carries(pkt, p[1], w[1], t[1]) /\ Carries(pkt, p[2], w[2], t[2]) /\ Carries(pkt, p[3], w[3], t[3]) /\ Carries(pkt, p[4], w[4], t[4]) /\ Carries(pkt, p[5], w[5], t[5])
        /\ Carries(pkt, p[6], w[6], t[6]) /\ Carries(pkt, p[7], w[7], t[7]) /\ Carries(pkt, p[8], w[8], t[8]) /\ Carries(pkt, p[9], w[9], t[9]) /\ Carries(pkt, p[10], w[10], t[10])
    BY <1>14, <1>15, <2>2, <2>3, <2>4, Zenon
  <2>6. \A f \in 1 .. 10 : Carries(pkt, p[f], w[f], t[f])
    BY <2>5
  <2> QED
    BY <2>1, <2>6, Zenon DEF Shows
<1> QED
  BY <1>3, <1>13, <1>16, Zenon

\* The packets laid out that way.
LEMMA RequestShows ==
  ASSUME NEW src, NEW dst, NEW id
  PROVE  /\ Shows(Net!packed_request(src, dst, id), Told(src, dst, id))
         /\ Shows(Net!initialize_reverse_request_header(src, dst, id), Told(src, dst, id))
<1>1. PICK x, y, z : x = Net!Bytes(42, 4, id) /\ y = Net!Bytes(46, 4, "0") /\ z = Net!Bytes(50, 8, "checksum")
  OBVIOUS
<1>2. Carries(x, 42, 4, id) /\ DOMAIN x = 42 .. 42 + 4 - 1
  <2>1. 42 \in Int /\ 4 \in Nat
    OBVIOUS
  <2> QED
    BY <1>1, <2>1, BytesCarry, Zenon
<1>3. Carries(y, 46, 4, "0") /\ DOMAIN y = 46 .. 46 + 4 - 1
  <2>1. 46 \in Int /\ 4 \in Nat
    OBVIOUS
  <2> QED
    BY <1>1, <2>1, BytesCarry, Zenon
<1>4. (46 .. 46 + 4 - 1) \cap (42 .. 42 + 4 - 1) = {}
  OBVIOUS
<1>5. Carries(Net!Over(x, y), 42, 4, id) /\ Carries(Net!Over(x, y), 46, 4, "0")
  BY <1>2, <1>3, <1>4, OverCarries, Zenon
<1>6. Carries(Net!Over(y, z), 46, 4, "0")
  BY <1>3, OverCarries, Zenon
<1>7. Carries(Net!Over(x, Net!Over(y, z)), 42, 4, id) /\ Carries(Net!Over(x, Net!Over(y, z)), 46, 4, "0")
  BY <1>2, <1>4, <1>6, OverCarries, Zenon
<1>8. 42 + 4 = 46 /\ 42 + 8 = 50 /\ Net!PayloadAt = 42
  BY Offsets
<1>9. Net!packed_request(src, dst, id) = Net!Over(Net!Headers(src, dst, Net!IpAt, Net!UdpAt), Net!Over(x, y))
  BY <1>1, <1>8, Zenon DEF Net!packed_request
<1>10. Net!initialize_reverse_request_header(src, dst, id)
       = Net!Over(Net!Headers(src, dst, Net!IpAt, Net!UdpAt), Net!Over(x, Net!Over(y, z)))
  BY <1>1, <1>8, Zenon DEF Net!initialize_reverse_request_header
<1> QED
  BY <1>5, <1>7, <1>9, <1>10, PackedShows, Zenon

\* One field set to what it is in new, and the values when those of S are.
SetField(new, k, p) == Net!Over(Net!Bytes(Place[k], Width[k], new[k]), p)
After(old, new, S) == [f \in 1 .. 10 |-> IF f \in S THEN new[f] ELSE old[f]]

LEMMA OneField ==
  ASSUME NEW old, NEW new, NEW S, NEW T, NEW k \in 1 .. 10, T = S \cup {k},
         NEW p, Shows(p, After(old, new, S)), NEW q, q = SetField(new, k, p)
  PROVE  Shows(q, After(old, new, T))
<1>1. PICK a, b : a = After(old, new, S) /\ b = After(old, new, T)
  OBVIOUS
<1>2. \A f \in 1 .. 10 : f # k => b[f] = a[f]
  BY <1>1 DEF After
<1>3. b[k] = new[k]
  BY <1>1 DEF After
<1>4. Shows(p, a)
  BY <1>1
<1>5. Shows(Net!Over(Net!Bytes(Place[k], Width[k], b[k]), p), b)
  BY <1>2, <1>4, Overwritten
<1> QED
  BY <1>1, <1>3, <1>5, Zenon DEF SetField

\* flip_headers tells the receiver as the sender and the sender as the receiver.
LEMMA FlipShows ==
  ASSUME NEW pkt, NEW src, NEW dst, NEW id, Shows(pkt, Told(src, dst, id))
  PROVE  Shows(Net!flip_headers(pkt), Told(dst, src, id))
<1>1. /\ Net!Sender(pkt) = [mac |-> src.mac, ip |-> src.ip, port |-> src.port]
      /\ Net!Receiver(pkt) = [mac |-> dst.mac, ip |-> dst.ip, port |-> dst.port]
  BY ToldIsRead, Zenon
<1>2. /\ Net!Sender(pkt).mac = src.mac /\ Net!Sender(pkt).ip = src.ip /\ Net!Sender(pkt).port = src.port
      /\ Net!Receiver(pkt).mac = dst.mac /\ Net!Receiver(pkt).ip = dst.ip /\ Net!Receiver(pkt).port = dst.port
  BY <1>1
<1>3. PICK old, new : old = Told(src, dst, id) /\ new = Told(dst, src, id)
  OBVIOUS
<1>4. /\ new[1] = src.mac /\ new[2] = dst.mac /\ new[5] = dst.ip /\ new[6] = src.ip /\ new[7] = dst.port /\ new[8] = src.port
      /\ new[3] = old[3] /\ new[4] = old[4] /\ new[9] = old[9] /\ new[10] = old[10]
  BY <1>3 DEF Told
<1>5. /\ Place[1] = 0 /\ Place[2] = 6 /\ Place[5] = 26 /\ Place[6] = 30 /\ Place[7] = 34 /\ Place[8] = 36
      /\ Width[1] = 6 /\ Width[2] = 6 /\ Width[5] = 4 /\ Width[6] = 4 /\ Width[7] = 2 /\ Width[8] = 2
  BY DEF Place, Width
<1>6. /\ 0 + 0 = 0 /\ 0 + 6 = 6 /\ 14 + 12 = 26 /\ 14 + 16 = 30 /\ 34 + 0 = 34 /\ 34 + 2 = 36
  OBVIOUS
<1>7. /\ Net!Field(0, Net!eth_hdr, "dhost", src.mac) = Net!Bytes(0 + 0, 6, src.mac)
      /\ Net!Field(0, Net!eth_hdr, "shost", dst.mac) = Net!Bytes(0 + 6, 6, dst.mac)
      /\ Net!Field(14, Net!ip_hdr, "saddr", dst.ip) = Net!Bytes(14 + 12, 4, dst.ip)
      /\ Net!Field(14, Net!ip_hdr, "daddr", src.ip) = Net!Bytes(14 + 16, 4, src.ip)
      /\ Net!Field(34, Net!udp_hdr, "src_port", dst.port) = Net!Bytes(34 + 0, 2, dst.port)
      /\ Net!Field(34, Net!udp_hdr, "dst_port", src.port) = Net!Bytes(34 + 2, 2, src.port)
  BY EthLocated, IpLocated, UdpLocated, Zenon DEF Located, Net!Field
<1>8. Net!flip_headers(pkt) = SetField(new, 1, SetField(new, 2, SetField(new, 5, SetField(new, 6, SetField(new, 7, SetField(new, 8, pkt))))))
  <2>1. /\ Net!Field(0, Net!eth_hdr, "dhost", Net!Sender(pkt).mac) = Net!Bytes(Place[1], Width[1], new[1])
        /\ Net!Field(0, Net!eth_hdr, "shost", Net!Receiver(pkt).mac) = Net!Bytes(Place[2], Width[2], new[2])
        /\ Net!Field(Net!IpAt, Net!ip_hdr, "saddr", Net!Receiver(pkt).ip) = Net!Bytes(Place[5], Width[5], new[5])
        /\ Net!Field(Net!IpAt, Net!ip_hdr, "daddr", Net!Sender(pkt).ip) = Net!Bytes(Place[6], Width[6], new[6])
        /\ Net!Field(Net!UdpAt, Net!udp_hdr, "src_port", Net!Receiver(pkt).port) = Net!Bytes(Place[7], Width[7], new[7])
        /\ Net!Field(Net!UdpAt, Net!udp_hdr, "dst_port", Net!Sender(pkt).port) = Net!Bytes(Place[8], Width[8], new[8])
    BY <1>2, <1>4, <1>5, <1>6, <1>7, Offsets, Zenon
  <2> QED
    BY <2>1, Zenon DEF Net!flip_headers, SetField
<1>10. Shows(pkt, After(old, new, {}))
  <2>1. PICK a : a = After(old, new, {})
    OBVIOUS
  <2>2. \A f \in 1 .. 10 : a[f] = old[f]
    BY <2>1 DEF After
  <2>3. Shows(pkt, old)
    BY <1>3
  <2>4. Shows(pkt, a)
    BY <2>2, <2>3, Zenon DEF Shows
  <2> QED
    BY <2>1, <2>4
<1>11. 1 \in 1 .. 10 /\ 2 \in 1 .. 10 /\ 5 \in 1 .. 10 /\ 6 \in 1 .. 10 /\ 7 \in 1 .. 10 /\ 8 \in 1 .. 10
  OBVIOUS
<1>12. PICK S8, S7, S6, S5, S2, S1 :
         /\ S8 = {} \cup {8} /\ S7 = S8 \cup {7} /\ S6 = S7 \cup {6} /\ S5 = S6 \cup {5} /\ S2 = S5 \cup {2} /\ S1 = S2 \cup {1}
  OBVIOUS
<1>13. PICK p8, p7, p6, p5, p2, p1 :
         /\ p8 = SetField(new, 8, pkt) /\ p7 = SetField(new, 7, p8) /\ p6 = SetField(new, 6, p7) /\ p5 = SetField(new, 5, p6) /\ p2 = SetField(new, 2, p5) /\ p1 = SetField(new, 1, p2)
  OBVIOUS
<1>14. Shows(p8, After(old, new, S8)) /\ Shows(p7, After(old, new, S7)) /\ Shows(p6, After(old, new, S6))
  <2>1. Shows(p8, After(old, new, S8))
    <3>1. PICK k \in 1 .. 10 : k = 8 /\ S8 = {} \cup {k} /\ p8 = SetField(new, k, pkt)
      BY <1>11, <1>12, <1>13, Zenon
    <3> QED
      BY <1>10, <3>1, OneField
  <2>2. Shows(p7, After(old, new, S7))
    <3>1. PICK k \in 1 .. 10 : k = 7 /\ S7 = S8 \cup {k} /\ p7 = SetField(new, k, p8)
      BY <1>11, <1>12, <1>13, Zenon
    <3> QED
      BY <2>1, <3>1, OneField
  <2>3. Shows(p6, After(old, new, S6))
    <3>1. PICK k \in 1 .. 10 : k = 6 /\ S6 = S7 \cup {k} /\ p6 = SetField(new, k, p7)
      BY <1>11, <1>12, <1>13, Zenon
    <3> QED
      BY <2>2, <3>1, OneField
  <2> QED
    BY <2>1, <2>2, <2>3
<1>15. Shows(p1, After(old, new, S1))
  <2>1. Shows(p5, After(old, new, S5))
    <3>1. PICK k \in 1 .. 10 : k = 5 /\ S5 = S6 \cup {k} /\ p5 = SetField(new, k, p6)
      BY <1>11, <1>12, <1>13, Zenon
    <3> QED
      BY <1>14, <3>1, OneField
  <2>2. Shows(p2, After(old, new, S2))
    <3>1. PICK k \in 1 .. 10 : k = 2 /\ S2 = S5 \cup {k} /\ p2 = SetField(new, k, p5)
      BY <1>11, <1>12, <1>13, Zenon
    <3> QED
      BY <2>1, <3>1, OneField
  <2>3. Shows(p1, After(old, new, S1))
    <3>1. PICK k \in 1 .. 10 : k = 1 /\ S1 = S2 \cup {k} /\ p1 = SetField(new, k, p2)
      BY <1>11, <1>12, <1>13, Zenon
    <3> QED
      BY <2>2, <3>1, OneField
  <2> QED
    BY <2>3
<1>16. S1 = {1, 2, 5, 6, 7, 8}
  BY <1>12
<1>17. p1 = SetField(new, 1, SetField(new, 2, SetField(new, 5, SetField(new, 6, SetField(new, 7, SetField(new, 8, pkt))))))
  BY <1>13, Zenon
<1>18. PICK last : last = After(old, new, S1)
  OBVIOUS
<1>19. ASSUME NEW f \in 1 .. 10 PROVE last[f] = new[f]
  <2>1. last[f] = IF f \in {1, 2, 5, 6, 7, 8} THEN new[f] ELSE old[f]
    BY <1>16, <1>18, Zenon DEF After
  <2>2. f \in {1, 2, 5, 6, 7, 8} \/ f = 3 \/ f = 4 \/ f = 9 \/ f = 10
    OBVIOUS
  <2> QED
    BY <1>4, <2>1, <2>2
<1>20. Shows(Net!flip_headers(pkt), last)
  BY <1>8, <1>15, <1>17, <1>18, Zenon
<1>21. Shows(Net!flip_headers(pkt), new)
  BY <1>19, <1>20, Zenon DEF Shows
<1> QED
  BY <1>3, <1>21

\* The server takes byte 23 of a packet for the protocol; in a request of the
\* client's making that is the second byte of the fragment offset.
LEMMA ClientRefused ==
  ASSUME NEW src, NEW dst, NEW id
  PROVE  ~ Net!check_valid_packet(Net!client_request(src, dst, id), dst.mac)
<1>1. PICK e, i, u : e = EthOf(src, dst) /\ i = IpOf(src, dst, 16) /\ u = UdpOf(src, dst, 36)
  OBVIOUS
<1>2. PICK b, h : b = Net!Over(i, u) /\ h = Net!Over(e, b)
  OBVIOUS
<1>3. Net!Headers(src, dst, Net!PaddedIpAt, Net!PaddedUdpAt) = h
  BY <1>1, <1>2, Offsets, Zenon DEF Net!Headers, EthOf, IpOf, UdpOf
<1>4. PICK pkt : pkt = Net!client_request(src, dst, id)
  OBVIOUS
<1>5. PICK rest : pkt = Net!Over(h, rest)
  BY <1>3, <1>4, Zenon DEF Net!client_request
<1>6. DOMAIN e = 0 .. 13
  BY <1>1, EthOfCarries, Zenon
<1>7. Carries(i, 22, 2, "0")
  <2>1. PICK at \in Int : at = 16
    OBVIOUS
  <2>2. Carries(i, at + 6, 2, "0")
    BY <1>1, <2>1, IpOfCarries, Zenon
  <2>3. at + 6 = 22
    BY <2>1
  <2> QED
    BY <2>2, <2>3, Zenon
<1>8. (22 .. 22 + 2 - 1) \cap (0 .. 13) = {}
  OBVIOUS
<1>9. Carries(b, 22, 2, "0")
  BY <1>2, <1>7, OverCarries, Zenon
<1>10. Carries(h, 22, 2, "0")
  BY <1>2, <1>6, <1>8, <1>9, OverCarries, Zenon
<1>11. Carries(pkt, 22, 2, "0")
  BY <1>5, <1>10, OverCarries, Zenon
<1>12. pkt[23] = <<"0", 1>>
  <2>1. 23 \in 22 .. 22 + 2 - 1 /\ 23 - 22 = 1
    OBVIOUS
  <2> QED
    BY <1>11, <2>1, Zenon DEF Carries
<1>13. ~ \E v \in {pkt[o][1] : o \in 23 .. 23 + 1 - 1} : \A o \in 23 .. 23 + 1 - 1 : pkt[o] = <<v, o - 23>>
  <2> SUFFICES ASSUME NEW v, \A o \in 23 .. 23 + 1 - 1 : pkt[o] = <<v, o - 23>> PROVE FALSE
    OBVIOUS
  <2>1. pkt[23] = <<v, 0>>
    OBVIOUS
  <2>2. <<"0", 1>>[2] = 1 /\ <<v, 0>>[2] = 0
    OBVIOUS
  <2> QED
    BY <1>12, <2>1, <2>2
<1>14. Net!ReadBytes(pkt, 23, 1) = "mixed"
  BY <1>13, Zenon DEF Net!ReadBytes
<1>15. Net!Read(pkt, Net!IpAt, Net!ip_hdr, "proto") = "mixed"
  <2>1. Net!Read(pkt, Net!IpAt, Net!ip_hdr, "proto") = Net!ReadBytes(pkt, Net!IpAt + 9, 1)
    BY IpLocated, Zenon DEF Located, Net!Read
  <2>2. Net!IpAt + 9 = 23
    BY Offsets
  <2> QED
    BY <1>14, <2>1, <2>2, Zenon
<1>16. "mixed" # "IPPROTO_UDP"
  OBVIOUS
<1> QED
  BY <1>4, <1>15, <1>16, Zenon DEF Net!check_valid_packet

\* The three kinds of replies to a request that can be read.
LEMMA ReplyShows ==
  ASSUME NEW src, NEW dst, NEW id, NEW sent, Shows(sent, Told(src, dst, id)),
         src = [mac |-> src.mac, ip |-> src.ip, port |-> src.port], dst = [mac |-> dst.mac, ip |-> dst.ip, port |-> dst.port],
         NEW reply \in {Net!parse_outgoing_request_header(sent), Net!copied_reply(sent), Net!flip_headers(sent)}
  PROVE  Shows(reply, Told(dst, src, id))
<1>1. Net!Sender(sent) = src /\ Net!Receiver(sent) = dst /\ Net!packet_id(sent) = id
  BY ToldIsRead, Zenon
<1>2. Shows(Net!parse_outgoing_request_header(sent), Told(dst, src, id))
  <2>1. Net!parse_outgoing_request_header(sent) = Net!initialize_reverse_request_header(dst, src, id)
    BY <1>1, Zenon DEF Net!parse_outgoing_request_header
  <2> QED
    BY <2>1, RequestShows, Zenon
<1>3. Shows(Net!copied_reply(sent), Told(dst, src, id))
  <2>1. Net!copied_reply(sent) = Net!packed_request(dst, src, id)
    BY <1>1, Zenon DEF Net!copied_reply, Net!packed_request
  <2> QED
    BY <2>1, RequestShows, Zenon
<1>4. Shows(Net!flip_headers(sent), Told(dst, src, id))
  BY FlipShows
<1> QED
  BY <1>2, <1>3, <1>4, Zenon

\* What ReplyReadable says of an answer.
AnswerGood(reply, client, server, id) ==
    /\ Net!check_valid_packet(reply, client.mac)
    /\ Net!Sender(reply) = server /\ Net!Receiver(reply) = client
    /\ Net!packet_id(reply) = id
    /\ Net!ReadBytes(reply, Net!PayloadAt + 4, 4) = "0"

LEMMA AnswerStep ==
  ASSUME Answer, call'.valid
  PROVE  AnswerGood(call'.reply, call'.client, call'.server, call'.id)
<1>1. PICK client \in Hosts, server \in Hosts, id \in {"id1", "id2"} :
        \E sent \in {Net!client_request(client, server, id), Net!packed_request(client, server, id)} :
            \E reply \in {Net!parse_outgoing_request_header(sent), Net!copied_reply(sent), Net!flip_headers(sent)} :
                call' = [fn |-> "answer", client |-> client, server |-> server, id |-> id,
                         made_by_client |-> sent = Net!client_request(client, server, id),
                         valid |-> Net!check_valid_packet(sent, server.mac), reply |-> reply]
  BY Zenon DEF Answer
<1>2. PICK sent \in {Net!client_request(client, server, id), Net!packed_request(client, server, id)} :
            \E reply \in {Net!parse_outgoing_request_header(sent), Net!copied_reply(sent), Net!flip_headers(sent)} :
                call' = [fn |-> "answer", client |-> client, server |-> server, id |-> id,
                         made_by_client |-> sent = Net!client_request(client, server, id),
                         valid |-> Net!check_valid_packet(sent, server.mac), reply |-> reply]
  BY <1>1, Zenon
<1>3. PICK reply \in {Net!parse_outgoing_request_header(sent), Net!copied_reply(sent), Net!flip_headers(sent)} :
                call' = [fn |-> "answer", client |-> client, server |-> server, id |-> id,
                         made_by_client |-> sent = Net!client_request(client, server, id),
                         valid |-> Net!check_valid_packet(sent, server.mac), reply |-> reply]
  BY <1>2, Zenon
<1>4. PICK made, valid : made = (sent = Net!client_request(client, server, id)) /\ valid = Net!check_valid_packet(sent, server.mac)
  OBVIOUS
<1>5. call' = [fn |-> "answer", client |-> client, server |-> server, id |-> id, made_by_client |-> made,
               valid |-> valid, reply |-> reply]
  BY <1>3, <1>4, Zenon
<1>6. call'.reply = reply /\ call'.client = client /\ call'.server = server /\ call'.id = id /\ call'.valid = valid
  BY <1>5
<1>7. Net!check_valid_packet(sent, server.mac)
  BY <1>4, <1>6, Zenon
<1>8. sent # Net!client_request(client, server, id)
  BY <1>7, ClientRefused, Zenon
<1>9. Shows(sent, Told(client, server, id))
  <2>1. sent = Net!packed_request(client, server, id)
    BY <1>8, Zenon
  <2> QED
    BY <2>1, RequestShows, Zenon
<1>10. client = [mac |-> client.mac, ip |-> client.ip, port |-> client.port]
       /\ server = [mac |-> server.mac, ip |-> server.ip, port |-> server.port]
  BY HostsAssumption, Zenon
<1>11. Shows(reply, Told(server, client, id))
  BY <1>9, <1>10, ReplyShows, Zenon
<1>12. AnswerGood(reply, client, server, id)
  <2>1. /\ Net!check_valid_packet(reply, client.mac)
        /\ Net!Sender(reply) = [mac |-> server.mac, ip |-> server.ip, port |-> server.port]
        /\ Net!Receiver(reply) = [mac |-> client.mac, ip |-> client.ip, port |-> client.port]
        /\ Net!packet_id(reply) = id /\ Net!ReadBytes(reply, Net!PayloadAt + 4, 4) = "0"
    BY <1>11, ToldIsRead, Zenon
  <2> QED
    BY <1>10, <2>1, Zenon DEF AnswerGood
<1> QED
  BY <1>6, <1>12, Zenon

\* For all addresses: the three kinds of replies to a request the server
\* accepts are accepted by the client, come from the server, go to the client
\* and carry the id of the request.
THEOREM RepliesReadable == Spec => []ReplyReadable
<1>1. (call.fn = "answer" /\ call.valid => AnswerGood(call.reply, call.client, call.server, call.id)) => ReplyReadable
  BY Zenon DEF ReplyReadable, AnswerGood
<1>2. ReplyReadable => (call.fn = "answer" /\ call.valid => AnswerGood(call.reply, call.client, call.server, call.id))
  BY Zenon DEF ReplyReadable, AnswerGood
<1>3. Init => ReplyReadable
  BY DEF Init, Idle, ReplyReadable
<1>4. (call'.fn = "answer" /\ call'.valid => AnswerGood(call'.reply, call'.client, call'.server, call'.id)) => ReplyReadable'
  BY Zenon DEF ReplyReadable, AnswerGood
<1>5. ASSUME ReplyReadable, [Next]_vars PROVE ReplyReadable'
  <2>1. CASE UNCHANGED call
    BY <1>2, <1>4, <1>5, <2>1
  <2>2. CASE call'.fn # "answer"
    BY <1>4, <2>2
  <2>3. CASE Answer
    BY <1>4, <2>3, AnswerStep
  <2> QED
    BY <1>5, <2>1, <2>2, <2>3, Calls
<1> QED
  BY <1>3, <1>5, PTL DEF Spec
=============================================================================
