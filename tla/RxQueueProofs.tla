--------------------------- MODULE RxQueueProofs ---------------------------
(***************************************************************************)
(* Proofs about RxQueue for every ring size, counter width, budget and     *)
(* pool that its assumptions allow: IndInv is inductive, and every         *)
(* invariant of RxQueue follows from it.                                   *)
(***************************************************************************)
EXTENDS RxQueue, RingProofs, FiniteSetTheorems

\* Descriptors posted since the doorbell record was last written, slots of
\* the ring that have a buffer, and the buffer k slots after consumer_idx.
Refilling == pc \in {"refill", "crash"}
Unrung == IF Refilling THEN refilled ELSE 0
RingLen == WqeCnt - Len(ms) + Unrung
BufAt(k) == buffers[SlotOf(consumer_idx + k)]

\* Every counter is a fixed distance ahead of consumer_idx: wq_head by the
\* slots that have a buffer, the doorbell record by those the NIC knows of.
HeadInv ==
    /\ pc = "idle" => ms = <<>>
    /\ Unrung <= Len(ms)
    /\ Len(ms) + Len(arrived) <= WqeCnt
    /\ wq_head = Add(consumer_idx, RingLen)
    /\ dbrec = Add(consumer_idx, WqeCnt - Len(ms)) % WqeIdxMod
    /\ addrs = buffers

\* The NIC is ahead by the packets that have arrived, and uses descriptors
\* and completion entries in step.  The published consumer index is behind
\* by what is being gathered.
NicInv ==
    /\ nic_cq = Add(consumer_idx, Len(arrived))
    /\ nic_wq = nic_cq % WqeIdxMod
    /\ cq_dbrec = (consumer_idx - (IF Refilling THEN 0 ELSE Len(ms))) % CqDbMod

\* The entries written and not gathered name the oldest descriptors in
\* order; all others read as unwritten.
CqInv ==
    /\ \A k \in 0 .. Len(arrived) - 1 :
         LET head == Add(consumer_idx, k) cqe == cqes[CqSlotOf(head)]
         IN  /\ cqe.opcode \in Outcomes
             /\ cqe.owner = Parity(head)
             /\ cqe.wqe_counter = head % WqeIdxMod
    /\ \A k \in Len(arrived) .. CqeCnt - 1 :
         LET head == Add(consumer_idx, k)
         IN  cqe_status(cqes[CqSlotOf(head)], head) = "INVALID"

\* Packets wait in the slots after consumer_idx, and every buffer has one
\* owner: a slot of the ring, the pool, the caller or the burst.
OwnerInv ==
    /\ \A k \in DOMAIN arrived : arrived[k] = BufAt(k - 1)
    /\ \A i, j \in 0 .. RingLen - 1 : BufAt(i) = BufAt(j) => i = j
    /\ \A i \in 0 .. RingLen - 1 : BufAt(i) \notin pool \cup held \cup GatheredBufs
    /\ \A i, j \in DOMAIN ms : ms[i] = ms[j] => i = j
    /\ pool \cap held = {} /\ (pool \cup held) \cap GatheredBufs = {}
    /\ Bufs = pool \cup held \cup GatheredBufs \cup {BufAt(k) : k \in 0 .. RingLen - 1}

\* The number of buffers adds up.
CountInv ==
    Cardinality(pool) + Cardinality(held) + Len(ms) + RingLen = Cardinality(Bufs)

IndInv ==
    /\ TypeOK
    /\ HeadInv
    /\ NicInv
    /\ CqInv
    /\ OwnerInv
    /\ CountInv

---------------------------------------------------------------------------
\* Counters, slots and counting.

\* Counters at the same slot stay so as they move on.
LEMMA SameSlot ==
  ASSUME NEW N \in Nat \ {0}, NEW a \in Int, NEW b \in Int, NEW k \in Int, a % N = b % N
  PROVE  (a + k) % N = (b + k) % N
<1>1. ((a % N) + k) % N = (a + k) % N
  BY ModAdd
<1>2. ((b % N) + k) % N = (b + k) % N
  BY ModAdd
<1> QED
  BY <1>1, <1>2

\* A wrapped counter addresses the slot of the unwrapped one.
LEMMA SlotAdd ==
  ASSUME NEW x \in Counter, NEW a \in Nat, NEW k \in Nat
  PROVE  SlotOf(Add(x, a) + k) = SlotOf(x + (a + k))
<1>1. /\ CounterMod \in Nat \ {0} /\ WqeCnt \in Nat \ {0} /\ x \in Int
  BY Moduli DEF Counter
<1>2. CounterMod % WqeCnt = 0
  BY Moduli, Zenon
<1>3. PICK u \in Int : u = x + a
  BY <1>1
<1>4. (u % CounterMod) % WqeCnt = u % WqeCnt
  BY <1>1, <1>2, ModOfMod
<1>5. PICK w \in Int : w = u % CounterMod
  BY <1>1, DivMod
<1>6. (w + k) % WqeCnt = (u + k) % WqeCnt
  <2>1. w % WqeCnt = u % WqeCnt /\ WqeCnt \in Nat \ {0}  /\ k \in Int
    BY <1>1, <1>4, <1>5
  <2> QED
    BY <2>1, SameSlot
<1>7. u + k = x + (a + k)
  BY <1>1, <1>3
<1> QED
  BY <1>3, <1>5, <1>6, <1>7 DEF SlotOf, Add

\* Slots less than a lap apart differ.
LEMMA SlotsDiffer ==
  ASSUME NEW x \in Counter, NEW i \in 0 .. WqeCnt - 1, NEW j \in 0 .. WqeCnt - 1, i # j
  PROVE  SlotOf(x + i) # SlotOf(x + j)
<1>1. WqeCnt \in Nat \ {0} /\ x \in Int
  BY Moduli DEF Counter
<1>2. PICK a \in Int, b \in Int : a = x + i /\ b = x + j
  BY <1>1
<1>3. (a < b /\ b < a + WqeCnt) \/ (b < a /\ a < b + WqeCnt)
  BY <1>1, <1>2
<1>4. a % WqeCnt # b % WqeCnt
  BY <1>1, <1>3, ModDistinct
<1> QED
  BY <1>2, <1>4 DEF SlotOf

\* Every slot of the ring is within a lap of any counter.
LEMMA SlotInRange ==
  ASSUME NEW x \in Counter, NEW k \in Nat
  PROVE  SlotOf(x + k) \in Slot
<1>1. WqeCnt \in Nat \ {0} /\ x + k \in Int
  BY Moduli DEF Counter
<1> QED
  BY <1>1, DivMod DEF SlotOf, Slot

\* The 16 bits of a counter address the slots of the counter.
LEMMA SlotOfIdxAdd ==
  ASSUME NEW x \in Counter, NEW k \in Nat
  PROVE  SlotOf((x % WqeIdxMod) + k) = SlotOf(x + k)
<1>1. /\ WqeIdxMod \in Nat \ {0} /\ WqeCnt \in Nat \ {0} /\ x \in Int
  BY Moduli DEF Counter
<1>2. WqeIdxMod % WqeCnt = 0
  BY Moduli, Zenon
<1>3. PICK w \in Int : w = x % WqeIdxMod
  BY <1>1, DivMod
<1>4. (x % WqeIdxMod) % WqeCnt = x % WqeCnt
  BY <1>1, <1>2, ModOfMod
<1>5. (w + k) % WqeCnt = (x + k) % WqeCnt
  <2>1. w % WqeCnt = x % WqeCnt /\ WqeCnt \in Nat \ {0} /\ x \in Int  /\ k \in Int
    BY <1>1, <1>3, <1>4
  <2> QED
    BY <2>1, SameSlot
<1> QED
  BY <1>3, <1>5 DEF SlotOf

\* The elements of a sequence without repetitions are as many as its length.
LEMMA InjectiveCount ==
  ASSUME NEW n \in Nat, NEW T, NEW f \in [1 .. n -> T],
         \A i, j \in 1 .. n : f[i] = f[j] => i = j,
         \A t \in T : \E i \in 1 .. n : f[i] = t
  PROVE  IsFiniteSet(T) /\ Cardinality(T) = n
<1>1. f \in Bijection(1 .. n, T)
  BY DEF Bijection, Injection, Surjection, IsInjective
<1>2. ExistsBijection(1 .. n, T)
  BY <1>1 DEF ExistsBijection
<1>3. Cardinality(T) = n
  BY <1>2, FS_CountingElements
<1>4. IsFiniteSet(T)
  BY <1>2, FS_NatBijection
<1> QED
  BY <1>3, <1>4

---------------------------------------------------------------------------
\* What the counts amount to in any state of the invariant.
LEMMA Counts ==
  ASSUME IndInv
  PROVE  /\ WqeCnt \in Nat \ {0} /\ CqeCnt \in Nat \ {0} /\ CounterMod \in Nat \ {0}
         /\ WqeIdxMod \in Nat \ {0} /\ CqDbMod \in Nat \ {0}
         /\ WqeCnt <= CqeCnt /\ CqeCnt < CounterMod /\ WqeCnt < CounterMod
         /\ CqeCnt < CqDbMod /\ WqeCnt < WqeIdxMod
         /\ Len(ms) \in Nat /\ Len(arrived) \in Nat /\ Unrung \in Nat
         /\ RingLen \in 0 .. WqeCnt /\ RingLen \in Nat /\ Len(arrived) <= RingLen
         /\ Len(ms) + Len(arrived) <= WqeCnt
         /\ DOMAIN ms = 1 .. Len(ms) /\ DOMAIN arrived = 1 .. Len(arrived)
         /\ consumer_idx \in Counter
<1>1. /\ WqeCnt \in Nat \ {0} /\ CqeCnt \in Nat \ {0} /\ CounterMod \in Nat \ {0}
      /\ WqeIdxMod \in Nat \ {0} /\ CqDbMod \in Nat \ {0}
      /\ WqeCnt <= CqeCnt /\ CqeCnt < CounterMod /\ WqeCnt < CounterMod
      /\ CqeCnt < CqDbMod /\ WqeCnt < WqeIdxMod
  BY Moduli, WidthAssumption
<1>2. Len(ms) \in Nat /\ Len(arrived) \in Nat /\ Unrung \in Nat /\ consumer_idx \in Counter
  BY DEF IndInv, TypeOK, Unrung
<1>3. DOMAIN ms = 1 .. Len(ms) /\ DOMAIN arrived = 1 .. Len(arrived)
  BY DEF IndInv, TypeOK
<1>4. /\ RingLen \in 0 .. WqeCnt /\ RingLen \in Nat /\ Len(arrived) <= RingLen
      /\ Len(ms) + Len(arrived) <= WqeCnt
  BY <1>1, <1>2 DEF IndInv, HeadInv, RingLen
<1> QED
  BY <1>1, <1>2, <1>3, <1>4

\* Distances from consumer_idx, as the code computes them.
LEMMA Distances ==
  ASSUME IndInv
  PROVE  /\ Unread = Len(arrived)
         /\ Sub(wq_head, consumer_idx) = RingLen
<1>1. ASSUME NEW x \in Counter, NEW n \in 0 .. CounterMod - 1
      PROVE  Sub(Add(x, n), x) = n
  <2>1. Sub(x, x) = 0 /\ CounterMod \in Nat \ {0}
    BY CounterFacts, Moduli
  <2>2. n \in Nat /\ Sub(x, x) + n < CounterMod
    BY <2>1
  <2>3. Sub(Add(x, n), x) = Sub(x, x) + n
    BY <2>2, SubExtend
  <2> QED
    BY <2>1, <2>3
<1>2. Len(arrived) \in 0 .. CounterMod - 1 /\ RingLen \in 0 .. CounterMod - 1
  BY Counts
<1>3. nic_cq = Add(consumer_idx, Len(arrived)) /\ wq_head = Add(consumer_idx, RingLen)
  BY DEF IndInv, NicInv, HeadInv
<1> QED
  BY <1>1, <1>2, <1>3, Counts DEF Unread

\* The invariant holds initially: every slot has a buffer of its own, and
\* every CQE reads as unwritten on the first lap.
LEMMA InitInv == Init => IndInv
<1> SUFFICES ASSUME Init PROVE IndInv
  OBVIOUS
<1>1. /\ WqeCnt \in Nat \ {0} /\ CqeCnt \in Nat \ {0} /\ CounterMod \in Nat \ {0}
      /\ WqeIdxMod \in Nat \ {0} /\ CqDbMod \in Nat \ {0} /\ Budget \in Nat
      /\ CqeCnt < CounterMod /\ WqeCnt < CounterMod /\ WqeCnt < WqeIdxMod
  BY Moduli, WidthAssumption, RxAssumption
<1>2. 0 \in Counter /\ WqeCnt \in Counter
  BY <1>1 DEF Counter
<1>3. PICK b \in [Slot -> Bufs] : /\ \A i, j \in Slot : b[i] = b[j] => i = j
                                  /\ buffers = b /\ addrs = b
                                  /\ pool = Bufs \ {b[i] : i \in Slot}
  BY DEF Init
<1>4. Len(ms) = 0 /\ Len(arrived) = 0 /\ Unrung = 0 /\ RingLen = WqeCnt
  BY <1>1 DEF Init, Unrung, RingLen, Refilling
<1>5. WqeCnt % WqeIdxMod = WqeCnt /\ 0 % WqeIdxMod = 0 /\ 0 % CqDbMod = 0
  BY <1>1, ModNear
<1>6. TypeOK
  BY <1>1, <1>2, <1>3, <1>5, SMTT(30) DEF Init, TypeOK
<1>7. Add(0, WqeCnt) = WqeCnt /\ Add(0, 0) = 0
  BY <1>1, <1>2, AddDef
<1>8. HeadInv
  BY <1>1, <1>3, <1>4, <1>7 DEF Init, HeadInv, Refilling
<1>9. NicInv
  <2>1. cq_dbrec = (0 - 0) % CqDbMod
    BY <1>5 DEF Init
  <2> QED
    BY <1>4, <1>5, <1>7, <2>1 DEF Init, NicInv, Refilling
<1>10. CqInv
  <2>1. ASSUME NEW k \in 0 .. CqeCnt - 1
        PROVE  cqe_status(cqes[CqSlotOf(Add(consumer_idx, k))], Add(consumer_idx, k)) = "INVALID"
    <3>0. k \in 0 .. CounterMod /\ 0 \in 0 .. CounterMod /\ k + 0 <= CounterMod /\ k < CounterMod
      BY <1>1
    <3>1. Add(consumer_idx, k) \in Counter /\ Add(consumer_idx, k) = k
      BY <1>2, <3>0, AddFacts, AddDef DEF Init
    <3>2. CqSlotOf(Add(consumer_idx, k)) \in CqSlot
      BY <3>1, CqLap
    <3>3. Parity(k) = 0
      <4>1. k \div CqeCnt = 0
        <5>1. k = CqeCnt * 0 + k /\ k \in Int
          BY <1>1
        <5> QED
          BY <1>1, <5>1, ModUnique
      <4> QED
        BY <4>1 DEF Parity
    <3> QED
      BY <3>1, <3>2, <3>3 DEF Init, cqe_status
  <2> QED
    BY <1>1, <1>4, <2>1 DEF CqInv
<1>11. \A k \in 0 .. WqeCnt - 1 : SlotOf(consumer_idx + k) = k
  <2> SUFFICES ASSUME NEW k \in 0 .. WqeCnt - 1 PROVE SlotOf(0 + k) = k
    BY DEF Init
  <2>1. k % WqeCnt = k /\ 0 + k = k
    BY <1>1, ModNear
  <2> QED
    BY <2>1 DEF SlotOf
<1>12. \A k \in Slot : BufAt(k) = b[k]
  BY <1>3, <1>11 DEF BufAt, Slot
<1>13. GatheredBufs = {} /\ held = {} /\ DOMAIN ms = {} /\ DOMAIN arrived = {}
  BY DEF Init, GatheredBufs
<1>14. OwnerInv
  BY <1>3, <1>4, <1>12, <1>13 DEF OwnerInv, Slot
<1>15. CountInv
  <2> DEFINE f == [i \in 1 .. WqeCnt |-> b[i - 1]]
             T == {b[i] : i \in Slot}
  <2>1. f \in [1 .. WqeCnt -> T]
    BY <1>1, <1>3 DEF Slot
  <2>2. \A i, j \in 1 .. WqeCnt : f[i] = f[j] => i = j
    BY <1>1, <1>3, SMTT(30) DEF Slot
  <2>3. \A t \in T : \E i \in 1 .. WqeCnt : f[i] = t
    <3> SUFFICES ASSUME NEW i \in Slot PROVE \E j \in 1 .. WqeCnt : f[j] = b[i]
      OBVIOUS
    <3>1. i + 1 \in 1 .. WqeCnt /\ f[i + 1] = b[i]
      BY <1>1 DEF Slot
    <3> QED
      BY <3>1
  <2>4. IsFiniteSet(T) /\ Cardinality(T) = WqeCnt
    <3>1. WqeCnt \in Nat
      BY <1>1
    <3> HIDE DEF f, T
    <3> QED
      BY <3>1, <2>1, <2>2, <2>3, InjectiveCount
  <2>5. Bufs \cap {b[i] : i \in Slot} = {b[i] : i \in Slot} /\ IsFiniteSet(Bufs)
    BY <1>3, RxAssumption
  <2>6. Cardinality(pool) = Cardinality(Bufs) - WqeCnt
    <3>1. Cardinality(Bufs \ {b[i] : i \in Slot})
          = Cardinality(Bufs) - Cardinality(Bufs \cap {b[i] : i \in Slot})
      BY <2>5, FS_Difference
    <3> QED
      BY <1>3, <2>4, <2>5, <3>1
  <2>7. Cardinality(held) = 0 /\ Cardinality(Bufs) \in Nat
    BY <1>13, <2>5, FS_EmptySet, FS_CardinalityType
  <2> QED
    BY <1>1, <1>4, <2>6, <2>7 DEF CountInv
<1> QED
  BY <1>6, <1>8, <1>9, <1>10, <1>14, <1>15 DEF IndInv

---------------------------------------------------------------------------
\* One lemma per action: the action preserves the invariant.

\* Steps that only move the program counter and post nothing.
LEMMA PcFrame ==
  ASSUME IndInv, UNCHANGED <<rxqVars, ringVars, ms, refilled, pool, held, nicVars, arrived>>,
         pc' \in {"gather", "panic", "refill", "crash"}, Refilling' <=> Refilling
  PROVE  IndInv'
<1> USE DEF rxqVars, ringVars, nicVars
<1>1. Unrung' = Unrung /\ RingLen' = RingLen /\ GatheredBufs' = GatheredBufs
      /\ \A k : BufAt(k)' = BufAt(k)
  BY DEF Unrung, RingLen, GatheredBufs, BufAt
<1>2. TypeOK'
  BY DEF IndInv, TypeOK
<1>3. HeadInv' /\ NicInv' /\ CqInv'
  BY <1>1 DEF IndInv, HeadInv, NicInv, CqInv, Add, cqe_status
<1>4. OwnerInv' /\ CountInv'
  BY <1>1 DEF IndInv, OwnerInv, CountInv
<1> QED
  BY <1>2, <1>3, <1>4 DEF IndInv

\* A poll begins.
LEMMA GatherRxInv == IndInv /\ GatherRx => IndInv'
<1> SUFFICES ASSUME IndInv, GatherRx PROVE IndInv'
  OBVIOUS
<1> QED
  BY PcFrame DEF GatherRx, Refilling

\* An error completion ends the process.
LEMMA GatherPanicInv == IndInv /\ GatherPanic => IndInv'
<1> SUFFICES ASSUME IndInv, GatherPanic PROVE IndInv'
  OBVIOUS
<1> QED
  BY PcFrame DEF GatherPanic, Refilling

\* So does an empty pool.
LEMMA RefillCrashInv == IndInv /\ RefillCrash => IndInv'
<1> SUFFICES ASSUME IndInv, RefillCrash PROVE IndInv'
  OBVIOUS
<1> QED
  BY PcFrame DEF RefillCrash, Refilling

\* The CQE polled is the oldest that has arrived, and the slot it names is
\* the one at consumer_idx.
LEMMA PolledOldest ==
  ASSUME IndInv, cqe_status(PolledCqe, consumer_idx) = "RESP_SEND"
  PROVE  /\ Len(arrived) >= 1 /\ RingLen >= 1
         /\ buffers[SlotOf(PolledCqe.wqe_counter)] = BufAt(0)
<1>1. Add(consumer_idx, 0) = consumer_idx /\ consumer_idx \in Counter
  BY Counts, CounterFacts
<1>2. Len(arrived) >= 1
  <2> SUFFICES ASSUME Len(arrived) = 0 PROVE FALSE
    BY Counts
  <2>1. 0 \in Len(arrived) .. CqeCnt - 1
    BY Counts
  <2>2. cqe_status(cqes[CqSlotOf(consumer_idx)], consumer_idx) = "INVALID"
    BY <1>1, <2>1 DEF IndInv, CqInv
  <2> QED
    BY <2>2 DEF PolledCqe
<1>3. PolledCqe.wqe_counter = consumer_idx % WqeIdxMod
  <2>1. 0 \in 0 .. Len(arrived) - 1
    BY <1>2, Counts
  <2> QED
    BY <1>1, <2>1 DEF IndInv, CqInv, PolledCqe
<1>4. SlotOf(PolledCqe.wqe_counter) = SlotOf(consumer_idx) /\ consumer_idx + 0 = consumer_idx
  BY <1>1, <1>3, SlotOfIdx DEF Counter
<1> QED
  BY <1>2, <1>4, Counts DEF BufAt

\* Gathering moves the oldest packet from the ring to the burst.
LEMMA GatherOneInv == IndInv /\ GatherOne => IndInv'
<1> SUFFICES ASSUME IndInv, GatherOne PROVE IndInv'
  OBVIOUS
<1>0. TypeOK /\ HeadInv /\ NicInv /\ CqInv /\ OwnerInv /\ CountInv
  BY DEF IndInv
<1> DEFINE c == consumer_idx
           b == BufAt(0)
<1>1. /\ pc = "gather" /\ Len(ms) < Budget /\ ms' = Append(ms, b)
      /\ consumer_idx' = Add(c, 1) /\ arrived' = Tail(arrived)
      /\ UNCHANGED <<wq_head, buffers, addrs, cqes, dbrec, cq_dbrec, pc, refilled, pool, held, nic_wq, nic_cq>>
      /\ Len(arrived) >= 1 /\ RingLen >= 1
  BY PolledOldest DEF GatherOne, ringVars, nicVars
<1>2. /\ Len(ms') = Len(ms) + 1 /\ Len(arrived') = Len(arrived) - 1
      /\ Unrung' = 0 /\ Unrung = 0 /\ RingLen' = RingLen - 1 /\ ~Refilling /\ ~Refilling'
  BY <1>0, <1>1, Counts, SMTT(30) DEF TypeOK, Unrung, RingLen, Refilling
<1>3. b \in Bufs /\ \A k \in Nat : BufAt(k) \in Bufs
  BY <1>0, Counts, SlotInRange DEF BufAt, TypeOK
<1>4. ASSUME NEW k \in Nat PROVE BufAt(k)' = BufAt(k + 1)
  <2>1. SlotOf(Add(c, 1) + k) = SlotOf(c + (1 + k)) /\ 1 + k = k + 1
    BY Counts, SlotAdd
  <2> QED
    BY <1>1, <2>1 DEF BufAt
<1>5. ASSUME NEW k \in 0 .. CounterMod - 1 PROVE Add(consumer_idx', k) = Add(c, k + 1)
  <2>1. 1 \in 0 .. CounterMod /\ k \in 0 .. CounterMod /\ 1 + k <= CounterMod /\ 1 + k = k + 1
    BY Counts
  <2>2. Add(Add(c, 1), k) = Add(c, 1 + k)
    BY <2>1, Counts, AddFacts
  <2> QED
    BY <1>1, <2>1, <2>2
<1>6. consumer_idx' \in Counter
  <2>1. 1 \in 0 .. CounterMod /\ 0 \in 0 .. CounterMod /\ 1 + 0 <= CounterMod
    BY Counts
  <2> QED
    BY <1>1, <2>1, Counts, AddFacts
<1>7. TypeOK'
  <2>1. ms' \in Seq(Bufs) /\ Len(ms') <= Budget
    BY <1>0, <1>1, <1>2, <1>3, RxAssumption DEF TypeOK
  <2>2. arrived' \in Seq(Bufs)
    BY <1>0, <1>1 DEF TypeOK
  <2> QED
    BY <1>0, <1>1, <1>6, <2>1, <2>2 DEF TypeOK
<1>8. HeadInv'
  <2>1. Add(consumer_idx', RingLen - 1) = Add(c, RingLen)
    <3>1. RingLen - 1 \in 0 .. CounterMod - 1 /\ (RingLen - 1) + 1 = RingLen
      BY <1>1, Counts, SMTT(30)
    <3> QED
      BY <1>5, <3>1
  <2>2. Add(consumer_idx', WqeCnt - Len(ms')) = Add(c, WqeCnt - Len(ms))
    <3>0. /\ Len(ms) + 1 <= WqeCnt /\ Len(ms) \in Nat /\ WqeCnt \in Nat /\ WqeCnt < CounterMod
          /\ CounterMod \in Nat /\ Len(ms') = Len(ms) + 1
      BY <1>1, <1>2, Counts
    <3>1. WqeCnt - Len(ms') \in 0 .. CounterMod - 1 /\ (WqeCnt - Len(ms')) + 1 = WqeCnt - Len(ms)
      BY <3>0
    <3> QED
      BY <1>5, <3>1
  <2>3. Len(ms') + Len(arrived') <= WqeCnt /\ Unrung' <= Len(ms')
    BY <1>0, <1>2, Counts DEF HeadInv
  <2> QED
    BY <1>0, <1>1, <1>2, <2>1, <2>2, <2>3 DEF HeadInv
<1>9. NicInv'
  <2>1. Add(consumer_idx', Len(arrived')) = Add(c, Len(arrived))
    <3>1. Len(arrived') \in 0 .. CounterMod - 1 /\ Len(arrived') + 1 = Len(arrived)
      BY <1>1, <1>2, Counts
    <3> QED
      BY <1>5, <3>1
  <2>2. cq_dbrec = (c - Len(ms)) % CqDbMod
    BY <1>0, <1>2 DEF NicInv
  <2>3. (consumer_idx' - Len(ms')) % CqDbMod = (c - Len(ms)) % CqDbMod
    <3>1. consumer_idx' = (IF c + 1 < CounterMod THEN c + 1 ELSE c + 1 - CounterMod)
      <4>1. 1 \in 0 .. CounterMod
        BY Counts
      <4> QED
        BY <1>1, <4>1, Counts, AddDef
    <3>2. CounterMod % CqDbMod = 0
      BY Moduli, Zenon
    <3>7. CqDbMod \in Nat \ {0} /\ CounterMod \in Nat \ {0} /\ c \in Int /\ Len(ms) \in Int
      BY Counts DEF Counter
    <3>3. PICK q \in Int : CounterMod = CqDbMod * q
      BY <3>2, <3>7, DivMod
    <3>4. PICK u \in Int, v \in Int : u = c - Len(ms) /\ v = consumer_idx' - Len(ms')
      BY <1>2, <1>6, Counts, SMTT(30) DEF Counter
    <3>5. v = u + CqDbMod * 0 \/ v = u + CqDbMod * (-q)
      <4>1. v = u \/ v = u - CounterMod
        BY <1>2, <3>1, <3>4, <3>7
      <4>2. CqDbMod * 0 = 0 /\ CqDbMod * (-q) = -CounterMod
        BY <3>3, <3>7
      <4> QED
        BY <3>7, <4>1, <4>2
    <3>6. PICK z \in Int : v = u + CqDbMod * z
      <4>1. 0 \in Int /\ -q \in Int
        OBVIOUS
      <4> QED
        BY <3>5, <4>1, Zenon
    <3>8. v % CqDbMod = u % CqDbMod
      BY <3>6, <3>7, ModLaps
    <3> QED
      BY <3>4, <3>8
  <2> QED
    BY <1>0, <1>1, <1>2, <2>1, <2>2, <2>3 DEF NicInv
<1>10. CqInv'
  <2>1. ASSUME NEW k \in 0 .. Len(arrived') - 1
        PROVE  LET head == Add(c, k + 1)
               IN  /\ cqes[CqSlotOf(head)].opcode \in Outcomes
                   /\ cqes[CqSlotOf(head)].owner = Parity(head)
                   /\ cqes[CqSlotOf(head)].wqe_counter = head % WqeIdxMod
    <3>1. k + 1 \in 0 .. Len(arrived) - 1
      BY <1>2, Counts
    <3> QED
      BY <1>0, <3>1 DEF CqInv
  <2>2. ASSUME NEW k \in Len(arrived') .. CqeCnt - 2
        PROVE  cqe_status(cqes[CqSlotOf(Add(c, k + 1))], Add(c, k + 1)) = "INVALID"
    <3>1. k + 1 \in Len(arrived) .. CqeCnt - 1
      BY <1>2, Counts, SMTT(30)
    <3> QED
      BY <1>0, <3>1 DEF CqInv
  <2>3. cqe_status(cqes[CqSlotOf(Add(c, CqeCnt))], Add(c, CqeCnt)) = "INVALID"
    <3>1. CqSlotOf(Add(c, CqeCnt)) = CqSlotOf(c) /\ Parity(Add(c, CqeCnt)) = 1 - Parity(c)
          /\ Parity(c) \in {0, 1}
      BY Counts, CqLap
    <3>2. cqes[CqSlotOf(c)].owner = Parity(c)
      <4>1. 0 \in 0 .. Len(arrived) - 1 /\ Add(c, 0) = c
        BY <1>1, Counts, CounterFacts
      <4> QED
        BY <1>0, <4>1 DEF CqInv
    <3>3. 1 - (1 - Parity(c)) = Parity(c)
      BY <3>1
    <3> QED
      BY <3>1, <3>2, <3>3 DEF cqe_status
  <2>4. ASSUME NEW k \in 0 .. Len(arrived') - 1
        PROVE  LET head == Add(consumer_idx', k)
               IN  /\ cqes[CqSlotOf(head)].opcode \in Outcomes
                   /\ cqes[CqSlotOf(head)].owner = Parity(head)
                   /\ cqes[CqSlotOf(head)].wqe_counter = head % WqeIdxMod
    <3>1. k \in 0 .. CounterMod - 1
      BY <1>2, Counts, SMTT(30)
    <3> QED
      BY <1>5, <2>1, <3>1
  <2>5. ASSUME NEW k \in Len(arrived') .. CqeCnt - 1
        PROVE  cqe_status(cqes[CqSlotOf(Add(consumer_idx', k))], Add(consumer_idx', k)) = "INVALID"
    <3>1. k \in 0 .. CounterMod - 1 /\ (k \in Len(arrived') .. CqeCnt - 2 \/ k + 1 = CqeCnt)
      BY <1>1, <1>2, Counts, SMTT(30)
    <3> QED
      BY <1>5, <2>2, <2>3, <3>1
  <2> QED
    BY <1>1, <2>4, <2>5 DEF CqInv, cqe_status
<1>11. GatheredBufs' = GatheredBufs \cup {b}
  <2>1. /\ DOMAIN ms' = 1 .. Len(ms) + 1 /\ ms'[Len(ms) + 1] = b
        /\ \A i \in 1 .. Len(ms) : ms'[i] = ms[i]
    BY <1>0, <1>1, <1>3, Counts DEF TypeOK
  <2> QED
    BY <2>1, Counts, SMTT(30) DEF GatheredBufs
<1>12. OwnerInv'
  <2>0. RingLen \in Nat /\ RingLen' = RingLen - 1 /\ RingLen >= 1
    BY <1>1, <1>2, Counts
  <2>1. \A k \in DOMAIN arrived' : arrived'[k] = BufAt(k - 1)'
    <3>0. DOMAIN arrived' = 1 .. Len(arrived) - 1
      BY <1>0, <1>1 DEF TypeOK
    <3> SUFFICES ASSUME NEW k \in 1 .. Len(arrived) - 1 PROVE arrived'[k] = BufAt(k - 1)'
      BY <3>0
    <3>1. arrived'[k] = arrived[k + 1] /\ k + 1 \in DOMAIN arrived /\ (k + 1) - 1 = k
          /\ k - 1 \in Nat /\ (k - 1) + 1 = k
      BY <1>0, <1>1, Counts DEF TypeOK
    <3>2. arrived[k + 1] = BufAt(k)
      BY <1>0, <3>1 DEF OwnerInv
    <3> QED
      BY <1>4, <3>1, <3>2
  <2>2. \A i \in 0 .. RingLen' - 1 : i + 1 \in 0 .. RingLen - 1 /\ i + 1 # 0 /\ BufAt(i)' = BufAt(i + 1)
    <3> SUFFICES ASSUME NEW i \in 0 .. RingLen - 2
                 PROVE  i + 1 \in 0 .. RingLen - 1 /\ i + 1 # 0 /\ BufAt(i)' = BufAt(i + 1)
      BY <2>0
    <3>1. i \in Nat /\ i + 1 \in 0 .. RingLen - 1 /\ i + 1 # 0
      BY <2>0
    <3> QED
      BY <1>4, <3>1
  <2>3. \A i, j \in 0 .. RingLen' - 1 : BufAt(i)' = BufAt(j)' => i = j
    <3> SUFFICES ASSUME NEW i \in 0 .. RingLen' - 1, NEW j \in 0 .. RingLen' - 1,
                        BufAt(i)' = BufAt(j)'
                 PROVE  i = j
      OBVIOUS
    <3>1. i + 1 = j + 1
      BY <1>0, <2>2 DEF OwnerInv
    <3> QED
      BY <1>2, <3>1, Counts
  <2>4. 0 \in 0 .. RingLen - 1
    BY <1>1, Counts
  <2>5. \A i \in 0 .. RingLen' - 1 : BufAt(i)' \notin pool' \cup held' \cup GatheredBufs'
    BY <1>0, <1>1, <1>11, <2>2, <2>4 DEF OwnerInv
  <2>6. b \notin pool \cup held \cup GatheredBufs
    BY <1>0, <2>4 DEF OwnerInv
  <2>7. \A i, j \in DOMAIN ms' : ms'[i] = ms'[j] => i = j
    <3>1. /\ DOMAIN ms' = 1 .. Len(ms) + 1 /\ ms'[Len(ms) + 1] = b
          /\ \A i \in 1 .. Len(ms) : ms'[i] = ms[i] /\ ms[i] # b
      <4>1. DOMAIN ms' = 1 .. Len(ms) + 1 /\ ms'[Len(ms) + 1] = b
        BY <1>0, <1>1, <1>3, Counts DEF TypeOK
      <4>2. \A i \in 1 .. Len(ms) : ms'[i] = ms[i]
        BY <1>0, <1>1, <1>3, Counts DEF TypeOK
      <4>3. \A i \in 1 .. Len(ms) : ms[i] # b
        BY <2>6, Counts DEF GatheredBufs
      <4> QED
        BY <4>1, <4>2, <4>3
    <3> QED
      BY <1>0, <3>1, Counts, SMTT(30) DEF OwnerInv
  <2>8. {BufAt(k) : k \in 0 .. RingLen - 1} = {b} \cup {BufAt(k)' : k \in 0 .. RingLen' - 1}
    <3>1. ASSUME NEW k \in 0 .. RingLen - 1, k # 0
          PROVE  k - 1 \in 0 .. RingLen' - 1 /\ BufAt(k) = BufAt(k - 1)'
      <4>1. k - 1 \in 0 .. RingLen' - 1 /\ (k - 1) + 1 = k
        BY <2>0, <3>1
      <4> QED
        BY <2>2, <4>1
    <3> QED
      BY <2>2, <2>4, <3>1
  <2> QED
    BY <1>0, <1>1, <1>11, <2>1, <2>3, <2>5, <2>6, <2>7, <2>8 DEF OwnerInv
<1>13. CountInv'
  <2>1. Len(ms') + RingLen' = Len(ms) + RingLen
    BY <1>2, Counts
  <2>2. Cardinality(pool) \in Nat /\ Cardinality(held) \in Nat
    BY <1>0, RxAssumption, FS_Subset, FS_CardinalityType DEF TypeOK
  <2> QED
    BY <1>0, <1>1, <1>2, <2>1, <2>2, Counts, SMTT(30) DEF CountInv
<1> QED
  BY <1>7, <1>8, <1>9, <1>10, <1>12, <1>13 DEF IndInv

\* Steps that leave the completion ring alone.
LEMMA CqFrame ==
  ASSUME CqInv, UNCHANGED <<cqes, consumer_idx, arrived>>
  PROVE  CqInv'
  BY DEF CqInv, Add, cqe_status

\* The end of a gather publishes the consumer index if there is a burst.
LEMMA GatherDoneInv == IndInv /\ GatherDone => IndInv'
<1> SUFFICES ASSUME IndInv, GatherDone PROVE IndInv'
  OBVIOUS
<1>0. TypeOK /\ HeadInv /\ NicInv /\ CqInv /\ OwnerInv /\ CountInv
  BY DEF IndInv
<1>1. /\ pc = "gather" /\ refilled' = 0
      /\ UNCHANGED <<wq_head, consumer_idx, buffers, addrs, cqes, dbrec, ms, pool, held, nic_wq, nic_cq, arrived>>
      /\ \/ ms = <<>> /\ pc' = "idle" /\ cq_dbrec' = cq_dbrec
         \/ ms # <<>> /\ pc' = "refill" /\ cq_dbrec' = consumer_idx % CqDbMod
  BY DEF GatherDone, rxqVars, nicVars
<1>2. Unrung = 0 /\ Unrung' = 0 /\ ~Refilling /\ (Refilling' <=> pc' = "refill")
  BY <1>1 DEF Unrung, Refilling
<1>3. RingLen' = RingLen /\ GatheredBufs' = GatheredBufs /\ \A k : BufAt(k)' = BufAt(k)
  BY <1>1, <1>2 DEF RingLen, GatheredBufs, BufAt
<1>4. consumer_idx % CqDbMod \in 0 .. CqDbMod - 1 /\ consumer_idx - 0 = consumer_idx
  <2>1. CqDbMod \in Nat \ {0} /\ consumer_idx \in Int
    BY Counts DEF Counter
  <2> QED
    BY <2>1, DivMod
<1>5. TypeOK'
  BY <1>0, <1>1, <1>4, RxAssumption DEF TypeOK
<1>6. HeadInv'
  BY <1>0, <1>1, <1>2, <1>3, Counts DEF HeadInv, Add
<1>7. NicInv'
  <2>1. CASE ms = <<>>
    <3>1. Len(ms) = 0
      BY <2>1
    <3> QED
      BY <1>0, <1>1, <1>2, <2>1, <3>1 DEF NicInv, Add
  <2>2. CASE ms # <<>>
    <3>1. cq_dbrec' = (consumer_idx' - 0) % CqDbMod
      BY <1>1, <1>4, <2>2
    <3> QED
      BY <1>0, <1>1, <1>2, <2>2, <3>1 DEF NicInv, Add
  <2> QED
    BY <2>1, <2>2
<1>8. CqInv'
  BY <1>0, <1>1, CqFrame
<1>9. OwnerInv' /\ CountInv'
  BY <1>0, <1>1, <1>3 DEF OwnerInv, CountInv
<1> QED
  BY <1>5, <1>6, <1>7, <1>8, <1>9 DEF IndInv

\* A refill moves a buffer from the pool to the slot after the last one that
\* has a buffer, which is not that of a packet that waits.
LEMMA RefillOneInv ==
  ASSUME IndInv, NEW b \in Bufs, RefillOne(b)
  PROVE  IndInv'
<1>0. TypeOK /\ HeadInv /\ NicInv /\ CqInv /\ OwnerInv /\ CountInv
  BY DEF IndInv
<1> DEFINE c == consumer_idx
<1>20. PICK n \in Nat : n = RingLen
  BY Counts
<1>1. /\ pc = "refill" /\ refilled < Len(ms) /\ b \in pool /\ pool' = pool \ {b}
      /\ wq_head' = Add(wq_head, 1) /\ refilled' = refilled + 1
      /\ buffers' = [buffers EXCEPT ![SlotOf(wq_head)] = b]
      /\ addrs' = [addrs EXCEPT ![SlotOf(wq_head)] = b]
      /\ UNCHANGED <<consumer_idx, cqes, dbrec, cq_dbrec, pc, ms, held, nic_wq, nic_cq, arrived>>
  BY DEF RefillOne, nicVars
<1>2. /\ Unrung = refilled /\ Unrung' = refilled + 1 /\ refilled \in Nat
      /\ n \in Nat /\ RingLen' = n + 1 /\ n + 1 <= WqeCnt /\ WqeCnt \in Nat
      /\ Refilling /\ Refilling' /\ WqeCnt < CounterMod /\ CounterMod \in Nat
  <2>1. Refilling /\ Refilling' /\ Unrung = refilled /\ Unrung' = refilled + 1 /\ ms' = ms
    BY <1>1 DEF Unrung, Refilling
  <2>2. /\ refilled \in Nat /\ Len(ms) \in Nat /\ WqeCnt \in Nat /\ CounterMod \in Nat
        /\ WqeCnt < CounterMod
    BY <1>0, Counts DEF TypeOK
  <2>3. n = WqeCnt - Len(ms) + refilled /\ RingLen' = WqeCnt - Len(ms) + (refilled + 1)
    BY <1>20, <2>1 DEF RingLen
  <2>4. refilled < Len(ms)
    BY <1>1
  <2> QED
    BY <2>1, <2>2, <2>3, <2>4
<1>3. wq_head \in Counter /\ wq_head = Add(c, n)
  BY <1>0, <1>20 DEF TypeOK, HeadInv
<1>4. SlotOf(wq_head) = SlotOf(c + n) /\ SlotOf(wq_head) \in Slot
  <2>1. SlotOf(Add(c, n) + 0) = SlotOf(c + (n + 0)) /\ n + 0 = n
    BY <1>2, Counts, SlotAdd
  <2>2. wq_head + 0 = wq_head
    BY <1>3, Counts DEF Counter
  <2>3. SlotOf(wq_head + 0) \in Slot
    BY <1>3, SlotInRange
  <2> QED
    BY <1>3, <2>1, <2>2, <2>3
<1>5. BufAt(n)' = b
  BY <1>0, <1>1, <1>4 DEF BufAt, TypeOK
<1>6. ASSUME NEW k \in 0 .. n - 1 PROVE BufAt(k)' = BufAt(k)
  <2>1. k \in 0 .. WqeCnt - 1 /\ n \in 0 .. WqeCnt - 1 /\ k # n /\ k \in Nat
    BY <1>2
  <2>2. SlotOf(c + k) # SlotOf(c + n) /\ SlotOf(c + k) \in Slot
    BY <2>1, Counts, SlotsDiffer, SlotInRange
  <2> QED
    BY <1>0, <1>1, <1>4, <2>2 DEF BufAt, TypeOK
<1>7. TypeOK'
  <2>1. wq_head' \in Counter
    <3>1. 1 \in 0 .. CounterMod /\ 0 \in 0 .. CounterMod /\ 1 + 0 <= CounterMod
      BY Counts
    <3> QED
      BY <1>1, <1>3, <3>1, AddFacts
  <2>2. refilled' \in 0 .. Budget
    BY <1>0, <1>1, <1>2, Counts, RxAssumption DEF TypeOK
  <2>3. buffers' \in [Slot -> Bufs] /\ addrs' \in [Slot -> Bufs]
    BY <1>0, <1>1 DEF TypeOK
  <2> QED
    BY <1>0, <1>1, <2>1, <2>2, <2>3 DEF TypeOK
<1>8. HeadInv'
  <2>1. wq_head' = Add(consumer_idx', RingLen')
    <3>1. n \in 0 .. CounterMod /\ 1 \in 0 .. CounterMod /\ n + 1 <= CounterMod
      BY <1>2
    <3> QED
      BY <1>1, <1>2, <1>3, <3>1, Counts, AddFacts
  <2>2. Unrung' <= Len(ms')
    BY <1>1, <1>2, Counts
  <2>3. addrs' = buffers'
    BY <1>0, <1>1 DEF HeadInv
  <2> QED
    BY <1>0, <1>1, <2>1, <2>2, <2>3 DEF HeadInv, Add
<1>9. NicInv'
  BY <1>0, <1>1, <1>2 DEF NicInv, Add
<1>10. CqInv'
  BY <1>0, <1>1, CqFrame
<1>11. GatheredBufs' = GatheredBufs
  BY <1>1 DEF GatheredBufs
<1>12. OwnerInv'
  <2>1. \A k \in DOMAIN arrived' : arrived'[k] = BufAt(k - 1)'
    <3> SUFFICES ASSUME NEW k \in 1 .. Len(arrived) PROVE arrived[k] = BufAt(k - 1)'
      BY <1>1, Counts
    <3>1. k - 1 \in 0 .. n - 1 /\ k \in DOMAIN arrived
      BY <1>20, Counts
    <3> QED
      BY <1>0, <1>6, <3>1 DEF OwnerInv
  <2>2. \A i \in 0 .. RingLen' - 1 : i \in 0 .. n - 1 \/ i = n
    BY <1>2
  <2>3. \A i \in 0 .. n - 1 : BufAt(i)' # b /\ BufAt(i)' \notin pool \cup held \cup GatheredBufs
    BY <1>0, <1>1, <1>6, <1>20 DEF OwnerInv
  <2>4. b \notin held \cup GatheredBufs
    BY <1>0, <1>1 DEF OwnerInv
  <2>5. \A i, j \in 0 .. RingLen' - 1 : BufAt(i)' = BufAt(j)' => i = j
    BY <1>0, <1>5, <1>6, <1>20, <2>2, <2>3 DEF OwnerInv
  <2>6. \A i \in 0 .. RingLen' - 1 : BufAt(i)' \notin pool' \cup held' \cup GatheredBufs'
    BY <1>1, <1>5, <1>11, <2>2, <2>3, <2>4
  <2>7. {BufAt(k)' : k \in 0 .. RingLen' - 1} = {b} \cup {BufAt(k) : k \in 0 .. n - 1}
    <3>1. n \in 0 .. RingLen' - 1 /\ \A k \in 0 .. n - 1 : k \in 0 .. RingLen' - 1
      BY <1>2
    <3> QED
      BY <1>5, <1>6, <2>2, <3>1
  <2> QED
    BY <1>0, <1>1, <1>11, <1>20, <2>1, <2>5, <2>6, <2>7 DEF OwnerInv
<1>13. CountInv'
  <2>1. IsFiniteSet(pool) /\ Cardinality(pool) \in Nat /\ Cardinality(held) \in Nat
    BY <1>0, RxAssumption, FS_Subset, FS_CardinalityType DEF TypeOK
  <2>2. Cardinality(pool') = Cardinality(pool) - 1
    BY <1>1, <2>1, FS_RemoveElement
  <2>3. held' = held /\ Len(ms') = Len(ms) /\ RingLen' = RingLen + 1 /\ RingLen \in Nat /\ Len(ms) \in Nat
    BY <1>1, <1>2, <1>20, Counts
  <2> QED
    BY <1>0, <2>1, <2>2, <2>3 DEF CountInv
<1> QED
  BY <1>7, <1>8, <1>9, <1>10, <1>12, <1>13 DEF IndInv

\* The burst goes to the caller and the doorbell record catches up.
LEMMA RefillDoneInv == IndInv /\ RefillDone => IndInv'
<1> SUFFICES ASSUME IndInv, RefillDone PROVE IndInv'
  OBVIOUS
<1>0. TypeOK /\ HeadInv /\ NicInv /\ CqInv /\ OwnerInv /\ CountInv
  BY DEF IndInv
<1>1. /\ pc = "refill" /\ refilled = Len(ms) /\ dbrec' = wq_head % WqeIdxMod
      /\ held' = held \cup GatheredBufs /\ ms' = <<>> /\ pc' = "idle"
      /\ UNCHANGED <<wq_head, consumer_idx, buffers, addrs, cqes, cq_dbrec, refilled, pool, nic_wq, nic_cq, arrived>>
  BY DEF RefillDone, rxqVars, nicVars, GatheredBufs
<1>2. /\ Refilling /\ ~Refilling' /\ Unrung = Len(ms) /\ Unrung' = 0 /\ Len(ms') = 0
      /\ RingLen = WqeCnt /\ RingLen' = WqeCnt
  BY <1>1, Counts DEF Unrung, RingLen, Refilling
<1>3. GatheredBufs' = {} /\ \A k : BufAt(k)' = BufAt(k)
  BY <1>1 DEF GatheredBufs, BufAt
<1>4. wq_head % WqeIdxMod \in 0 .. WqeIdxMod - 1
  <2>1. WqeIdxMod \in Nat \ {0} /\ wq_head \in Int
    BY <1>0, Counts DEF TypeOK, Counter
  <2> QED
    BY <2>1, DivMod
<1>5. TypeOK'
  BY <1>0, <1>1, <1>2, <1>4, RxAssumption DEF TypeOK, GatheredBufs
<1>6. HeadInv'
  <2>1. WqeCnt - Len(ms') = WqeCnt /\ Len(ms') + Len(arrived') <= WqeCnt
    BY <1>1, <1>2, Counts
  <2> QED
    BY <1>0, <1>1, <1>2, <2>1 DEF HeadInv, Add
<1>7. NicInv'
  BY <1>0, <1>1, <1>2 DEF NicInv, Add
<1>8. CqInv'
  BY <1>0, <1>1, CqFrame
<1>9. OwnerInv'
  BY <1>0, <1>1, <1>2, <1>3 DEF OwnerInv
<1>10. CountInv'
  <2>1. IsFiniteSet(GatheredBufs) /\ Cardinality(GatheredBufs) = Len(ms)
    <3>1. ms \in [1 .. Len(ms) -> GatheredBufs]
      BY <1>0, Counts DEF TypeOK, GatheredBufs
    <3>2. \A i, j \in 1 .. Len(ms) : ms[i] = ms[j] => i = j
      BY <1>0, Counts DEF OwnerInv
    <3>3. \A t \in GatheredBufs : \E i \in 1 .. Len(ms) : ms[i] = t
      BY Counts DEF GatheredBufs
    <3>4. Len(ms) \in Nat
      BY Counts
    <3> QED
      BY <3>1, <3>2, <3>3, <3>4, InjectiveCount
  <2>2. IsFiniteSet(held) /\ Cardinality(pool) \in Nat /\ Cardinality(held) \in Nat
    BY <1>0, RxAssumption, FS_Subset, FS_CardinalityType DEF TypeOK
  <2>3. held \cap GatheredBufs = {} /\ Cardinality(held \cap GatheredBufs) = 0
    BY <1>0, FS_EmptySet DEF OwnerInv
  <2>4. Cardinality(held') = Cardinality(held) + Len(ms)
    <3>1. Cardinality(held \cup GatheredBufs)
          = Cardinality(held) + Cardinality(GatheredBufs) - Cardinality(held \cap GatheredBufs)
      BY <2>1, <2>2, FS_Union
    <3> QED
      BY <1>1, <2>1, <2>2, <2>3, <3>1, Counts
  <2> QED
    BY <1>0, <1>1, <1>2, <2>2, <2>4, Counts DEF CountInv
<1> QED
  BY <1>5, <1>6, <1>7, <1>8, <1>9, <1>10 DEF IndInv

\* A freed packet goes back to the pool.
LEMMA FreeInv ==
  ASSUME IndInv, NEW b \in Bufs, Free(b)
  PROVE  IndInv'
<1>0. TypeOK /\ HeadInv /\ NicInv /\ CqInv /\ OwnerInv /\ CountInv
  BY DEF IndInv
<1>1. /\ b \in held /\ held' = held \ {b} /\ pool' = pool \cup {b}
      /\ UNCHANGED <<wq_head, consumer_idx, buffers, addrs, cqes, dbrec, cq_dbrec, pc, ms, refilled, nic_wq, nic_cq, arrived>>
  BY DEF Free, rxqVars, ringVars, localVars, nicVars
<1>2. /\ Unrung' = Unrung /\ RingLen' = RingLen /\ GatheredBufs' = GatheredBufs
      /\ (Refilling' <=> Refilling) /\ \A k : BufAt(k)' = BufAt(k)
  BY <1>1 DEF Unrung, RingLen, GatheredBufs, BufAt, Refilling
<1>3. TypeOK'
  BY <1>0, <1>1 DEF TypeOK
<1>4. HeadInv' /\ NicInv'
  BY <1>0, <1>1, <1>2 DEF HeadInv, NicInv, Add
<1>5. CqInv'
  BY <1>0, <1>1, CqFrame
<1>6. OwnerInv'
  BY <1>0, <1>1, <1>2 DEF OwnerInv
<1>7. CountInv'
  <2>1. /\ IsFiniteSet(pool) /\ IsFiniteSet(held)
        /\ Cardinality(pool) \in Nat /\ Cardinality(held) \in Nat
    BY <1>0, RxAssumption, FS_Subset, FS_CardinalityType DEF TypeOK
  <2>2. b \notin pool
    BY <1>0, <1>1 DEF OwnerInv
  <2>3. Cardinality(pool') = Cardinality(pool) + 1 /\ Cardinality(held') = Cardinality(held) - 1
    BY <1>1, <2>1, <2>2, FS_AddElement, FS_RemoveElement
  <2> QED
    BY <1>0, <1>1, <1>2, <2>1, <2>3, Counts DEF CountInv
<1> QED
  BY <1>3, <1>4, <1>5, <1>6, <1>7 DEF IndInv

\* The NIC fills the buffer of the first descriptor it has not used; it is
\* one of those the doorbell record covers, and its CQE goes to an entry
\* that has been gathered.
LEMMA NicReceiveInv ==
  ASSUME IndInv, NEW outcome \in Outcomes, NicReceive(outcome)
  PROVE  IndInv'
<1>0. TypeOK /\ HeadInv /\ NicInv /\ CqInv /\ OwnerInv /\ CountInv
  BY DEF IndInv
<1> DEFINE c == consumer_idx
<1>1. PICK n \in Nat : n = Len(arrived)
  BY Counts
<1>2. /\ nic_wq # dbrec
      /\ arrived' = Append(arrived, addrs[SlotOf(nic_wq)])
      /\ cqes' = [cqes EXCEPT ![CqSlotOf(nic_cq)] =
                    [opcode |-> outcome, owner |-> Parity(nic_cq), wqe_counter |-> nic_wq]]
      /\ nic_wq' = (nic_wq + 1) % WqeIdxMod /\ nic_cq' = Add(nic_cq, 1)
      /\ UNCHANGED <<wq_head, consumer_idx, buffers, addrs, dbrec, cq_dbrec, pc, ms, refilled, pool, held>>
  BY DEF NicReceive, rxqVars, localVars
<1>3. nic_cq = Add(c, n) /\ nic_cq \in Counter /\ nic_wq = nic_cq % WqeIdxMod
  BY <1>0, <1>1 DEF NicInv, TypeOK
<1>4. n < WqeCnt - Len(ms)
  <2>1. n <= WqeCnt - Len(ms) /\ WqeCnt - Len(ms) \in Int
    BY <1>1, Counts
  <2>2. n # WqeCnt - Len(ms)
    BY <1>0, <1>2, <1>3 DEF HeadInv
  <2> QED
    BY <2>1, <2>2
<1>5. /\ n + Len(ms) + 1 <= WqeCnt /\ n < RingLen /\ n \in 0 .. CqeCnt - 1 /\ n + 1 < CounterMod
      /\ n \in 0 .. CounterMod - 1
  BY <1>1, <1>4, Counts, SMTT(30) DEF RingLen
<1>6. addrs[SlotOf(nic_wq)] = BufAt(n) /\ BufAt(n) \in Bufs
  <2>1. SlotOf(Add(c, n) + 0) = SlotOf(c + (n + 0)) /\ n + 0 = n
    BY Counts, SlotAdd
  <2>2. nic_cq + 0 = nic_cq
    BY <1>3, Counts DEF Counter
  <2>3. SlotOf(nic_wq) = SlotOf(nic_cq) /\ SlotOf(nic_cq) \in Slot
    BY <1>3, SlotOfIdx
  <2>4. SlotOf(nic_wq) = SlotOf(c + n)
    BY <1>3, <2>1, <2>2, <2>3
  <2> QED
    BY <1>0, <2>3, <2>4 DEF HeadInv, BufAt, TypeOK
<1>7. /\ Unrung' = Unrung /\ RingLen' = RingLen /\ GatheredBufs' = GatheredBufs
      /\ (Refilling' <=> Refilling) /\ \A k : BufAt(k)' = BufAt(k)
  BY <1>2 DEF Unrung, RingLen, GatheredBufs, BufAt, Refilling
<1>8. /\ arrived' \in Seq(Bufs) /\ Len(arrived') = n + 1 /\ DOMAIN arrived' = 1 .. n + 1
      /\ arrived'[n + 1] = BufAt(n) /\ \A k \in 1 .. n : arrived'[k] = arrived[k]
  BY <1>0, <1>1, <1>2, <1>6 DEF TypeOK
<1>9. nic_cq' = Add(c, n + 1) /\ nic_cq' \in Counter
  <2>1. n \in 0 .. CounterMod /\ 1 \in 0 .. CounterMod /\ n + 1 <= CounterMod
        /\ 0 \in 0 .. CounterMod /\ 1 + 0 <= CounterMod
    BY <1>5, Counts
  <2> QED
    BY <1>2, <1>3, <2>1, Counts, AddFacts
<1>10. nic_wq' = nic_cq' % WqeIdxMod /\ nic_wq' \in 0 .. WqeIdxMod - 1
  <2>1. WqeIdxMod \in Nat \ {0} /\ CounterMod \in Nat \ {0} /\ nic_cq \in Int /\ 1 \in Int
    BY <1>3, Counts DEF Counter
  <2>2. CounterMod % WqeIdxMod = 0
    BY WidthAssumption, Zenon
  <2>3. PICK u \in Int : u = nic_cq + 1
    BY <2>1
  <2>4. ((nic_cq % WqeIdxMod) + 1) % WqeIdxMod = (nic_cq + 1) % WqeIdxMod
    BY <2>1, ModAdd
  <2>5. (u % CounterMod) % WqeIdxMod = u % WqeIdxMod
    BY <2>1, <2>2, ModOfMod
  <2>6. u % WqeIdxMod \in 0 .. WqeIdxMod - 1
    BY <2>1, DivMod
  <2> QED
    BY <1>2, <1>3, <2>3, <2>4, <2>5, <2>6 DEF Add
<1>11. /\ CqSlotOf(nic_cq) \in CqSlot /\ Parity(nic_cq) \in {0, 1}
  BY <1>3, CqLap
<1>12. TypeOK'
  <2>1. [opcode |-> outcome, owner |-> Parity(nic_cq), wqe_counter |-> nic_wq]
          \in [opcode : {"INVALID", "RESP_SEND", "RESP_ERR"}, owner : {0, 1},
               wqe_counter : 0 .. WqeIdxMod - 1]
    BY <1>0, <1>11, RxAssumption DEF TypeOK
  <2>2. cqes' \in [CqSlot -> [opcode : {"INVALID", "RESP_SEND", "RESP_ERR"}, owner : {0, 1},
                              wqe_counter : 0 .. WqeIdxMod - 1]]
    BY <1>0, <1>2, <2>1 DEF TypeOK
  <2> QED
    BY <1>0, <1>2, <1>8, <1>9, <1>10, <2>2 DEF TypeOK
<1>13. HeadInv'
  <2>1. Len(ms') + Len(arrived') <= WqeCnt
    BY <1>2, <1>5, <1>8, Counts
  <2> QED
    BY <1>0, <1>2, <1>7, <2>1 DEF HeadInv, Add
<1>14. NicInv'
  BY <1>0, <1>2, <1>7, <1>8, <1>9, <1>10 DEF NicInv, Add
<1>15. CqInv'
  <2>1. ASSUME NEW k \in 0 .. CqeCnt - 1, k # n
        PROVE  cqes'[CqSlotOf(Add(c, k))] = cqes[CqSlotOf(Add(c, k))]
    <3>1. CqSlotOf(Add(c, k)) # CqSlotOf(nic_cq)
      BY <1>3, <1>5, <2>1, Counts, CqSlotsDiffer
    <3>2. k \in 0 .. CounterMod /\ 0 \in 0 .. CounterMod /\ k + 0 <= CounterMod
      BY Counts
    <3>3. Add(c, k) \in Counter
      BY <3>2, Counts, AddFacts
    <3>4. CqSlotOf(Add(c, k)) \in CqSlot
      BY <3>3, CqLap
    <3> QED
      BY <1>0, <1>2, <3>1, <3>4 DEF TypeOK
  <2>2. cqes'[CqSlotOf(Add(c, n))] = [opcode |-> outcome, owner |-> Parity(nic_cq),
                                       wqe_counter |-> nic_cq % WqeIdxMod]
    BY <1>0, <1>2, <1>3, <1>11 DEF TypeOK
  <2>3. ASSUME NEW k \in 0 .. n
        PROVE  LET head == Add(c, k)
               IN  /\ cqes'[CqSlotOf(head)].opcode \in Outcomes
                   /\ cqes'[CqSlotOf(head)].owner = Parity(head)
                   /\ cqes'[CqSlotOf(head)].wqe_counter = head % WqeIdxMod
    <3>1. CASE k = n
      BY <1>3, <2>2, <3>1
    <3>2. CASE k # n
      <4>1. k \in 0 .. n - 1 /\ k \in 0 .. CqeCnt - 1
        BY <1>5, <3>2, Counts
      <4> QED
        BY <1>0, <1>1, <2>1, <3>2, <4>1 DEF CqInv
    <3> QED
      BY <3>1, <3>2
  <2>4. ASSUME NEW k \in n + 1 .. CqeCnt - 1
        PROVE  cqe_status(cqes'[CqSlotOf(Add(c, k))], Add(c, k)) = "INVALID"
    <3>1. k \in n .. CqeCnt - 1 /\ k \in 0 .. CqeCnt - 1 /\ k # n
      BY Counts
    <3> QED
      BY <1>0, <1>1, <2>1, <3>1 DEF CqInv
  <2>5. n + 1 - 1 = n
    OBVIOUS
  <2> QED
    BY <1>2, <1>8, <2>3, <2>4, <2>5 DEF CqInv, Add, cqe_status
<1>16. OwnerInv'
  <2>1. \A k \in DOMAIN arrived' : arrived'[k] = BufAt(k - 1)'
    <3> SUFFICES ASSUME NEW k \in 1 .. n + 1 PROVE arrived'[k] = BufAt(k - 1)
      BY <1>7, <1>8
    <3>1. CASE k = n + 1
      BY <1>8, <3>1
    <3>2. CASE k # n + 1
      <4>1. k \in 1 .. n /\ k \in DOMAIN arrived
        BY <1>1, <3>2, Counts
      <4> QED
        BY <1>0, <1>8, <4>1 DEF OwnerInv
    <3> QED
      BY <3>1, <3>2
  <2> QED
    BY <1>0, <1>2, <1>7, <2>1 DEF OwnerInv
<1>17. CountInv'
  BY <1>0, <1>2, <1>7 DEF CountInv
<1> QED
  BY <1>12, <1>13, <1>14, <1>15, <1>16, <1>17 DEF IndInv

---------------------------------------------------------------------------
\* The invariant is inductive.
LEMMA NextInv == IndInv /\ [Next]_vars => IndInv'
<1> SUFFICES ASSUME IndInv, [Next]_vars PROVE IndInv'
  OBVIOUS
<1>1. CASE CpuStep
  BY <1>1, GatherRxInv, GatherOneInv, GatherPanicInv, GatherDoneInv, RefillOneInv,
     RefillCrashInv, RefillDoneInv DEF CpuStep
<1>2. CASE \E b \in Bufs : Free(b)
  BY <1>2, FreeInv
<1>3. CASE \E outcome \in Outcomes : NicReceive(outcome)
  BY <1>3, NicReceiveInv
<1>4. CASE UNCHANGED vars
  <2>1. /\ UNCHANGED <<wq_head, consumer_idx, buffers, addrs, cqes, dbrec, cq_dbrec, pc, ms, refilled,
                       pool, held, nic_wq, nic_cq, arrived>>
    BY <1>4 DEF vars, rxqVars, ringVars, localVars, nicVars
  <2>2. /\ Unrung' = Unrung /\ RingLen' = RingLen /\ GatheredBufs' = GatheredBufs
        /\ (Refilling' <=> Refilling) /\ \A k : BufAt(k)' = BufAt(k)
    BY <2>1 DEF Unrung, RingLen, GatheredBufs, BufAt, Refilling
  <2>3. TypeOK' /\ HeadInv' /\ NicInv'
    BY <2>1, <2>2 DEF IndInv, TypeOK, HeadInv, NicInv, Add
  <2>4. CqInv' /\ OwnerInv' /\ CountInv'
    BY <2>1, <2>2, CqFrame DEF IndInv, OwnerInv, CountInv
  <2> QED
    BY <2>3, <2>4 DEF IndInv
<1> QED
  BY <1>1, <1>2, <1>3, <1>4 DEF Next

\* Every state of the receive path satisfies the invariant.
THEOREM Invariance == Spec => []IndInv
  BY InitInv, NextInv, PTL DEF Spec

---------------------------------------------------------------------------
\* What follows from the invariant.

\* All state stays within its type: no counter leaves its width, and no
\* burst is longer than the budget.
THEOREM TypeHolds == Spec => []TypeOK
<1>1. IndInv => TypeOK
  BY DEF IndInv
<1> QED
  BY <1>1, Invariance, PTL

\* The ring is WqeCnt ahead between calls, and what is left to refill ends
\* exactly there.
LEMMA RingFullFromInv == IndInv => RingFull
<1> SUFFICES ASSUME IndInv PROVE RingFull
  OBVIOUS
<1>1. pc = "idle" => Sub(wq_head, consumer_idx) = WqeCnt
  <2>1. pc = "idle" => Len(ms) = 0 /\ Unrung = 0
    BY DEF IndInv, HeadInv, Unrung, Refilling
  <2> QED
    BY <2>1, Distances, Counts DEF RingLen
<1>2. ASSUME pc = "refill"
      PROVE  wraps_lte(Add(wq_head, Len(ms) - refilled), Add(consumer_idx, WqeCnt))
  <2>1. Unrung = refilled /\ wq_head = Add(consumer_idx, RingLen) /\ refilled <= Len(ms)
    BY <1>2 DEF IndInv, HeadInv, Unrung, Refilling
  <2>2. /\ RingLen \in 0 .. CounterMod /\ Len(ms) - refilled \in 0 .. CounterMod
        /\ RingLen + (Len(ms) - refilled) = WqeCnt /\ WqeCnt <= CounterMod
        /\ WqeCnt \in 0 .. CounterMod /\ 0 \in 0 .. CounterMod /\ WqeCnt + 0 <= CounterMod
    <3>1. /\ refilled \in Nat /\ Len(ms) \in Nat /\ WqeCnt \in Nat /\ RingLen \in Nat
          /\ RingLen <= WqeCnt /\ Len(ms) <= WqeCnt /\ WqeCnt < CounterMod /\ CounterMod \in Nat
      BY Counts DEF IndInv, TypeOK
    <3> QED
      BY <2>1, <3>1 DEF RingLen
  <2>3. Add(wq_head, Len(ms) - refilled) = Add(consumer_idx, WqeCnt)
    BY <2>1, <2>2, Counts, AddFacts
  <2>4. Add(consumer_idx, WqeCnt) \in Counter
    BY <2>2, Counts, AddFacts
  <2>5. Sub(Add(consumer_idx, WqeCnt), Add(consumer_idx, WqeCnt)) = 0
    BY <2>4, CounterFacts
  <2> QED
    BY <2>3, <2>5 DEF wraps_lte
<1> QED
  BY <1>1, <1>2 DEF RingFull

\* Between two calls every slot has a buffer posted, and the assertion of
\* mlx5_refill_rxqueue holds in every iteration, for every ring and counter
\* width.
THEOREM RingFullHolds == Spec => []RingFull
  BY RingFullFromInv, Invariance, PTL

\* What the NIC may still use: the slots after the arrived packets, up to
\* the doorbell record.
LEMMA PostedFromInv ==
  ASSUME IndInv
  PROVE  /\ (dbrec - nic_wq) % WqeIdxMod = WqeCnt - Len(ms) - Len(arrived)
         /\ \A k \in Nat : SlotOf(nic_wq + k) = SlotOf(consumer_idx + (Len(arrived) + k))
<1> DEFINE c == consumer_idx
<1>0. Len(arrived) \in Nat /\ WqeCnt - Len(ms) \in Nat
  BY Counts
<1>1. PICK n \in Nat, a \in Nat : n = Len(arrived) /\ a = WqeCnt - Len(ms)
  BY <1>0
<1>2. n <= a /\ a <= WqeCnt
  BY <1>1, Counts
<1>3. /\ WqeIdxMod \in Nat \ {0} /\ CounterMod \in Nat \ {0} /\ WqeCnt < WqeIdxMod
      /\ c \in Int /\ WqeCnt \in Nat /\ c \in Counter /\ WqeCnt < CounterMod
  BY Counts DEF Counter
<1>4. CounterMod % WqeIdxMod = 0
  BY WidthAssumption, Zenon
<1>5. nic_cq = Add(c, n) /\ nic_cq \in Counter /\ nic_wq = nic_cq % WqeIdxMod
      /\ dbrec = Add(c, a) % WqeIdxMod
  BY <1>1 DEF IndInv, NicInv, HeadInv, TypeOK
<1>6. ASSUME NEW k \in Nat PROVE SlotOf(nic_wq + k) = SlotOf(c + (n + k))
  <2>1. SlotOf(nic_wq + k) = SlotOf(nic_cq + k)
    BY <1>5, SlotOfIdxAdd
  <2>2. SlotOf(Add(c, n) + k) = SlotOf(c + (n + k))
    BY <1>3, SlotAdd
  <2> QED
    BY <1>5, <2>1, <2>2
<1>7. (dbrec - nic_wq) % WqeIdxMod = a - n
  <2>1. ASSUME NEW x \in Nat
        PROVE  \E z \in Int : Add(c, x) % WqeIdxMod = c + x + WqeIdxMod * z
    <3>1. PICK u \in Int : u = c + x
      BY <1>3
    <3>2. (u % CounterMod) % WqeIdxMod = u % WqeIdxMod
      BY <1>3, <1>4, ModOfMod
    <3>3. PICK d \in Int, r \in 0 .. WqeIdxMod - 1 : u = WqeIdxMod * d + r /\ r = u % WqeIdxMod
      BY <1>3, DivMod
    <3>4. u = WqeIdxMod * d + r /\ r = u % WqeIdxMod
      BY <3>3
    <3>5. -d \in Int /\ r = u + WqeIdxMod * (-d)
      BY <1>3, <3>4
    <3>6. Add(c, x) % WqeIdxMod = r
      BY <3>1, <3>2, <3>4 DEF Add
    <3> QED
      BY <3>1, <3>5, <3>6
  <2>2. PICK y \in Int : dbrec = c + a + WqeIdxMod * y
    BY <1>5, <2>1
  <2>3. PICK z \in Int : nic_wq = c + n + WqeIdxMod * z
    BY <1>5, <2>1
  <2>4. PICK w \in Int, v \in Int, t \in Int : w = y - z /\ v = dbrec - nic_wq /\ t = a - n
    <3>1. dbrec \in Int /\ nic_wq \in Int
      BY Counts DEF IndInv, TypeOK
    <3> QED
      BY <3>1
  <2>5. v = t + WqeIdxMod * w
    <3>1. WqeIdxMod * w = WqeIdxMod * y - WqeIdxMod * z
      BY <1>3, <2>4
    <3> QED
      BY <1>3, <2>2, <2>3, <2>4, <3>1
  <2>6. v % WqeIdxMod = t % WqeIdxMod
    BY <1>3, <2>5, ModLaps
  <2>7. t \in 0 .. WqeIdxMod - 1
    BY <1>2, <1>3, <2>4
  <2>8. t % WqeIdxMod = t
    BY <1>3, <2>7, ModNear
  <2> QED
    BY <2>4, <2>6, <2>8
<1> QED
  BY <1>1, <1>6, <1>7

\* The posted descriptors are slots of their own, each with a buffer that is
\* nobody else's.
LEMMA ExclusiveFromInv == IndInv => NicBuffersExclusive
<1> SUFFICES ASSUME IndInv PROVE NicBuffersExclusive
  OBVIOUS
<1> DEFINE c == consumer_idx
<1>0. Len(arrived) \in Nat /\ WqeCnt - Len(ms) - Len(arrived) \in Nat
  BY Counts
<1>1. PICK n \in Nat, p \in Nat : n = Len(arrived) /\ p = WqeCnt - Len(ms) - Len(arrived)
  BY <1>0
<1>2. /\ PostedSlots = {SlotOf(nic_wq + k) : k \in 0 .. p - 1}
      /\ \A k \in 0 .. p - 1 : SlotOf(nic_wq + k) = SlotOf(c + (n + k))
      /\ \A k \in 0 .. p - 1 : n + k \in 0 .. RingLen - 1 /\ n + k \in 0 .. WqeCnt - 1
  <2>1. \A k \in 0 .. p - 1 : k \in Nat /\ n + k \in 0 .. RingLen - 1 /\ n + k \in 0 .. WqeCnt - 1
    <3>1. /\ n + p <= RingLen /\ n + p <= WqeCnt /\ RingLen \in Nat /\ WqeCnt \in Nat
      BY <1>1, Counts, SMTT(30) DEF RingLen
    <3> QED
      BY <3>1
  <2>2. PostedSlots = {SlotOf(nic_wq + k) : k \in 0 .. p - 1}
    BY <1>1, PostedFromInv DEF PostedSlots
  <2> QED
    BY <1>1, <2>1, <2>2, PostedFromInv
<1>3. addrs = buffers /\ c \in Counter
  BY Counts DEF IndInv, HeadInv
<1>4. ASSUME NEW x \in PostedSlots
      PROVE  \E k \in 0 .. p - 1 : x = SlotOf(c + (n + k)) /\ addrs[x] = BufAt(n + k)
  BY <1>2, <1>3 DEF BufAt
<1>5. PostedBufs \cap (pool \cup held \cup ArrivedBufs \cup GatheredBufs) = {}
  <2> SUFFICES ASSUME NEW x \in PostedSlots
               PROVE  addrs[x] \notin pool \cup held \cup ArrivedBufs \cup GatheredBufs
    BY DEF PostedBufs
  <2>1. PICK k \in 0 .. p - 1 : addrs[x] = BufAt(n + k)
    BY <1>4
  <2>2. n + k \in 0 .. RingLen - 1
    BY <1>2
  <2>3. BufAt(n + k) \notin pool \cup held \cup GatheredBufs
    BY <2>2 DEF IndInv, OwnerInv
  <2>4. ASSUME NEW i \in DOMAIN arrived PROVE arrived[i] # BufAt(n + k)
    <3>0. i \in 1 .. n /\ n <= RingLen /\ RingLen \in Nat
      BY <1>1, Counts
    <3>1. i - 1 \in 0 .. RingLen - 1 /\ i - 1 # n + k
      BY <3>0
    <3> QED
      BY <2>2, <3>1 DEF IndInv, OwnerInv
  <2> QED
    BY <2>1, <2>3, <2>4 DEF ArrivedBufs
<1>6. \A x, y \in PostedSlots : addrs[x] = addrs[y] => x = y
  <2> SUFFICES ASSUME NEW x \in PostedSlots, NEW y \in PostedSlots, addrs[x] = addrs[y]
               PROVE  x = y
    OBVIOUS
  <2>1. PICK k \in 0 .. p - 1 : x = SlotOf(c + (n + k)) /\ addrs[x] = BufAt(n + k)
    BY <1>4
  <2>2. PICK j \in 0 .. p - 1 : y = SlotOf(c + (n + j)) /\ addrs[y] = BufAt(n + j)
    BY <1>4
  <2>3. n + k = n + j
    BY <1>2, <2>1, <2>2 DEF IndInv, OwnerInv
  <2> QED
    BY <2>1, <2>2, <2>3
<1>7. Cardinality(PostedBufs) = Cardinality(PostedSlots)
  <2> DEFINE f == [x \in PostedSlots |-> addrs[x]]
  <2>1. IsFiniteSet(PostedSlots)
    <3>1. PostedSlots \in SUBSET Slot
      <4>1. \A k \in 0 .. p - 1 : n + k \in Nat
        BY <1>2
      <4> QED
        BY <1>2, <1>3, <4>1, SlotInRange
    <3>2. 0 \in Int /\ WqeCnt - 1 \in Int
      BY Counts
    <3>3. IsFiniteSet(Slot)
      BY <3>2, FS_Interval DEF Slot
    <3> QED
      BY <3>1, <3>3, FS_Subset
  <2>2. f \in [PostedSlots -> PostedBufs] /\ \A t \in PostedBufs : \E x \in PostedSlots : f[x] = t
    BY DEF PostedBufs
  <2>3. f \in Bijection(PostedSlots, PostedBufs)
    BY <1>6, <2>2 DEF Bijection, Injection, Surjection, IsInjective
  <2>4. ExistsBijection(PostedSlots, PostedBufs)
    BY <2>3, Zenon DEF ExistsBijection
  <2> QED
    BY <2>1, <2>4, FS_Bijection
<1> QED
  BY <1>5, <1>7 DEF NicBuffersExclusive

\* The NIC never writes into a buffer that the pool, the caller or the CPU
\* has, and no buffer is posted twice.
THEOREM ExclusiveHolds == Spec => []NicBuffersExclusive
  BY ExclusiveFromInv, Invariance, PTL

\* The unread CQEs lead, in order, to the buffers the packets were written
\* to, and the entry after them reads as unwritten.
LEMMA GathersFromInv == IndInv => GathersWhatArrived
<1> SUFFICES ASSUME IndInv PROVE GathersWhatArrived
  OBVIOUS
<1> DEFINE c == consumer_idx
<1>1. Unread = Len(arrived) /\ c \in Counter /\ nic_cq = Add(c, Len(arrived))
  BY Distances, Counts DEF IndInv, NicInv
<1>2. ASSUME NEW k \in 1 .. Unread
      PROVE  LET head == Add(c, k - 1)
             IN  /\ cqe_status(cqes[CqSlotOf(head)], head) \in Outcomes
                 /\ buffers[SlotOf(cqes[CqSlotOf(head)].wqe_counter)] = arrived[k]
  <2>1. /\ k - 1 \in 0 .. Len(arrived) - 1 /\ k \in DOMAIN arrived /\ k - 1 \in Nat
        /\ k - 1 \in 0 .. CounterMod /\ 0 \in 0 .. CounterMod /\ (k - 1) + 0 <= CounterMod
    BY <1>1, Counts
  <2>2. /\ cqes[CqSlotOf(Add(c, k - 1))].opcode \in Outcomes
        /\ cqes[CqSlotOf(Add(c, k - 1))].owner = Parity(Add(c, k - 1))
        /\ cqes[CqSlotOf(Add(c, k - 1))].wqe_counter = Add(c, k - 1) % WqeIdxMod
    BY <2>1 DEF IndInv, CqInv
  <2>3. Add(c, k - 1) \in Counter
    BY <1>1, <2>1, AddFacts
  <2>4. Parity(Add(c, k - 1)) \in {0, 1}
    BY <2>3, CqLap
  <2>5. Parity(Add(c, k - 1)) # 1 - Parity(Add(c, k - 1))
    BY <2>4
  <2>6. SlotOf(Add(c, k - 1) % WqeIdxMod) = SlotOf(Add(c, k - 1))
    BY <2>3, SlotOfIdx
  <2>7. SlotOf(Add(c, k - 1)) = SlotOf(c + (k - 1))
    <3>1. SlotOf(Add(c, k - 1) + 0) = SlotOf(c + ((k - 1) + 0)) /\ (k - 1) + 0 = k - 1
      BY <1>1, <2>1, SlotAdd
    <3>2. Add(c, k - 1) + 0 = Add(c, k - 1)
      BY <2>3, Counts DEF Counter
    <3> QED
      BY <3>1, <3>2
  <2>8. arrived[k] = BufAt(k - 1)
    BY <2>1 DEF IndInv, OwnerInv
  <2> QED
    BY <2>2, <2>5, <2>6, <2>7, <2>8 DEF cqe_status, BufAt
<1>3. Unread < CqeCnt => cqe_status(cqes[CqSlotOf(nic_cq)], nic_cq) = "INVALID"
  <2>1. Unread < CqeCnt => Len(arrived) \in Len(arrived) .. CqeCnt - 1
    BY <1>1, Counts
  <2> QED
    BY <1>1, <2>1 DEF IndInv, CqInv
<1> QED
  BY <1>1, <1>2, <1>3 DEF GathersWhatArrived

\* mlx5_gather_rx returns every packet once, in order and from the buffer
\* the NIC wrote it to.
THEOREM GathersHolds == Spec => []GathersWhatArrived
  BY GathersFromInv, Invariance, PTL

\* The ring as wq_head and consumer_idx delimit it is the one of OwnerInv.
LEMMA NoLossFromInv == IndInv => NoBufferLost
<1> SUFFICES ASSUME IndInv PROVE NoBufferLost
  OBVIOUS
<1>1. RingBufs = {BufAt(k) : k \in 0 .. RingLen - 1}
  BY Distances DEF RingBufs, BufAt
<1>2. Sub(wq_head, consumer_idx) = RingLen
  BY Distances
<1> QED
  BY <1>1, <1>2 DEF NoBufferLost, IndInv, OwnerInv, CountInv

\* No receive buffer is ever lost or freed twice.
THEOREM NoLossHolds == Spec => []NoBufferLost
  BY NoLossFromInv, Invariance, PTL

\* The NIC is ahead of the published index by the unread CQEs and, while a
\* burst is gathered, by those of the burst.
LEMMA OverrunFromInv == IndInv => NoCqOverrun
<1> SUFFICES ASSUME IndInv PROVE NoCqOverrun
  OBVIOUS
<1>1. PICK n \in Nat, g \in Nat : n = Len(arrived) /\ g = (IF Refilling THEN 0 ELSE Len(ms))
  BY Counts
<1>a. PICK w \in Nat, k \in Nat : w = WqeCnt /\ k = Len(ms)
  BY Counts
<1>b. n + k <= w /\ w <= CqeCnt /\ CqeCnt \in Nat /\ CqeCnt < CounterMod /\ CounterMod \in Nat
  BY <1>1, <1>a, Counts
<1>c. g = 0 \/ g = k
  BY <1>1, <1>a
<1>2. /\ CounterMod \in Nat \ {0} /\ CqDbMod \in Nat \ {0} /\ CqeCnt \in Nat /\ CqeCnt < CqDbMod
      /\ consumer_idx \in Int /\ nic_cq \in Int /\ n + g <= CqeCnt
  <2>1. n + g <= CqeCnt
    BY <1>b, <1>c
  <2> QED
    BY <2>1, Counts DEF IndInv, TypeOK, Counter
<1>3. PICK q \in Int : CounterMod = CqDbMod * q
  <2>1. CounterMod % CqDbMod = 0
    BY Moduli, Zenon
  <2> QED
    BY <1>2, <2>1, DivMod
<1>4. nic_cq = consumer_idx + n \/ nic_cq = consumer_idx + n - CounterMod
  <2>1. n \in 0 .. CounterMod
    BY <1>b
  <2>2. nic_cq = Add(consumer_idx, n)
    BY <1>1 DEF IndInv, NicInv
  <2> QED
    BY <2>1, <2>2, Counts, AddDef
<1>5. PICK d \in Int : cq_dbrec = (consumer_idx - g) - CqDbMod * d
  <2>1. PICK x \in Int : x = consumer_idx - g
    BY <1>2
  <2>2. cq_dbrec = x % CqDbMod
    BY <1>1, <2>1 DEF IndInv, NicInv
  <2>3. PICK e \in Int, r \in 0 .. CqDbMod - 1 : x = CqDbMod * e + r /\ r = x % CqDbMod
    BY <1>2, DivMod
  <2>4. cq_dbrec = r /\ x = CqDbMod * e + r
    BY <2>2, <2>3
  <2>5. cq_dbrec = (consumer_idx - g) - CqDbMod * e
    BY <1>2, <2>1, <2>4
  <2> QED
    BY <2>5
<1>6. PICK v \in Int, t \in Int : v = nic_cq - cq_dbrec /\ t = n + g
  <2>1. cq_dbrec \in Int
    BY Counts DEF IndInv, TypeOK
  <2> QED
    BY <1>2, <2>1
<1>7. PICK z \in Int : v = t + CqDbMod * z
  <2>1. CqDbMod * (d - q) = CqDbMod * d - CqDbMod * q
    BY <1>2
  <2>2. v = t + CqDbMod * d \/ v = t + CqDbMod * (d - q)
    BY <1>2, <1>3, <1>4, <1>5, <1>6, <2>1
  <2>3. d - q \in Int
    OBVIOUS
  <2> QED
    BY <2>2, <2>3, Zenon
<1>8. v % CqDbMod = t % CqDbMod
  BY <1>2, <1>7, ModLaps
<1>9. t \in 0 .. CqDbMod - 1 /\ t <= CqeCnt
  BY <1>2, <1>6
<1>10. t % CqDbMod = t
  BY <1>2, <1>9, ModNear
<1> QED
  BY <1>6, <1>8, <1>9, <1>10 DEF NoCqOverrun

\* The receive completion queue never overruns, although its consumer index
\* is published once per burst.
THEOREM CqOverrunHolds == Spec => []NoCqOverrun
  BY OverrunFromInv, Invariance, PTL
=============================================================================
