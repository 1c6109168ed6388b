------------------------------ MODULE RxQueue ------------------------------
(***************************************************************************)
(* The receive path: mlx5_gather_rx and mlx5_refill_rxqueue on the CPU,    *)
(* concurrently with the NIC, which writes each packet into the buffer of  *)
(* the next posted descriptor and posts a CQE that names the descriptor.   *)
(*                                                                         *)
(* consumer_idx counts CQEs gathered, wq_head buffers posted.  A call      *)
(* gathers up to Budget packets and posts as many fresh buffers from the   *)
(* pool before it returns; the gathered ones stay with the caller until it *)
(* frees them (rx_completion).                                             *)
(***************************************************************************)
EXTENDS Rings

CONSTANTS
    Budget,      \* packets per call: BURST_SIZE in do_server, 32 in do_client
    Bufs,        \* the buffers of rx_buf_mempool
    MaxHeld,     \* buffers a caller may still hold when it calls again
    Outcomes,    \* opcodes the NIC completes receives with
    NULL

ASSUME RxAssumption ==
    /\ Budget \in Nat \ {0} /\ MaxHeld \in Nat
    /\ IsFiniteSet(Bufs) /\ NULL \notin Bufs
    /\ Outcomes \subseteq {"RESP_SEND", "RESP_ERR"}

VARIABLES
    \* struct mlx5_rxq
    wq_head, consumer_idx, buffers,
    \* memory shared with the NIC: descriptors, CQEs, doorbell records
    addrs, cqes, dbrec, cq_dbrec,
    \* locals of mlx5_gather_rx and of mlx5_refill_rxqueue
    pc, ms, refilled,
    \* buffers in rx_buf_mempool, and those the caller has
    pool, held,
    \* the NIC: next descriptor to use, CQEs posted
    nic_wq, nic_cq,
    \* history: buffers the NIC has filled and the CPU not gathered, in order
    arrived

rxqVars == <<wq_head, consumer_idx, buffers>>
ringVars == <<addrs, cqes, dbrec, cq_dbrec>>
localVars == <<pc, ms, refilled>>
nicVars == <<nic_wq, nic_cq>>
vars == <<rxqVars, ringVars, localVars, pool, held, nicVars, arrived>>

\* (int32_t)(a - b) <= 0
wraps_lte(a, b) == Sub(a, b) = 0 \/ 2 * Sub(a, b) >= CounterMod

PolledCqe == cqes[CqSlotOf(consumer_idx)]

\* mlx5_init_rxq posts a buffer at every slot, hands every CQE to the
\* hardware (owner bit 1) and publishes wq_head.
Init ==
    /\ \E b \in [Slot -> Bufs] :
         /\ \A i, j \in Slot : b[i] = b[j] => i = j
         /\ buffers = b /\ addrs = b
         /\ pool = Bufs \ {b[i] : i \in Slot}
    /\ wq_head = WqeCnt /\ consumer_idx = 0
    /\ cqes = [i \in CqSlot |-> [opcode |-> "INVALID", owner |-> 1, wqe_counter |-> 0]]
    /\ dbrec = WqeCnt % WqeIdxMod /\ cq_dbrec = 0
    /\ pc = "idle" /\ ms = <<>> /\ refilled = 0
    /\ held = {}
    /\ nic_wq = 0 /\ nic_cq = 0
    /\ arrived = <<>>

---------------------------------------------------------------------------
\* The CPU.

\* A caller polls; it has freed all but MaxHeld of what it got before.
GatherRx ==
    /\ pc = "idle"
    /\ Cardinality(held) <= MaxHeld
    /\ pc' = "gather"
    /\ UNCHANGED <<rxqVars, ringVars, ms, refilled, pool, held, nicVars, arrived>>

\* One iteration of the loop of mlx5_gather_rx.
GatherOne ==
    /\ pc = "gather"
    /\ Len(ms) < Budget
    /\ cqe_status(PolledCqe, consumer_idx) = "RESP_SEND"
    /\ ms' = Append(ms, buffers[SlotOf(PolledCqe.wqe_counter)])
    /\ consumer_idx' = Add(consumer_idx, 1)
    /\ arrived' = Tail(arrived)
    /\ UNCHANGED <<wq_head, buffers, ringVars, pc, refilled, pool, held, nicVars>>

\* NETPERF_PANIC: any other opcode ends the process.
GatherPanic ==
    /\ pc = "gather"
    /\ Len(ms) < Budget
    /\ cqe_status(PolledCqe, consumer_idx) \notin {"RESP_SEND", "INVALID"}
    /\ pc' = "panic"
    /\ UNCHANGED <<rxqVars, ringVars, ms, refilled, pool, held, nicVars, arrived>>

\* Mutant: the consumer index is not published.
GatherDoneNoDoorbell ==
    /\ pc = "gather"
    /\ Len(ms) = Budget \/ cqe_status(PolledCqe, consumer_idx) = "INVALID"
    /\ pc' = IF ms = <<>> THEN "idle" ELSE "refill"
    /\ refilled' = 0
    /\ UNCHANGED <<rxqVars, ringVars, ms, pool, held, nicVars, arrived>>

\* Nothing to gather (any more): return at once if there was nothing at all,
\* else publish the consumer index and refill.
GatherDone ==
    /\ pc = "gather"
    /\ Len(ms) = Budget \/ cqe_status(PolledCqe, consumer_idx) = "INVALID"
    /\ IF ms = <<>>
       THEN pc' = "idle" /\ cq_dbrec' = cq_dbrec
       ELSE pc' = "refill" /\ cq_dbrec' = consumer_idx % CqDbMod
    /\ refilled' = 0
    /\ UNCHANGED <<rxqVars, addrs, cqes, dbrec, ms, pool, held, nicVars, arrived>>

\* Mutant: the buffer is recorded after wq_head has moved.
RefillOneLateRecord(b) ==
    /\ pc = "refill" /\ refilled < Len(ms)
    /\ b \in pool
    /\ pool' = pool \ {b}
    /\ buffers' = [buffers EXCEPT ![SlotOf(wq_head + 1)] = b]
    /\ addrs' = [addrs EXCEPT ![SlotOf(wq_head)] = b]
    /\ wq_head' = Add(wq_head, 1)
    /\ refilled' = refilled + 1
    /\ UNCHANGED <<consumer_idx, cqes, dbrec, cq_dbrec, pc, ms, held, nicVars, arrived>>

\* Mutant: the buffer is posted but not taken from the pool.
RefillOneKeepsInPool(b) ==
    /\ pc = "refill" /\ refilled < Len(ms)
    /\ b \in pool
    /\ buffers' = [buffers EXCEPT ![SlotOf(wq_head)] = b]
    /\ addrs' = [addrs EXCEPT ![SlotOf(wq_head)] = b]
    /\ wq_head' = Add(wq_head, 1)
    /\ refilled' = refilled + 1
    /\ UNCHANGED <<consumer_idx, cqes, dbrec, cq_dbrec, pc, ms, pool, held, nicVars, arrived>>

\* Post a fresh buffer at the slot of wq_head.
RefillOne(b) ==
    /\ pc = "refill" /\ refilled < Len(ms)
    /\ b \in pool
    /\ pool' = pool \ {b}
    /\ buffers' = [buffers EXCEPT ![SlotOf(wq_head)] = b]
    /\ addrs' = [addrs EXCEPT ![SlotOf(wq_head)] = b]
    /\ wq_head' = Add(wq_head, 1)
    /\ refilled' = refilled + 1
    /\ UNCHANGED <<consumer_idx, cqes, dbrec, cq_dbrec, pc, ms, held, nicVars, arrived>>

\* The pool is empty: head_len is written through the NULL that
\* mempool_alloc returned, before the check that would panic.
RefillCrash ==
    /\ pc = "refill" /\ refilled < Len(ms)
    /\ pool = {}
    /\ pc' = "crash"
    /\ UNCHANGED <<rxqVars, ringVars, ms, refilled, pool, held, nicVars, arrived>>

\* Mutant: one buffer fewer is posted than was gathered.
RefillDoneEarly ==
    /\ pc = "refill" /\ refilled + 1 >= Len(ms)
    /\ dbrec' = wq_head % WqeIdxMod
    /\ held' = held \cup {ms[i] : i \in DOMAIN ms}
    /\ ms' = <<>>
    /\ pc' = "idle"
    /\ UNCHANGED <<rxqVars, addrs, cqes, cq_dbrec, refilled, pool, nicVars, arrived>>

\* Mutant: only the first packet of a burst reaches the caller.
RefillDoneFirstOnly ==
    /\ pc = "refill" /\ refilled = Len(ms)
    /\ dbrec' = wq_head % WqeIdxMod
    /\ held' = held \cup {ms[1]}
    /\ ms' = <<>>
    /\ pc' = "idle"
    /\ UNCHANGED <<rxqVars, addrs, cqes, cq_dbrec, refilled, pool, nicVars, arrived>>

\* Mutant: the doorbell record is not reduced to its 16 bits.
RefillDoneUnmasked ==
    /\ pc = "refill" /\ refilled = Len(ms)
    /\ dbrec' = wq_head
    /\ held' = held \cup {ms[i] : i \in DOMAIN ms}
    /\ ms' = <<>>
    /\ pc' = "idle"
    /\ UNCHANGED <<rxqVars, addrs, cqes, cq_dbrec, refilled, pool, nicVars, arrived>>

\* Publish wq_head and hand the gathered packets to the caller.
RefillDone ==
    /\ pc = "refill" /\ refilled = Len(ms)
    /\ dbrec' = wq_head % WqeIdxMod
    /\ held' = held \cup {ms[i] : i \in DOMAIN ms}
    /\ ms' = <<>>
    /\ pc' = "idle"
    /\ UNCHANGED <<rxqVars, addrs, cqes, cq_dbrec, refilled, pool, nicVars, arrived>>

\* Mutant: the buffer is not returned to the pool.
FreeLost(b) ==
    /\ pc = "idle"
    /\ b \in held
    /\ held' = held \ {b}
    /\ UNCHANGED <<rxqVars, ringVars, localVars, pool, nicVars, arrived>>

\* The caller frees a packet: rx_completion.
Free(b) ==
    /\ pc = "idle"
    /\ b \in held
    /\ held' = held \ {b}
    /\ pool' = pool \cup {b}
    /\ UNCHANGED <<rxqVars, ringVars, localVars, nicVars, arrived>>

CpuStep ==
    \/ GatherRx \/ GatherOne \/ GatherPanic \/ GatherDone
    \/ (\E b \in Bufs : RefillOne(b)) \/ RefillCrash \/ RefillDone

---------------------------------------------------------------------------
\* The NIC (external).  A packet that finds no posted descriptor is dropped.

NicReceive(outcome) ==
    /\ nic_wq # dbrec
    /\ arrived' = Append(arrived, addrs[SlotOf(nic_wq)])
    /\ cqes' = [cqes EXCEPT ![CqSlotOf(nic_cq)] =
                  [opcode |-> outcome, owner |-> Parity(nic_cq), wqe_counter |-> nic_wq]]
    /\ nic_wq' = (nic_wq + 1) % WqeIdxMod
    /\ nic_cq' = Add(nic_cq, 1)
    /\ UNCHANGED <<rxqVars, addrs, dbrec, cq_dbrec, localVars, pool, held>>

Next ==
    \/ CpuStep
    \/ \E b \in Bufs : Free(b)
    \/ \E outcome \in Outcomes : NicReceive(outcome)

Spec == Init /\ [][Next]_vars

\* The polling loops never stop calling mlx5_gather_rx, and they free every
\* packet they got.  Nothing obliges packets to arrive.
FairSpec == Spec /\ WF_vars(CpuStep) /\ \A b \in Bufs : WF_vars(Free(b))

---------------------------------------------------------------------------
\* Properties.

Unread == Sub(nic_cq, consumer_idx)

TypeOK ==
    /\ wq_head \in Counter /\ consumer_idx \in Counter
    /\ buffers \in [Slot -> Bufs] /\ addrs \in [Slot -> Bufs]
    /\ cqes \in [CqSlot -> [opcode : {"INVALID", "RESP_SEND", "RESP_ERR"}, owner : {0, 1},
                            wqe_counter : 0 .. WqeIdxMod - 1]]
    /\ dbrec \in 0 .. WqeIdxMod - 1 /\ cq_dbrec \in 0 .. CqDbMod - 1
    /\ pc \in {"idle", "gather", "refill", "panic", "crash"}
    /\ ms \in Seq(Bufs) /\ Len(ms) <= Budget
    /\ refilled \in 0 .. Budget
    /\ pool \subseteq Bufs /\ held \subseteq Bufs
    /\ nic_wq \in 0 .. WqeIdxMod - 1 /\ nic_cq \in Counter
    /\ arrived \in Seq(Bufs)

\* Between two calls every slot of the receive ring has a buffer posted, so
\* that the NIC never has fewer than WqeCnt minus the ungathered packets; and
\* the assertion of mlx5_refill_rxqueue holds, at its entry and for what is
\* left to post in every iteration: refilling never runs into descriptors
\* whose packets have not been gathered.
RingFull ==
    /\ pc = "idle" => Sub(wq_head, consumer_idx) = WqeCnt
    /\ pc = "refill" => wraps_lte(Add(wq_head, Len(ms) - refilled), Add(consumer_idx, WqeCnt))

\* Posted descriptors not yet used by the NIC, as far as it knows of them.
PostedSlots == {SlotOf(nic_wq + k) : k \in 0 .. ((dbrec - nic_wq) % WqeIdxMod) - 1}
PostedBufs == {addrs[i] : i \in PostedSlots}
ArrivedBufs == {arrived[i] : i \in DOMAIN arrived}
GatheredBufs == {ms[i] : i \in DOMAIN ms}

\* The NIC writes only into buffers that nobody else has: not the pool, not
\* the caller, not a packet that waits to be gathered; and no buffer is
\* posted in two descriptors.
NicBuffersExclusive ==
    /\ PostedBufs \cap (pool \cup held \cup ArrivedBufs \cup GatheredBufs) = {}
    /\ Cardinality(PostedBufs) = Cardinality(PostedSlots)

\* v->buffers[] finds, for every CQE and in order, the buffer the packet was
\* written to, although slots are reused while older packets wait; and a
\* packet is gathered once: what a poll past the last CQE reads is unwritten,
\* whatever earlier laps left there.
GathersWhatArrived ==
    /\ Unread = Len(arrived)
    /\ \A k \in 1 .. Unread :
         LET head == Add(consumer_idx, k - 1)
             cqe == cqes[CqSlotOf(head)]
         IN  /\ cqe_status(cqe, head) \in Outcomes
             /\ buffers[SlotOf(cqe.wqe_counter)] = arrived[k]
    /\ Unread < CqeCnt => cqe_status(cqes[CqSlotOf(nic_cq)], nic_cq) = "INVALID"

\* No receive buffer is lost or freed twice: in every step of a call each is
\* in the pool, with the caller, gathered or behind one slot of the ring.  So
\* the refill finds the pool empty only when the caller sits on the rest.
RingBufs == {buffers[SlotOf(consumer_idx + k)] : k \in 0 .. Sub(wq_head, consumer_idx) - 1}
NoBufferLost ==
    /\ Bufs = pool \cup held \cup GatheredBufs \cup RingBufs
    /\ Cardinality(pool) + Cardinality(held) + Len(ms) + Sub(wq_head, consumer_idx) = Cardinality(Bufs)

\* The completion queue never overruns, judged by the published index.
NoCqOverrun == (nic_cq - cq_dbrec) % CqDbMod <= CqeCnt

\* Every packet the NIC wrote reaches the caller, unless the process panics.
EveryPacketGathered ==
    \A b \in Bufs : b \in ArrivedBufs ~> (b \in held \/ pc \in {"panic", "crash"})
=============================================================================
