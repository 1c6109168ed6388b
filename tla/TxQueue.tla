------------------------------ MODULE TxQueue ------------------------------
(***************************************************************************)
(* The transmit path of mlx5_rxtx.c: one CPU thread that fills work queue  *)
(* entries (WQEs) into the send ring, rings the doorbell and reaps         *)
(* completions, running concurrently with the NIC, which fetches WQEs,     *)
(* reads the packet data by DMA and posts one completion entry (CQE) per   *)
(* send.  A send occupies one or more 64-byte WQE blocks; its mbuf is      *)
(* recorded at the slot of its first block and is freed when the CPU sees  *)
(* its CQE.                                                                *)
(*                                                                         *)
(* sq_head and true_cq_head count blocks, cq_head counts CQEs.             *)
(***************************************************************************)
EXTENDS Rings

CONSTANTS
    SQ_CLEAN_THRESH,  \* blocks in flight from which transmit_one reaps
    SQ_CLEAN_MAX,     \* CQEs reaped by one call
    Mbufs,            \* the mbufs of the pool
    Shapes,           \* what callers send: [inline_len, nb_segs]
    Outcomes,         \* opcodes the NIC completes sends with
    NULL

---------------------------------------------------------------------------
\* Geometry of a send, in 16-byte segments and in 64-byte blocks.

\* One control segment, the Ethernet segment, and the inlined header padded
\* to 16 bytes, the first two of which lie inside the Ethernet segment.
NumHdrSegs(s) == IF s.inline_len > 0 THEN 1 + 1 + ((s.inline_len - 2 + 15) \div 16) ELSE 2

NumOctowords(s) == NumHdrSegs(s) + s.nb_segs

BlocksOf(octowords) == (octowords + 3) \div 4

\* Mutant: blocks rounded down.
NumWqesRoundedDown(s) == NumOctowords(s) \div 4

NumWqes(s) == BlocksOf(NumOctowords(s))

ASSUME CleanAssumption ==
    /\ SQ_CLEAN_THRESH \in Nat /\ SQ_CLEAN_MAX \in Nat \ {0}

ASSUME MbufAssumption ==
    /\ NULL \notin Mbufs /\ NULL \notin [idx : Nat, ds : Nat, m : Mbufs]
    /\ Shapes \subseteq [inline_len : Nat, nb_segs : Nat]
    /\ Outcomes \subseteq {"REQ", "REQ_ERR"}

---------------------------------------------------------------------------
VARIABLES
    \* struct mlx5_txq and struct mbuf
    sq_head, true_cq_head, cq_head, buffers, num_wqes,
    \* memory shared with the NIC: the rings and the doorbell records
    wqes, cqes, dbrec, cq_dbrec,
    \* locals of mlx5_transmit_one and of the functions it calls
    pc, req, mbs, after,
    \* mbufs in mbuf_mempool
    pool,
    \* the NIC: next WQE to fetch, fetched but not completed, CQEs posted
    nic_head, dma, nic_cq,
    \* history: sends posted and not reaped, oldest first
    inflight

cpuVars == <<sq_head, true_cq_head, cq_head, buffers, num_wqes, pc, req, mbs, after, pool>>
nicVars == <<nic_head, dma, nic_cq>>
ringVars == <<wqes, cqes, dbrec, cq_dbrec>>
vars == <<cpuVars, nicVars, ringVars, inflight>>

\* Blocks of a send that has start as its first block.
Blocks(start, n) == {SlotOf(start + k) : k \in 0 .. n - 1}

nr_inflight_tx == Sub(sq_head, true_cq_head)

\* wqe_cnt - nr_inflight_tx(v) in uint32_t arithmetic.
FreeWqes == Sub(WqeCnt, nr_inflight_tx)

PolledCqe == cqes[CqSlotOf(cq_head)]

NoReq == [m |-> NULL, shape |-> NULL]

Init ==
    /\ sq_head = 0 /\ true_cq_head = 0 /\ cq_head = 0
    /\ buffers = [i \in Slot |-> NULL]
    /\ num_wqes = [m \in Mbufs |-> 0]
    /\ wqes = [i \in Slot |-> NULL]
    /\ cqes = [i \in CqSlot |-> [opcode |-> "INVALID", owner |-> 0, wqe_counter |-> 0]]
    /\ dbrec = 0 /\ cq_dbrec = 0
    /\ pc = "idle" /\ req = NoReq /\ mbs = <<>> /\ after = "idle"
    /\ pool = Mbufs
    /\ nic_head = 0 /\ dma = <<>> /\ nic_cq = 0
    /\ inflight = <<>>

---------------------------------------------------------------------------
\* The CPU.

\* A caller takes an mbuf from the pool and calls mlx5_transmit_one.
TransmitOne(m, s) ==
    /\ pc = "idle"
    /\ m \in pool
    /\ pool' = pool \ {m}
    /\ req' = [m |-> m, shape |-> s]
    /\ pc' = "check"
    /\ UNCHANGED <<sq_head, true_cq_head, cq_head, buffers, num_wqes, mbs, after>>
    /\ UNCHANGED <<nicVars, ringVars, inflight>>

\* Mutant: a full ring is reported without reaping anything.
CheckRoomNoReap ==
    /\ pc = "check"
    /\ pc' = IF FreeWqes < NumWqes(req.shape) THEN "recheck" ELSE "fill"
    /\ UNCHANGED <<sq_head, true_cq_head, cq_head, buffers, num_wqes, req, mbs, after, pool>>
    /\ UNCHANGED <<nicVars, ringVars, inflight>>

\* Are there enough free blocks?  If not, reap before looking again.
CheckRoom ==
    /\ pc = "check"
    /\ IF FreeWqes < NumWqes(req.shape)
       THEN pc' = "gather" /\ after' = "recheck"
       ELSE pc' = "fill" /\ after' = after
    /\ UNCHANGED <<sq_head, true_cq_head, cq_head, buffers, num_wqes, req, mbs, pool>>
    /\ UNCHANGED <<nicVars, ringVars, inflight>>

\* Mutant: the send is posted without looking again after reaping.
RecheckRoomSkipped ==
    /\ pc = "recheck"
    /\ pc' = "fill"
    /\ UNCHANGED <<sq_head, true_cq_head, cq_head, buffers, num_wqes, req, mbs, after, pool>>
    /\ UNCHANGED <<nicVars, ringVars, inflight>>

\* Still no room: ENOMEM, transmit_one returns 0 and the caller's loop calls
\* it again with the same mbuf.
RecheckRoom ==
    /\ pc = "recheck"
    /\ pc' = IF FreeWqes < NumWqes(req.shape) THEN "check" ELSE "fill"
    /\ UNCHANGED <<sq_head, true_cq_head, cq_head, buffers, num_wqes, req, mbs, after, pool>>
    /\ UNCHANGED <<nicVars, ringVars, inflight>>

\* Mutant: a completion releases one block, whatever the send occupied.
GatherOneBlock ==
    /\ pc = "gather"
    /\ Len(mbs) < SQ_CLEAN_MAX
    /\ cqe_status(PolledCqe, cq_head) = "REQ"
    /\ mbs' = Append(mbs, buffers[SlotOf(PolledCqe.wqe_counter)])
    /\ true_cq_head' = Add(true_cq_head, 1)
    /\ cq_head' = Add(cq_head, 1)
    /\ inflight' = Tail(inflight)
    /\ UNCHANGED <<sq_head, buffers, num_wqes, pc, req, after, pool>>
    /\ UNCHANGED <<nicVars, ringVars>>

\* Mutant: the mbuf is taken from the next slot of buffers[].
GatherOneNextSlot ==
    /\ pc = "gather"
    /\ Len(mbs) < SQ_CLEAN_MAX
    /\ cqe_status(PolledCqe, cq_head) = "REQ"
    /\ LET m == buffers[SlotOf(PolledCqe.wqe_counter + 1)]
       IN  /\ m # NULL
           /\ mbs' = Append(mbs, m)
           /\ true_cq_head' = Add(true_cq_head, num_wqes[m])
    /\ cq_head' = Add(cq_head, 1)
    /\ inflight' = Tail(inflight)
    /\ UNCHANGED <<sq_head, buffers, num_wqes, pc, req, after, pool>>
    /\ UNCHANGED <<nicVars, ringVars>>

\* One iteration of the loop of mlx5_gather_completions.
GatherOne ==
    /\ pc = "gather"
    /\ Len(mbs) < SQ_CLEAN_MAX
    /\ cqe_status(PolledCqe, cq_head) = "REQ"
    /\ LET m == buffers[SlotOf(PolledCqe.wqe_counter)]
       IN  /\ mbs' = Append(mbs, m)
           /\ true_cq_head' = Add(true_cq_head, num_wqes[m])
    /\ cq_head' = Add(cq_head, 1)
    /\ inflight' = Tail(inflight)
    /\ UNCHANGED <<sq_head, buffers, num_wqes, pc, req, after, pool>>
    /\ UNCHANGED <<nicVars, ringVars>>

\* Mutant: what was gathered to make room is not freed.
GatherDoneLeaks ==
    /\ pc = "gather"
    /\ Len(mbs) = SQ_CLEAN_MAX \/ cqe_status(PolledCqe, cq_head) = "INVALID"
    /\ cq_dbrec' = cq_head % CqDbMod
    /\ pool' = IF after = "idle" THEN pool \cup {mbs[i] : i \in DOMAIN mbs} ELSE pool
    /\ mbs' = <<>>
    /\ pc' = after
    /\ UNCHANGED <<sq_head, true_cq_head, cq_head, buffers, num_wqes, req, after>>
    /\ UNCHANGED <<nicVars, wqes, cqes, dbrec, inflight>>

\* Mutant: the consumer index is not published.
GatherDoneNoDoorbell ==
    /\ pc = "gather"
    /\ Len(mbs) = SQ_CLEAN_MAX \/ cqe_status(PolledCqe, cq_head) = "INVALID"
    /\ pool' = pool \cup {mbs[i] : i \in DOMAIN mbs}
    /\ mbs' = <<>>
    /\ pc' = after
    /\ UNCHANGED <<sq_head, true_cq_head, cq_head, buffers, num_wqes, req, after>>
    /\ UNCHANGED <<nicVars, ringVars, inflight>>

\* The loop ends on an unwritten CQE or when the budget is spent: publish
\* the consumer index, free what was gathered, and return to the caller.
GatherDone ==
    /\ pc = "gather"
    /\ Len(mbs) = SQ_CLEAN_MAX \/ cqe_status(PolledCqe, cq_head) = "INVALID"
    /\ cq_dbrec' = cq_head % CqDbMod
    /\ pool' = pool \cup {mbs[i] : i \in DOMAIN mbs}
    /\ mbs' = <<>>
    /\ pc' = after
    /\ UNCHANGED <<sq_head, true_cq_head, cq_head, buffers, num_wqes, req, after>>
    /\ UNCHANGED <<nicVars, wqes, cqes, dbrec, inflight>>

\* PANIC_ON_TRUE: any other opcode than a send completion ends the process.
GatherPanic ==
    /\ pc = "gather"
    /\ Len(mbs) < SQ_CLEAN_MAX
    /\ cqe_status(PolledCqe, cq_head) \notin {"REQ", "INVALID"}
    /\ pc' = "panic"
    /\ UNCHANGED <<sq_head, true_cq_head, cq_head, buffers, num_wqes, req, mbs, after, pool>>
    /\ UNCHANGED <<nicVars, ringVars, inflight>>

\* Mutant: the mbuf is recorded after sq_head has moved.
FillTxSegmentLateRecord ==
    /\ pc = "fill"
    /\ LET n == NumWqes(req.shape)
       IN  /\ wqes' = [i \in Slot |->
                  IF i = SlotOf(sq_head)
                  THEN [idx |-> sq_head % WqeIdxMod, ds |-> NumOctowords(req.shape), m |-> req.m]
                  ELSE IF i \in Blocks(sq_head, n) THEN NULL ELSE wqes[i]]
           /\ num_wqes' = [num_wqes EXCEPT ![req.m] = n]
           /\ buffers' = [buffers EXCEPT ![SlotOf(sq_head + n)] = req.m]
           /\ sq_head' = Add(sq_head, n)
           /\ inflight' = Append(inflight, [m |-> req.m, start |-> sq_head, n |-> n])
    /\ pc' = "doorbell"
    /\ req' = NoReq
    /\ UNCHANGED <<true_cq_head, cq_head, mbs, after, pool>>
    /\ UNCHANGED <<nicVars, cqes, dbrec, cq_dbrec>>

\* Write the control, Ethernet and data segments over the send's blocks,
\* record the mbuf at the first one and advance sq_head.
FillTxSegment ==
    /\ pc = "fill"
    /\ LET n == NumWqes(req.shape)
       IN  /\ wqes' = [i \in Slot |->
                  IF i = SlotOf(sq_head)
                  THEN [idx |-> sq_head % WqeIdxMod, ds |-> NumOctowords(req.shape), m |-> req.m]
                  ELSE IF i \in Blocks(sq_head, n) THEN NULL ELSE wqes[i]]
           /\ num_wqes' = [num_wqes EXCEPT ![req.m] = n]
           /\ buffers' = [buffers EXCEPT ![SlotOf(sq_head)] = req.m]
           /\ sq_head' = Add(sq_head, n)
           /\ inflight' = Append(inflight, [m |-> req.m, start |-> sq_head, n |-> n])
    /\ pc' = "doorbell"
    /\ req' = NoReq
    /\ UNCHANGED <<true_cq_head, cq_head, mbs, after, pool>>
    /\ UNCHANGED <<nicVars, cqes, dbrec, cq_dbrec>>

\* Publish sq_head to the NIC, then reap if enough blocks are in flight.
RingDoorbell ==
    /\ pc = "doorbell"
    /\ dbrec' = sq_head % WqeIdxMod
    /\ IF nr_inflight_tx >= SQ_CLEAN_THRESH
       THEN pc' = "gather" /\ after' = "idle"
       ELSE pc' = "idle" /\ after' = after
    /\ UNCHANGED <<sq_head, true_cq_head, cq_head, buffers, num_wqes, req, mbs, pool>>
    /\ UNCHANGED <<nicVars, wqes, cqes, cq_dbrec, inflight>>

CpuStep ==
    \/ CheckRoom \/ RecheckRoom
    \/ GatherOne \/ GatherDone \/ GatherPanic
    \/ FillTxSegment \/ RingDoorbell

---------------------------------------------------------------------------
\* The NIC (external): it trusts the doorbell and whatever the ring holds.

NicFetch ==
    /\ nic_head # dbrec
    /\ LET w == wqes[SlotOf(nic_head)]
       IN  /\ w # NULL
           /\ dma' = Append(dma, [m |-> w.m, idx |-> nic_head])
           /\ nic_head' = (nic_head + BlocksOf(w.ds)) % WqeIdxMod
    /\ UNCHANGED <<cpuVars, ringVars, nic_cq, inflight>>

\* The data of the oldest fetched send has been read: post its CQE.
NicComplete(outcome) ==
    /\ dma # <<>>
    /\ cqes' = [cqes EXCEPT ![CqSlotOf(nic_cq)] =
                  [opcode |-> outcome, owner |-> Parity(nic_cq), wqe_counter |-> Head(dma).idx]]
    /\ nic_cq' = Add(nic_cq, 1)
    /\ dma' = Tail(dma)
    /\ UNCHANGED <<cpuVars, wqes, dbrec, cq_dbrec, nic_head, inflight>>

Next ==
    \/ \E m \in Mbufs, s \in Shapes : TransmitOne(m, s)
    \/ CpuStep
    \/ NicFetch
    \/ \E outcome \in Outcomes : NicComplete(outcome)

Spec == Init /\ [][Next]_vars

\* The CPU thread never blocks inside transmit_one, and the NIC keeps
\* processing what was posted to it.
FairSpec == Spec /\ WF_vars(CpuStep) /\ WF_vars(NicFetch)
                 /\ WF_vars(\E outcome \in Outcomes : NicComplete(outcome))

---------------------------------------------------------------------------
\* Properties.

\* CQEs posted and not yet polled.
Unread == Sub(nic_cq, cq_head)

Send == [m : Mbufs, start : Counter, n : Nat]

TypeOK ==
    /\ sq_head \in Counter /\ true_cq_head \in Counter /\ cq_head \in Counter
    /\ buffers \in [Slot -> Mbufs \cup {NULL}]
    /\ num_wqes \in [Mbufs -> Nat]
    /\ wqes \in [Slot -> [idx : 0 .. WqeIdxMod - 1, ds : Nat, m : Mbufs] \cup {NULL}]
    /\ cqes \in [CqSlot -> [opcode : {"INVALID", "REQ", "REQ_ERR"}, owner : {0, 1},
                            wqe_counter : 0 .. WqeIdxMod - 1]]
    /\ dbrec \in 0 .. WqeIdxMod - 1 /\ cq_dbrec \in 0 .. CqDbMod - 1
    /\ pc \in {"idle", "check", "recheck", "gather", "fill", "doorbell", "panic"}
    /\ req \in [m : Mbufs, shape : Shapes] \cup {NoReq}
    /\ mbs \in Seq(Mbufs) /\ Len(mbs) <= SQ_CLEAN_MAX
    /\ after \in {"idle", "recheck"}
    /\ pool \subseteq Mbufs
    /\ nic_head \in 0 .. WqeIdxMod - 1
    /\ dma \in Seq([m : Mbufs, idx : 0 .. WqeIdxMod - 1])
    /\ nic_cq \in Counter
    /\ inflight \in Seq(Send)

\* The send ring is never overcommitted: the blocks between true_cq_head and
\* sq_head are exactly those of the sends that were posted and not reaped,
\* laid end to end, and they fit in the ring.  Reaping counts blocks by the
\* num_wqes stored in each mbuf, so one wrong lookup shifts every later count.
RingAccounting ==
    /\ nr_inflight_tx <= WqeCnt
    /\ \A i \in DOMAIN inflight :
         inflight[i].start = IF i = 1 THEN true_cq_head
                             ELSE Add(inflight[i - 1].start, inflight[i - 1].n)
    /\ sq_head = IF inflight = <<>> THEN true_cq_head
                 ELSE Add(inflight[Len(inflight)].start, inflight[Len(inflight)].n)

\* v->buffers[] still names the mbuf of every send that has no reaped
\* completion, and that mbuf still carries its block count, so that
\* mlx5_gather_completions can look both up whenever the CQE arrives.
RecordedUntilReaped ==
    \A i \in DOMAIN inflight :
        /\ buffers[SlotOf(inflight[i].start)] = inflight[i].m
        /\ num_wqes[inflight[i].m] = inflight[i].n

\* A WQE the NIC has not fetched is never overwritten by a later send.
UnfetchedWqesIntact ==
    \A i \in DOMAIN inflight : i > Unread + Len(dma) =>
        LET s == inflight[i]
            w == wqes[SlotOf(s.start)]
        IN  /\ w # NULL
            /\ w.m = s.m /\ w.idx = s.start % WqeIdxMod /\ BlocksOf(w.ds) = s.n
            /\ \A b \in Blocks(s.start, s.n) \ {SlotOf(s.start)} : wqes[b] = NULL

\* Every mbuf has exactly one owner: the pool, the caller, the send ring, or
\* the list being freed.  No mbuf is freed while the NIC may read it, none is
\* freed twice, none is lost.
HeldMbufs == {req.m} \ {NULL}
RingMbufs == {inflight[i].m : i \in DOMAIN inflight}
GatheredMbufs == {mbs[i] : i \in DOMAIN mbs}

OneOwner ==
    /\ Mbufs = pool \cup HeldMbufs \cup RingMbufs \cup GatheredMbufs
    /\ pool \cap HeldMbufs = {} /\ pool \cap RingMbufs = {} /\ pool \cap GatheredMbufs = {}
    /\ HeldMbufs \cap RingMbufs = {} /\ HeldMbufs \cap GatheredMbufs = {}
    /\ RingMbufs \cap GatheredMbufs = {}
    /\ \A i, j \in DOMAIN inflight : inflight[i].m = inflight[j].m => i = j
    /\ \A i, j \in DOMAIN mbs : mbs[i] = mbs[j] => i = j

\* The CQEs the CPU has yet to poll are those of the oldest sends, in order;
\* the entry after them reads as unwritten, although it may hold a CQE of an
\* earlier lap: the owner bit alone tells them apart.
CompletionsInOrder ==
    /\ Unread + Len(dma) <= Len(inflight)
    /\ \A k \in 1 .. Unread :
         LET head == Add(cq_head, k - 1)
         IN  /\ cqe_status(cqes[CqSlotOf(head)], head) \in Outcomes
             /\ cqes[CqSlotOf(head)].wqe_counter = inflight[k].start % WqeIdxMod
    /\ Unread < CqeCnt => cqe_status(cqes[CqSlotOf(nic_cq)], nic_cq) = "INVALID"

\* The CQ never overruns, judged by the consumer index the NIC knows of,
\* which lags cq_head while a gather is under way.
NoCqOverrun == (nic_cq - cq_dbrec) % CqDbMod <= CqeCnt

\* What the NIC reads by DMA has not gone back to the pool.
DmaBuffersOwned == \A i \in DOMAIN dma : dma[i].m \notin pool

\* Every call made with an mbuf gets it posted: a full ring is only a retry,
\* because the loop of post_mbufs and of do_client keeps reaping.
TransmitCompletes == pc = "check" ~> pc \in {"doorbell", "panic"}

---------------------------------------------------------------------------
\* The transmit path is a bounded FIFO.

QueuedSends == [i \in DOMAIN inflight |-> [m |-> inflight[i].m, n |-> inflight[i].n]]

Fifo == INSTANCE TxFifo WITH
            Capacity <- WqeCnt,
            MaxReap <- SQ_CLEAN_MAX,
            Sizes <- {NumWqes(s) : s \in Shapes},
            free <- pool,
            held <- {req.m} \ {NULL},
            queue <- QueuedSends,
            done <- Unread,
            used <- nr_inflight_tx,
            reaped <- mbs

\* Rings, wrapping counters, owner bits and the doorbells implement the FIFO:
\* sends are finished and their mbufs freed in the order they were posted.
ImplementsFifo == Fifo!Spec

---------------------------------------------------------------------------
\* The inductive invariant: the properties above, and what relates the
\* counters on the CPU side to those on the NIC side.

Off(i) == Sub(inflight[i].start, true_cq_head)
Fetched == Unread + Len(dma)

\* Sends do not overlap: each ends before any later one begins.
LayoutInv ==
    /\ \A i \in DOMAIN inflight :
         /\ inflight[i].n >= 1
         /\ Off(i) + inflight[i].n + (Len(inflight) - i) <= nr_inflight_tx
    /\ \A i, j \in DOMAIN inflight :
         i < j => Off(i) + inflight[i].n + (j - i - 1) <= Off(j)

\* What each program point of mlx5_transmit_one may rely on.
ControlInv ==
    /\ req # NoReq <=> \/ pc \in {"check", "recheck", "fill"}
                       \/ pc \in {"gather", "panic"} /\ after = "recheck"
    /\ mbs # <<>> => pc \in {"gather", "panic"}
    /\ pc = "fill" => nr_inflight_tx + NumWqes(req.shape) <= WqeCnt
    /\ pc = "doorbell" => Fetched < Len(inflight)
    /\ Len(inflight) + Len(mbs) <= WqeCnt

\* The NIC has fetched the oldest sends, as far as the doorbell told it.
NicInv ==
    /\ Fetched <= Len(inflight)
    /\ nic_head = (IF Fetched < Len(inflight) THEN inflight[Fetched + 1].start ELSE sq_head)
                  % WqeIdxMod
    /\ dbrec = (IF pc = "doorbell" THEN inflight[Len(inflight)].start ELSE sq_head) % WqeIdxMod
    /\ \A k \in DOMAIN dma :
         dma[k] = [m |-> inflight[Unread + k].m,
                   idx |-> inflight[Unread + k].start % WqeIdxMod]

\* Around the completion ring from cq_head: the unread CQEs, then entries
\* that read as unwritten.
CqInv ==
    /\ \A k \in 0 .. Unread - 1 :
         LET head == Add(cq_head, k) cqe == cqes[CqSlotOf(head)]
         IN  /\ cqe.opcode \in Outcomes
             /\ cqe.owner = Parity(head)
             /\ cqe.wqe_counter = inflight[k + 1].start % WqeIdxMod
    /\ \A k \in Unread .. CqeCnt - 1 :
         LET head == Add(cq_head, k)
         IN  cqe_status(cqes[CqSlotOf(head)], head) = "INVALID"
    /\ cq_dbrec = (cq_head - Len(mbs)) % CqDbMod

IndInv ==
    /\ TypeOK
    /\ RingAccounting
    /\ LayoutInv
    /\ ControlInv
    /\ RecordedUntilReaped
    /\ UnfetchedWqesIntact
    /\ OneOwner
    /\ NicInv
    /\ CqInv
=============================================================================
