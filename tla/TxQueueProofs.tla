--------------------------- MODULE TxQueueProofs ---------------------------
(***************************************************************************)
(* Proofs about TxQueue for every ring size, counter width, pool and set   *)
(* of shapes that its assumptions allow: IndInv is inductive, and TxQueue  *)
(* implements TxFifo.                                                      *)
(***************************************************************************)
EXTENDS TxQueue, RingProofs

---------------------------------------------------------------------------
\* What a send of any shape occupies.
LEMMA ShapeFacts ==
  ASSUME NEW s \in Shapes
  PROVE  /\ NumOctowords(s) \in Nat
         /\ NumWqes(s) \in Nat /\ NumWqes(s) >= 1
         /\ NumWqes(s) = BlocksOf(NumOctowords(s))
<1>1. s.inline_len \in Nat /\ s.nb_segs \in Nat
  BY MbufAssumption
<1>2. NumHdrSegs(s) \in Nat /\ NumHdrSegs(s) >= 2
  BY <1>1 DEF NumHdrSegs
<1>3. NumOctowords(s) \in Nat /\ NumOctowords(s) >= 2
  BY <1>1, <1>2 DEF NumOctowords
<1> QED
  BY <1>3 DEF NumWqes, BlocksOf

\* The invariant holds initially: both rings are empty, every CQE reads as
\* unwritten on the first lap, every mbuf is in the pool.
LEMMA InitInv == Init => IndInv
<1> SUFFICES ASSUME Init PROVE IndInv
  OBVIOUS
<1>1. /\ CounterMod \in Nat \ {0} /\ WqeIdxMod \in Nat \ {0} /\ CqDbMod \in Nat \ {0}
      /\ WqeCnt \in Nat \ {0} /\ CqeCnt \in Nat \ {0} /\ CqeCnt < CounterMod
      /\ SQ_CLEAN_MAX \in Nat \ {0}
  BY Moduli, CleanAssumption
<1>2. 0 \in Counter /\ 0 \in 0 .. WqeIdxMod - 1 /\ 0 \in 0 .. CqDbMod - 1
  BY <1>1 DEF Counter
<1>3. TypeOK
  BY <1>1, <1>2 DEF Init, TypeOK, NoReq, Send
<1>4. nr_inflight_tx = 0 /\ Unread = 0
  BY <1>2, CounterFacts DEF Init, nr_inflight_tx, Unread
<1>5. 0 % WqeIdxMod = 0 /\ 0 % CqDbMod = 0
  BY <1>1, <1>2, ModNear
<1>6. RingAccounting /\ LayoutInv
  BY <1>1, <1>4 DEF Init, RingAccounting, LayoutInv
<1>7. ControlInv
  BY <1>1, <1>4 DEF Init, ControlInv, NoReq
<1>8. RecordedUntilReaped /\ UnfetchedWqesIntact /\ OneOwner
  BY MbufAssumption DEF Init, RecordedUntilReaped, UnfetchedWqesIntact, OneOwner,
     HeldMbufs, RingMbufs, GatheredMbufs, NoReq
<1>9. NicInv
  BY <1>4, <1>5 DEF Init, NicInv, Fetched
<1>10. CqInv
  <2>1. ASSUME NEW k \in 0 .. CqeCnt - 1
        PROVE  cqe_status(cqes[CqSlotOf(Add(cq_head, k))], Add(cq_head, k)) = "INVALID"
    <3>1. Add(cq_head, k) \in Counter
      BY <1>1, <1>2, AddFacts DEF Init
    <3>2. CqSlotOf(Add(cq_head, k)) \in CqSlot
      BY <3>1, CqLap
    <3> QED
      BY <3>2 DEF Init, cqe_status
  <2>2. cq_dbrec = (cq_head - Len(mbs)) % CqDbMod
    BY <1>5 DEF Init
  <2> QED
    BY <1>4, <2>1, <2>2 DEF CqInv
<1> QED
  BY <1>3, <1>6, <1>7, <1>8, <1>9, <1>10 DEF IndInv

---------------------------------------------------------------------------
\* Parts of the invariant that a step leaves alone.

\* Steps that move neither end of the send ring keep its layout.
LEMMA LayoutFrame ==
  ASSUME RingAccounting, LayoutInv, UNCHANGED <<sq_head, true_cq_head, inflight>>
  PROVE  RingAccounting' /\ LayoutInv'
  BY DEF RingAccounting, LayoutInv, nr_inflight_tx, Off, Add

\* Steps that post and reap nothing keep buffers[] and num_wqes in step.
LEMMA RecordedFrame ==
  ASSUME RecordedUntilReaped, UNCHANGED <<buffers, num_wqes, inflight>>
  PROVE  RecordedUntilReaped'
  BY DEF RecordedUntilReaped

\* Steps that leave the send ring and what the NIC has fetched alone.
LEMMA WqesFrame ==
  ASSUME UnfetchedWqesIntact, UNCHANGED <<wqes, inflight, nic_cq, cq_head, dma>>
  PROVE  UnfetchedWqesIntact'
  BY DEF UnfetchedWqesIntact, Unread

\* Steps that leave both ends of the completion ring alone.
LEMMA CqFrame ==
  ASSUME CqInv, UNCHANGED <<cqes, cq_head, nic_cq, inflight, mbs, cq_dbrec>>
  PROVE  CqInv'
  BY DEF CqInv, Unread, cqe_status

\* CPU steps that neither post nor ring the doorbell.
LEMMA NicFrame ==
  ASSUME NicInv, UNCHANGED <<nicVars, inflight, sq_head, cq_head, dbrec>>,
         pc = "doorbell" <=> pc' = "doorbell"
  PROVE  NicInv'
  BY DEF NicInv, Unread, Fetched, nicVars

\* Steps that hand no mbuf over.
LEMMA OwnerFrame ==
  ASSUME OneOwner, UNCHANGED <<pool, req, inflight, mbs>>
  PROVE  OneOwner'
  BY DEF OneOwner, HeldMbufs, RingMbufs, GatheredMbufs

---------------------------------------------------------------------------
\* One lemma per action: the action preserves the invariant.

\* Taking an mbuf from the pool moves it from the pool to the caller.
LEMMA TransmitOneInv ==
  ASSUME IndInv, NEW m \in Mbufs, NEW s \in Shapes, TransmitOne(m, s)
  PROVE  IndInv'
<1> USE DEF IndInv
<1>1. TypeOK'
  BY DEF TransmitOne, TypeOK, nicVars, ringVars
<1>2. RingAccounting' /\ LayoutInv'
  BY LayoutFrame DEF TransmitOne
<1>3. ControlInv'
  BY MbufAssumption DEF TransmitOne, ControlInv, NoReq, nicVars, nr_inflight_tx
<1>4. RecordedUntilReaped' /\ UnfetchedWqesIntact' /\ CqInv'
  BY RecordedFrame, WqesFrame, CqFrame DEF TransmitOne, nicVars, ringVars
<1>5. OneOwner'
  <2>1. req = NoReq /\ m \in pool /\ m # NULL
    BY MbufAssumption DEF TransmitOne, ControlInv
  <2>2. HeldMbufs = {} /\ HeldMbufs' = {m} /\ RingMbufs' = RingMbufs
        /\ GatheredMbufs' = GatheredMbufs /\ pool' = pool \ {m}
    BY <2>1 DEF TransmitOne, HeldMbufs, RingMbufs, GatheredMbufs, NoReq
  <2>3. UNCHANGED <<inflight, mbs>>
    BY DEF TransmitOne
  <2> QED
    BY <2>1, <2>2, <2>3 DEF OneOwner
<1>6. NicInv'
  BY NicFrame DEF TransmitOne, ringVars
<1> QED
  BY <1>1, <1>2, <1>3, <1>4, <1>5, <1>6

\* nr_inflight_tx is small enough for the subtraction in FreeWqes to be exact.
LEMMA FreeWqesExact ==
  ASSUME TypeOK, RingAccounting
  PROVE  /\ nr_inflight_tx \in 0 .. WqeCnt
         /\ FreeWqes = WqeCnt - nr_inflight_tx
<1>1. nr_inflight_tx \in 0 .. WqeCnt
  BY Moduli, CounterFacts, SMTT(30) DEF TypeOK, RingAccounting, nr_inflight_tx
<1>2. WqeCnt \in Counter /\ nr_inflight_tx \in Counter
  BY <1>1, Moduli DEF Counter
<1> QED
  BY <1>1, <1>2, SubDef, Moduli DEF FreeWqes

\* The room check reaches "fill" only if the send fits.
LEMMA CheckRoomInv ==
  ASSUME IndInv, CheckRoom
  PROVE  IndInv'
<1> USE DEF IndInv
<1>1. TypeOK'
  BY DEF CheckRoom, TypeOK, nicVars, ringVars
<1>2. RingAccounting' /\ LayoutInv'
  BY LayoutFrame DEF CheckRoom
<1>3. ControlInv'
  <2>1. req.shape \in Shapes
    BY DEF CheckRoom, ControlInv, TypeOK
  <2>2. NumWqes(req.shape) \in Nat
    BY <2>1, ShapeFacts
  <2>3. pc' = "fill" => nr_inflight_tx' + NumWqes(req'.shape) <= WqeCnt
    BY <2>2, FreeWqesExact, Moduli DEF CheckRoom, nr_inflight_tx
  <2> QED
    BY <2>3 DEF CheckRoom, ControlInv, nicVars, Fetched
<1>4. RecordedUntilReaped' /\ UnfetchedWqesIntact' /\ CqInv' /\ OneOwner'
  BY RecordedFrame, WqesFrame, CqFrame, OwnerFrame DEF CheckRoom, nicVars, ringVars
<1>5. NicInv'
  BY NicFrame DEF CheckRoom, ringVars
<1> QED
  BY <1>1, <1>2, <1>3, <1>4, <1>5

\* So does the check made after reaping.
LEMMA RecheckRoomInv ==
  ASSUME IndInv, RecheckRoom
  PROVE  IndInv'
<1> USE DEF IndInv
<1>1. TypeOK'
  BY DEF RecheckRoom, TypeOK, nicVars, ringVars
<1>2. RingAccounting' /\ LayoutInv'
  BY LayoutFrame DEF RecheckRoom
<1>3. ControlInv'
  <2>1. req.shape \in Shapes
    BY DEF RecheckRoom, ControlInv, TypeOK
  <2>2. NumWqes(req.shape) \in Nat
    BY <2>1, ShapeFacts
  <2>3. pc' = "fill" => nr_inflight_tx' + NumWqes(req'.shape) <= WqeCnt
    BY <2>2, FreeWqesExact, Moduli DEF RecheckRoom, nr_inflight_tx
  <2> QED
    BY <2>3 DEF RecheckRoom, ControlInv, nicVars, Fetched
<1>4. RecordedUntilReaped' /\ UnfetchedWqesIntact' /\ CqInv' /\ OneOwner'
  BY RecordedFrame, WqesFrame, CqFrame, OwnerFrame DEF RecheckRoom, nicVars, ringVars
<1>5. NicInv'
  BY NicFrame DEF RecheckRoom, ringVars
<1> QED
  BY <1>1, <1>2, <1>3, <1>4, <1>5

\* The panic ends the thread and changes nothing else.
LEMMA GatherPanicInv ==
  ASSUME IndInv, GatherPanic
  PROVE  IndInv'
<1> USE DEF IndInv
<1>1. TypeOK'
  BY DEF GatherPanic, TypeOK, nicVars, ringVars
<1>2. RingAccounting' /\ LayoutInv'
  BY LayoutFrame DEF GatherPanic
<1>3. ControlInv'
  BY DEF GatherPanic, ControlInv
<1>4. RecordedUntilReaped' /\ UnfetchedWqesIntact' /\ CqInv' /\ OneOwner'
  BY RecordedFrame, WqesFrame, CqFrame, OwnerFrame DEF GatherPanic, nicVars, ringVars
<1>5. NicInv'
  BY NicFrame DEF GatherPanic, ringVars
<1> QED
  BY <1>1, <1>2, <1>3, <1>4, <1>5

\* Freeing the gathered mbufs and publishing the consumer index.
LEMMA GatherDoneInv ==
  ASSUME IndInv, GatherDone
  PROVE  IndInv'
<1> USE DEF IndInv
<1>1. cq_head % CqDbMod \in 0 .. CqDbMod - 1 /\ (cq_head - 0) % CqDbMod = cq_head % CqDbMod
  <2>1. CqDbMod \in Nat \ {0} /\ cq_head \in Int /\ cq_head - 0 = cq_head
    BY Moduli DEF TypeOK, Counter
  <2>2. cq_head % CqDbMod \in 0 .. CqDbMod - 1
    BY <2>1, DivMod
  <2> QED
    BY <2>1, <2>2
<1>2. TypeOK'
  BY <1>1, CleanAssumption DEF GatherDone, TypeOK, nicVars
<1>3. RingAccounting' /\ LayoutInv'
  BY LayoutFrame DEF GatherDone
<1>4. mbs' = <<>> /\ Len(mbs') = 0 /\ Len(mbs) \in Nat /\ Len(inflight) \in Nat
  BY DEF GatherDone, TypeOK
<1>5. ControlInv'
  BY <1>4, Moduli DEF GatherDone, ControlInv, TypeOK
<1>6. RecordedUntilReaped' /\ UnfetchedWqesIntact'
  BY RecordedFrame, WqesFrame DEF GatherDone, nicVars
<1>7. OneOwner'
  <2>1. /\ HeldMbufs' = HeldMbufs /\ RingMbufs' = RingMbufs /\ GatheredMbufs' = {}
        /\ pool' = pool \cup GatheredMbufs
    BY DEF GatherDone, HeldMbufs, RingMbufs, GatheredMbufs
  <2>2. UNCHANGED inflight
    BY DEF GatherDone
  <2>3. mbs' = <<>>
    BY DEF GatherDone
  <2> QED
    BY <2>1, <2>2, <2>3 DEF OneOwner
<1>8. NicInv'
  BY NicFrame DEF GatherDone, TypeOK
<1>9. CqInv'
  <2>1. cq_dbrec' = (cq_head' - Len(mbs')) % CqDbMod
    BY <1>1, <1>4 DEF GatherDone
  <2>2. UNCHANGED <<cqes, cq_head, nic_cq, inflight>>
    BY DEF GatherDone, nicVars
  <2> QED
    BY <2>1, <2>2 DEF CqInv, Unread, cqe_status
<1> QED
  BY <1>2, <1>3, <1>5, <1>6, <1>7, <1>8, <1>9

\* The doorbell record catches up with sq_head.
LEMMA RingDoorbellInv ==
  ASSUME IndInv, RingDoorbell
  PROVE  IndInv'
<1> USE DEF IndInv
<1>1. sq_head % WqeIdxMod \in 0 .. WqeIdxMod - 1
  <2>1. WqeIdxMod \in Nat \ {0} /\ sq_head \in Int
    BY Moduli DEF TypeOK, Counter
  <2> QED
    BY <2>1, DivMod
<1>2. TypeOK'
  BY <1>1 DEF RingDoorbell, TypeOK, nicVars
<1>3. RingAccounting' /\ LayoutInv'
  BY LayoutFrame DEF RingDoorbell
<1>4. ControlInv'
  BY DEF RingDoorbell, ControlInv
<1>5. RecordedUntilReaped' /\ UnfetchedWqesIntact' /\ CqInv' /\ OneOwner'
  BY RecordedFrame, WqesFrame, CqFrame, OwnerFrame DEF RingDoorbell, nicVars
<1>6. NicInv'
  BY DEF RingDoorbell, NicInv, nicVars, Fetched, Unread
<1> QED
  BY <1>2, <1>3, <1>4, <1>5, <1>6

\* What the counts of the two sides amount to in any state of the invariant.
LEMMA Counts ==
  ASSUME IndInv
  PROVE  /\ Len(inflight) \in Nat /\ Len(dma) \in Nat /\ Len(mbs) \in Nat
         /\ Unread \in Nat /\ Fetched \in Nat
         /\ Fetched = Unread + Len(dma) /\ Fetched <= Len(inflight)
         /\ Unread <= Len(inflight) /\ Len(inflight) + Len(mbs) <= WqeCnt
         /\ WqeCnt \in Nat /\ CqeCnt \in Nat /\ CounterMod \in Nat
         /\ WqeCnt <= CqeCnt /\ CqeCnt < CounterMod /\ WqeCnt < CounterMod /\ 0 < WqeCnt
         /\ DOMAIN inflight = 1 .. Len(inflight)
         /\ DOMAIN dma = 1 .. Len(dma)
         /\ DOMAIN mbs = 1 .. Len(mbs)
<1>1. Len(inflight) \in Nat /\ Len(dma) \in Nat /\ Len(mbs) \in Nat
  BY DEF IndInv, TypeOK
<1>2. Unread \in Nat
  BY CounterFacts, Moduli DEF IndInv, TypeOK, Unread
<1>3. Fetched \in Nat /\ Fetched = Unread + Len(dma) /\ Fetched <= Len(inflight)
  BY <1>1, <1>2 DEF IndInv, NicInv, Fetched
<1>4. /\ WqeCnt \in Nat /\ CqeCnt \in Nat /\ CounterMod \in Nat
      /\ WqeCnt <= CqeCnt /\ CqeCnt < CounterMod /\ WqeCnt < CounterMod /\ 0 < WqeCnt
  BY Moduli
<1>5. /\ DOMAIN inflight = 1 .. Len(inflight)
      /\ DOMAIN dma = 1 .. Len(dma)
      /\ DOMAIN mbs = 1 .. Len(mbs)
  BY DEF IndInv, TypeOK
<1>6. Len(inflight) + Len(mbs) <= WqeCnt
  BY DEF IndInv, ControlInv
<1> QED
  BY <1>1, <1>2, <1>3, <1>4, <1>5, <1>6

\* What the sequences hold.
LEMMA ElementTypes ==
  ASSUME TypeOK
  PROVE  /\ \A i \in DOMAIN inflight : /\ inflight[i] \in Send /\ inflight[i].m \in Mbufs
                                       /\ inflight[i].start \in Counter /\ inflight[i].n \in Nat
                                       /\ Off(i) \in Nat
         /\ \A i \in DOMAIN dma : dma[i] \in [m : Mbufs, idx : 0 .. WqeIdxMod - 1]
<1>1. /\ inflight \in Seq(Send) /\ true_cq_head \in Counter
      /\ dma \in Seq([m : Mbufs, idx : 0 .. WqeIdxMod - 1])
  BY DEF TypeOK
<1>2. ASSUME NEW i \in DOMAIN inflight
      PROVE  /\ inflight[i] \in Send /\ inflight[i].m \in Mbufs
             /\ inflight[i].start \in Counter /\ inflight[i].n \in Nat
             /\ Off(i) \in Nat
  <2>1. inflight[i] \in Send
    BY <1>1
  <2>2. inflight[i].m \in Mbufs /\ inflight[i].start \in Counter /\ inflight[i].n \in Nat
    BY <2>1 DEF Send
  <2>3. Off(i) \in Nat
    BY <1>1, <2>2, CounterFacts, Moduli DEF Off
  <2> QED
    BY <2>1, <2>2, <2>3
<1>3. ASSUME NEW S, dma \in Seq(S), NEW i \in DOMAIN dma PROVE dma[i] \in S
  BY <1>3
<1> QED
  BY <1>1, <1>2, <1>3

\* The NIC fetches the WQE of the oldest unfetched send, and only that.
LEMMA NicFetchInv ==
  ASSUME IndInv, NicFetch
  PROVE  IndInv'
<1> DEFINE s == inflight[Fetched + 1]
           w == wqes[SlotOf(nic_head)]
<1>0. /\ TypeOK /\ RingAccounting /\ LayoutInv /\ ControlInv /\ RecordedUntilReaped
      /\ UnfetchedWqesIntact /\ OneOwner /\ NicInv /\ CqInv
  BY DEF IndInv
<1>1. Fetched < Len(inflight) /\ (pc = "doorbell" => Fetched + 1 < Len(inflight))
  <2>1. Fetched \in Nat /\ Len(inflight) \in Nat /\ Fetched <= Len(inflight)
    BY Counts
  <2>2. /\ nic_head # dbrec /\ (pc = "doorbell" => Fetched < Len(inflight))
        /\ nic_head = (IF Fetched < Len(inflight) THEN inflight[Fetched + 1].start ELSE sq_head) % WqeIdxMod
        /\ dbrec = (IF pc = "doorbell" THEN inflight[Len(inflight)].start ELSE sq_head) % WqeIdxMod
    BY <1>0 DEF NicFetch, NicInv, ControlInv
  <2>3. CASE pc = "doorbell"
    <3>1. Fetched + 1 # Len(inflight)
      BY <2>2, <2>3
    <3> QED
      BY <2>1, <2>2, <2>3, <3>1
  <2>4. CASE pc # "doorbell"
    <3>1. Fetched < Len(inflight)
      BY <2>2, <2>4
    <3> QED
      BY <2>4, <3>1
  <2> QED
    BY <2>3, <2>4
<1>2. s \in Send /\ nic_head = s.start % WqeIdxMod
  BY <1>0, <1>1, Counts, SMTT(30) DEF NicInv, TypeOK
<1>3. s.start \in Counter /\ s.n \in Nat /\ s.m \in Mbufs
  BY <1>2 DEF Send
<1>4. SlotOf(nic_head) = SlotOf(s.start) /\ SlotOf(s.start) \in Slot
  BY <1>2, <1>3, SlotOfIdx
<1>5. w # NULL /\ w.m = s.m /\ BlocksOf(w.ds) = s.n
  <2>1. Fetched + 1 \in DOMAIN inflight /\ Fetched + 1 > Unread + Len(dma)
    BY <1>1, Counts
  <2> QED
    BY <1>0, <1>4, <2>1 DEF UnfetchedWqesIntact
<1>6. nic_head' = Add(s.start, s.n) % WqeIdxMod /\ nic_head' \in 0 .. WqeIdxMod - 1
  <2>1. /\ WqeIdxMod \in Nat \ {0} /\ CounterMod \in Nat \ {0}
        /\ s.start \in Int /\ s.n \in Int /\ s.start + s.n \in Int
    BY <1>3, Moduli DEF Counter
  <2>2. CounterMod % WqeIdxMod = 0
    BY WidthAssumption, Zenon
  <2>3. nic_head' = ((s.start % WqeIdxMod) + s.n) % WqeIdxMod
    BY <1>2, <1>5 DEF NicFetch
  <2>4. ((s.start % WqeIdxMod) + s.n) % WqeIdxMod = (s.start + s.n) % WqeIdxMod
    BY <2>1, ModAdd
  <2>5. ((s.start + s.n) % CounterMod) % WqeIdxMod = (s.start + s.n) % WqeIdxMod
    BY <2>1, <2>2, ModOfMod, ZenonT(40)
  <2>6. (s.start + s.n) % WqeIdxMod \in 0 .. WqeIdxMod - 1
    BY <2>1, DivMod
  <2> QED
    BY <2>3, <2>4, <2>5, <2>6 DEF Add
<1>7. /\ dma' = Append(dma, [m |-> s.m, idx |-> s.start % WqeIdxMod])
      /\ UNCHANGED <<cpuVars, ringVars, nic_cq, inflight>>
  BY <1>2, <1>5 DEF NicFetch
<1>8. /\ Unread' = Unread
      /\ Len(dma') = Len(dma) + 1
      /\ Fetched' = Fetched + 1
  <2>1. Unread' = Unread
    BY <1>7 DEF Unread, cpuVars
  <2>2. Len(dma') = Len(dma) + 1
    BY <1>0, <1>7 DEF TypeOK
  <2> QED
    BY <2>1, <2>2, Counts DEF Fetched
<1>9. TypeOK'
  <2>1. [m |-> s.m, idx |-> s.start % WqeIdxMod] \in [m : Mbufs, idx : 0 .. WqeIdxMod - 1]
    BY <1>0, <1>2, <1>3 DEF TypeOK
  <2>2. dma' \in Seq([m : Mbufs, idx : 0 .. WqeIdxMod - 1])
    BY <1>0, <1>7, <2>1 DEF TypeOK
  <2> QED
    BY <1>0, <1>6, <1>7, <2>2 DEF TypeOK, cpuVars, ringVars
<1>10. RingAccounting' /\ LayoutInv'
  BY <1>0, <1>7, LayoutFrame DEF cpuVars
<1>11. ControlInv'
  BY <1>0, <1>1, <1>7, <1>8, Counts DEF ControlInv, cpuVars, nr_inflight_tx
<1>12. RecordedUntilReaped' /\ CqInv' /\ OneOwner'
  BY <1>0, <1>7, RecordedFrame, CqFrame, OwnerFrame DEF cpuVars, ringVars
<1>13. UnfetchedWqesIntact'
  BY <1>0, <1>7, <1>8, Counts, SMTT(30) DEF UnfetchedWqesIntact, ringVars
<1>14. NicInv'
  <2>1. Fetched' <= Len(inflight')
    BY <1>1, <1>7, <1>8, Counts
  <2>2. nic_head' = (IF Fetched' < Len(inflight') THEN inflight'[Fetched' + 1].start
                     ELSE sq_head') % WqeIdxMod
    <3>1. CASE Fetched + 1 < Len(inflight)
      <4>1. Fetched + 2 \in DOMAIN inflight /\ Fetched + 2 # 1 /\ (Fetched + 2) - 1 = Fetched + 1
        BY <3>1, Counts
      <4>2. inflight[Fetched + 2].start = Add(s.start, s.n)
        BY <1>0, <4>1 DEF RingAccounting
      <4>3. Fetched' < Len(inflight') /\ Fetched' + 1 = Fetched + 2
        BY <1>7, <1>8, <3>1, Counts, SMTT(30)
      <4> QED
        BY <1>6, <1>7, <4>2, <4>3
    <3>2. CASE Fetched + 1 = Len(inflight)
      <4>1. sq_head = Add(s.start, s.n)
        BY <1>0, <1>1, <3>2, Counts DEF RingAccounting
      <4>2. ~(Fetched' < Len(inflight'))
        BY <1>7, <1>8, <3>2, Counts
      <4> QED
        BY <1>6, <1>7, <4>1, <4>2 DEF cpuVars
    <3> QED
      BY <1>1, <3>1, <3>2, Counts
  <2>3. \A k \in DOMAIN dma' :
           dma'[k] = [m |-> inflight'[Unread' + k].m,
                      idx |-> inflight'[Unread' + k].start % WqeIdxMod]
    <3> SUFFICES ASSUME NEW k \in 1 .. Len(dma) + 1
                 PROVE  dma'[k] = [m |-> inflight[Unread + k].m,
                                   idx |-> inflight[Unread + k].start % WqeIdxMod]
      <4>1. DOMAIN dma' = 1 .. Len(dma) + 1
        BY <1>0, <1>7, Counts DEF TypeOK
      <4>2. inflight' = inflight /\ Unread' = Unread
        BY <1>7, <1>8
      <4> QED
        BY <4>1, <4>2
    <3>1. CASE k \in 1 .. Len(dma)
      <4>1. dma'[k] = dma[k]
        BY <1>0, <1>7, <3>1 DEF TypeOK
      <4> QED
        BY <1>0, <3>1, <4>1, Counts DEF NicInv
    <3>2. CASE k = Len(dma) + 1
      <4>1. Unread + k = Fetched + 1
        BY <3>2, Counts
      <4>2. dma'[k] = [m |-> s.m, idx |-> s.start % WqeIdxMod]
        BY <1>0, <1>7, <3>2 DEF TypeOK
      <4> QED
        BY <4>1, <4>2
    <3> QED
      BY <3>1, <3>2, Counts, SMTT(30)
  <2> QED
    BY <1>0, <1>7, <2>1, <2>2, <2>3 DEF NicInv, cpuVars, ringVars
<1> QED
  BY <1>9, <1>10, <1>11, <1>12, <1>13, <1>14 DEF IndInv

\* The send whose CQE is posted is one the CPU has not reaped.
LEMMA NicCompleteEffect ==
  ASSUME IndInv, NEW outcome \in Outcomes, NicComplete(outcome)
  PROVE  /\ Len(dma) >= 1 /\ Unread < Len(inflight) /\ Unread < CqeCnt
         /\ Unread' = Unread + 1
<1>0. /\ TypeOK /\ RingAccounting /\ LayoutInv /\ ControlInv /\ RecordedUntilReaped
      /\ UnfetchedWqesIntact /\ OneOwner /\ NicInv /\ CqInv
  BY DEF IndInv
<1>1. Len(dma) >= 1 /\ Unread < Len(inflight) /\ Unread < CqeCnt
  BY <1>0, Counts, SMTT(30) DEF NicComplete, TypeOK
<1>2. /\ UNCHANGED <<cpuVars, wqes, dbrec, cq_dbrec, nic_head, inflight>>
      /\ nic_cq' = Add(nic_cq, 1)
      /\ dma' = Tail(dma)
      /\ cqes' = [cqes EXCEPT ![CqSlotOf(nic_cq)] =
                    [opcode |-> outcome, owner |-> Parity(nic_cq), wqe_counter |-> Head(dma).idx]]
  BY DEF NicComplete
<1>3. nic_cq \in Counter /\ cq_head \in Counter
  BY <1>0 DEF TypeOK
<1>4. Unread' = Unread + 1
  <2>1. Sub(Add(nic_cq, 1), cq_head) = Sub(nic_cq, cq_head) + 1
    <3>1. Sub(nic_cq, cq_head) + 1 < CounterMod
      BY <1>1, Counts DEF Unread
    <3> QED
      BY <1>3, <3>1, SubExtend
  <2> QED
    BY <1>2, <2>1 DEF Unread, cpuVars
<1> QED
  BY <1>1, <1>4

\* A CQE written by the NIC lands in the entry after the unread ones.
LEMMA NicCompleteInv ==
  ASSUME IndInv, NEW outcome \in Outcomes, NicComplete(outcome)
  PROVE  IndInv'
<1>0. /\ TypeOK /\ RingAccounting /\ LayoutInv /\ ControlInv /\ RecordedUntilReaped
      /\ UnfetchedWqesIntact /\ OneOwner /\ NicInv /\ CqInv
  BY DEF IndInv
<1>1. Len(dma) >= 1 /\ Unread < Len(inflight) /\ Unread < CqeCnt
  BY NicCompleteEffect
<1>2. /\ UNCHANGED <<cpuVars, wqes, dbrec, cq_dbrec, nic_head, inflight>>
      /\ nic_cq' = Add(nic_cq, 1)
      /\ dma' = Tail(dma)
      /\ cqes' = [cqes EXCEPT ![CqSlotOf(nic_cq)] =
                    [opcode |-> outcome, owner |-> Parity(nic_cq), wqe_counter |-> Head(dma).idx]]
  BY DEF NicComplete
<1>3. nic_cq \in Counter /\ cq_head \in Counter
  BY <1>0 DEF TypeOK
<1>4. Unread' = Unread + 1
  BY NicCompleteEffect
<1>5. /\ Len(dma') = Len(dma) - 1
      /\ DOMAIN dma' = 1 .. Len(dma) - 1
      /\ \A k \in 1 .. Len(dma) - 1 : dma'[k] = dma[k + 1]
      /\ dma' \in Seq([m : Mbufs, idx : 0 .. WqeIdxMod - 1])
      /\ Head(dma) = dma[1]
  BY <1>0, <1>1, <1>2 DEF TypeOK
<1>6. Fetched' = Fetched
  BY <1>4, <1>5, Counts, SMTT(30) DEF Fetched
<1>7. Head(dma).idx = inflight[Unread + 1].start % WqeIdxMod
      /\ Head(dma).idx \in 0 .. WqeIdxMod - 1
  <2>1. 1 \in DOMAIN dma
    BY <1>1, Counts
  <2>2. dma[1].idx = inflight[Unread + 1].start % WqeIdxMod
    BY <1>0, <2>1 DEF NicInv
  <2>3. dma[1].idx \in 0 .. WqeIdxMod - 1
    <3>1. dma[1] \in [m : Mbufs, idx : 0 .. WqeIdxMod - 1]
      BY <1>0, <2>1, ElementTypes
    <3> QED
      BY <3>1
  <2> QED
    BY <1>5, <2>2, <2>3
<1>8. TypeOK'
  <2>1. nic_cq' \in Counter
    <3>1. 1 \in 0 .. CounterMod /\ 0 \in 0 .. CounterMod /\ 1 + 0 <= CounterMod
      BY Counts
    <3> QED
      BY <1>2, <1>3, <3>1, AddFacts
  <2>2. [opcode |-> outcome, owner |-> Parity(nic_cq), wqe_counter |-> Head(dma).idx]
          \in [opcode : {"INVALID", "REQ", "REQ_ERR"}, owner : {0, 1},
               wqe_counter : 0 .. WqeIdxMod - 1]
    BY <1>3, <1>7, CqLap, MbufAssumption
  <2>3. cqes' \in [CqSlot -> [opcode : {"INVALID", "REQ", "REQ_ERR"}, owner : {0, 1},
                             wqe_counter : 0 .. WqeIdxMod - 1]]
    BY <1>0, <1>2, <2>2 DEF TypeOK
  <2> QED
    BY <1>0, <1>2, <1>5, <2>1, <2>3 DEF TypeOK, cpuVars
<1>9. RingAccounting' /\ LayoutInv'
  BY <1>0, <1>2, LayoutFrame DEF cpuVars
<1>10. ControlInv'
  BY <1>0, <1>2, <1>6 DEF ControlInv, cpuVars, nr_inflight_tx
<1>11. RecordedUntilReaped' /\ OneOwner'
  BY <1>0, <1>2, RecordedFrame, OwnerFrame DEF cpuVars
<1>12. UnfetchedWqesIntact'
  <2>1. Unread' + Len(dma') = Unread + Len(dma)
    BY <1>4, <1>5, Counts
  <2> QED
    BY <1>0, <1>2, <2>1 DEF UnfetchedWqesIntact
<1>13. NicInv'
  <2>1. \A k \in DOMAIN dma' :
           dma'[k] = [m |-> inflight'[Unread' + k].m,
                      idx |-> inflight'[Unread' + k].start % WqeIdxMod]
    <3> SUFFICES ASSUME NEW k \in 1 .. Len(dma) - 1
                 PROVE  dma'[k] = [m |-> inflight[(Unread + 1) + k].m,
                                   idx |-> inflight[(Unread + 1) + k].start % WqeIdxMod]
      BY <1>2, <1>4, <1>5
    <3>1. k + 1 \in DOMAIN dma /\ Unread + (k + 1) = (Unread + 1) + k
      BY Counts
    <3>2. dma[k + 1] = [m |-> inflight[Unread + (k + 1)].m,
                        idx |-> inflight[Unread + (k + 1)].start % WqeIdxMod]
      BY <1>0, <3>1 DEF NicInv
    <3> QED
      BY <1>5, <3>1, <3>2
  <2> QED
    BY <1>0, <1>2, <1>6, <2>1 DEF NicInv, cpuVars
<1>14. CqInv'
  <2>1. nic_cq = Add(cq_head, Unread)
    BY <1>3, CounterFacts DEF Unread
  <2>2. ASSUME NEW k \in 0 .. CqeCnt - 1, k # Unread
        PROVE  cqes'[CqSlotOf(Add(cq_head, k))] = cqes[CqSlotOf(Add(cq_head, k))]
    <3>1. CqSlotOf(Add(cq_head, k)) # CqSlotOf(nic_cq)
      BY <1>1, <1>3, <2>1, <2>2, Counts, CqSlotsDiffer
    <3>2. Add(cq_head, k) \in Counter
      <4>1. k \in 0 .. CounterMod /\ 0 \in 0 .. CounterMod /\ k + 0 <= CounterMod
        BY Counts
      <4> QED
        BY <1>3, <4>1, AddFacts
    <3>3. CqSlotOf(Add(cq_head, k)) \in CqSlot
      BY <3>2, CqLap
    <3> QED
      BY <1>0, <1>2, <3>1, <3>3 DEF TypeOK
  <2>3. cqes'[CqSlotOf(nic_cq)] =
          [opcode |-> outcome, owner |-> Parity(nic_cq), wqe_counter |-> Head(dma).idx]
    BY <1>0, <1>2, <1>3, CqLap DEF TypeOK
  <2>4. ASSUME NEW k \in 0 .. Unread
        PROVE  LET head == Add(cq_head, k) cqe == cqes'[CqSlotOf(head)]
               IN  /\ cqe.opcode \in Outcomes
                   /\ cqe.owner = Parity(head)
                   /\ cqe.wqe_counter = inflight[k + 1].start % WqeIdxMod
    <3>1. CASE k = Unread
      BY <1>7, <2>1, <2>3, <3>1
    <3>2. CASE k # Unread
      <4>1. k \in 0 .. CqeCnt - 1 /\ k \in 0 .. Unread - 1
        BY <1>1, <3>2, Counts
      <4> QED
        BY <1>0, <2>2, <3>2, <4>1 DEF CqInv
    <3> QED
      BY <3>1, <3>2
  <2>5. ASSUME NEW k \in Unread + 1 .. CqeCnt - 1
        PROVE  cqe_status(cqes'[CqSlotOf(Add(cq_head, k))], Add(cq_head, k)) = "INVALID"
    <3>1. k \in 0 .. CqeCnt - 1 /\ k # Unread /\ k \in Unread .. CqeCnt - 1
      BY Counts
    <3> QED
      BY <1>0, <2>2, <3>1 DEF CqInv
  <2>6. 0 .. Unread' - 1 = 0 .. Unread /\ Unread' .. CqeCnt - 1 = Unread + 1 .. CqeCnt - 1
    BY <1>4, Counts
  <2>7. UNCHANGED <<cq_head, inflight, mbs, cq_dbrec>>
    BY <1>2 DEF cpuVars
  <2>8. cq_dbrec' = (cq_head' - Len(mbs')) % CqDbMod
    BY <1>0, <2>7 DEF CqInv
  <2> QED
    BY <2>4, <2>5, <2>6, <2>7, <2>8 DEF CqInv, cqe_status
<1> QED
  BY <1>8, <1>9, <1>10, <1>11, <1>12, <1>13, <1>14 DEF IndInv

\* GatherOne looks up the right mbuf and the right count: it reaps exactly
\* the oldest send, which the NIC has completed.
LEMMA GatherOneEffect ==
  ASSUME IndInv, GatherOne
  PROVE  /\ Unread >= 1 /\ Len(inflight) >= 1 /\ inflight[1] \in Send
         /\ inflight[1].start = true_cq_head
         /\ mbs' = Append(mbs, inflight[1].m)
         /\ true_cq_head' = Add(true_cq_head, inflight[1].n)
         /\ cq_head' = Add(cq_head, 1)
         /\ inflight' = Tail(inflight)
         /\ UNCHANGED <<sq_head, buffers, num_wqes, pc, req, after, pool, nicVars, ringVars>>
         /\ pc = "gather" /\ Len(mbs) < SQ_CLEAN_MAX
         /\ nr_inflight_tx \in Nat /\ nr_inflight_tx <= WqeCnt
         /\ inflight[1].n >= 1 /\ inflight[1].n <= nr_inflight_tx /\ Off(1) = 0
         /\ Unread' = Unread - 1
         /\ nr_inflight_tx' = nr_inflight_tx - inflight[1].n
<1> DEFINE s == inflight[1]
<1>0. /\ TypeOK /\ RingAccounting /\ LayoutInv /\ ControlInv /\ RecordedUntilReaped
      /\ UnfetchedWqesIntact /\ OneOwner /\ NicInv /\ CqInv
  BY DEF IndInv
<1>1. /\ sq_head \in Counter /\ true_cq_head \in Counter /\ cq_head \in Counter
      /\ nic_cq \in Counter /\ Add(cq_head, 0) = cq_head
  BY <1>0, CounterFacts DEF TypeOK
<1>2. Unread >= 1
  <2>1. Unread = 0 => cqe_status(PolledCqe, cq_head) = "INVALID"
    <3>1. Unread = 0 => 0 \in Unread .. CqeCnt - 1
      BY Counts
    <3> QED
      BY <1>0, <1>1, <3>1 DEF CqInv, PolledCqe
  <2> QED
    BY <2>1, Counts DEF GatherOne
<1>3. 1 \in DOMAIN inflight /\ s \in Send /\ Len(inflight) >= 1
  BY <1>0, <1>2, Counts DEF TypeOK
<1>4. s.start \in Counter /\ s.n \in Nat /\ s.m \in Mbufs /\ s.start = true_cq_head
  BY <1>0, <1>3 DEF Send, RingAccounting
<1>5. buffers[SlotOf(PolledCqe.wqe_counter)] = s.m /\ num_wqes[s.m] = s.n
  <2>1. 0 \in 0 .. Unread - 1 /\ 0 + 1 = 1
    BY <1>2, Counts
  <2>2. PolledCqe.wqe_counter = s.start % WqeIdxMod
    BY <1>0, <1>1, <2>1 DEF CqInv, PolledCqe
  <2>3. SlotOf(PolledCqe.wqe_counter) = SlotOf(s.start)
    BY <1>4, <2>2, SlotOfIdx
  <2> QED
    BY <1>0, <1>3, <2>3 DEF RecordedUntilReaped
<1>6. /\ mbs' = Append(mbs, s.m)
      /\ true_cq_head' = Add(true_cq_head, s.n)
      /\ cq_head' = Add(cq_head, 1)
      /\ inflight' = Tail(inflight)
      /\ UNCHANGED <<sq_head, buffers, num_wqes, pc, req, after, pool, nicVars, ringVars>>
      /\ pc = "gather" /\ Len(mbs) < SQ_CLEAN_MAX
  BY <1>5 DEF GatherOne
<1>9. /\ nr_inflight_tx \in Nat /\ nr_inflight_tx <= WqeCnt
      /\ s.n >= 1 /\ s.n <= nr_inflight_tx /\ Off(1) = 0
  <2>1. nr_inflight_tx \in Nat /\ nr_inflight_tx <= WqeCnt
    BY <1>0, FreeWqesExact, Moduli
  <2>2. Off(1) = 0
    BY <1>1, <1>4, CounterFacts DEF Off
  <2>3. s.n >= 1 /\ Off(1) + s.n + (Len(inflight) - 1) <= nr_inflight_tx
    BY <1>0, <1>3 DEF LayoutInv
  <2> QED
    BY <1>3, <1>4, <2>1, <2>2, <2>3, Counts, SMTT(30)
<1>10. Unread' = Unread - 1
  <2>1. Sub(nic_cq, Add(cq_head, 1)) = Sub(nic_cq, cq_head) - 1
    BY <1>1, <1>2, SubShrink DEF Unread
  <2> QED
    BY <1>6, <2>1 DEF Unread, nicVars
<1>11. nr_inflight_tx' = nr_inflight_tx - s.n
  <2>1. Sub(sq_head, Add(true_cq_head, s.n)) = Sub(sq_head, true_cq_head) - s.n
    BY <1>1, <1>4, <1>9, SubShrink DEF nr_inflight_tx
  <2> QED
    BY <1>6, <2>1 DEF nr_inflight_tx
<1> QED
  BY <1>2, <1>3, <1>4, <1>6, <1>9, <1>10, <1>11

\* Reaping the oldest send keeps the invariant.
LEMMA GatherOneInv ==
  ASSUME IndInv, GatherOne
  PROVE  IndInv'
<1> DEFINE s == inflight[1]
<1>0. /\ TypeOK /\ RingAccounting /\ LayoutInv /\ ControlInv /\ RecordedUntilReaped
      /\ UnfetchedWqesIntact /\ OneOwner /\ NicInv /\ CqInv
  BY DEF IndInv
<1>1. /\ sq_head \in Counter /\ true_cq_head \in Counter /\ cq_head \in Counter
      /\ nic_cq \in Counter /\ Add(cq_head, 0) = cq_head
  BY <1>0, CounterFacts DEF TypeOK
<1>2. Unread >= 1
  BY GatherOneEffect
<1>3. 1 \in DOMAIN inflight /\ s \in Send /\ Len(inflight) >= 1
  BY <1>0, GatherOneEffect DEF TypeOK
<1>4. s.start \in Counter /\ s.n \in Nat /\ s.m \in Mbufs /\ s.start = true_cq_head
  BY <1>3, GatherOneEffect DEF Send
<1>6. /\ mbs' = Append(mbs, s.m)
      /\ true_cq_head' = Add(true_cq_head, s.n)
      /\ cq_head' = Add(cq_head, 1)
      /\ inflight' = Tail(inflight)
      /\ UNCHANGED <<sq_head, buffers, num_wqes, pc, req, after, pool, nicVars, ringVars>>
      /\ pc = "gather" /\ Len(mbs) < SQ_CLEAN_MAX
  BY GatherOneEffect
<1>7. /\ Len(inflight') = Len(inflight) - 1
      /\ DOMAIN inflight' = 1 .. Len(inflight) - 1
      /\ \A i \in 1 .. Len(inflight) - 1 : inflight'[i] = inflight[i + 1]
      /\ inflight' \in Seq(Send)
  BY <1>0, <1>3, <1>6 DEF TypeOK
<1>8. /\ Len(mbs') = Len(mbs) + 1
      /\ DOMAIN mbs' = 1 .. Len(mbs) + 1
      /\ \A i \in 1 .. Len(mbs) : mbs'[i] = mbs[i]
      /\ mbs'[Len(mbs) + 1] = s.m
      /\ mbs' \in Seq(Mbufs)
  BY <1>0, <1>4, <1>6 DEF TypeOK
<1>9. /\ nr_inflight_tx \in Nat /\ nr_inflight_tx <= WqeCnt
      /\ s.n >= 1 /\ s.n <= nr_inflight_tx /\ Off(1) = 0
  BY GatherOneEffect
<1>10. Unread' = Unread - 1
  BY GatherOneEffect
<1>11. nr_inflight_tx' = nr_inflight_tx - s.n
  BY GatherOneEffect
<1>12. ASSUME NEW i \in 1 .. Len(inflight) - 1
       PROVE  Off(i)' = Off(i + 1) - s.n
  <2>1. i + 1 \in DOMAIN inflight /\ 1 < i + 1
    BY Counts
  <2>2. inflight[i + 1].start \in Counter
    BY <1>0, <2>1, ElementTypes
  <2>3. Off(i + 1) \in Nat
    BY <1>0, <2>1, ElementTypes
  <2>4. s.n <= Off(i + 1)
    <3>1. Off(1) + s.n + ((i + 1) - 1 - 1) <= Off(i + 1)
      BY <1>0, <1>3, <2>1 DEF LayoutInv
    <3> QED
      BY <1>4, <1>9, <2>3, <3>1, Counts, SMTT(30)
  <2>5. Sub(inflight[i + 1].start, Add(true_cq_head, s.n)) = Off(i + 1) - s.n
    BY <1>1, <1>4, <2>2, <2>4, SubShrink DEF Off
  <2> QED
    BY <1>6, <1>7, <2>5 DEF Off
<1>13. TypeOK'
  <2>1. true_cq_head' \in Counter /\ cq_head' \in Counter
    <3>1. s.n \in 0 .. CounterMod /\ 1 \in 0 .. CounterMod /\ 0 \in 0 .. CounterMod
          /\ s.n + 0 <= CounterMod /\ 1 + 0 <= CounterMod
      BY <1>4, <1>9, Counts
    <3> QED
      BY <1>1, <1>6, <3>1, AddFacts
  <2>2. Len(mbs') <= SQ_CLEAN_MAX
    BY <1>6, <1>8, Counts, CleanAssumption
  <2> QED
    BY <1>0, <1>6, <1>7, <1>8, <2>1, <2>2 DEF TypeOK, nicVars, ringVars
<1>14. RingAccounting'
  <2>1. nr_inflight_tx' <= WqeCnt
    BY <1>4, <1>9, <1>11, Counts, SMTT(30)
  <2>2. ASSUME NEW i \in 1 .. Len(inflight) - 1
        PROVE  inflight'[i].start = IF i = 1 THEN true_cq_head'
                                    ELSE Add(inflight'[i - 1].start, inflight'[i - 1].n)
    <3>1. i + 1 \in DOMAIN inflight /\ i + 1 # 1 /\ (i + 1) - 1 = i
      BY Counts
    <3>2. inflight[i + 1].start = Add(inflight[i].start, inflight[i].n)
      BY <1>0, <3>1 DEF RingAccounting
    <3>3. i # 1 => i - 1 \in 1 .. Len(inflight) - 1 /\ (i - 1) + 1 = i
      BY Counts
    <3> QED
      BY <1>4, <1>6, <1>7, <3>2, <3>3
  <2>3. sq_head' = IF inflight' = <<>> THEN true_cq_head'
                   ELSE Add(inflight'[Len(inflight')].start, inflight'[Len(inflight')].n)
    <3>1. inflight # <<>>
      BY <1>3
    <3>2. sq_head = Add(inflight[Len(inflight)].start, inflight[Len(inflight)].n)
      BY <1>0, <3>1 DEF RingAccounting
    <3>3. CASE Len(inflight) = 1
      <4>1. inflight' = <<>>
        BY <1>7, <3>3
      <4> QED
        BY <1>4, <1>6, <3>2, <3>3, <4>1
    <3>4. CASE Len(inflight) > 1
      <4>1. inflight' # <<>> /\ Len(inflight') \in 1 .. Len(inflight) - 1
            /\ Len(inflight') + 1 = Len(inflight)
        BY <1>7, <3>4, Counts
      <4> QED
        BY <1>6, <1>7, <3>2, <4>1
    <3> QED
      BY <1>3, <3>3, <3>4, Counts
  <2> QED
    BY <1>7, <2>1, <2>2, <2>3 DEF RingAccounting
<1>15. LayoutInv'
  <2>0. ASSUME NEW i \in 1 .. Len(inflight) - 1
        PROVE  i + 1 \in DOMAIN inflight /\ inflight[i + 1].n \in Nat /\ Off(i + 1) \in Nat
    <3>1. i + 1 \in DOMAIN inflight
      BY Counts
    <3> QED
      BY <1>0, <3>1, ElementTypes
  <2>1. ASSUME NEW i \in 1 .. Len(inflight) - 1
        PROVE  /\ inflight'[i].n >= 1
               /\ Off(i)' + inflight'[i].n + (Len(inflight') - i) <= nr_inflight_tx'
    <3>1. /\ inflight[i + 1].n >= 1
          /\ Off(i + 1) + inflight[i + 1].n + (Len(inflight) - (i + 1)) <= nr_inflight_tx
      <4>1. \A a \in DOMAIN inflight :
              /\ inflight[a].n >= 1
              /\ Off(a) + inflight[a].n + (Len(inflight) - a) <= nr_inflight_tx
        BY <1>0 DEF LayoutInv
      <4> HIDE DEF s
      <4> QED
        BY <2>0, <4>1, Zenon
    <3>2. Off(i)' = Off(i + 1) - s.n /\ inflight'[i] = inflight[i + 1]
      BY <1>7, <1>12
    <3>3. /\ Off(i + 1) \in Nat /\ inflight[i + 1].n \in Nat /\ s.n \in Nat
          /\ nr_inflight_tx \in Nat /\ Len(inflight) \in Nat
          /\ nr_inflight_tx' = nr_inflight_tx - s.n /\ Len(inflight') = Len(inflight) - 1
      BY <1>4, <1>7, <1>9, <1>11, <2>0, Counts
    <3>4. (Off(i + 1) - s.n) + inflight[i + 1].n + ((Len(inflight) - 1) - i)
             <= nr_inflight_tx - s.n
      <4> HIDE DEF s
      <4> QED
        BY <3>1, <3>3, SMTT(30)
    <3>5. Off(i)' + inflight'[i].n + (Len(inflight') - i) <= nr_inflight_tx'
      BY <3>2, <3>3, <3>4, Zenon
    <3> QED
      BY <3>1, <3>2, <3>5, Zenon
  <2>2. ASSUME NEW i \in 1 .. Len(inflight) - 1, NEW j \in 1 .. Len(inflight) - 1, i < j
        PROVE  Off(i)' + inflight'[i].n + (j - i - 1) <= Off(j)'
    <3>1. Off(i + 1) + inflight[i + 1].n + ((j + 1) - (i + 1) - 1) <= Off(j + 1)
      <4>1. \A a, b \in DOMAIN inflight :
              a < b => Off(a) + inflight[a].n + (b - a - 1) <= Off(b)
        BY <1>0 DEF LayoutInv
      <4>2. i + 1 < j + 1
        BY <2>2
      <4> HIDE DEF s
      <4> QED
        BY <2>0, <4>1, <4>2, Zenon
    <3>2. /\ Off(i)' = Off(i + 1) - s.n /\ Off(j)' = Off(j + 1) - s.n
          /\ inflight'[i] = inflight[i + 1]
      BY <1>7, <1>12
    <3>3. /\ Off(i + 1) \in Nat /\ Off(j + 1) \in Nat /\ inflight[i + 1].n \in Nat
          /\ s.n \in Nat
      BY <1>4, <2>0
    <3>4. (Off(i + 1) - s.n) + inflight[i + 1].n + (j - i - 1) <= Off(j + 1) - s.n
      <4> HIDE DEF s
      <4>1. PICK a \in Nat : a = Off(i + 1)
        BY <3>3, Zenon
      <4>2. PICK b \in Nat : b = Off(j + 1)
        BY <3>3, Zenon
      <4>3. PICK n \in Nat : n = inflight[i + 1].n
        BY <3>3, Zenon
      <4>4. PICK m \in Nat : m = s.n
        BY <3>3, Zenon
      <4>5. a + n + ((j + 1) - (i + 1) - 1) <= b
        BY <3>1, <4>1, <4>2, <4>3, Zenon
      <4>6. i \in Int /\ j \in Int
        OBVIOUS
      <4>7. (a - m) + n + (j - i - 1) <= b - m
        BY <4>5, <4>6
      <4> QED
        BY <4>1, <4>2, <4>3, <4>4, <4>7, Zenon
    <3> QED
      BY <3>2, <3>4, Zenon
  <2> QED
    BY <1>7, <2>1, <2>2 DEF LayoutInv, Off
<1>16. Fetched' = Fetched - 1 /\ Fetched >= 1
  BY <1>2, <1>6, <1>10, Counts DEF Fetched, nicVars
<1>17. ControlInv'
  BY <1>0, <1>6, <1>7, <1>8, Counts DEF ControlInv
<1>18. RecordedUntilReaped'
  BY <1>0, <1>6, <1>7, Counts, SMTT(30) DEF RecordedUntilReaped
<1>19. UnfetchedWqesIntact'
  <2> SUFFICES ASSUME NEW i \in 1 .. Len(inflight) - 1, i > (Unread - 1) + Len(dma)
               PROVE  LET t == inflight[i + 1]
                          w == wqes[SlotOf(t.start)]
                      IN  /\ w # NULL
                          /\ w.m = t.m /\ w.idx = t.start % WqeIdxMod /\ BlocksOf(w.ds) = t.n
                          /\ \A b \in Blocks(t.start, t.n) \ {SlotOf(t.start)} : wqes[b] = NULL
    BY <1>6, <1>7, <1>10 DEF UnfetchedWqesIntact, nicVars, ringVars
  <2>1. i + 1 \in DOMAIN inflight /\ i + 1 > Unread + Len(dma)
    BY Counts
  <2> QED
    BY <1>0, <2>1 DEF UnfetchedWqesIntact
<1>20. OneOwner'
  <2>1. \A i \in 1 .. Len(inflight) - 1 : i + 1 \in DOMAIN inflight /\ i + 1 # 1
    BY Counts
  <2>2. \A i \in DOMAIN inflight : i = 1 \/ (i - 1 \in 1 .. Len(inflight) - 1 /\ (i - 1) + 1 = i)
    BY Counts
  <2>3. \A i \in DOMAIN inflight : inflight[i].m = s.m => i = 1
    BY <1>0, <1>3 DEF OneOwner
  <2>4. RingMbufs' = RingMbufs \ {s.m}
    <3>1. \A x \in RingMbufs' : x \in RingMbufs /\ x # s.m
      BY <1>7, <2>1, <2>3 DEF RingMbufs
    <3>2. \A x \in RingMbufs : x = s.m \/ x \in RingMbufs'
      BY <1>7, <2>2, SMTT(30) DEF RingMbufs
    <3> QED
      BY <3>1, <3>2
  <2>5. s.m \in RingMbufs
    BY <1>3 DEF RingMbufs
  <2>6. GatheredMbufs' = GatheredMbufs \cup {s.m}
    <3>1. \A i \in 1 .. Len(mbs) + 1 : i \in 1 .. Len(mbs) \/ i = Len(mbs) + 1
      BY Counts
    <3>2. 1 .. Len(mbs) \subseteq 1 .. Len(mbs) + 1 /\ Len(mbs) + 1 \in 1 .. Len(mbs) + 1
      BY Counts
    <3> QED
      BY <1>8, <3>1, <3>2, Counts DEF GatheredMbufs
  <2>7. HeldMbufs' = HeldMbufs /\ pool' = pool
    BY <1>6 DEF HeldMbufs
  <2>8. \A i, j \in DOMAIN inflight' : inflight'[i].m = inflight'[j].m => i = j
    <3> SUFFICES ASSUME NEW i \in 1 .. Len(inflight) - 1, NEW j \in 1 .. Len(inflight) - 1,
                        inflight[i + 1].m = inflight[j + 1].m
                 PROVE  i = j
      BY <1>7
    <3>1. i + 1 = j + 1
      BY <1>0, <2>1 DEF OneOwner
    <3> QED
      BY <3>1
  <2>9. \A i, j \in DOMAIN mbs' : mbs'[i] = mbs'[j] => i = j
    <3>1. s.m \notin GatheredMbufs
      BY <1>0, <2>5 DEF OneOwner
    <3>2. \A i \in 1 .. Len(mbs) : mbs[i] # s.m
      BY <3>1, Counts DEF GatheredMbufs
    <3>3. \A i, j \in 1 .. Len(mbs) : mbs[i] = mbs[j] => i = j
      BY <1>0, Counts DEF OneOwner
    <3>4. \A i \in 1 .. Len(mbs) + 1 : i \in 1 .. Len(mbs) \/ i = Len(mbs) + 1
      BY Counts
    <3> QED
      BY <1>8, <3>2, <3>3, <3>4
  <2>10. /\ Mbufs = pool \cup HeldMbufs \cup RingMbufs \cup GatheredMbufs
         /\ pool \cap HeldMbufs = {} /\ pool \cap RingMbufs = {} /\ pool \cap GatheredMbufs = {}
         /\ HeldMbufs \cap RingMbufs = {} /\ HeldMbufs \cap GatheredMbufs = {}
         /\ RingMbufs \cap GatheredMbufs = {}
    BY <1>0 DEF OneOwner
  <2> QED
    BY <2>4, <2>5, <2>6, <2>7, <2>8, <2>9, <2>10 DEF OneOwner
<1>21. NicInv'
  <2>1. Fetched' <= Len(inflight')
    BY <1>7, <1>16, Counts, SMTT(30)
  <2>2. nic_head' = (IF Fetched' < Len(inflight') THEN inflight'[Fetched' + 1].start
                     ELSE sq_head') % WqeIdxMod
    <3>1. Fetched' < Len(inflight') <=> Fetched < Len(inflight)
      BY <1>7, <1>16, Counts, SMTT(30)
    <3>2. Fetched < Len(inflight) => inflight'[Fetched' + 1] = inflight[Fetched + 1]
      BY <1>7, <1>16, Counts, SMTT(30)
    <3> QED
      BY <1>0, <1>6, <3>1, <3>2 DEF NicInv, nicVars
  <2>3. \A k \in DOMAIN dma' :
           dma'[k] = [m |-> inflight'[Unread' + k].m,
                      idx |-> inflight'[Unread' + k].start % WqeIdxMod]
    <3> SUFFICES ASSUME NEW k \in DOMAIN dma
                 PROVE  dma[k] = [m |-> inflight'[(Unread - 1) + k].m,
                                  idx |-> inflight'[(Unread - 1) + k].start % WqeIdxMod]
      BY <1>6, <1>10 DEF nicVars
    <3>1. (Unread - 1) + k \in 1 .. Len(inflight) - 1 /\ ((Unread - 1) + k) + 1 = Unread + k
      BY <1>2, Counts, SMTT(30)
    <3> QED
      BY <1>0, <1>7, <3>1 DEF NicInv
  <2> QED
    BY <1>0, <1>6, <2>1, <2>2, <2>3 DEF NicInv, ringVars
<1>22. CqInv'
  <2>1. ASSUME NEW k \in 0 .. CqeCnt - 1
        PROVE  Add(cq_head', k) = Add(cq_head, k + 1)
    <3>1. 1 \in 0 .. CounterMod /\ k \in 0 .. CounterMod /\ 1 + k <= CounterMod /\ 1 + k = k + 1
      BY Counts
    <3> QED
      BY <1>1, <1>6, <3>1, AddFacts
  <2>2. ASSUME NEW k \in 0 .. Unread - 2
        PROVE  LET head == Add(cq_head', k) cqe == cqes[CqSlotOf(head)]
               IN  /\ cqe.opcode \in Outcomes
                   /\ cqe.owner = Parity(head)
                   /\ cqe.wqe_counter = inflight'[k + 1].start % WqeIdxMod
    <3>1. k + 1 \in 0 .. Unread - 1 /\ k \in 0 .. CqeCnt - 1
      BY Counts
    <3>2. inflight'[k + 1] = inflight[(k + 1) + 1]
      BY <1>7, Counts, SMTT(30)
    <3> QED
      BY <1>0, <2>1, <3>1, <3>2 DEF CqInv
  <2>3. ASSUME NEW k \in Unread - 1 .. CqeCnt - 1
        PROVE  cqe_status(cqes[CqSlotOf(Add(cq_head', k))], Add(cq_head', k)) = "INVALID"
    <3>1. k \in 0 .. CqeCnt - 1
      BY <1>2, Counts
    <3>2. CASE k < CqeCnt - 1
      <4>1. k + 1 \in Unread .. CqeCnt - 1
        BY <3>2, Counts
      <4> QED
        BY <1>0, <2>1, <3>1, <4>1 DEF CqInv
    <3>3. CASE k = CqeCnt - 1
      <4>1. k + 1 = CqeCnt
        BY <3>3, Counts
      <4>2. /\ CqSlotOf(Add(cq_head', k)) = CqSlotOf(cq_head)
            /\ Parity(Add(cq_head', k)) = 1 - Parity(cq_head)
            /\ Parity(cq_head) \in {0, 1}
        BY <1>1, <2>1, <3>1, <4>1, CqLap
      <4>3. cqes[CqSlotOf(cq_head)].owner = Parity(cq_head)
        <5>1. 0 \in 0 .. Unread - 1
          BY <1>2, Counts
        <5> QED
          BY <1>0, <1>1, <5>1 DEF CqInv
      <4>4. cqes[CqSlotOf(Add(cq_head', k))].owner = 1 - Parity(Add(cq_head', k))
        BY <4>2, <4>3
      <4> QED
        BY <4>4 DEF cqe_status
    <3> QED
      BY <3>1, <3>2, <3>3, Counts, SMTT(30)
  <2>4. cq_dbrec' = (cq_head' - Len(mbs')) % CqDbMod
    <3>1. /\ CounterMod \in Nat \ {0} /\ CqDbMod \in Nat \ {0} /\ cq_head \in Int
          /\ Len(mbs) \in Int
      BY <1>1, Moduli, Counts DEF Counter
    <3>2. CounterMod % CqDbMod = 0
      BY Moduli, Zenon
    <3>3. PICK q \in Int : CounterMod = CqDbMod * q
      BY <3>1, <3>2, DivMod
    <3>4. PICK u \in Int, v \in Int : u = cq_head - Len(mbs) /\ v = cq_head' - Len(mbs')
      <4>1. cq_head' \in Int /\ Len(mbs') \in Int
        BY <1>8, <1>13, <3>1, Counts DEF TypeOK, Counter
      <4>2. cq_head - Len(mbs) \in Int /\ cq_head' - Len(mbs') \in Int
        BY <3>1, <4>1
      <4> QED
        BY <4>2
    <3>5. cq_head' = cq_head + 1 \/ cq_head' = cq_head + 1 - CounterMod
      BY <1>1, <1>6, AddDef, Counts
    <3>6. PICK z \in Int : u = v + CqDbMod * z
      <4>1. u = v + CqDbMod * 0 \/ u = v + CqDbMod * q
        BY <1>8, <3>1, <3>3, <3>4, <3>5
      <4> QED
        BY <4>1
    <3>7. u % CqDbMod = v % CqDbMod
      <4>1. CqDbMod \in Nat \ {0}
        BY <3>1
      <4> QED
        BY <3>6, <4>1, ModLaps
    <3>8. cq_dbrec = u % CqDbMod
      BY <1>0, <3>4 DEF CqInv
    <3> QED
      BY <1>6, <3>4, <3>7, <3>8 DEF ringVars
  <2>5. 0 .. Unread' - 1 = 0 .. Unread - 2 /\ Unread' .. CqeCnt - 1 = Unread - 1 .. CqeCnt - 1
    BY <1>10, Counts
  <2>6. cqes' = cqes
    BY <1>6 DEF ringVars
  <2> QED
    BY <2>2, <2>3, <2>4, <2>5, <2>6 DEF CqInv, cqe_status
<1> QED
  BY <1>13, <1>14, <1>15, <1>17, <1>18, <1>19, <1>20, <1>21, <1>22 DEF IndInv

\* FillTxSegment is reached only with room for the send.
LEMMA FillTxSegmentEffect ==
  ASSUME IndInv, FillTxSegment
  PROVE  /\ req.m \in Mbufs /\ req.shape \in Shapes /\ mbs = <<>>
         /\ nr_inflight_tx \in Nat /\ nr_inflight_tx + NumWqes(req.shape) <= WqeCnt
         /\ nr_inflight_tx' = nr_inflight_tx + NumWqes(req.shape)
         /\ sq_head' \in Counter
<1> DEFINE n == NumWqes(req.shape)
<1>0. /\ TypeOK /\ RingAccounting /\ LayoutInv /\ ControlInv /\ RecordedUntilReaped
      /\ UnfetchedWqesIntact /\ OneOwner /\ NicInv /\ CqInv
  BY DEF IndInv
<1>1. /\ pc = "fill" /\ req.m \in Mbufs /\ req.shape \in Shapes /\ req # NoReq
      /\ mbs = <<>>
  BY <1>0 DEF FillTxSegment, ControlInv, TypeOK
<1>2. /\ n \in Nat /\ n >= 1 /\ n = BlocksOf(NumOctowords(req.shape))
      /\ NumOctowords(req.shape) \in Nat
  BY <1>1, ShapeFacts
<1>3. /\ sq_head \in Counter /\ true_cq_head \in Counter
      /\ nr_inflight_tx \in Nat /\ nr_inflight_tx + n <= WqeCnt
      /\ Sub(sq_head, true_cq_head) = nr_inflight_tx
  <2>1. nr_inflight_tx \in Nat
    BY <1>0, FreeWqesExact, Moduli
  <2> QED
    BY <1>0, <1>1, <2>1 DEF TypeOK, ControlInv, nr_inflight_tx
<1>4. sq_head' = Add(sq_head, n) /\ true_cq_head' = true_cq_head
  BY DEF FillTxSegment
<1> HIDE DEF n
<1>9. nr_inflight_tx' = nr_inflight_tx + n /\ sq_head' \in Counter
  <2>1. nr_inflight_tx + n < CounterMod /\ n \in 0 .. CounterMod /\ 0 \in 0 .. CounterMod
        /\ n + 0 <= CounterMod
    BY <1>2, <1>3, Counts, SMTT(30)
  <2>2. Sub(Add(sq_head, n), true_cq_head) = nr_inflight_tx + n
    BY <1>2, <1>3, <2>1, SubExtend
  <2>3. Add(sq_head, n) \in Counter
    BY <1>3, <2>1, AddFacts
  <2> QED
    BY <1>4, <2>2, <2>3 DEF nr_inflight_tx
<1> QED
  BY <1>1, <1>3, <1>9 DEF n

\* Posting a send behind those in flight keeps the invariant.
LEMMA FillTxSegmentInv ==
  ASSUME IndInv, FillTxSegment
  PROVE  IndInv'
<1> DEFINE n == NumWqes(req.shape)
           new == [m |-> req.m, start |-> sq_head, n |-> n]
<1>0. /\ TypeOK /\ RingAccounting /\ LayoutInv /\ ControlInv /\ RecordedUntilReaped
      /\ UnfetchedWqesIntact /\ OneOwner /\ NicInv /\ CqInv
  BY DEF IndInv
<1>1. /\ pc = "fill" /\ req.m \in Mbufs /\ req.shape \in Shapes /\ req # NoReq
      /\ mbs = <<>>
  BY <1>0 DEF FillTxSegment, ControlInv, TypeOK
<1>2. /\ n \in Nat /\ n >= 1 /\ n = BlocksOf(NumOctowords(req.shape))
      /\ NumOctowords(req.shape) \in Nat
  BY <1>1, ShapeFacts
<1>3. /\ sq_head \in Counter /\ true_cq_head \in Counter
      /\ nr_inflight_tx \in Nat /\ nr_inflight_tx + n <= WqeCnt
      /\ Sub(sq_head, true_cq_head) = nr_inflight_tx
  <2>1. nr_inflight_tx \in Nat
    BY <1>0, FreeWqesExact, Moduli
  <2> QED
    BY <1>0, <1>1, <2>1 DEF TypeOK, ControlInv, nr_inflight_tx
<1>4. /\ wqes' = [i \in Slot |->
             IF i = SlotOf(sq_head)
             THEN [idx |-> sq_head % WqeIdxMod, ds |-> NumOctowords(req.shape), m |-> req.m]
             ELSE IF i \in Blocks(sq_head, n) THEN NULL ELSE wqes[i]]
      /\ num_wqes' = [num_wqes EXCEPT ![req.m] = n]
      /\ buffers' = [buffers EXCEPT ![SlotOf(sq_head)] = req.m]
      /\ sq_head' = Add(sq_head, n)
      /\ inflight' = Append(inflight, new)
      /\ pc' = "doorbell" /\ req' = NoReq
      /\ UNCHANGED <<true_cq_head, cq_head, mbs, after, pool, nicVars, cqes, dbrec, cq_dbrec>>
  BY DEF FillTxSegment
<1> HIDE DEF n
<1>5. new \in Send /\ new.m = req.m /\ new.start = sq_head /\ new.n = n
  BY <1>1, <1>2, <1>3 DEF Send
<1> HIDE DEF new
<1>len. PICK L \in Nat : L = Len(inflight)
  BY Counts
<1>6. /\ Len(inflight') = L + 1
      /\ DOMAIN inflight' = 1 .. L + 1
      /\ \A i \in 1 .. L : inflight'[i] = inflight[i]
      /\ inflight'[L + 1] = new
      /\ inflight' \in Seq(Send)
  BY <1>0, <1>4, <1>5, <1>len DEF TypeOK
<1>7. L \in Nat /\ DOMAIN inflight = 1 .. L /\ \A i \in 1 .. L + 1 : i \in 1 .. L \/ i = L + 1
  <2>1. L \in Nat /\ DOMAIN inflight = 1 .. L
    BY <1>len, Counts
  <2> QED
    BY <2>1
<1>8. Unread' = Unread /\ Fetched' = Fetched
  BY <1>4 DEF Unread, Fetched, nicVars
<1>9. nr_inflight_tx' = nr_inflight_tx + n /\ sq_head' \in Counter
  BY FillTxSegmentEffect DEF n
<1>10. ASSUME NEW i \in 1 .. L
       PROVE  /\ i \in DOMAIN inflight /\ inflight[i].n \in Nat /\ inflight[i].n >= 1
              /\ inflight[i].start \in Counter /\ inflight[i].m \in Mbufs
              /\ Off(i) \in Nat
              /\ Off(i) + inflight[i].n + (L - i) <= nr_inflight_tx
              /\ Off(i) + inflight[i].n <= nr_inflight_tx
  <2>1. i \in DOMAIN inflight
    BY <1>7
  <2>2. /\ inflight[i].n \in Nat /\ inflight[i].start \in Counter /\ Off(i) \in Nat
        /\ inflight[i].m \in Mbufs
    BY <1>0, <2>1, ElementTypes
  <2>3. inflight[i].n >= 1 /\ Off(i) + inflight[i].n + (L - i) <= nr_inflight_tx
    BY <1>0, <1>len, <2>1 DEF LayoutInv
  <2>4. Off(i) + inflight[i].n <= nr_inflight_tx
    BY <1>3, <1>7, <2>2, <2>3
  <2> QED
    BY <2>1, <2>2, <2>3, <2>4
<1>11. L + 1 <= WqeCnt
  <2>1. CASE L = 0
    BY <2>1, <1>len, Counts
  <2>2. CASE L # 0
    <3>1. 1 \in 1 .. L
      BY <1>7, <2>2
    <3>2. /\ Off(1) \in Nat /\ inflight[1].n \in Nat /\ inflight[1].n >= 1
          /\ Off(1) + inflight[1].n + (L - 1) <= nr_inflight_tx
      BY <1>10, <3>1
    <3>3. L <= nr_inflight_tx
      BY <1>3, <1>7, <3>2
    <3> QED
      BY <1>2, <1>3, <1>7, <3>3, Moduli
  <2> QED
    BY <2>1, <2>2
<1>12. \A i \in 1 .. L : Off(i)' = Off(i)
  BY <1>4, <1>6 DEF Off
<1>13. Off(L + 1)' = nr_inflight_tx
  BY <1>3, <1>4, <1>5, <1>6 DEF Off
<1>14. ASSUME NEW i \in 1 .. L, NEW k \in 0 .. inflight[i].n - 1, NEW j \in 0 .. n - 1
       PROVE  SlotOf(inflight[i].start + k) # SlotOf(sq_head + j)
  BY <1>2, <1>3, <1>10, BlocksDisjoint DEF Off
<1>15. ASSUME NEW x \in Counter, NEW k \in Nat
       PROVE  SlotOf(x + k) \in Slot /\ SlotOf(x + 0) = SlotOf(x) /\ SlotOf(x) \in Slot
  <2>1. x + k \in Int /\ x + 0 = x /\ x \in Int /\ WqeCnt \in Nat \ {0}
    BY Moduli DEF Counter
  <2>2. (x + k) % WqeCnt \in 0 .. WqeCnt - 1 /\ x % WqeCnt \in 0 .. WqeCnt - 1
    BY <2>1, DivMod
  <2> QED
    BY <2>1, <2>2 DEF SlotOf, Slot
<1>16. ASSUME NEW i \in 1 .. L, NEW b \in Blocks(inflight[i].start, inflight[i].n)
       PROVE  b \in Slot /\ b # SlotOf(sq_head) /\ b \notin Blocks(sq_head, n)
  <2>1. PICK k \in 0 .. inflight[i].n - 1 : b = SlotOf(inflight[i].start + k)
    BY DEF Blocks
  <2>2. b \in Slot
    <3>1. k \in Nat
      BY <1>10
    <3> QED
      BY <1>10, <1>15, <2>1, <3>1
  <2>3. b \notin Blocks(sq_head, n)
    BY <1>14, <2>1 DEF Blocks
  <2>4. SlotOf(sq_head) \in Blocks(sq_head, n)
    <3>1. 0 \in 0 .. n - 1
      BY <1>2
    <3>2. SlotOf(sq_head + 0) = SlotOf(sq_head)
      BY <1>3, <1>15
    <3> QED
      BY <3>1, <3>2 DEF Blocks
  <2> QED
    BY <2>2, <2>3, <2>4
<1>17. ASSUME NEW i \in 1 .. L
       PROVE  SlotOf(inflight[i].start) \in Blocks(inflight[i].start, inflight[i].n)
  <2>1. 0 \in 0 .. inflight[i].n - 1
    BY <1>10
  <2>2. SlotOf(inflight[i].start + 0) = SlotOf(inflight[i].start)
    BY <1>10, <1>15
  <2> QED
    BY <2>1, <2>2 DEF Blocks
<1>18. SlotOf(sq_head) \in Slot
  BY <1>3, <1>15
<1>19. TypeOK'
  <2>1. sq_head % WqeIdxMod \in 0 .. WqeIdxMod - 1
    <3>1. WqeIdxMod \in Nat \ {0} /\ sq_head \in Int
      BY <1>3, Moduli DEF Counter
    <3> QED
      BY <3>1, DivMod
  <2>2. wqes' \in [Slot -> [idx : 0 .. WqeIdxMod - 1, ds : Nat, m : Mbufs] \cup {NULL}]
    <3>1. wqes \in [Slot -> [idx : 0 .. WqeIdxMod - 1, ds : Nat, m : Mbufs] \cup {NULL}]
      BY <1>0 DEF TypeOK
    <3>2. [idx |-> sq_head % WqeIdxMod, ds |-> NumOctowords(req.shape), m |-> req.m]
            \in [idx : 0 .. WqeIdxMod - 1, ds : Nat, m : Mbufs]
      BY <1>1, <1>2, <2>1
    <3> QED
      BY <1>4, <3>1, <3>2
  <2>3. num_wqes' \in [Mbufs -> Nat] /\ buffers' \in [Slot -> Mbufs \cup {NULL}]
    BY <1>0, <1>1, <1>2, <1>4, <1>18 DEF TypeOK
  <2> QED
    BY <1>0, <1>1, <1>4, <1>6, <1>9, <2>2, <2>3 DEF TypeOK, nicVars
<1>20. RingAccounting'
  <2>1. nr_inflight_tx' <= WqeCnt
    BY <1>3, <1>9
  <2>2. ASSUME NEW i \in 1 .. L + 1
        PROVE  inflight'[i].start = IF i = 1 THEN true_cq_head'
                                    ELSE Add(inflight'[i - 1].start, inflight'[i - 1].n)
    <3>1. CASE i \in 1 .. L
      <4>1. i # 1 => i - 1 \in 1 .. L
        BY <1>7, <3>1
      <4>2. i \in DOMAIN inflight
        BY <1>7, <3>1
      <4> QED
        BY <1>0, <1>4, <1>6, <3>1, <4>1, <4>2 DEF RingAccounting
    <3>2. CASE i = L + 1
      <4>1. CASE L = 0
        <5>1. inflight = <<>> /\ i = 1
          BY <1>0, <1>7, <1>len, <3>2, <4>1 DEF TypeOK
        <5> QED
          BY <1>0, <1>4, <1>5, <1>6, <3>2, <5>1 DEF RingAccounting
      <4>2. CASE L # 0
        <5>1. inflight # <<>> /\ i # 1 /\ i - 1 = L /\ L \in 1 .. L
          BY <1>7, <3>2, <4>2
        <5>2. sq_head = Add(inflight[L].start, inflight[L].n)
          BY <1>0, <1>len, <5>1 DEF RingAccounting
        <5> QED
          BY <1>5, <1>6, <3>2, <5>1, <5>2
      <4> QED
        BY <4>1, <4>2
    <3> QED
      BY <1>7, <3>1, <3>2
  <2>3. inflight' # <<>> /\ sq_head' = Add(inflight'[L + 1].start, inflight'[L + 1].n)
    BY <1>4, <1>5, <1>6, <1>7, SMTT(30)
  <2> QED
    BY <1>6, <2>1, <2>2, <2>3 DEF RingAccounting
<1>21. LayoutInv'
  <2>1. ASSUME NEW i \in 1 .. L + 1
        PROVE  /\ inflight'[i].n >= 1
               /\ Off(i)' + inflight'[i].n + (Len(inflight') - i) <= nr_inflight_tx'
    <3>1. CASE i \in 1 .. L
      <4>1. Off(i) + inflight[i].n + ((L + 1) - i) <= nr_inflight_tx + n
        <5>1. /\ Off(i) \in Nat /\ inflight[i].n \in Nat
              /\ Off(i) + inflight[i].n + (L - i) <= nr_inflight_tx
          BY <1>10, <3>1
        <5> QED
          BY <1>2, <1>3, <5>1
      <4>2. Off(i)' = Off(i) /\ inflight'[i] = inflight[i] /\ inflight[i].n >= 1
        BY <1>6, <1>10, <1>12, <3>1
      <4> QED
        BY <1>6, <1>9, <4>1, <4>2, Zenon
    <3>2. CASE i = L + 1
      <4>1. nr_inflight_tx + n + ((L + 1) - (L + 1)) <= nr_inflight_tx + n
        BY <1>2, <1>3, <1>7
      <4>2. inflight'[L + 1].n = n
        BY <1>5, <1>6
      <4> QED
        BY <1>2, <1>6, <1>9, <1>13, <3>2, <4>1, <4>2, Zenon
    <3> QED
      BY <1>7, <3>1, <3>2
  <2>2. ASSUME NEW i \in 1 .. L + 1, NEW j \in 1 .. L + 1, i < j
        PROVE  Off(i)' + inflight'[i].n + (j - i - 1) <= Off(j)'
    <3>1. i \in 1 .. L
      BY <1>7, <2>2
    <3>2. Off(i)' = Off(i) /\ inflight'[i] = inflight[i]
      BY <1>6, <1>12, <3>1
    <3>3. CASE j \in 1 .. L
      <4>1. Off(i) + inflight[i].n + (j - i - 1) <= Off(j)
        BY <1>0, <1>7, <2>2, <3>1, <3>3 DEF LayoutInv
      <4>2. Off(j)' = Off(j)
        BY <1>12, <3>3
      <4> QED
        BY <3>2, <4>1, <4>2, Zenon
    <3>4. CASE j = L + 1
      <4>1. Off(i) + inflight[i].n + (L - i) <= nr_inflight_tx
        BY <1>10, <3>1
      <4>2. j - i - 1 = L - i
        BY <1>7, <3>4
      <4> QED
        BY <1>13, <3>2, <3>4, <4>1, <4>2, Zenon
    <3> QED
      BY <1>7, <3>3, <3>4
  <2> QED
    BY <1>6, <2>1, <2>2 DEF LayoutInv, Off
<1>22. ControlInv'
  <2>1. Fetched' < Len(inflight')
    BY <1>6, <1>8, <1>len, Counts
  <2>2. Len(inflight') + Len(mbs') <= WqeCnt /\ mbs' = <<>>
    BY <1>1, <1>4, <1>6, <1>7, <1>11
  <2> QED
    BY <1>4, <2>1, <2>2 DEF ControlInv
<1>23. RecordedUntilReaped'
  <2>1. ASSUME NEW i \in 1 .. L
        PROVE  /\ buffers'[SlotOf(inflight[i].start)] = inflight[i].m
               /\ num_wqes'[inflight[i].m] = inflight[i].n
    <3>1. /\ buffers[SlotOf(inflight[i].start)] = inflight[i].m
          /\ num_wqes[inflight[i].m] = inflight[i].n
      BY <1>0, <1>10 DEF RecordedUntilReaped
    <3>2. SlotOf(inflight[i].start) \in Slot /\ SlotOf(inflight[i].start) # SlotOf(sq_head)
      BY <1>16, <1>17
    <3>3. inflight[i].m # req.m
      BY <1>0, <1>1, <1>10, MbufAssumption DEF OneOwner, HeldMbufs, RingMbufs
    <3> QED
      BY <1>0, <1>4, <1>10, <3>1, <3>2, <3>3 DEF TypeOK
  <2>2. buffers'[SlotOf(sq_head)] = req.m /\ num_wqes'[req.m] = n
    BY <1>0, <1>1, <1>4, <1>18 DEF TypeOK
  <2> QED
    BY <1>5, <1>6, <1>7, <2>1, <2>2 DEF RecordedUntilReaped
<1>24. UnfetchedWqesIntact'
  <2>1. ASSUME NEW i \in 1 .. L, i > Unread + Len(dma)
        PROVE  LET s == inflight[i]
                   w == wqes'[SlotOf(s.start)]
               IN  /\ w # NULL
                   /\ w.m = s.m /\ w.idx = s.start % WqeIdxMod /\ BlocksOf(w.ds) = s.n
                   /\ \A b \in Blocks(s.start, s.n) \ {SlotOf(s.start)} : wqes'[b] = NULL
    <3>1. \A b \in Blocks(inflight[i].start, inflight[i].n) : wqes'[b] = wqes[b]
      BY <1>4, <1>16
    <3> QED
      BY <1>0, <1>10, <1>17, <2>1, <3>1 DEF UnfetchedWqesIntact
  <2>2. LET w == wqes'[SlotOf(sq_head)]
        IN  /\ w # NULL
            /\ w.m = req.m /\ w.idx = sq_head % WqeIdxMod /\ BlocksOf(w.ds) = n
            /\ \A b \in Blocks(sq_head, n) \ {SlotOf(sq_head)} : wqes'[b] = NULL
    <3>1. wqes'[SlotOf(sq_head)] =
            [idx |-> sq_head % WqeIdxMod, ds |-> NumOctowords(req.shape), m |-> req.m]
      BY <1>4, <1>18
    <3>2. ASSUME NEW b \in Blocks(sq_head, n) PROVE b \in Slot
      <4>1. PICK k \in 0 .. n - 1 : b = SlotOf(sq_head + k)
        BY DEF Blocks
      <4>2. k \in Nat
        BY <1>2
      <4> QED
        BY <1>3, <1>15, <4>1, <4>2
    <3>3. \A b \in Blocks(sq_head, n) \ {SlotOf(sq_head)} : wqes'[b] = NULL
      BY <1>4, <3>2
    <3>4. wqes'[SlotOf(sq_head)] # NULL
      <4>1. [idx |-> sq_head % WqeIdxMod, ds |-> NumOctowords(req.shape), m |-> req.m]
              \in [idx : Nat, ds : Nat, m : Mbufs]
        <5>1. sq_head % WqeIdxMod \in Nat
          <6>1. WqeIdxMod \in Nat \ {0} /\ sq_head \in Int
            BY <1>3, Moduli DEF Counter
          <6>2. sq_head % WqeIdxMod \in 0 .. WqeIdxMod - 1
            BY <6>1, DivMod
          <6> QED
            BY <6>1, <6>2
        <5> QED
          BY <1>1, <1>2, <5>1
      <4> QED
        BY <3>1, <4>1, MbufAssumption
    <3> QED
      BY <1>2, <3>1, <3>3, <3>4
  <2>3. UNCHANGED dma
    BY <1>4 DEF nicVars
  <2> QED
    BY <1>5, <1>6, <1>7, <1>8, <2>1, <2>2, <2>3 DEF UnfetchedWqesIntact
<1>25. OneOwner'
  <2>1. HeldMbufs = {req.m} /\ HeldMbufs' = {}
    BY <1>1, <1>4, MbufAssumption DEF HeldMbufs, NoReq
  <2>2. RingMbufs' = RingMbufs \cup {req.m}
    <3>1. L + 1 \in 1 .. L + 1 /\ 1 .. L \subseteq 1 .. L + 1
      BY <1>7
    <3> QED
      BY <1>5, <1>6, <1>7, <3>1 DEF RingMbufs
  <2>3. GatheredMbufs' = GatheredMbufs /\ pool' = pool /\ mbs' = mbs
    BY <1>4 DEF GatheredMbufs
  <2>4. \A i \in 1 .. L : inflight[i].m # req.m
    BY <1>0, <1>10, <2>1 DEF OneOwner, RingMbufs
  <2>5. \A i, j \in 1 .. L : inflight[i].m = inflight[j].m => i = j
    BY <1>0, <1>7 DEF OneOwner
  <2>6. \A i, j \in DOMAIN inflight' : inflight'[i].m = inflight'[j].m => i = j
    BY <1>5, <1>6, <1>7, <2>4, <2>5
  <2>7. /\ Mbufs = pool \cup HeldMbufs \cup RingMbufs \cup GatheredMbufs
        /\ pool \cap HeldMbufs = {} /\ pool \cap RingMbufs = {} /\ pool \cap GatheredMbufs = {}
        /\ HeldMbufs \cap RingMbufs = {} /\ HeldMbufs \cap GatheredMbufs = {}
        /\ RingMbufs \cap GatheredMbufs = {}
        /\ \A i, j \in DOMAIN mbs : mbs[i] = mbs[j] => i = j
    BY <1>0 DEF OneOwner
  <2> QED
    BY <2>1, <2>2, <2>3, <2>6, <2>7 DEF OneOwner
<1>26. NicInv'
  <2>1. Fetched' <= Len(inflight') /\ Fetched < L + 1
    BY <1>6, <1>8, <1>len, Counts
  <2>2. nic_head' = inflight'[Fetched' + 1].start % WqeIdxMod
    <3>1. CASE Fetched < L
      <4>1. Fetched + 1 \in 1 .. L
        BY <3>1, <1>len, Counts
      <4> QED
        BY <1>0, <1>4, <1>6, <1>8, <1>len, <3>1, <4>1 DEF NicInv, nicVars
    <3>2. CASE Fetched = L
      <4>1. ~ (Fetched < Len(inflight))
        BY <1>7, <1>len, <3>2
      <4>2. nic_head = sq_head % WqeIdxMod
        BY <1>0, <4>1 DEF NicInv
      <4> QED
        BY <1>4, <1>5, <1>6, <1>8, <3>2, <4>2 DEF nicVars
    <3> QED
      BY <3>1, <3>2, <1>len, Counts
  <2>3. dbrec' = inflight'[Len(inflight')].start % WqeIdxMod
    BY <1>0, <1>1, <1>4, <1>5, <1>6 DEF NicInv
  <2>4. \A k \in DOMAIN dma' :
           dma'[k] = [m |-> inflight'[Unread' + k].m,
                      idx |-> inflight'[Unread' + k].start % WqeIdxMod]
    <3> SUFFICES ASSUME NEW k \in DOMAIN dma
                 PROVE  dma[k] = [m |-> inflight'[Unread + k].m,
                                  idx |-> inflight'[Unread + k].start % WqeIdxMod]
      BY <1>4, <1>8 DEF nicVars
    <3>1. Unread + k \in 1 .. L
      BY <1>len, Counts
    <3> QED
      BY <1>0, <1>6, <3>1 DEF NicInv
  <2> QED
    BY <1>4, <1>6, <1>8, <2>1, <2>2, <2>3, <2>4 DEF NicInv
<1>27. CqInv'
  <2>1. \A k \in 0 .. Unread - 1 : inflight'[k + 1] = inflight[k + 1]
    <3>1. \A k \in 0 .. Unread - 1 : k + 1 \in 1 .. L
      BY <1>len, Counts
    <3> QED
      BY <1>6, <3>1
  <2>2. UNCHANGED <<cqes, cq_head, mbs, cq_dbrec>>
    BY <1>4
  <2> QED
    BY <1>0, <1>8, <2>1, <2>2 DEF CqInv, cqe_status
<1> QED
  BY <1>19, <1>20, <1>21, <1>22, <1>23, <1>24, <1>25, <1>26, <1>27 DEF IndInv

---------------------------------------------------------------------------
\* The theorems.

\* Every step of the CPU or of the NIC preserves the inductive invariant.
LEMMA NextInv == IndInv /\ [Next]_vars => IndInv'
<1> SUFFICES ASSUME IndInv, [Next]_vars PROVE IndInv'
  OBVIOUS
<1>1. CASE \E m \in Mbufs, s \in Shapes : TransmitOne(m, s)
  BY <1>1, TransmitOneInv
<1>2. CASE CpuStep
  BY <1>2, CheckRoomInv, RecheckRoomInv, GatherOneInv, GatherDoneInv, GatherPanicInv,
     FillTxSegmentInv, RingDoorbellInv DEF CpuStep
<1>3. CASE NicFetch
  BY <1>3, NicFetchInv
<1>4. CASE \E outcome \in Outcomes : NicComplete(outcome)
  BY <1>4, NicCompleteInv
<1>5. CASE UNCHANGED vars
  <2>1. UNCHANGED <<sq_head, true_cq_head, cq_head, buffers, num_wqes, pc, req, mbs, after,
                    pool, nicVars, wqes, cqes, dbrec, cq_dbrec, inflight>>
    BY <1>5 DEF vars, cpuVars, ringVars
  <2>2. TypeOK'
    BY <2>1 DEF IndInv, TypeOK, nicVars
  <2>3. RingAccounting' /\ LayoutInv' /\ RecordedUntilReaped' /\ UnfetchedWqesIntact'
        /\ CqInv' /\ NicInv' /\ OneOwner'
    BY <2>1, LayoutFrame, RecordedFrame, WqesFrame, CqFrame, NicFrame, OwnerFrame
       DEF IndInv, nicVars
  <2>4. ControlInv'
    BY <2>1 DEF IndInv, ControlInv, nicVars, Fetched, Unread, nr_inflight_tx
  <2> QED
    BY <2>2, <2>3, <2>4 DEF IndInv
<1> QED
  BY <1>1, <1>2, <1>3, <1>4, <1>5 DEF Next

\* The inductive invariant holds in every reachable state of the transmit
\* path, for every ring size, counter width, pool and mix of packet shapes.
THEOREM Invariance == Spec => []IndInv
  BY InitInv, NextInv, PTL DEF Spec

\* Every variable keeps its type; in particular the wrapping counters, the
\* ring slots and the doorbell records stay in their widths.
THEOREM TypeCorrect == Spec => []TypeOK
<1>1. IndInv => TypeOK
  BY DEF IndInv
<1> QED
  BY <1>1, Invariance, PTL

\* mlx5_fill_tx_segment never overcommits the send ring and
\* mlx5_gather_completions never miscounts the blocks it releases.
THEOREM RingAccountingHolds == Spec => []RingAccounting
<1>1. IndInv => RingAccounting
  BY DEF IndInv
<1> QED
  BY <1>1, Invariance, PTL

\* The buffers[] entry and the num_wqes of a send outlive its completion.
THEOREM RecordedHolds == Spec => []RecordedUntilReaped
<1>1. IndInv => RecordedUntilReaped
  BY DEF IndInv
<1> QED
  BY <1>1, Invariance, PTL

\* No send overwrites WQE blocks the NIC has yet to fetch.
THEOREM UnfetchedHolds == Spec => []UnfetchedWqesIntact
<1>1. IndInv => UnfetchedWqesIntact
  BY DEF IndInv
<1> QED
  BY <1>1, Invariance, PTL

\* No mbuf is lost, freed twice, or in two places at once.
THEOREM OneOwnerHolds == Spec => []OneOwner
<1>1. IndInv => OneOwner
  BY DEF IndInv
<1> QED
  BY <1>1, Invariance, PTL

\* What the NIC is reading by DMA belongs to a send in the ring, and the
\* ring shares no mbuf with the pool.
LEMMA DmaFromInv == IndInv => DmaBuffersOwned
<1> SUFFICES ASSUME IndInv, NEW i \in DOMAIN dma PROVE dma[i].m \notin pool
  BY DEF DmaBuffersOwned
<1>1. Unread + i \in DOMAIN inflight
  BY Counts
<1>2. dma[i].m = inflight[Unread + i].m
  BY DEF IndInv, NicInv
<1>3. dma[i].m \in RingMbufs
  BY <1>1, <1>2 DEF RingMbufs
<1> QED
  BY <1>3 DEF IndInv, OneOwner

\* The NIC never reads a buffer that mbuf_free has given back to the pool.
THEOREM DmaHolds == Spec => []DmaBuffersOwned
  BY DmaFromInv, Invariance, PTL

\* The unread CQEs carry the indices of the oldest sends, and the entry the
\* NIC writes next still reads as unwritten.
LEMMA OrderFromInv == IndInv => CompletionsInOrder
<1> SUFFICES ASSUME IndInv PROVE CompletionsInOrder
  OBVIOUS
<1>0. cq_head \in Counter /\ nic_cq \in Counter /\ CqInv
  BY DEF IndInv, TypeOK
<1>1. ASSUME NEW k \in 1 .. Unread
      PROVE  LET head == Add(cq_head, k - 1)
             IN  /\ cqe_status(cqes[CqSlotOf(head)], head) \in Outcomes
                 /\ cqes[CqSlotOf(head)].wqe_counter = inflight[k].start % WqeIdxMod
  <2>1. k - 1 \in 0 .. Unread - 1 /\ (k - 1) + 1 = k
    BY Counts
  <2>2. /\ cqes[CqSlotOf(Add(cq_head, k - 1))].opcode \in Outcomes
        /\ cqes[CqSlotOf(Add(cq_head, k - 1))].owner = Parity(Add(cq_head, k - 1))
        /\ cqes[CqSlotOf(Add(cq_head, k - 1))].wqe_counter = inflight[k].start % WqeIdxMod
    BY <1>0, <2>1 DEF CqInv
  <2>3. Add(cq_head, k - 1) \in Counter
    <3>1. k - 1 \in 0 .. CounterMod /\ 0 \in 0 .. CounterMod /\ (k - 1) + 0 <= CounterMod
      BY Counts
    <3> QED
      BY <1>0, <3>1, AddFacts
  <2>4. Parity(Add(cq_head, k - 1)) \in {0, 1}
    BY <2>3, CqLap
  <2>5. Parity(Add(cq_head, k - 1)) # 1 - Parity(Add(cq_head, k - 1))
    BY <2>4
  <2> QED
    BY <2>2, <2>5 DEF cqe_status
<1>2. Unread < CqeCnt => cqe_status(cqes[CqSlotOf(nic_cq)], nic_cq) = "INVALID"
  <2>1. Unread < CqeCnt => Unread \in Unread .. CqeCnt - 1
    BY Counts
  <2>2. Add(cq_head, Unread) = nic_cq
    BY <1>0, CounterFacts DEF Unread
  <2> QED
    BY <1>0, <2>1, <2>2 DEF CqInv
<1>3. Unread + Len(dma) <= Len(inflight)
  BY Counts
<1> QED
  BY <1>1, <1>2, <1>3 DEF CompletionsInOrder

\* The owner bit alone lets mlx5_gather_completions tell new CQEs from those
\* of the previous lap, and it meets them in the order of the sends.
THEOREM CompletionsHold == Spec => []CompletionsInOrder
  BY OrderFromInv, Invariance, PTL

\* The NIC is ahead of the published consumer index by the unread CQEs and
\* those gathered since the last doorbell, which together fit in the ring.
LEMMA OverrunFromInv == IndInv => NoCqOverrun
<1> SUFFICES ASSUME IndInv PROVE NoCqOverrun
  OBVIOUS
<1>1. /\ CounterMod \in Nat \ {0} /\ CqDbMod \in Nat \ {0} /\ CqeCnt \in Nat
      /\ cq_head \in Int /\ nic_cq \in Int /\ CqeCnt < CqDbMod
  BY Moduli, WidthAssumption DEF IndInv, TypeOK, Counter
<1>2. PICK q \in Int : CounterMod = CqDbMod * q
  <2>1. CounterMod % CqDbMod = 0
    BY Moduli, Zenon
  <2> QED
    BY <1>1, <2>1, DivMod
<1>3. PICK u \in Int, g \in Int, t \in Int : u = Unread /\ g = Len(mbs) /\ t = u + g
  <2>1. Unread \in Int /\ Len(mbs) \in Int
    BY Counts
  <2>2. Unread + Len(mbs) \in Int
    BY <2>1
  <2> QED
    BY <2>1, <2>2
<1>4. t \in 0 .. CqeCnt
  BY <1>3, Counts
<1>5. nic_cq = cq_head + u \/ nic_cq = cq_head + u - CounterMod
  <2>1. cq_head \in Counter /\ nic_cq \in Counter
    BY DEF IndInv, TypeOK
  <2>2. u = (IF nic_cq >= cq_head THEN nic_cq - cq_head ELSE nic_cq - cq_head + CounterMod)
    BY <1>3, <2>1, SubDef DEF Unread
  <2> QED
    BY <1>1, <2>2
<1>6. PICK d \in Int : cq_dbrec = (cq_head - g) - CqDbMod * d
  <2>1. PICK c \in Int : c = cq_head - g
    BY <1>1
  <2>2. cq_dbrec = c % CqDbMod
    BY <1>3, <2>1 DEF IndInv, CqInv
  <2>3. PICK e \in Int, r \in 0 .. CqDbMod - 1 : c = CqDbMod * e + r /\ r = c % CqDbMod
    BY <1>1, DivMod
  <2>4. cq_dbrec = (cq_head - g) - CqDbMod * e
    <3>1. cq_dbrec = r /\ c = CqDbMod * e + r
      BY <2>2, <2>3
    <3> QED
      BY <1>1, <2>1, <3>1
  <2> QED
    BY <2>4
<1>7. PICK v \in Int, z \in Int : v = nic_cq - cq_dbrec /\ v = t + CqDbMod * z
  <2>1. cq_dbrec \in Int
    BY <1>1, <1>6
  <2>2. nic_cq - cq_dbrec = t + CqDbMod * d \/ nic_cq - cq_dbrec = t + CqDbMod * (d - q)
    <3>1. CqDbMod * (d - q) = CqDbMod * d - CqDbMod * q
      BY <1>1
    <3> QED
      BY <1>1, <1>2, <1>3, <1>5, <1>6, <3>1
  <2>3. PICK z \in Int : nic_cq - cq_dbrec = t + CqDbMod * z
    <3>1. d - q \in Int
      OBVIOUS
    <3> QED
      BY <2>2, <3>1, Zenon
  <2>4. nic_cq - cq_dbrec \in Int
    BY <1>1, <2>1
  <2> QED
    BY <2>3, <2>4
<1>8. v % CqDbMod = t
  <2>1. v % CqDbMod = t % CqDbMod
    <3>1. CqDbMod \in Nat \ {0} /\ v = t + CqDbMod * z
      BY <1>1, <1>7
    <3> QED
      BY <3>1, ModLaps
  <2>2. t \in 0 .. CqDbMod - 1
    BY <1>1, <1>4
  <2>3. t % CqDbMod = t
    BY <1>1, <2>2, ModNear
  <2> QED
    BY <2>1, <2>3
<1>9. t <= CqeCnt
  BY <1>1, <1>4
<1> QED
  BY <1>7, <1>8, <1>9 DEF NoCqOverrun

\* The completion queue never overruns, although the consumer index is
\* published only when a gather ends.
THEOREM CqOverrunHolds == Spec => []NoCqOverrun
  BY OverrunFromInv, Invariance, PTL

---------------------------------------------------------------------------
\* The transmit path implements the bounded FIFO of TxFifo: initial states
\* map to initial states, and every step of the CPU or of the NIC to a step
\* of the FIFO or to a stutter.

\* An empty ring is an empty queue.
LEMMA InitRefines == Init => Fifo!Init
<1> SUFFICES ASSUME Init PROVE Fifo!Init
  OBVIOUS
<1>1. 0 \in Counter
  BY Moduli DEF Counter
<1>2. nr_inflight_tx = 0 /\ Unread = 0
  BY <1>1, CounterFacts DEF Init, nr_inflight_tx, Unread
<1>3. QueuedSends = <<>>
  BY DEF Init, QueuedSends
<1>4. {req.m} \ {NULL} = {}
  BY DEF Init, NoReq
<1> QED
  BY <1>2, <1>3, <1>4 DEF Init, Fifo!Init

\* Steps that touch neither the pool, the ring's ends nor the mbufs in hand.
LEMMA StutterRefines ==
  ASSUME UNCHANGED <<pool, req, inflight, mbs, nic_cq, cq_head, sq_head, true_cq_head>>
  PROVE  UNCHANGED Fifo!vars
  BY DEF Fifo!vars, QueuedSends, Unread, nr_inflight_tx

\* Calling mlx5_transmit_one takes an mbuf; no other is held.
LEMMA TransmitOneRefines ==
  ASSUME IndInv, NEW m \in Mbufs, NEW s \in Shapes, TransmitOne(m, s)
  PROVE  Fifo!Next
<1>1. req = NoReq /\ m # NULL /\ m \in pool /\ pool' = pool \ {m} /\ req' = [m |-> m, shape |-> s]
  BY MbufAssumption DEF IndInv, ControlInv, TransmitOne
<1>2. {req.m} \ {NULL} = {} /\ {req'.m} \ {NULL} = {m}
  BY <1>1 DEF NoReq
<1>3. UNCHANGED <<QueuedSends, Unread, nr_inflight_tx, mbs>>
  BY DEF TransmitOne, QueuedSends, Unread, nr_inflight_tx, nicVars
<1>4. Fifo!Take(m)
  BY <1>1, <1>2, <1>3 DEF Fifo!Take
<1> QED
  BY <1>4 DEF Fifo!Next

\* Filling a WQE posts the held mbuf with its block count.
LEMMA FillTxSegmentRefines ==
  ASSUME IndInv, FillTxSegment
  PROVE  Fifo!Next
<1> DEFINE n == NumWqes(req.shape)
<1>1. /\ req.m \in Mbufs /\ req.shape \in Shapes
      /\ nr_inflight_tx + n <= WqeCnt /\ nr_inflight_tx' = nr_inflight_tx + n
  BY FillTxSegmentEffect
<1>2. /\ inflight' = Append(inflight, [m |-> req.m, start |-> sq_head, n |-> n])
      /\ req' = NoReq
      /\ UNCHANGED <<pool, mbs, nicVars, cq_head>>
  BY DEF FillTxSegment
<1> HIDE DEF n
<1>3. req.m # NULL /\ req.m \in {req.m} \ {NULL} /\ {req'.m} \ {NULL} = {}
  BY <1>1, <1>2, MbufAssumption DEF NoReq
<1>4. UNCHANGED <<pool, Unread, mbs>>
  BY <1>2 DEF Unread, nicVars
<1>5. QueuedSends' = Append(QueuedSends, [m |-> req.m, n |-> n])
  <2>1. inflight \in Seq(Send) /\ n \in Nat /\ sq_head \in Counter
    BY <1>1, ShapeFacts DEF IndInv, TypeOK, n
  <2> QED
    BY <1>1, <1>2, <2>1 DEF QueuedSends, Send
<1>6. Fifo!Post(req.m, n)
  BY <1>1, <1>3, <1>4, <1>5 DEF Fifo!Post
<1>7. n \in {NumWqes(s) : s \in Shapes}
  BY <1>1 DEF n
<1> QED
  BY <1>1, <1>6, <1>7 DEF Fifo!Next

\* Gathering a completion reaps the head of the queue.
LEMMA GatherOneRefines ==
  ASSUME IndInv, GatherOne
  PROVE  Fifo!Next
<1>1. /\ Unread \in Nat /\ Unread >= 1 /\ Len(inflight) >= 1
      /\ inflight \in Seq(Send) /\ inflight' = Tail(inflight)
  BY GatherOneEffect, Counts DEF IndInv, TypeOK
<1>2. QueuedSends[1] = [m |-> inflight[1].m, n |-> inflight[1].n]
  BY <1>1 DEF QueuedSends
<1>3. QueuedSends' = Tail(QueuedSends)
  BY <1>1 DEF QueuedSends
<1>4. /\ mbs' = Append(mbs, QueuedSends[1].m) /\ Len(mbs) < SQ_CLEAN_MAX
      /\ Unread' = Unread - 1
      /\ nr_inflight_tx' = nr_inflight_tx - QueuedSends[1].n
      /\ UNCHANGED <<pool, req>>
  BY <1>2, GatherOneEffect
<1>5. Unread > 0
  BY <1>1
<1>6. Fifo!Reap
  BY <1>3, <1>4, <1>5 DEF Fifo!Reap
<1> QED
  BY <1>6 DEF Fifo!Next

\* Ending a gather frees what was reaped, or changes nothing.
LEMMA GatherDoneRefines ==
  ASSUME IndInv, GatherDone
  PROVE  [Fifo!Next]_(Fifo!vars)
<1>1. /\ pool' = pool \cup {mbs[i] : i \in DOMAIN mbs} /\ mbs' = <<>>
      /\ UNCHANGED <<req, inflight, nic_cq, cq_head, sq_head, true_cq_head>>
  BY DEF GatherDone, nicVars
<1>2. UNCHANGED <<QueuedSends, Unread, nr_inflight_tx>>
  BY <1>1 DEF QueuedSends, Unread, nr_inflight_tx
<1>3. CASE mbs = <<>>
  BY <1>1, <1>2, <1>3 DEF Fifo!vars
<1>4. CASE mbs # <<>>
  <2>1. Fifo!Release
    BY <1>1, <1>2, <1>4 DEF Fifo!Release
  <2> QED
    BY <2>1 DEF Fifo!Next
<1> QED
  BY <1>3, <1>4

\* Posting a CQE finishes the oldest unfinished send.
LEMMA NicCompleteRefines ==
  ASSUME IndInv, NEW outcome \in Outcomes, NicComplete(outcome)
  PROVE  Fifo!Next
<1>1. Unread < Len(inflight) /\ Unread' = Unread + 1
  BY NicCompleteEffect
<1>2. UNCHANGED <<pool, req, inflight, mbs, sq_head, true_cq_head>>
  BY DEF NicComplete, cpuVars
<1>3. Len(QueuedSends) = Len(inflight)
  BY DEF QueuedSends, IndInv, TypeOK
<1>4. Fifo!Finish
  BY <1>1, <1>2, <1>3 DEF Fifo!Finish, QueuedSends, nr_inflight_tx
<1> QED
  BY <1>4 DEF Fifo!Next

\* Every step of the transmit path is a step of the FIFO or a stutter.
LEMMA StepRefines == IndInv /\ [Next]_vars => [Fifo!Next]_(Fifo!vars)
<1> SUFFICES ASSUME IndInv, [Next]_vars PROVE [Fifo!Next]_(Fifo!vars)
  OBVIOUS
<1>1. CASE \E m \in Mbufs, s \in Shapes : TransmitOne(m, s)
  BY <1>1, TransmitOneRefines
<1>2. CASE CheckRoom \/ RecheckRoom \/ GatherPanic \/ RingDoorbell
  BY <1>2, StutterRefines DEF CheckRoom, RecheckRoom, GatherPanic, RingDoorbell, nicVars
<1>3. CASE GatherOne
  BY <1>3, GatherOneRefines
<1>4. CASE GatherDone
  BY <1>4, GatherDoneRefines
<1>5. CASE FillTxSegment
  BY <1>5, FillTxSegmentRefines
<1>6. CASE NicFetch
  BY <1>6, StutterRefines DEF NicFetch, cpuVars
<1>7. CASE \E outcome \in Outcomes : NicComplete(outcome)
  BY <1>7, NicCompleteRefines
<1>8. CASE UNCHANGED vars
  BY <1>8, StutterRefines DEF vars, cpuVars, nicVars
<1> QED
  BY <1>1, <1>2, <1>3, <1>4, <1>5, <1>6, <1>7, <1>8 DEF Next, CpuStep

\* The rings, the wrapping counters, the owner bits and the doorbells of
\* mlx5_rxtx.c together implement a bounded FIFO of mbufs.
THEOREM Refinement == Spec => ImplementsFifo
<1>1. Fifo!Init /\ [][Fifo!Next]_(Fifo!vars) => Fifo!Spec
  BY DEF Fifo!Spec
<1> QED
  BY <1>1, Invariance, InitRefines, StepRefines, PTL DEF Spec, ImplementsFifo
=============================================================================
