------------------------------- MODULE Server -------------------------------
(***************************************************************************)
(* The server loop of main.c: do_server polls bursts of packets, frees the *)
(* invalid ones, collects the valid ones into batches and hands each batch *)
(* to process_server_requests, which builds one reply per packet and posts *)
(* them (post_mbufs).  Three modes: "echo" sends the received mbuf back,   *)
(* "copy" copies the segments asked for into a fresh buffer, "zero_copy"   *)
(* sends a chain of mbufs that point into the working set, each counted in *)
(* the reference counts of the segment it points to.                       *)
(*                                                                         *)
(* The receive ring (RxQueue) and the transmit path (TxQueue, TxFifo) are  *)
(* seen through what they promise: a poll exchanges the buffers of a burst *)
(* for as many fresh ones, and posted replies complete in order.           *)
(***************************************************************************)
EXTENDS Integers, Sequences, FiniteSets, SequencesExt

CONSTANTS
    Modes,            \* the modes main may be started in
    BATCH_SIZE,
    Bursts,           \* what a poll may return: sequences of "valid"/"invalid"
    RxBufs, RxWqeCnt, \* rx_buf_mempool, and the slots of the receive ring
    Mbufs, TxBufs,    \* mbuf_mempool and tx_buf_mempool
    num_segments,     \* segments per reply
    Segments,         \* virtual segments a request may ask for
    using_ref_counting,
    RefcntMod,        \* 2^16, a count is a uint16_t
    EchoFits,         \* the reply fits a receive buffer (flip_headers)
    Capacity,         \* blocks in the send ring
    ReplyBlocks,      \* blocks a reply occupies
    SQ_CLEAN_THRESH, SQ_CLEAN_MAX,
    NULL

ASSUME ServerAssumption ==
    /\ Modes \subseteq {"echo", "copy", "zero_copy"}
    /\ BATCH_SIZE \in Nat \ {0} /\ RxWqeCnt \in Nat \ {0} /\ num_segments \in Nat \ {0}
    /\ Bursts \subseteq Seq({"valid", "invalid"}) /\ \A b \in Bursts : Len(b) \in 1 .. RxWqeCnt
    /\ Capacity \in Nat /\ ReplyBlocks \in 1 .. Capacity
    /\ SQ_CLEAN_THRESH \in Nat /\ SQ_CLEAN_MAX \in Nat \ {0}
    /\ IsFiniteSet(RxBufs) /\ Cardinality(RxBufs) >= RxWqeCnt
    /\ IsFiniteSet(Mbufs) /\ IsFiniteSet(TxBufs)
    /\ RefcntMod \in Nat /\ RefcntMod > 1
    /\ using_ref_counting \in BOOLEAN /\ EchoFits \in BOOLEAN
    /\ NULL \notin RxBufs

VARIABLES
    mode,             \* echo_mode and zero_copy, from the command line
    pc,
    recv,             \* recv_mbufs[rx_idx ..], with what check_valid_packet
                      \* says of each
    batch,            \* mbufs_to_process[0 .. batch_idx - 1]
    sends, sent,      \* send_mbufs, and how many of them post_mbufs has sent
    rx_ring, rx_pool, \* receive buffers posted to the NIC, and free ones
    mbuf_pool, tx_pool,
    refcnt,           \* working_set_refcnts
    queue, done       \* replies in the send ring, how many the NIC finished

rxVars == <<recv, rx_ring>>
txVars == <<mbuf_pool, tx_pool, refcnt>>
vars == <<mode, pc, rxVars, rx_pool, batch, sends, sent, txVars, queue, done>>

\* mempool_alloc of n items: which ones does not matter.
Take(pool, n) == CHOOSE s \in SUBSET pool : Cardinality(s) = n

Init ==
    /\ mode \in Modes
    /\ pc = "poll"
    /\ recv = <<>>
    /\ batch = <<>> /\ sends = <<>> /\ sent = 0
    /\ rx_ring = Take(RxBufs, RxWqeCnt)
    /\ rx_pool = RxBufs \ rx_ring
    /\ mbuf_pool = Mbufs /\ tx_pool = TxBufs
    /\ refcnt = [s \in Segments |-> 1]
    /\ queue = <<>> /\ done = 0

---------------------------------------------------------------------------
\* do_server

\* mlx5_gather_rx returns a burst and replaces its buffers in the ring, or
\* finds the pool empty and ends the process.
Poll(burst) ==
    /\ pc = "poll"
    /\ LET n == Len(burst)
           got == Take(rx_ring, n)
           order == SetToSeq(got)
       IN  IF Cardinality(rx_pool) < n
           THEN pc' = "crash" /\ UNCHANGED <<rxVars, rx_pool, batch>>
           ELSE /\ pc' = "scan"
                /\ recv' = [i \in 1 .. n |-> [b |-> order[i], status |-> burst[i]]]
                /\ batch' = <<>>
                /\ rx_ring' = (rx_ring \ got) \cup Take(rx_pool, n)
                /\ rx_pool' = rx_pool \ Take(rx_pool, n)
    /\ UNCHANGED <<sends, sent, txVars, queue, done, mode>>

Scanning == pc = "scan" /\ recv # <<>>

\* Mutant: an invalid packet is not freed.
SkipInvalidLeaks ==
    /\ Scanning
    /\ Head(recv).status = "invalid"
    /\ recv' = Tail(recv)
    /\ UNCHANGED <<pc, batch, rx_ring, rx_pool, sends, sent, txVars, queue, done, mode>>

\* check_valid_packet fails: free the packet and go on with the next.
SkipInvalid ==
    /\ Scanning
    /\ Head(recv).status = "invalid"
    /\ rx_pool' = rx_pool \cup {Head(recv).b}
    /\ recv' = Tail(recv)
    /\ UNCHANGED <<pc, batch, rx_ring, sends, sent, txVars, queue, done, mode>>

\* Mutant: a batch is processed only when it is full.
TakeValidNoFlush ==
    /\ Scanning
    /\ Head(recv).status = "valid"
    /\ batch' = Append(batch, Head(recv).b)
    /\ recv' = Tail(recv)
    /\ pc' = IF Len(batch') = BATCH_SIZE THEN "build" ELSE "scan"
    /\ UNCHANGED <<rx_ring, rx_pool, sends, sent, txVars, queue, done, mode>>

\* A valid packet joins the batch, which is processed when it is full or
\* when this was the last packet of the burst.
TakeValid ==
    /\ Scanning
    /\ Head(recv).status = "valid"
    /\ batch' = Append(batch, Head(recv).b)
    /\ recv' = Tail(recv)
    /\ pc' = IF Len(batch') = BATCH_SIZE \/ recv' = <<>> THEN "build" ELSE "scan"
    /\ UNCHANGED <<rx_ring, rx_pool, sends, sent, txVars, queue, done, mode>>

\* The batch is dealt with: batch_idx = 0, and send_mbufs is out of scope.
EndBatch == batch' = <<>> /\ sends' = <<>> /\ sent' = 0

\* The burst is used up: poll again.
ScanDone ==
    /\ pc = "scan" /\ recv = <<>>
    /\ pc' = "poll"
    /\ UNCHANGED <<rxVars, rx_pool, batch, sends, sent, txVars, queue, done, mode>>

---------------------------------------------------------------------------
\* process_server_requests: one reply per packet of the batch.

Building == pc = "build" /\ Len(sends) < Len(batch)
Request == batch[Len(sends) + 1]

\* mbufs a reply takes from mbuf_mempool.
MbufsPerReply == CASE mode = "echo" -> 0 [] mode = "copy" -> 1 [] OTHER -> num_segments

\* Echo mode sends the request's own mbuf, its headers reversed in place.
BuildEcho ==
    /\ Building /\ mode = "echo" /\ EchoFits
    /\ sends' = Append(sends, [rx |-> {Request}, chain |-> {}, buf |-> {}, segs |-> <<>>])
    /\ UNCHANGED <<pc, rxVars, rx_pool, batch, sent, txVars, queue, done, mode>>

\* flip_headers refuses a reply larger than the receive buffer.
BuildEchoFails ==
    /\ Building /\ mode = "echo" /\ ~EchoFits
    /\ pc' = "failed"
    /\ UNCHANGED <<rxVars, rx_pool, batch, sends, sent, txVars, queue, done, mode>>

\* A control mbuf and a data buffer into which the segments are copied.
BuildCopy ==
    /\ Building /\ mode = "copy"
    /\ mbuf_pool # {} /\ tx_pool # {}
    /\ sends' = Append(sends, [rx |-> {}, chain |-> Take(mbuf_pool, 1),
                               buf |-> Take(tx_pool, 1), segs |-> <<>>])
    /\ mbuf_pool' = mbuf_pool \ Take(mbuf_pool, 1)
    /\ tx_pool' = tx_pool \ Take(tx_pool, 1)
    /\ UNCHANGED <<pc, rxVars, rx_pool, batch, sent, refcnt, queue, done, mode>>

\* Where a request's segment list names s, and where the lists of a sequence
\* of replies do; and how often, if references are counted.
Places(segs, s) == {i \in DOMAIN segs : segs[i] = s}
PlacesOf(replies, s) == UNION {{r} \X Places(replies[r].segs, s) : r \in DOMAIN replies}
Refs(segs, s) == IF using_ref_counting THEN Cardinality(Places(segs, s)) ELSE 0
RefsOf(replies, s) == IF using_ref_counting THEN Cardinality(PlacesOf(replies, s)) ELSE 0

\* One control mbuf per segment, each counted by its segment.
BuildZeroCopy(segs) ==
    /\ Building /\ mode = "zero_copy"
    /\ Cardinality(mbuf_pool) >= num_segments
    /\ sends' = Append(sends, [rx |-> {}, chain |-> Take(mbuf_pool, num_segments),
                               buf |-> {}, segs |-> segs])
    /\ mbuf_pool' = mbuf_pool \ Take(mbuf_pool, num_segments)
    /\ refcnt' = [s \in Segments |-> (refcnt[s] + Refs(segs, s)) % RefcntMod]
    /\ UNCHANGED <<pc, rxVars, rx_pool, batch, sent, tx_pool, queue, done, mode>>

\* What the release functions give back: rx_completion the echoed mbuf,
\* tx_completion the mbuf and its buffer, zero_copy_tx_completion every mbuf
\* of the chain.
Chains(replies) == UNION {replies[i].chain : i \in DOMAIN replies}
DataBufs(replies) == UNION {replies[i].buf : i \in DOMAIN replies}
Echoed(replies) == UNION {replies[i].rx : i \in DOMAIN replies}

\* ENOMEM for want of mbufs.  Those taken for this reply are lost, and so is
\* the reply before it: the loop that frees the earlier ones ends at
\* pkt_idx - 1, which wraps around for the first reply and runs off the array.
BuildFails(segs) ==
    /\ Building
    /\ Cardinality(mbuf_pool) < MbufsPerReply
    /\ LET freed == SubSeq(sends, 1, Len(sends) - 1)
           got == SubSeq(segs, 1, Cardinality(mbuf_pool))
       IN  /\ mbuf_pool' = Chains(freed)
           /\ tx_pool' = tx_pool \cup DataBufs(freed)
           /\ refcnt' = [s \in Segments |->
                           (refcnt[s] + Refs(got, s) - RefsOf(freed, s)) % RefcntMod]
    /\ pc' = IF sends = <<>> THEN "crash" ELSE "failed"
    /\ UNCHANGED <<rxVars, rx_pool, batch, sends, sent, queue, done, mode>>

\* ENOMEM for want of a data buffer: the mbuf is freed before its release
\* function and its head are set.  If it was never used this jumps to
\* nowhere, else it frees the buffer of its last use a second time.
BuildFailsNoBuffer ==
    /\ Building /\ mode = "copy"
    /\ mbuf_pool # {} /\ tx_pool = {}
    /\ \/ pc' = "crash" /\ UNCHANGED tx_pool
       \/ pc' = "failed" /\ \E t \in TxBufs : tx_pool' = {t}
    /\ UNCHANGED <<rxVars, rx_pool, batch, sends, sent, mbuf_pool, refcnt, queue, done, mode>>

BuildDone ==
    /\ pc = "build" /\ Len(sends) = Len(batch)
    /\ pc' = "post"
    /\ UNCHANGED <<rxVars, rx_pool, batch, sends, sent, txVars, queue, done, mode>>

---------------------------------------------------------------------------
\* post_mbufs: mlx5_transmit_batch until every reply is in the send ring.

Used == Len(queue) * ReplyBlocks

\* Mutant: a segment loses one reference however often the reply names it.
ReapRefcntOnce ==
    LET n == IF done < SQ_CLEAN_MAX THEN done ELSE SQ_CLEAN_MAX
        freed == SubSeq(queue, 1, n)
    IN  /\ queue' = SubSeq(queue, n + 1, Len(queue))
        /\ done' = done - n
        /\ mbuf_pool' = mbuf_pool \cup Chains(freed)
        /\ tx_pool' = tx_pool \cup DataBufs(freed)
        /\ rx_pool' = rx_pool \cup Echoed(freed)
        /\ refcnt' = [s \in Segments |->
                        refcnt[s] - Cardinality({i \in DOMAIN freed : Refs(freed[i].segs, s) > 0})]

\* Mutant: completions are counted again by the next call.
ReapRecounts ==
    LET n == IF done < SQ_CLEAN_MAX THEN done ELSE SQ_CLEAN_MAX
        freed == SubSeq(queue, 1, n)
    IN  /\ queue' = SubSeq(queue, n + 1, Len(queue))
        /\ mbuf_pool' = mbuf_pool \cup Chains(freed)
        /\ tx_pool' = tx_pool \cup DataBufs(freed)
        /\ rx_pool' = rx_pool \cup Echoed(freed)
        /\ refcnt' = [s \in Segments |-> (refcnt[s] - RefsOf(freed, s)) % RefcntMod]
        /\ UNCHANGED done

\* Mutant: one mbuf of each chain is freed, and no data buffer.
ReapHeadOnly ==
    LET n == IF done < SQ_CLEAN_MAX THEN done ELSE SQ_CLEAN_MAX
        freed == SubSeq(queue, 1, n)
    IN  /\ queue' = SubSeq(queue, n + 1, Len(queue))
        /\ done' = done - n
        /\ mbuf_pool' = mbuf_pool \cup UNION {Take(c, 1) : c \in {freed[i].chain : i \in DOMAIN freed} \ {{}}}
        /\ rx_pool' = rx_pool \cup Echoed(freed)
        /\ refcnt' = [s \in Segments |-> (refcnt[s] - RefsOf(freed, s)) % RefcntMod]
        /\ UNCHANGED tx_pool

\* mlx5_gather_completions and mbuf_free of what it returned.
Reap ==
    LET n == IF done < SQ_CLEAN_MAX THEN done ELSE SQ_CLEAN_MAX
        freed == SubSeq(queue, 1, n)
    IN  /\ queue' = SubSeq(queue, n + 1, Len(queue))
        /\ done' = done - n
        /\ mbuf_pool' = mbuf_pool \cup Chains(freed)
        /\ tx_pool' = tx_pool \cup DataBufs(freed)
        /\ rx_pool' = rx_pool \cup Echoed(freed)
        /\ refcnt' = [s \in Segments |-> (refcnt[s] - RefsOf(freed, s)) % RefcntMod]

Posting == pc = "post" /\ sent < Len(sends)

\* Mutant: a full ring is retried without reaping.
PostFullNoReap ==
    /\ Posting
    /\ Used + ReplyBlocks > Capacity
    /\ UNCHANGED vars

\* No room: reap, then try again with the same reply.
PostFull ==
    /\ Posting
    /\ Used + ReplyBlocks > Capacity
    /\ Reap
    /\ UNCHANGED <<pc, rxVars, batch, sends, sent, mode>>

PostOne ==
    /\ Posting
    /\ Used + ReplyBlocks <= Capacity
    /\ queue' = Append(queue, sends[sent + 1])
    /\ sent' = sent + 1
    /\ pc' = IF Used + ReplyBlocks >= SQ_CLEAN_THRESH THEN "clean" ELSE "post"
    /\ UNCHANGED <<rxVars, rx_pool, batch, sends, txVars, done, mode>>

\* Enough blocks in flight: mlx5_transmit_one reaps before it returns.
Clean ==
    /\ pc = "clean"
    /\ Reap
    /\ pc' = "post"
    /\ UNCHANGED <<rxVars, batch, sends, sent, mode>>

\* Mutant: the packets of a batch are freed in echo mode, too.
PostDoneFreesEcho ==
    /\ pc = "post" /\ sent = Len(sends)
    /\ pc' = "free"
    /\ UNCHANGED <<rxVars, rx_pool, batch, sends, sent, txVars, queue, done, mode>>

\* All replies are posted.  An echoed packet now belongs to the send ring.
PostDone ==
    /\ pc = "post" /\ sent = Len(sends)
    /\ \/ mode = "echo" /\ pc' = "scan" /\ EndBatch
       \/ mode # "echo" /\ pc' = "free" /\ UNCHANGED <<batch, sends, sent>>
    /\ UNCHANGED <<rxVars, rx_pool, txVars, queue, done, mode>>

---------------------------------------------------------------------------
\* do_server, after process_server_requests.

\* Mutant: a failed batch is forgotten.
FreeFailedLeaks ==
    /\ pc = "failed"
    /\ pc' = "scan" /\ EndBatch
    /\ UNCHANGED <<rxVars, rx_pool, txVars, queue, done, mode>>

\* The batch failed: free its packets and forget them.
FreeFailed ==
    /\ pc = "failed"
    /\ rx_pool' = rx_pool \cup Range(batch)
    /\ \/ mode = "echo" /\ pc' = "scan" /\ EndBatch
       \/ /\ mode # "echo" /\ pc' = "free"
          /\ batch' = [i \in DOMAIN batch |-> NULL]
          /\ UNCHANGED <<sends, sent>>
    /\ UNCHANGED <<rxVars, txVars, queue, done, mode>>

\* Mutant: only the first packet of the batch is freed.
FreeBatchFirst ==
    /\ pc = "free"
    /\ pc' = "scan"
    /\ rx_pool' = rx_pool \cup ({batch[1]} \ {NULL})
    /\ EndBatch
    /\ UNCHANGED <<rxVars, txVars, queue, done, mode>>

\* Not in echo mode: free the processed packets.  mbuf_free(NULL) after a
\* failed batch is fatal.
FreeBatch ==
    /\ pc = "free"
    /\ \/ /\ NULL \in Range(batch)
          /\ pc' = "crash"
          /\ UNCHANGED <<rx_pool, batch, sends, sent>>
       \/ /\ NULL \notin Range(batch)
          /\ pc' = "scan"
          /\ rx_pool' = rx_pool \cup Range(batch)
          /\ EndBatch
    /\ UNCHANGED <<rxVars, txVars, queue, done, mode>>

\* The NIC (external) finishes posted replies in order.
NicComplete ==
    /\ done < Len(queue)
    /\ done' = done + 1
    /\ UNCHANGED <<pc, rxVars, rx_pool, batch, sends, sent, txVars, queue, mode>>

SegmentLists == [1 .. num_segments -> Segments]

CpuStep ==
    \/ SkipInvalid \/ TakeValid \/ ScanDone
    \/ BuildEcho \/ BuildEchoFails \/ BuildCopy
    \/ \E segs \in SegmentLists : BuildZeroCopy(segs) \/ BuildFails(segs)
    \/ BuildFailsNoBuffer \/ BuildDone
    \/ PostFull \/ PostOne \/ Clean \/ PostDone
    \/ FreeFailed \/ FreeBatch

Next ==
    \/ \E burst \in Bursts : Poll(burst)
    \/ CpuStep
    \/ NicComplete

Spec == Init /\ [][Next]_vars

\* One thread that never blocks, and a NIC that keeps completing.
FairSpec == Spec /\ WF_vars(CpuStep) /\ WF_vars(NicComplete)

---------------------------------------------------------------------------
\* Properties.

TypeOK ==
    /\ mode \in Modes
    /\ pc \in {"poll", "scan", "build", "post", "clean", "free", "failed", "crash"}
    /\ recv \in Seq([b : RxBufs, status : {"valid", "invalid"}])
    /\ batch \in Seq(RxBufs \cup {NULL}) /\ Len(batch) <= BATCH_SIZE
    /\ Len(sends) <= BATCH_SIZE /\ sent \in 0 .. Len(sends)
    /\ rx_ring \subseteq RxBufs /\ rx_pool \subseteq RxBufs
    /\ mbuf_pool \subseteq Mbufs /\ tx_pool \subseteq TxBufs
    /\ refcnt \in [Segments -> 0 .. RefcntMod - 1]
    /\ done \in 0 .. Len(queue) /\ Used <= Capacity

\* Packets of the burst that have not been looked at, replies built and not
\* posted, and packets of the batch still in the server's hands.
Waiting == {recv[i].b : i \in DOMAIN recv}
Pending == SubSeq(sends, sent + 1, Len(sends))
InBatch == (Range(batch) \ {NULL}) \ Echoed(SubSeq(sends, 1, sent))
Receivers == <<rx_ring, rx_pool, Waiting, InBatch, Echoed(queue)>>
Intact == pc \notin {"failed", "crash"}

\* No receive buffer is lost, freed twice, or reused while it is still being
\* read: each is in the ring, in the pool, in the burst, in the batch, or on
\* its way back to the client.
RxBufferOwners ==
    Intact =>
        /\ UNION Range(Receivers) = RxBufs
        /\ \A i, j \in DOMAIN Receivers : i # j => Receivers[i] \cap Receivers[j] = {}

\* No control mbuf and no data buffer is lost or given out twice.
ReplyOwners ==
    (Intact /\ NULL \notin Range(batch)) =>
        LET parts == Pending \o queue
        IN  /\ mbuf_pool \cup Chains(parts) = Mbufs
            /\ tx_pool \cup DataBufs(parts) = TxBufs
            /\ mbuf_pool \cap Chains(parts) = {} /\ tx_pool \cap DataBufs(parts) = {}
            /\ \A i, j \in DOMAIN parts : i # j =>
                 parts[i].chain \cap parts[j].chain = {} /\ parts[i].buf \cap parts[j].buf = {}

\* A segment of the working set is counted once for itself and once for
\* every mbuf of an unfinished reply that points to it.
RefcntExact ==
    (Intact /\ NULL \notin Range(batch)) =>
        \A s \in Segments : refcnt[s] = 1 + RefsOf(Pending \o queue, s)

\* The pools are large enough for what can be in flight: the receive ring is
\* always refilled ("failed to refill rx queue", mlx5_rxtx.c) and a reply
\* always finds its mbufs.
PoolsSuffice == pc \notin {"failed", "crash"}

\* A packet that joined the batch leaves it only after its reply was posted:
\* requests are never dropped on the way through the batching loop.
AnsweredBeforeForgotten ==
    [][\A i \in DOMAIN batch : (i \notin DOMAIN batch' \/ batch'[i] # batch[i]) =>
           i <= sent]_vars

\* The loop always gets back to polling the receive queue, however long the
\* send ring is full.
ReturnsToPoll == (pc # "poll") ~> (pc = "poll")

\* A batch that runs out of mbufs ends the process, although do_server means
\* to warn and go on: it frees the batch and then frees it again.  Only in
\* echo mode a failed batch is survived.
FailureIsFatal == (pc = "failed" /\ mode # "echo") ~> (pc = "crash")
=============================================================================
