------------------------------- MODULE Client -------------------------------
(***************************************************************************)
(* The client loop of main.c: do_client sends one request per interval     *)
(* (open loop), polls for replies in between, matches each reply to the    *)
(* time its request was sent by the id it carries, and prints the          *)
(* statistics when the time is up.                                         *)
(*                                                                         *)
(* timestamp_offset of a request is the interval to wait before it until   *)
(* it is sent, and the time it was sent from then on.  The transmit and    *)
(* receive paths (TxQueue, RxQueue) are seen through what they promise;    *)
(* replies may be lost, duplicated and reordered.                          *)
(***************************************************************************)
EXTENDS Latency

CONSTANTS
    Setups,           \* what a run may be started with: total_time (ticks),
                      \* segment_size, num_segments, and how many items
                      \* mbuf_mempool and tx_buf_mempool have
    Interval,         \* get_next_cycles_offset, in ticks
    FillSegs,         \* nb_segs of a fresh mbuf: what its memory was filled with
    RingBlocks,       \* blocks of the send ring
    SQ_CLEAN_THRESH, SQ_CLEAN_MAX,
    Burst,            \* packets per poll
    Copies,           \* replies the network may deliver for one request
    MaxPackets        \* bound: packets delivered in all

ASSUME ClientAssumption ==
    /\ Setups \subseteq [total_time : Nat, segment_size : Nat \ {0}, num_segments : Nat \ {0},
                        mbufs : Nat, tx_bufs : Nat]
    /\ Interval \in Nat \ {0}
    /\ FillSegs \in Nat /\ RingBlocks \in Nat \ {0}
    /\ SQ_CLEAN_THRESH \in Nat /\ SQ_CLEAN_MAX \in Nat \ {0}
    /\ Burst \in Nat \ {0} /\ Copies \in Nat /\ MaxPackets \in Nat

Pool == INSTANCE Mempool

VARIABLES
    setup,
    now,                         \* the clock
    pc,
    cur,                         \* current_request, as an index
    timestamp_offset,            \* of each of client_requests
    last_sent,                   \* last_sent_cycle
    pkt,                         \* the request being sent: [m, head]
    mbuf_mempool, tx_buf_mempool,
    queue, done,                 \* the send ring, and how many the NIC finished
    rxq, recv_pkts,              \* replies not gathered, and gathered ones
    packet_map, report,
    \* history: replies delivered per request, when each request was sent,
    \* and which replies the loop has processed
    replies, sent_at, log

sendVars == <<cur, timestamp_offset, last_sent, sent_at>>
poolVars == <<pkt, mbuf_mempool, tx_buf_mempool, queue, done>>
netVars == <<rxq, replies>>
recvVars == <<recv_pkts, packet_map, log>>
vars == <<setup, now, pc, sendVars, poolVars, netVars, recvVars, report>>

total_time == setup.total_time

\* initialize_client_requests: 20% more requests than the rate asks for.
num_requests == (total_time * 6) \div (Interval * 5) + 1

NoPkt == [m |-> -1, head |-> -1]
Invalid == -1     \* the id of a packet that check_valid_packet refuses
NoReport == [ret |-> "none"]

\* init_workload and init_mlx5 have succeeded; do_client is entered.
Init ==
    /\ setup \in Setups
    /\ now = 0
    /\ pc = IF PacketsDefined(setup.segment_size, setup.num_segments) THEN "loop" ELSE "exit"
    /\ cur = 0
    /\ timestamp_offset = [i \in 0 .. num_requests - 1 |-> Interval]
    /\ last_sent = 0
    /\ pkt = NoPkt
    /\ mbuf_mempool = Pool!mempool_create(setup.mbufs, 1, 1)
    /\ tx_buf_mempool = Pool!mempool_create(setup.tx_bufs, 1, 1)
    /\ queue = <<>> /\ done = 0
    /\ rxq = <<>> /\ recv_pkts = <<>>
    /\ packet_map = EmptyMap
    /\ report = NoReport
    /\ replies = [i \in {Invalid} \cup (0 .. num_requests - 1) |-> 0]
    /\ sent_at = <<>> /\ log = <<>>

---------------------------------------------------------------------------
\* Sending.

\* Time is left: take an mbuf and a buffer, copy header and request into it,
\* note the time.
Begin ==
    /\ pc = "loop" /\ now < total_time
    /\ ~ Pool!AllocFails(mbuf_mempool) /\ ~ Pool!AllocFails(tx_buf_mempool)
    /\ pkt' = [m |-> Pool!AllocItem(mbuf_mempool), head |-> Pool!AllocItem(tx_buf_mempool)]
    /\ mbuf_mempool' = Pool!mempool_alloc(mbuf_mempool)
    /\ tx_buf_mempool' = Pool!mempool_alloc(tx_buf_mempool)
    /\ timestamp_offset' = [timestamp_offset EXCEPT ![cur] = now]
    /\ last_sent' = now
    /\ sent_at' = Append(sent_at, now)
    /\ pc' = "send"
    /\ UNCHANGED <<setup, now, cur, queue, done, netVars, recvVars, report>>

\* No mbuf: -ENOMEM, without a report and without cleanup.
BeginNoMbuf ==
    /\ pc = "loop" /\ now < total_time
    /\ Pool!AllocFails(mbuf_mempool)
    /\ pc' = "nomem"
    /\ UNCHANGED <<setup, now, sendVars, poolVars, netVars, recvVars, report>>

\* No buffer: the NULL is not noticed, and the header is copied through it.
BeginNoBuffer ==
    /\ pc = "loop" /\ now < total_time
    /\ ~ Pool!AllocFails(mbuf_mempool) /\ Pool!AllocFails(tx_buf_mempool)
    /\ mbuf_mempool' = Pool!mempool_alloc(mbuf_mempool)
    /\ pc' = "crash"
    /\ UNCHANGED <<setup, now, sendVars, pkt, tx_buf_mempool, queue, done, netVars, recvVars, report>>

\* mlx5_fill_tx_segment: two header segments and one per mbuf of the chain,
\* in blocks of four.  nb_segs is whatever the memory of the mbuf holds.
NumWqes == (2 + FillSegs + 3) \div 4
FreeBlocks == RingBlocks - NumWqes * Len(queue)

\* mlx5_gather_completions and tx_completion for the first of q, n of them
\* finished: both items go back, in the order of the sends.
Reaped(n) == Min({n, SQ_CLEAN_MAX})
FreeAll(pool, items) ==
    LET after[k \in 0 .. Len(items)] ==
            IF k = 0 THEN pool ELSE Pool!mempool_free(after[k - 1], items[k])
    IN  after[Len(items)]
FreeSends(q, k) ==
    /\ mbuf_mempool' = FreeAll(mbuf_mempool, [i \in 1 .. k |-> q[i].m])
    /\ tx_buf_mempool' = FreeAll(tx_buf_mempool, [i \in 1 .. k |-> q[i].head])
    /\ queue' = SubSeq(q, k + 1, Len(q))
    /\ done' = done - k

\* Mutant: the ring is not cleaned when it is full.
SendFullNoReap ==
    /\ pc = "send" /\ FreeBlocks < NumWqes
    /\ UNCHANGED vars

\* One turn of "while (sent != 1)" with a full ring: it only cleans up.
SendFull ==
    /\ pc = "send" /\ FreeBlocks < NumWqes
    /\ FreeSends(queue, Reaped(done))
    /\ UNCHANGED <<setup, now, pc, sendVars, pkt, netVars, recvVars, report>>

\* Mutant: the mbuf is returned to the pool as soon as it is posted.
SendPostFrees ==
    /\ pc = "send" /\ FreeBlocks >= NumWqes
    /\ queue' = Append(queue, pkt) /\ done' = done
    /\ mbuf_mempool' = Pool!mempool_free(mbuf_mempool, pkt.m)
    /\ tx_buf_mempool' = tx_buf_mempool
    /\ pkt' = NoPkt
    /\ cur' = cur + 1
    /\ pc' = "poll"
    /\ UNCHANGED <<setup, now, timestamp_offset, last_sent, sent_at, netVars, recvVars, report>>

\* The turn that posts the request.
SendPost ==
    /\ pc = "send" /\ FreeBlocks >= NumWqes
    /\ LET q == Append(queue, pkt)
       IN  FreeSends(q, IF NumWqes * Len(q) >= SQ_CLEAN_THRESH THEN Reaped(done) ELSE 0)
    /\ pkt' = NoPkt
    /\ cur' = cur + 1
    /\ pc' = "poll"
    /\ UNCHANGED <<setup, now, timestamp_offset, last_sent, sent_at, netVars, recvVars, report>>

---------------------------------------------------------------------------
\* Receiving.

\* Mutant: the wait is for the interval alone.
DueAbsolute == now >= timestamp_offset[cur]

\* When the next request is due.  lateness_budget is always 0.
Due == now >= timestamp_offset[cur] + last_sent

EndPolling ==
    /\ pc = "poll" /\ Due
    /\ pc' = "loop"
    /\ UNCHANGED <<setup, now, sendVars, poolVars, netVars, recvVars, report>>

\* mlx5_gather_rx
GatherRx ==
    /\ pc = "poll" /\ ~ Due
    /\ rxq # <<>>
    /\ LET n == Min({Burst, Len(rxq)})
       IN  recv_pkts' = SubSeq(rxq, 1, n) /\ rxq' = SubSeq(rxq, n + 1, Len(rxq))
    /\ pc' = "recv"
    /\ UNCHANGED <<setup, now, sendVars, poolVars, replies, packet_map, log, report>>

\* check_valid_packet refuses the packet.
DropInvalid ==
    /\ pc = "recv" /\ recv_pkts # <<>>
    /\ Head(recv_pkts) = Invalid
    /\ recv_pkts' = Tail(recv_pkts)
    /\ UNCHANGED <<setup, now, pc, sendVars, poolVars, netVars, packet_map, log, report>>

\* The id in the reply finds the request, and that the time it was sent.
TakeReply ==
    /\ pc = "recv" /\ recv_pkts # <<>>
    /\ Head(recv_pkts) # Invalid
    /\ LET id == Head(recv_pkts)
       IN  /\ packet_map' = add_latency_to_map(packet_map, now - timestamp_offset[id], id)
           /\ log' = Append(log, [id |-> id, at |-> now])
    /\ recv_pkts' = Tail(recv_pkts)
    /\ UNCHANGED <<setup, now, pc, sendVars, poolVars, netVars, report>>

BurstDone ==
    /\ pc = "recv" /\ recv_pkts = <<>>
    /\ pc' = "poll"
    /\ UNCHANGED <<setup, now, sendVars, poolVars, netVars, recvVars, report>>

---------------------------------------------------------------------------
\* The end.

num_per_bucket == calculate_total_packets_required(setup.segment_size, setup.num_segments)

\* packet_id of the request after the last one sent, minus 1.
total_sent == cur - 1

\* calculate_and_dump_latencies.  With nothing sent the sizes of its arrays
\* wrap, and malloc fails; with no latency it gives up before it frees them.
Report ==
    LET entries == Entries(packet_map)
        dist == calculate_latencies(entries, total_sent, num_per_bucket)
    IN  IF total_sent < 0 THEN {[ret |-> "ENOMEM"]}
        ELSE IF dist.latencies = <<>> THEN {[ret |-> "EINVAL"]}
        ELSE {[ret |-> "ok", figures |-> f] : f \in Figures(dist)}

\* The time is up.
EndLoop ==
    /\ pc = "loop" /\ now >= total_time
    /\ pc' = "report"
    /\ UNCHANGED <<setup, now, sendVars, poolVars, netVars, recvVars, report>>

\* An id past the arrays is written to the heap behind them, which the
\* process may or may not survive.
Dump ==
    /\ pc = "report"
    /\ \/ report' \in Report /\ pc' = "done"
       \/ /\ total_sent >= 0 /\ PastArrays(Entries(packet_map), total_sent) # {}
          /\ pc' = "corrupted" /\ UNCHANGED report
    /\ UNCHANGED <<setup, now, sendVars, poolVars, netVars, recvVars>>

---------------------------------------------------------------------------
\* The NIC, the network and the server (external), and the clock.

\* What happens after the end concerns nobody.
Running == pc \in {"loop", "send", "poll", "recv"}

NicComplete ==
    /\ Running
    /\ done < Len(queue)
    /\ done' = done + 1
    /\ UNCHANGED <<setup, now, pc, sendVars, pkt, mbuf_mempool, tx_buf_mempool, queue, netVars, recvVars, report>>

\* Packets are looked at when the loop polls, and so need not arrive earlier.
Arrival == pc = "poll" /\ ~ Due /\ Len(rxq) + Len(log) < MaxPackets

\* A reply to a request that has been posted; it takes at least a tick.
Reply(id) ==
    /\ Arrival
    /\ id < cur /\ replies[id] < Copies
    /\ sent_at[id + 1] < now
    /\ replies' = [replies EXCEPT ![id] = @ + 1]
    /\ rxq' = Append(rxq, id)
    /\ UNCHANGED <<setup, now, pc, sendVars, poolVars, recvVars, report>>

\* A packet of somebody else's, before any reply, one that check_valid_packet
\* refuses.  That a valid packet carries the id of a request is taken for
\* granted, here and in the code.
Stray ==
    /\ Arrival
    /\ \A i \in DOMAIN replies : replies[i] = 0
    /\ replies' = [replies EXCEPT ![Invalid] = 1]
    /\ rxq' = Append(rxq, Invalid)
    /\ UNCHANGED <<setup, now, pc, sendVars, poolVars, recvVars, report>>

\* The clock moves while the loop waits: for the ring, or for the next
\* interval.  Nobody looks at it later than one interval after the end.
LastTick == total_time + Interval
Tick ==
    /\ pc \in {"send", "poll"}
    /\ now < LastTick
    /\ now' = now + 1
    /\ UNCHANGED <<setup, pc, sendVars, poolVars, netVars, recvVars, report>>

ClientStep ==
    \/ Begin \/ BeginNoMbuf \/ BeginNoBuffer \/ SendFull \/ SendPost
    \/ EndPolling \/ GatherRx \/ DropInvalid \/ TakeReply \/ BurstDone \/ EndLoop

Next ==
    \/ ClientStep \/ Dump \/ NicComplete \/ Tick \/ Stray
    \/ \E id \in DOMAIN timestamp_offset : Reply(id)

Spec == Init /\ [][Next]_vars

\* The loop runs, the NIC completes what was posted, and time passes.
\* Nothing obliges a reply to arrive.
FairSpec == Spec /\ WF_vars(ClientStep) /\ WF_vars(NicComplete) /\ WF_vars(Tick)

---------------------------------------------------------------------------
\* Properties.

\* timestamp_offset is an interval before its request is sent and a time
\* afterwards, and replies come late, twice or in another order: what is
\* recorded is, for every reply and in the order of processing, the time
\* since its own request was sent.  This holds up to MAX_ITERATIONS replies;
\* the one after that overwrites the first id and the count.
MapRecordsRtts ==
    Len(log) <= MAX_ITERATIONS =>
        Entries(packet_map) =
            [i \in DOMAIN log |-> [id |-> log[i].id, rtt |-> log[i].at - sent_at[log[i].id + 1]]]

\* The times noted for two requests are never closer together than the
\* interval, and so the unchecked current_request never passes the end of the
\* list, not even for the look at the next interval and at the packet_id
\* after the last request.  The time is noted before the wait for the ring:
\* two posts may follow one another at once when the first had to wait.  The
\* second part needs a total time that is nearly a whole number of intervals,
\* as main.c has it.
PacedWithinList ==
    /\ \A i \in 1 .. Len(sent_at) - 1 : sent_at[i + 1] - sent_at[i] >= Interval
    /\ cur < num_requests

\* The buffers the NIC reads from are nobody else's: an mbuf or a buffer is
\* free, with the loop, or in one send, and never in two places.
MbufsOut == [i \in DOMAIN queue |-> queue[i].m] \o (IF pc = "send" THEN <<pkt.m>> ELSE <<>>)
HeadsOut == [i \in DOMAIN queue |-> queue[i].head] \o (IF pc = "send" THEN <<pkt.head>> ELSE <<>>)
SendsOwnBuffers ==
    pc # "crash" =>
        /\ IsInjective(MbufsOut \o Pool!FreeItems(mbuf_mempool))
        /\ IsInjective(HeadsOut \o Pool!FreeItems(tx_buf_mempool))
        /\ mbuf_mempool.allocated = Len(MbufsOut)
        /\ tx_buf_mempool.allocated = Len(HeadsOut)

\* The replies to a request that count, their times, the requests that are
\* reported (all but the last one sent), and the place of each in the report.
CountedReplies(id) ==
    LET mine == {i \in DOMAIN log : log[i].id = id}
    IN  {i \in mine : Cardinality({j \in mine : j < i}) < num_per_bucket}
RttsOf(id) == {log[i].at - sent_at[id + 1] : i \in CountedReplies(id)}
Answered == {id \in 0 .. cur - 2 : CountedReplies(id) # {}}
Rank(id) == Cardinality({j \in Answered : j <= id})

Total(s) == LET sum[i \in 0 .. Len(s)] == IF i = 0 THEN 0 ELSE sum[i - 1] + s[i] IN sum[Len(s)]

\* v is the k-th smallest of s, with repetitions.
KthSmallest(s, k, v) ==
    /\ Cardinality({i \in DOMAIN s : s[i] < v}) < k
    /\ Cardinality({i \in DOMAIN s : s[i] <= v}) >= k

\* The smallest, the largest and the percentiles of n latencies.
StatsTrue(f, n) ==
    /\ KthSmallest(f.log, 1, f.min) /\ KthSmallest(f.log, n, f.max)
    /\ f.max - f.min < IntMod \div 2 =>
         /\ KthSmallest(f.log, n \div 2 + 1, f.median)
         /\ KthSmallest(f.log, (99 * n) \div 100 + 1, f.p99)
         /\ KthSmallest(f.log, (999 * n) \div 1000 + 1, f.p999)
FiguresExact(f, n) ==
    /\ Len(f.log) = n
    /\ \A id \in Answered : f.log[Rank(id)] = Max(RttsOf(id))
    /\ f.avg = Total(f.log) \div n
    /\ StatsTrue(f, n)

\* What is printed at the end, against the replies that came: every request
\* but the last one sent that has had a reply is reported once, in the order
\* of the ids, with the largest of its first num_per_bucket times; the last
\* one sent is left out.  The order statistics are the true ones as long as
\* no two latencies are 2^31 cycles apart.
ReportExact ==
    (pc = "done" /\ Len(log) <= MAX_ITERATIONS) =>
        \/ cur = 0 /\ report.ret = "ENOMEM"
        \/ cur > 0 /\ Answered = {} /\ report.ret = "EINVAL"
        \/ cur > 0 /\ Answered # {} /\ report.ret = "ok" /\ FiguresExact(report.figures, Cardinality(Answered))

\* The client gets to its report, whatever is lost and however full the
\* ring was.  Only pools no larger than the ring can run empty before.
ClientFinishes ==
    <>(\/ pc \in {"report", "exit"}
       \/ pc = "nomem" /\ Pool!Capacity(mbuf_mempool) <= RingBlocks
       \/ pc = "crash" /\ Pool!Capacity(tx_buf_mempool) <= RingBlocks)

\* "first client request (first packet sent at time 0)": a client with time
\* to run sends its first packet.
FirstPacketSent == total_time > 0 => <>(cur > 0)
=============================================================================
