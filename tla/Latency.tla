------------------------------ MODULE Latency ------------------------------
(***************************************************************************)
(* The statistics of latency.c as functions: the packet map that collects  *)
(* round-trip times while the client runs, their grouping by request, and  *)
(* the figures printed at the end.  Times stay in cycles: display only     *)
(* converts them, which keeps their order.                                 *)
(***************************************************************************)
EXTENDS Integers, Sequences, FiniteSets, FiniteSetsExt, SequencesExt

CONSTANTS
    MAX_ITERATIONS,     \* entries of a packet map
    MAX_SEGMENT_SIZE,
    IntMod              \* 2^32, the range of the int that cmpfunc returns

ASSUME LatencyAssumption ==
    /\ MAX_ITERATIONS \in Nat \ {0} /\ MAX_SEGMENT_SIZE \in Nat \ {0}
    /\ IntMod \in Nat \ {0} /\ IntMod % 2 = 0

Ceil(a, b) == (a + b - 1) \div b

\* The process exits where this is not defined.
PacketsDefined(seg_size, nb_segs) == seg_size > MAX_SEGMENT_SIZE => nb_segs = 1

calculate_total_packets_required(seg_size, nb_segs) ==
    IF seg_size > MAX_SEGMENT_SIZE
    THEN Ceil(seg_size, MAX_SEGMENT_SIZE)
    ELSE Ceil(nb_segs, MAX_SEGMENT_SIZE \div seg_size)

---------------------------------------------------------------------------
\* The packet map.

EmptyMap ==
    [rtts |-> [i \in 0 .. MAX_ITERATIONS - 1 |-> 0],
     ids |-> [i \in 0 .. MAX_ITERATIONS - 1 |-> 0],
     total_count |-> 0]

\* Mutant: the count moves between the two writes.
add_latency_to_map_torn(map, rtt, id) ==
    LET n == map.total_count
    IN  [map EXCEPT !.rtts[n] = rtt, !.ids[(n + 1) % MAX_ITERATIONS] = id, !.total_count = n + 1]

\* The bound is tested after the writes, and nobody looks at the result.  A
\* write past rtts lands in ids; the first one past ids lands in total_count,
\* which is then incremented, the later ones in what follows the entries.
add_latency_to_map(map, rtt, id) ==
    LET n == map.total_count
    IN  IF n < MAX_ITERATIONS
        THEN [map EXCEPT !.rtts[n] = rtt, !.ids[n] = id, !.total_count = n + 1]
        ELSE [map EXCEPT
                !.ids = [i \in DOMAIN map.ids |-> IF i = n - MAX_ITERATIONS THEN rtt ELSE map.ids[i]],
                !.total_count = (IF n = MAX_ITERATIONS THEN id ELSE n) + 1]

Entries(map) ==
    [i \in 1 .. map.total_count |-> [id |-> map.ids[i - 1], rtt |-> map.rtts[i - 1]]]

---------------------------------------------------------------------------
\* calculate_latencies

\* The slots of request r: its first round-trip times, a time of 0 being
\* indistinguishable from an empty slot.
GroupedRtts(entries, r, num_per_bucket) ==
    LET mine == {i \in DOMAIN entries : entries[i].id = r /\ entries[i].rtt # 0}
        kept == {i \in mine : Cardinality({j \in mine : j < i}) < num_per_bucket}
    IN  {entries[i].rtt : i \in kept}

\* sent_ids and grouped_rtts have num_sent rows; these ids are past them.
PastArrays(entries, num_sent) == {i \in DOMAIN entries : entries[i].id >= num_sent}

EmptyDist == [latencies |-> <<>>, latency_sum |-> 0]

\* The array has room for one entry per request, and gets no more.
add_latency(dist, latency) ==
    [latencies |-> Append(dist.latencies, latency), latency_sum |-> dist.latency_sum + latency]

\* Mutant: the smallest round-trip time of a request counts.
calculate_latencies_min(entries, num_sent, num_per_bucket) ==
    LET dist[r \in 0 .. num_sent] ==
            IF r = 0 THEN EmptyDist
            ELSE LET rtts == GroupedRtts(entries, r - 1, num_per_bucket)
                 IN  IF rtts = {} THEN dist[r - 1] ELSE add_latency(dist[r - 1], Min(rtts))
    IN  dist[num_sent]

\* One latency per answered request, in the order of the ids: its largest.
calculate_latencies(entries, num_sent, num_per_bucket) ==
    LET dist[r \in 0 .. num_sent] ==
            IF r = 0 THEN EmptyDist
            ELSE LET rtts == GroupedRtts(entries, r - 1, num_per_bucket)
                 IN  IF rtts = {} THEN dist[r - 1] ELSE add_latency(dist[r - 1], Max(rtts))
    IN  dist[num_sent]

---------------------------------------------------------------------------
\* dump_latencies and dump_debug_latencies

\* (int)(a - b): the difference of two uint64_t, narrowed.
cmpfunc(a, b) ==
    LET d == (a - b) % IntMod IN IF d >= IntMod \div 2 THEN d - IntMod ELSE d

\* qsort (external): ordered by cmpfunc where cmpfunc is an order on the
\* array, in any order where it is not.
Permuted(s) == {[i \in DOMAIN s |-> s[p[i]]] : p \in Bijection(DOMAIN s, DOMAIN s)}
Ordered(s) == \A i, j \in DOMAIN s : i < j => cmpfunc(s[i], s[j]) <= 0
qsort(s) ==
    IF \E t \in Permuted(s) : Ordered(t)
    THEN {t \in Permuted(s) : Ordered(t)}
    ELSE Permuted(s)

\* arr[(size_t)(n * fraction)]
Percentile(s, num, den) == s[(Len(s) * num) \div den + 1]

\* What is printed, for each way qsort may have left the array.
Figures(dist) ==
    {[min |-> Min(Range(dist.latencies)), max |-> Max(Range(dist.latencies)),
      avg |-> dist.latency_sum \div Len(dist.latencies),
      median |-> Percentile(arr, 50, 100), p99 |-> Percentile(arr, 99, 100),
      p999 |-> Percentile(arr, 999, 1000), log |-> dist.latencies] :
        arr \in qsort(dist.latencies)}
=============================================================================
