---------------------------- MODULE ClientProofs ----------------------------
(***************************************************************************)
(* Proofs about Client for every set of set-ups, every interval, ring and  *)
(* pool, and whatever the network loses, repeats or reorders.  The first   *)
(* half of the invariant is about the requests (what timestamp_offset      *)
(* means before and after a send), the second about the replies (each is   *)
(* for a request that was posted, and is recorded with its own time),      *)
(* Pace counts the intervals that have passed, and Buffers is about the    *)
(* two pools: the items that are out and those that are left make up one   *)
(* stack, in which no item has two places.  Late says that no time is 0;   *)
(* with facts about sorting and sums it gives the report.                  *)
(***************************************************************************)
EXTENDS Client, CounterArith, SequenceTheorems, FiniteSetTheorems

---------------------------------------------------------------------------
\* The inductive invariant.

Slots == 0 .. num_requests - 1
Types ==
    /\ setup \in Setups
    /\ now \in Nat /\ cur \in Nat /\ last_sent \in Nat
    /\ sent_at \in Seq(Nat)
    /\ timestamp_offset \in [Slots -> Nat]
    /\ Len(sent_at) = IF pc = "send" THEN cur + 1 ELSE cur

\* A slot has the interval before its request is sent, and then the time.
Stamps ==
    \A i \in Slots :
        timestamp_offset[i] = IF i < Len(sent_at) THEN sent_at[i + 1] ELSE Interval

\* Replies are to requests that were posted, and have their slot.
Posted == {i \in Slots : i < cur}
Ids == {Invalid} \cup Posted
Replies ==
    /\ rxq \in Seq(Ids) /\ recv_pkts \in Seq(Ids)
    /\ log \in Seq([id : Posted, at : Nat])

Cells == 0 .. MAX_ITERATIONS - 1
Recorded ==
    /\ packet_map \in [rtts : [Cells -> Int], ids : [Cells -> Int], total_count : Nat]
    /\ Len(log) <= MAX_ITERATIONS =>
         /\ packet_map.total_count = Len(log)
         /\ \A i \in 1 .. Len(log) :
              /\ packet_map.ids[i - 1] = log[i].id
              /\ packet_map.rtts[i - 1] = log[i].at - sent_at[log[i].id + 1]

Inv == Types /\ Stamps /\ Replies /\ Recorded

\* The k-th request is sent when k - 1 intervals have passed, and in time.
\* The loop comes back for the next one when an interval has passed.
Pace ==
    /\ \A i \in 1 .. Len(sent_at) - 1 : sent_at[i + 1] - sent_at[i] >= Interval
    /\ \A i \in 1 .. Len(sent_at) : (i - 1) * Interval <= sent_at[i] /\ sent_at[i] < total_time
    /\ Len(sent_at) > 0 => last_sent = sent_at[Len(sent_at)]
    /\ pc = "loop" /\ cur > 0 => now >= last_sent + Interval
    /\ Len(sent_at) < num_requests

---------------------------------------------------------------------------
\* What the steps have in common.

\* A step that leaves the requests alone: it begins and ends no send, and
\* does not come back to the top of the loop.
SendsStill ==
    /\ UNCHANGED <<setup, now, sendVars>>
    /\ pc = "send" <=> pc' = "send"
    /\ pc' = "loop" => pc = "loop"

\* A step that leaves the replies alone.
RepliesStill == UNCHANGED <<rxq, recvVars>>

\* Only four steps concern the requests.
LEMMA SendCases ==
  ASSUME [Next]_vars
  PROVE  Begin \/ SendPost \/ EndPolling \/ Tick \/ SendsStill
<1>1. CASE UNCHANGED vars
  BY <1>1 DEF vars, sendVars, SendsStill
<1>2. CASE BeginNoMbuf \/ BeginNoBuffer \/ SendFull
  BY <1>2 DEF BeginNoMbuf, BeginNoBuffer, SendFull, SendsStill
<1>3. CASE GatherRx \/ DropInvalid \/ TakeReply \/ BurstDone
  BY <1>3 DEF GatherRx, DropInvalid, TakeReply, BurstDone, SendsStill
<1>4. CASE EndLoop \/ Dump \/ NicComplete \/ Stray \/ \E id \in DOMAIN timestamp_offset : Reply(id)
  BY <1>4 DEF EndLoop, Dump, NicComplete, Stray, Reply, SendsStill
<1> QED
  BY <1>1, <1>2, <1>3, <1>4 DEF Next, ClientStep

\* Only five steps concern the replies.
LEMMA ReplyCases ==
  ASSUME [Next]_vars
  PROVE  \/ GatherRx \/ DropInvalid \/ TakeReply \/ Stray
         \/ \E id \in DOMAIN timestamp_offset : Reply(id)
         \/ RepliesStill
<1>1. CASE UNCHANGED vars
  BY <1>1 DEF vars, netVars, RepliesStill
<1>2. CASE Begin \/ BeginNoMbuf \/ BeginNoBuffer \/ SendFull \/ SendPost
  BY <1>2 DEF Begin, BeginNoMbuf, BeginNoBuffer, SendFull, SendPost, netVars, RepliesStill
<1>3. CASE EndPolling \/ BurstDone \/ EndLoop \/ Dump \/ NicComplete \/ Tick
  BY <1>3 DEF EndPolling, BurstDone, EndLoop, Dump, NicComplete, Tick, netVars, RepliesStill
<1> QED
  BY <1>1, <1>2, <1>3 DEF Next, ClientStep

\* The list has at least one request.
LEMMA ListSize ==
  ASSUME setup \in Setups
  PROVE  num_requests \in Nat \ {0} /\ total_time \in Nat
<1>1. total_time \in Nat /\ Interval \in Nat \ {0}
  BY ClientAssumption DEF total_time
<1>2. PICK M \in Nat \ {0}, a \in Nat : M = Interval * 5 /\ a = total_time * 6
  BY <1>1
<1>3. a \div M \in Nat
  BY <1>2, Z3
<1> QED
  BY <1>1, <1>2, <1>3 DEF num_requests

---------------------------------------------------------------------------
\* The requests.

\* Before the loop every slot has its interval.
LEMMA InitSends == Init => Types /\ Stamps
<1> SUFFICES ASSUME Init PROVE Types /\ Stamps
  OBVIOUS
<1>1. num_requests \in Nat \ {0}
  BY ListSize DEF Init
<1>2. pc # "send" /\ sent_at = <<>> /\ cur = 0 /\ last_sent = 0 /\ now = 0 /\ setup \in Setups
  BY DEF Init
<1>3. timestamp_offset = [i \in Slots |-> Interval]
  BY DEF Init, Slots
<1> QED
  BY <1>1, <1>2, <1>3, ClientAssumption DEF Types, Stamps, Slots

\* A step keeps what timestamp_offset means, whichever step it is.
LEMMA SendsKept ==
  ASSUME Types, Stamps, [Next]_vars
  PROVE  Types' /\ Stamps' /\ setup' = setup /\ num_requests' = num_requests
<1>0. setup' = setup
  BY SendCases DEF Begin, SendPost, EndPolling, Tick, SendsStill
<1>1. num_requests' = num_requests /\ Slots' = Slots
  BY <1>0 DEF num_requests, total_time, Slots
<1>2. CASE Begin
  <2>1. /\ timestamp_offset' = [timestamp_offset EXCEPT ![cur] = now]
        /\ sent_at' = Append(sent_at, now) /\ last_sent' = now
        /\ now' = now /\ cur' = cur /\ pc' = "send" /\ pc = "loop"
    BY <1>2 DEF Begin
  <2>2. Len(sent_at) = cur /\ cur \in Nat /\ now \in Nat /\ sent_at \in Seq(Nat)
    BY <2>1 DEF Types
  <2>3. /\ sent_at' \in Seq(Nat) /\ Len(sent_at') = cur + 1 /\ sent_at'[cur + 1] = now
        /\ \A i \in 1 .. cur : sent_at'[i] = sent_at[i]
    BY <2>1, <2>2
  <2>4. timestamp_offset' \in [Slots -> Nat]
    BY <2>1, <2>2 DEF Types
  <2>5. Types'
    BY <1>0, <1>1, <2>1, <2>2, <2>3, <2>4 DEF Types
  <2>6. ASSUME NEW i \in Slots
        PROVE  timestamp_offset'[i] = IF i < cur + 1 THEN sent_at'[i + 1] ELSE Interval
    <3>1. i \in Int /\ i >= 0
      BY DEF Slots
    <3>2. timestamp_offset[i] = IF i < cur THEN sent_at[i + 1] ELSE Interval
      BY <2>2 DEF Stamps
    <3>3. timestamp_offset'[i] = IF i = cur THEN now ELSE timestamp_offset[i]
      BY <2>1 DEF Types
    <3> QED
      BY <2>2, <2>3, <3>1, <3>2, <3>3
  <2>7. Stamps'
    BY <1>1, <2>3, <2>6 DEF Stamps
  <2> QED
    BY <1>0, <1>1, <2>5, <2>7
<1>3. CASE SendPost
  BY <1>0, <1>1, <1>3 DEF SendPost, Types, Stamps
<1>4. CASE EndPolling
  BY <1>0, <1>1, <1>4 DEF EndPolling, Types, Stamps, sendVars
<1>5. CASE Tick
  BY <1>0, <1>1, <1>5 DEF Tick, Types, Stamps, sendVars
<1>6. CASE SendsStill
  BY <1>0, <1>1, <1>6 DEF SendsStill, Types, Stamps, sendVars
<1> QED
  BY <1>2, <1>3, <1>4, <1>5, <1>6, SendCases

\* What is sent stays sent, at the time it was.
LEMMA HistoryKept ==
  ASSUME Types, [Next]_vars
  PROVE  /\ cur' \in Nat /\ cur <= cur'
         /\ \A i \in 1 .. Len(sent_at) : sent_at'[i] = sent_at[i]
<1>1. CASE Begin
  BY <1>1 DEF Begin, Types
<1>2. CASE SendPost
  BY <1>2 DEF SendPost, Types
<1>3. CASE EndPolling \/ Tick \/ SendsStill
  BY <1>3 DEF EndPolling, Tick, SendsStill, Types, sendVars
<1> QED
  BY <1>1, <1>2, <1>3, SendCases

---------------------------------------------------------------------------
\* The replies.

\* Before the loop there are no replies, and the map is empty.
LEMMA InitReplies == Init => Replies /\ Recorded
<1> SUFFICES ASSUME Init PROVE Replies /\ Recorded
  OBVIOUS
<1>1. rxq = <<>> /\ recv_pkts = <<>> /\ log = <<>> /\ packet_map = EmptyMap
  BY DEF Init
<1>2. Replies
  BY <1>1 DEF Replies
<1>3. Recorded
  BY <1>1 DEF Recorded, EmptyMap, Cells
<1> QED
  BY <1>2, <1>3

\* A sequence over a set is one over a larger set.
LEMMA SeqMono ==
  ASSUME NEW S, NEW T, S \subseteq T, NEW s \in Seq(S)
  PROVE  s \in Seq(T)
OBVIOUS

\* The first of a sequence is one of its elements, and the others stay.
LEMMA HeadTail ==
  ASSUME NEW S, NEW s \in Seq(S), s # <<>>
  PROVE  Head(s) \in S /\ Tail(s) \in Seq(S)
OBVIOUS

\* A burst is the first of the queue, the rest stays.
LEMMA Bursts ==
  ASSUME NEW S, NEW s \in Seq(S), NEW n \in 1 .. Len(s)
  PROVE  SubSeq(s, 1, n) \in Seq(S) /\ SubSeq(s, n + 1, Len(s)) \in Seq(S)
<1>1. Len(s) \in Nat /\ 1 \in 1 .. Len(s) + 1 /\ n \in 0 .. Len(s)
  OBVIOUS
<1>2. \A i \in 1 .. n : i \in 1 .. Len(s)
  OBVIOUS
<1>3. \A i \in n + 1 .. Len(s) : i \in 1 .. Len(s)
  OBVIOUS
<1> QED
  BY <1>1, <1>2, <1>3, SubSeqProperties

\* What is gathered at once is not more than there is.
LEMMA BurstSize ==
  ASSUME NEW n \in Nat \ {0}
  PROVE  Min({Burst, n}) \in 1 .. n
<1>1. Burst \in Nat \ {0}
  BY ClientAssumption
<1>2. \E x \in {Burst, n} : \A y \in {Burst, n} : x <= y
  BY <1>1
<1>3. Min({Burst, n}) \in {Burst, n} /\ \A y \in {Burst, n} : Min({Burst, n}) <= y
  BY <1>2 DEF Min
<1> QED
  BY <1>1, <1>3

\* Nothing but posted requests is ever answered, gathered or logged.
LEMMA RepliesKept ==
  ASSUME Types, Stamps, Replies, [Next]_vars
  PROVE  Replies'
<1> USE DEF Replies
<1>1. Posted \subseteq Posted' /\ Ids \subseteq Ids'
  <2>1. cur' \in Nat /\ cur <= cur' /\ cur \in Nat /\ Slots' = Slots
    BY SendsKept, HistoryKept DEF Types, Slots
  <2>2. \A i \in Slots : i \in Int
    BY DEF Slots
  <2> QED
    BY <2>1, <2>2 DEF Posted, Ids
<1>2. rxq \in Seq(Ids') /\ recv_pkts \in Seq(Ids')
  BY <1>1, SeqMono
<1>3. log \in Seq([id : Posted', at : Nat])
  <2>1. [id : Posted, at : Nat] \subseteq [id : Posted', at : Nat]
    BY <1>1
  <2>2. log \in Seq([id : Posted, at : Nat])
    OBVIOUS
  <2> QED
    BY <2>1, <2>2, SeqMono, ZenonT(30)
<1>4. CASE RepliesStill
  BY <1>2, <1>3, <1>4 DEF RepliesStill, recvVars
<1>5. CASE GatherRx
  <2>1. PICK n \in 1 .. Len(rxq) : recv_pkts' = SubSeq(rxq, 1, n) /\ rxq' = SubSeq(rxq, n + 1, Len(rxq))
    <3>1. rxq # <<>> /\ Len(rxq) \in Nat \ {0}
      BY <1>5 DEF GatherRx
    <3> QED
      BY <1>5, <3>1, BurstSize DEF GatherRx
  <2>2. recv_pkts' \in Seq(Ids') /\ rxq' \in Seq(Ids')
    BY <1>2, <2>1, Bursts
  <2>3. log' = log
    BY <1>5 DEF GatherRx
  <2> QED
    BY <1>3, <2>2, <2>3
<1>6. CASE DropInvalid
  <2>1. recv_pkts' = Tail(recv_pkts) /\ recv_pkts # <<>> /\ rxq' = rxq /\ log' = log
    BY <1>6 DEF DropInvalid, netVars
  <2> QED
    BY <1>2, <1>3, <2>1, HeadTail
<1>7. CASE TakeReply
  <2>1. /\ recv_pkts # <<>> /\ Head(recv_pkts) # Invalid
        /\ recv_pkts' = Tail(recv_pkts) /\ rxq' = rxq
        /\ log' = Append(log, [id |-> Head(recv_pkts), at |-> now])
    BY <1>7 DEF TakeReply, netVars
  <2>2. Head(recv_pkts) \in Ids' /\ Tail(recv_pkts) \in Seq(Ids')
    BY <1>2, <2>1, HeadTail
  <2>3. Head(recv_pkts) \in Posted'
    BY <2>1, <2>2 DEF Ids, Invalid
  <2>4. [id |-> Head(recv_pkts), at |-> now] \in [id : Posted', at : Nat]
    BY <2>3 DEF Types
  <2> QED
    BY <1>2, <1>3, <2>1, <2>2, <2>4
<1>8. CASE Stray
  <2>1. rxq' = Append(rxq, Invalid) /\ recv_pkts' = recv_pkts /\ log' = log
    BY <1>8 DEF Stray, recvVars
  <2>2. Invalid \in Ids'
    BY DEF Ids, Invalid
  <2> QED
    BY <1>2, <1>3, <2>1, <2>2
<1>9. ASSUME NEW id \in DOMAIN timestamp_offset, Reply(id)
      PROVE  Replies'
  <2>1. rxq' = Append(rxq, id) /\ recv_pkts' = recv_pkts /\ log' = log /\ id < cur
    BY <1>9 DEF Reply, recvVars
  <2>2. id \in Ids'
    BY <1>1, <2>1 DEF Ids, Posted, Types
  <2> QED
    BY <1>2, <1>3, <2>1, <2>2
<1> QED
  BY <1>4, <1>5, <1>6, <1>7, <1>8, <1>9, ReplyCases

---------------------------------------------------------------------------
\* The packet map.

\* The times that are recorded do not change when later requests are sent.
LEMMA TimesKept ==
  ASSUME Types, Replies, [Next]_vars, NEW i \in 1 .. Len(log)
  PROVE  sent_at'[log[i].id + 1] = sent_at[log[i].id + 1]
<1>0. log[i] \in [id : Posted, at : Nat]
  <2>1. log \in Seq([id : Posted, at : Nat])
    BY DEF Replies
  <2>2. \A S : \A s \in Seq(S) : \A j \in 1 .. Len(s) : s[j] \in S
    OBVIOUS
  <2> QED
    BY <2>1, <2>2
<1>1. log[i].id \in Slots /\ log[i].id < cur
  BY <1>0 DEF Posted
<1>2. PICK k \in Int : k = log[i].id /\ k >= 0 /\ k < cur
  BY <1>1 DEF Slots
<1>3. cur \in Nat /\ Len(sent_at) \in Nat /\ cur <= Len(sent_at)
  BY DEF Types
<1>4. k + 1 \in 1 .. Len(sent_at)
  BY <1>2, <1>3
<1> QED
  BY <1>2, <1>4, HistoryKept

\* A reply is added with the time since its own request, and with its id.
LEMMA Added ==
  ASSUME Types, Stamps, Replies, Recorded, TakeReply
  PROVE  Recorded'
<1>0. MAX_ITERATIONS \in Nat \ {0}
  BY LatencyAssumption
<1>1. PICK id \in Posted :
        /\ packet_map' = add_latency_to_map(packet_map, now - timestamp_offset[id], id)
        /\ log' = Append(log, [id |-> id, at |-> now])
  <2>1. recv_pkts # <<>> /\ Head(recv_pkts) # Invalid
    BY DEF TakeReply
  <2>2. Head(recv_pkts) \in Posted
    BY <2>1, HeadTail DEF Replies, Ids, Invalid
  <2> QED
    BY <2>2 DEF TakeReply
<1>2. sent_at' = sent_at
  BY DEF TakeReply, sendVars
<1>3. id \in Slots /\ id \in Nat /\ timestamp_offset[id] = sent_at[id + 1] /\ timestamp_offset[id] \in Nat
  BY DEF Posted, Slots, Stamps, Types
<1>4. PICK rtt \in Int : rtt = now - sent_at[id + 1]
  BY <1>3 DEF Types
<1>5. packet_map' = add_latency_to_map(packet_map, rtt, id)
  BY <1>1, <1>3, <1>4
<1>6. PICK n \in Nat : n = packet_map.total_count
  BY DEF Recorded
<1>7. log \in Seq([id : Posted, at : Nat])
  BY DEF Replies
<1>8. PICK L \in Nat : L = Len(log)
  BY <1>7
<1>9. CASE n < MAX_ITERATIONS
  <2>1. packet_map' = [packet_map EXCEPT !.rtts[n] = rtt, !.ids[n] = id, !.total_count = n + 1]
    BY <1>5, <1>6, <1>9 DEF add_latency_to_map
  <2>2. packet_map.rtts \in [Cells -> Int] /\ packet_map.ids \in [Cells -> Int] /\ n \in Cells
    BY <1>0, <1>9 DEF Recorded, Cells
  <2>3. /\ packet_map'.rtts = [packet_map.rtts EXCEPT ![n] = rtt]
        /\ packet_map'.ids = [packet_map.ids EXCEPT ![n] = id]
        /\ packet_map'.total_count = n + 1
    BY <2>1 DEF Recorded
  <2>4. packet_map' \in [rtts : [Cells -> Int], ids : [Cells -> Int], total_count : Nat]
    <3>1. packet_map' = [rtts |-> packet_map'.rtts, ids |-> packet_map'.ids,
                           total_count |-> packet_map'.total_count]
      BY <2>1 DEF Recorded
    <3>2. packet_map'.rtts \in [Cells -> Int] /\ packet_map'.ids \in [Cells -> Int]
      BY <1>3, <2>2, <2>3
    <3> QED
      BY <2>3, <3>1, <3>2
  <2>5. ASSUME L + 1 <= MAX_ITERATIONS
        PROVE  /\ n = L
               /\ \A i \in 1 .. L : /\ packet_map.ids[i - 1] = log[i].id
                                    /\ packet_map.rtts[i - 1] = log[i].at - sent_at[log[i].id + 1]
    BY <1>0, <1>6, <1>8, <2>5 DEF Recorded
  <2>6. /\ Len(log') = L + 1 /\ log'[L + 1] = [id |-> id, at |-> now]
        /\ \A i \in 1 .. L : log'[i] = log[i]
    BY <1>1, <1>7, <1>8
  <2>7. ASSUME L + 1 <= MAX_ITERATIONS, NEW i \in 1 .. L + 1
        PROVE  /\ packet_map'.ids[i - 1] = log'[i].id
               /\ packet_map'.rtts[i - 1] = log'[i].at - sent_at[log'[i].id + 1]
    <3>1. CASE i = L + 1
      BY <1>4, <2>2, <2>3, <2>5, <2>6, <2>7, <3>1
    <3>2. CASE i \in 1 .. L
      <4>1. i - 1 # n /\ i - 1 \in Cells
        BY <1>0, <2>5, <2>7, <3>2 DEF Cells
      <4>2. packet_map'.ids[i - 1] = packet_map.ids[i - 1] /\ packet_map'.rtts[i - 1] = packet_map.rtts[i - 1]
        BY <2>2, <2>3, <4>1
      <4> QED
        BY <2>5, <2>6, <2>7, <3>2, <4>2
    <3> QED
      BY <2>7, <3>1, <3>2
  <2> QED
    BY <1>2, <2>3, <2>4, <2>5, <2>6, <2>7 DEF Recorded, Cells
<1>10. CASE ~ (n < MAX_ITERATIONS)
  <2>1. PICK ids, count : /\ ids = [i \in DOMAIN packet_map.ids |->
                                      IF i = n - MAX_ITERATIONS THEN rtt ELSE packet_map.ids[i]]
                          /\ count = (IF n = MAX_ITERATIONS THEN id ELSE n) + 1
                          /\ packet_map' = [packet_map EXCEPT !.ids = ids, !.total_count = count]
    BY <1>5, <1>6, <1>10, Zenon DEF add_latency_to_map
  <2>2. packet_map' \in [rtts : [Cells -> Int], ids : [Cells -> Int], total_count : Nat]
    <3>1. /\ packet_map' = [rtts |-> packet_map'.rtts, ids |-> packet_map'.ids,
                            total_count |-> packet_map'.total_count]
          /\ packet_map'.rtts = packet_map.rtts /\ packet_map'.ids = ids
          /\ packet_map'.total_count = count
      BY <2>1 DEF Recorded
    <3>2. packet_map.rtts \in [Cells -> Int] /\ packet_map.ids \in [Cells -> Int]
      BY DEF Recorded
    <3>3. ids \in [Cells -> Int] /\ count \in Nat
      BY <1>3, <1>6, <2>1, <3>2
    <3> QED
      BY <3>1, <3>2, <3>3
  <2>3. Len(log') = L + 1
    BY <1>1, <1>7, <1>8
  <2>4. L + 1 > MAX_ITERATIONS
    BY <1>0, <1>6, <1>8, <1>10 DEF Recorded
  <2> QED
    BY <1>0, <2>2, <2>3, <2>4 DEF Recorded, Cells
<1> QED
  BY <1>9, <1>10

\* A step keeps the map and the log in agreement.
LEMMA RecordedKept ==
  ASSUME Types, Stamps, Replies, Recorded, [Next]_vars
  PROVE  Recorded'
<1>1. CASE TakeReply
  BY <1>1, Added
<1>2. CASE ~ TakeReply
  <2>1. packet_map' = packet_map /\ log' = log
    BY <1>2, ReplyCases DEF RepliesStill, GatherRx, DropInvalid, Stray, Reply, recvVars
  <2>2. \A i \in 1 .. Len(log) : sent_at'[log[i].id + 1] = sent_at[log[i].id + 1]
    BY TimesKept
  <2> QED
    BY <2>1, <2>2 DEF Recorded, Cells
<1> QED
  BY <1>1, <1>2

---------------------------------------------------------------------------
\* The first theorem.

\* Whatever arrives, and in whatever order, requests and replies fit
\* together: the invariant that the properties of the client rest on.
THEOREM Invariance == Spec => []Inv
<1>1. Init => Inv
  BY InitSends, InitReplies DEF Inv
<1>2. Inv /\ [Next]_vars => Inv'
  <2> SUFFICES ASSUME Inv, [Next]_vars PROVE Inv'
    OBVIOUS
  <2>1. Types' /\ Stamps'
    BY SendsKept DEF Inv
  <2>2. Replies'
    BY RepliesKept DEF Inv
  <2>3. Recorded'
    BY RecordedKept DEF Inv
  <2> QED
    BY <2>1, <2>2, <2>3 DEF Inv
<1> QED
  BY <1>1, <1>2, PTL DEF Spec

\* The map is the log of the replies, each with its own round-trip time,
\* until it is full: add_latency_to_map by the id in the reply.
THEOREM RttsHold == Spec => []MapRecordsRtts
<1>1. Inv => MapRecordsRtts
  <2> SUFFICES ASSUME Inv, Len(log) <= MAX_ITERATIONS
               PROVE  Entries(packet_map) = [i \in DOMAIN log |->
                        [id |-> log[i].id, rtt |-> log[i].at - sent_at[log[i].id + 1]]]
    BY DEF MapRecordsRtts
  <2>1. DOMAIN log = 1 .. Len(log) /\ packet_map.total_count = Len(log)
    BY DEF Inv, Recorded, Replies
  <2>2. \A i \in 1 .. Len(log) :
            [id |-> packet_map.ids[i - 1], rtt |-> packet_map.rtts[i - 1]]
              = [id |-> log[i].id, rtt |-> log[i].at - sent_at[log[i].id + 1]]
    BY DEF Inv, Recorded
  <2> QED
    BY <2>1, <2>2 DEF Entries
<1> QED
  BY <1>1, Invariance, PTL
---------------------------------------------------------------------------
\* The pace of the requests.

\* The total time is close enough to a whole number of intervals for the
\* padding of the list to make up for the difference.  In main.c both come
\* from rate_pps, the time is rate_pps intervals for each second, and only
\* the rounding of the interval is left; from five requests on the padding
\* is larger than that.
Padded == \A s \in Setups : 5 * Interval * Ceil(s.total_time, Interval) <= 6 * s.total_time

\* A request that is sent in time leaves another one in the list.
LEMMA RoomLeft ==
  ASSUME Padded, setup \in Setups, NEW k \in Nat, k * Interval < total_time
  PROVE  k + 1 < num_requests
<1>1. PICK T \in Nat, I \in Nat \ {0} : T = total_time /\ I = Interval
  BY ListSize, ClientAssumption
<1>2. PICK c \in Int, r \in 0 .. I - 1 : T + I - 1 = I * c + r /\ c = (T + I - 1) \div I
  BY <1>1, DivMod
<1>3. k + 1 <= c
  <2> SUFFICES ASSUME c <= k PROVE FALSE
    BY <1>2
  <2>1. PICK d \in Nat : k = c + d
    BY Z3
  <2>2. I * k = I * c + I * d /\ I * d >= 0
    BY <2>1, Z3
  <2>3. I * k = k * Interval
    BY <1>1, Z3
  <2> QED
    BY <1>1, <1>2, <2>2, <2>3, Z3
<1>4. 5 * I * c <= 6 * T
  BY <1>1, <1>2 DEF Padded, Ceil, total_time
<1>5. PICK M \in Nat \ {0}, a \in Nat : M = I * 5 /\ a = T * 6
  OBVIOUS
<1>6. PICK q \in Int, w \in 0 .. M - 1 : a = M * q + w /\ q = a \div M
  BY DivMod
<1>7. M * c <= a
  <2>1. 5 * I * c = (I * 5) * c
    BY Z3
  <2> QED
    BY <1>4, <1>5, <2>1, Z3
<1>8. c <= q
  <2> SUFFICES ASSUME q + 1 <= c PROVE FALSE
    BY <1>2, <1>6
  <2>1. PICK e \in Nat : c = q + 1 + e
    <3>1. c - (q + 1) \in Nat /\ c = q + 1 + (c - (q + 1))
      BY <1>2, <1>6
    <3> QED
      BY <3>1
  <2>2. M * c = M * q + M + M * e /\ M * e >= 0
    BY <2>1, Z3
  <2> QED
    BY <1>6, <1>7, <2>2, Z3
<1>9. num_requests = q + 1
  BY <1>1, <1>5, <1>6 DEF num_requests
<1> QED
  BY <1>2, <1>3, <1>6, <1>8, <1>9

\* Before the loop nothing is sent, and the list is not empty.
LEMMA InitPace == Init => Pace
<1> SUFFICES ASSUME Init PROVE Pace
  OBVIOUS
<1>1. num_requests \in Nat \ {0}
  BY ListSize DEF Init
<1>2. sent_at = <<>> /\ cur = 0
  BY DEF Init
<1> QED
  BY <1>1, <1>2 DEF Pace

\* An interval after the last request is one more interval from the start.
LEMMA OneMore ==
  ASSUME NEW k \in Int, NEW I \in Int
  PROVE  (k - 1) * I + I = k * I
BY Z3

\* A request is begun only when an interval has passed since the last one.
LEMMA PaceKept ==
  ASSUME Padded, Types, Stamps, Pace, [Next]_vars
  PROVE  Pace'
<1>0. setup' = setup /\ num_requests' = num_requests /\ total_time' = total_time
  BY SendsKept DEF total_time
<1>1. Interval \in Nat \ {0} /\ total_time \in Nat
  BY ClientAssumption, ListSize DEF Types
<1>2. CASE Begin
  <2>1. /\ sent_at' = Append(sent_at, now) /\ last_sent' = now
        /\ now < total_time /\ cur' = cur /\ pc' = "send" /\ pc = "loop"
    BY <1>2 DEF Begin
  <2>2. Len(sent_at) = cur /\ cur \in Nat /\ now \in Nat /\ sent_at \in Seq(Nat)
    BY <2>1 DEF Types
  <2>3. /\ Len(sent_at') = cur + 1 /\ sent_at'[cur + 1] = now
        /\ \A i \in 1 .. cur : sent_at'[i] = sent_at[i]
    BY <2>1, <2>2
  <2>4. cur > 0 => /\ now >= sent_at[cur] + Interval /\ sent_at[cur] \in Nat
                   /\ (cur - 1) * Interval <= sent_at[cur]
    BY <2>1, <2>2 DEF Pace
  <2>5. cur * Interval <= now
    <3>1. CASE cur = 0
      <4>1. cur * Interval = 0
        BY <1>1, <3>1, Z3
      <4> QED
        BY <2>2, <4>1
    <3>2. CASE cur > 0
      <4>1. PICK x \in Int, y \in Int : x = (cur - 1) * Interval /\ y = cur * Interval
        BY <1>1, <2>2, Z3
      <4>2. x + Interval = y
        BY <1>1, <2>2, <4>1, OneMore
      <4> QED
        BY <1>1, <2>2, <2>4, <3>2, <4>1, <4>2
    <3> QED
      BY <2>2, <3>1, <3>2
  <2>6. cur + 1 < num_requests
    <3>1. PICK y \in Int : y = cur * Interval
      BY <1>1, <2>2, Z3
    <3>2. cur * Interval < total_time
      BY <1>1, <2>1, <2>2, <2>5, <3>1
    <3> QED
      BY <2>2, <3>2, RoomLeft DEF Types
  <2>7. \A i \in 1 .. cur : sent_at'[i + 1] - sent_at'[i] >= Interval
    <3> SUFFICES ASSUME NEW i \in 1 .. cur PROVE sent_at'[i + 1] - sent_at'[i] >= Interval
      OBVIOUS
    <3>1. CASE i = cur
      BY <1>1, <2>2, <2>3, <2>4, <3>1
    <3>2. CASE i < cur
      <4>1. i \in 1 .. Len(sent_at) - 1 /\ i + 1 \in 1 .. cur
        BY <2>2, <3>2
      <4>2. sent_at[i + 1] - sent_at[i] >= Interval
        BY <4>1 DEF Pace
      <4> QED
        BY <2>3, <4>1, <4>2
    <3> QED
      BY <2>2, <3>1, <3>2
  <2>8. \A i \in 1 .. cur + 1 : (i - 1) * Interval <= sent_at'[i] /\ sent_at'[i] < total_time
    <3> SUFFICES ASSUME NEW i \in 1 .. cur + 1
                 PROVE  (i - 1) * Interval <= sent_at'[i] /\ sent_at'[i] < total_time
      OBVIOUS
    <3>1. CASE i = cur + 1
      <4>1. i - 1 = cur /\ sent_at'[i] = now
        BY <2>2, <2>3, <3>1
      <4> QED
        BY <2>1, <2>5, <4>1
    <3>2. CASE i \in 1 .. cur
      BY <2>2, <2>3, <3>2 DEF Pace
    <3> QED
      BY <2>2, <3>1, <3>2
  <2> QED
    <3>1. Len(sent_at') - 1 = cur /\ Len(sent_at') < num_requests' /\ last_sent' = sent_at'[Len(sent_at')]
      BY <1>0, <2>1, <2>2, <2>3, <2>6
    <3>2. pc' # "loop"
      BY <2>1
    <3> QED
      BY <1>0, <2>3, <2>7, <2>8, <3>1, <3>2, SMTT(30) DEF Pace
<1>3. CASE EndPolling
  <2>1. /\ pc = "poll" /\ pc' = "loop"
        /\ now' = now /\ cur' = cur /\ last_sent' = last_sent /\ sent_at' = sent_at
    BY <1>3 DEF EndPolling, sendVars
  <2>2. cur \in Slots /\ cur = Len(sent_at)
    BY <2>1, ListSize DEF Types, Pace, Slots
  <2>3. timestamp_offset[cur] = Interval
    BY <2>2 DEF Stamps, Slots
  <2>4. now >= last_sent + Interval
    BY <1>1, <1>3, <2>3 DEF EndPolling, Due, Types
  <2> QED
    BY <1>0, <2>1, <2>4 DEF Pace
<1>4. CASE SendPost
  <2>1. pc' = "poll" /\ last_sent' = last_sent /\ sent_at' = sent_at
    BY <1>4 DEF SendPost
  <2> QED
    BY <1>0, <2>1 DEF Pace
<1>5. CASE Tick
  <2>1. pc # "loop" /\ pc' = pc /\ last_sent' = last_sent /\ sent_at' = sent_at
    BY <1>5 DEF Tick, sendVars
  <2> QED
    BY <1>0, <2>1 DEF Pace
<1>6. CASE SendsStill
  <2>1. /\ now' = now /\ cur' = cur /\ last_sent' = last_sent /\ sent_at' = sent_at
        /\ pc' = "loop" => pc = "loop"
    BY <1>6 DEF SendsStill, sendVars
  <2> QED
    BY <1>0, <2>1 DEF Pace
<1> QED
  BY <1>2, <1>3, <1>4, <1>5, <1>6, SendCases

\* When the list has the padding that initialize_client_requests means it to
\* have, do_client notes no two requests within an interval and never looks
\* past the end of the list, though nothing there checks for it.
THEOREM PaceHolds ==
  ASSUME Padded
  PROVE  Spec => []PacedWithinList
<1>1. Init => Types /\ Stamps /\ Pace
  BY InitSends, InitPace
<1>2. Types /\ Stamps /\ Pace /\ [Next]_vars => Types' /\ Stamps' /\ Pace'
  BY SendsKept, PaceKept
<1>3. Types /\ Pace => PacedWithinList
  <2> SUFFICES ASSUME Types, Pace PROVE PacedWithinList
    OBVIOUS
  <2>1. cur \in Nat /\ cur <= Len(sent_at) /\ Len(sent_at) \in Nat /\ num_requests \in Nat
    BY ListSize DEF Types
  <2> QED
    BY <2>1 DEF Pace, PacedWithinList
<1> QED
  BY <1>1, <1>2, <1>3, PTL DEF Spec

---------------------------------------------------------------------------
\* The pools.

Pools == [free_items : Seq(Int), allocated : Nat]

\* What is out of a pool and what is in it, by the place in the stack: the
\* places of the items that are out are taken by them in the order in which
\* they are going to be returned.
Stack(p, out) ==
    [j \in 1 .. Len(p.free_items) |-> IF j <= p.allocated THEN out[j] ELSE p.free_items[j]]

\* `out` is out of the pool, and no item is in two places.
Kept(p, out) ==
    /\ p \in Pools /\ out \in Seq(Int)
    /\ p.allocated = Len(out) /\ p.allocated <= Len(p.free_items)
    /\ IsInjective(Stack(p, out))

\* Freeing the first k items that are out leaves them on top of the stack,
\* the first of them lowest.
Freed(p, items, k) ==
    [free_items |-> [j \in 1 .. Len(p.free_items) |->
                        IF p.allocated - k < j /\ j <= p.allocated
                        THEN items[p.allocated - j + 1] ELSE p.free_items[j]],
     allocated |-> p.allocated - k]

\* One more item freed.
LEMMA FreeOne ==
  ASSUME NEW p \in Pools, NEW items \in Seq(Int), NEW k \in Nat,
         p.allocated <= Len(p.free_items), k + 1 <= Len(items), k + 1 <= p.allocated
  PROVE  Pool!mempool_free(Freed(p, items, k), items[k + 1]) = Freed(p, items, k + 1)
<1>1. PICK a \in Nat, n \in Nat, f \in Seq(Int) : a = p.allocated /\ n = Len(p.free_items) /\ f = p.free_items
  BY DEF Pools
<1>a. k + 1 <= a /\ a <= n
  BY <1>1
<1> DEFINE G == [j \in 1 .. n |-> IF a - k < j /\ j <= a THEN items[a - j + 1] ELSE f[j]]
           H == [j \in 1 .. n |-> IF a - (k + 1) < j /\ j <= a THEN items[a - j + 1] ELSE f[j]]
<1>2. Freed(p, items, k) = [free_items |-> G, allocated |-> a - k]
  BY <1>1 DEF Freed
<1>3. Freed(p, items, k + 1) = [free_items |-> H, allocated |-> a - (k + 1)]
  BY <1>1 DEF Freed
<1>4. [G EXCEPT ![a - k] = items[k + 1]] = H
  <2>1. a - k \in 1 .. n /\ a - (a - k) + 1 = k + 1 /\ a - (k + 1) < a - k /\ a - k <= a
    BY <1>a
  <2>2. ASSUME NEW j \in 1 .. n PROVE [G EXCEPT ![a - k] = items[k + 1]][j] = H[j]
    <3>1. CASE j = a - k
      <4>1. H[j] = items[k + 1]
        BY <2>1, <3>1
      <4>2. [G EXCEPT ![a - k] = items[k + 1]][j] = items[k + 1]
        BY <3>1
      <4> QED
        BY <4>1, <4>2
    <3>2. CASE j # a - k
      <4>1. (a - k < j /\ j <= a) <=> (a - (k + 1) < j /\ j <= a)
        BY <1>a, <3>2
      <4>2. [G EXCEPT ![a - k] = items[k + 1]][j] = G[j]
        BY <3>2
      <4> QED
        BY <4>1, <4>2
    <3> QED
      BY <3>1, <3>2
  <2> QED
    BY <2>2
<1> HIDE DEF G, H
<1>5. Pool!mempool_free([free_items |-> G, allocated |-> a - k], items[k + 1])
        = [free_items |-> [G EXCEPT ![a - k] = items[k + 1]], allocated |-> a - k - 1]
  <2>1. PICK c \in Nat \ {0} : c = a - k
    BY <1>1
  <2>2. Pool!mempool_free([free_items |-> G, allocated |-> c], items[k + 1])
          = [free_items |-> [G EXCEPT ![c] = items[k + 1]], allocated |-> c - 1]
    BY DEF Pool!mempool_free
  <2> QED
    BY <2>1, <2>2
<1>6. a - k - 1 = a - (k + 1)
  OBVIOUS
<1> QED
  BY <1>2, <1>3, <1>4, <1>5, <1>6

\* tx_completion for one send after the other: what FreeAll computes.
LEMMA FreeAllIs ==
  ASSUME NEW p \in Pools, NEW items \in Seq(Int),
         p.allocated <= Len(p.free_items), Len(items) <= p.allocated
  PROVE  FreeAll(p, items) = Freed(p, items, Len(items))
<1>1. PICK n \in Nat : n = Len(items)
  OBVIOUS
<1> DEFINE Step(g) == [k \in 0 .. n |-> IF k = 0 THEN p ELSE Pool!mempool_free(g[k - 1], items[k])]
           G == [k \in 0 .. n |-> Freed(p, items, k)]
<1>2. Freed(p, items, 0) = p
  <2>1. p = [free_items |-> p.free_items, allocated |-> p.allocated] /\ p.free_items \in Seq(Int) /\ p.allocated \in Nat
    BY DEF Pools
  <2>2. [j \in 1 .. Len(p.free_items) |->
                        IF p.allocated - 0 < j /\ j <= p.allocated
                        THEN items[p.allocated - j + 1] ELSE p.free_items[j]] = p.free_items
    BY <2>1
  <2> QED
    BY <2>1, <2>2 DEF Freed
<1>3. ASSUME NEW k \in 1 .. n
      PROVE  Freed(p, items, k) = Pool!mempool_free(Freed(p, items, k - 1), items[k])
  <2>1. PICK j \in Nat : j = k - 1
    OBVIOUS
  <2>2. j + 1 = k /\ j + 1 <= Len(items) /\ j + 1 <= p.allocated
    BY <1>1, <2>1 DEF Pools
  <2> QED
    BY <2>1, <2>2, FreeOne
<1>4. G = Step(G)
  <2>1. ASSUME NEW k \in 0 .. n PROVE G[k] = Step(G)[k]
    <3>1. CASE k = 0
      BY <1>2, <3>1
    <3>2. CASE k \in 1 .. n
      <4>1. k - 1 \in 0 .. n /\ k # 0
        BY <3>2
      <4> QED
        BY <1>3, <3>2, <4>1
    <3> QED
      BY <3>1, <3>2
  <2> QED
    BY <2>1, Zenon
<1>5. ASSUME NEW g, g = Step(g) PROVE g[n] = G[n]
  <2> DEFINE S == {k \in Nat : k <= n => g[k] = Freed(p, items, k)}
  <2>1. 0 \in S
    BY <1>2, <1>5
  <2>2. ASSUME NEW k \in Nat, k \in S PROVE k + 1 \in S
    <3>1. CASE k + 1 <= n
      <4>1. k + 1 \in 1 .. n /\ k + 1 \in 0 .. n /\ (k + 1) - 1 = k /\ k + 1 # 0
        BY <3>1
      <4>2. g[k + 1] = Pool!mempool_free(g[(k + 1) - 1], items[k + 1])
        BY <1>5, <4>1
      <4>3. g[k] = Freed(p, items, k)
        BY <2>2, <3>1
      <4> QED
        BY <1>3, <4>1, <4>2, <4>3
    <3>2. CASE ~ (k + 1 <= n)
      BY <3>2
    <3> QED
      BY <3>1, <3>2
  <2>3. n \in S
    <3> HIDE DEF S
    <3> QED
      BY <1>1, <2>1, <2>2, NatSet
  <2> QED
    BY <1>1, <2>3
<1>6. FreeAll(p, items) = (CHOOSE g : g = Step(g))[n]
  BY <1>1 DEF FreeAll
<1>7. PICK g : g = (CHOOSE h : h = Step(h)) /\ g = Step(g)
  BY <1>4, Zenon
<1>8. G[n] = Freed(p, items, Len(items))
  BY <1>1
<1> HIDE DEF G, Step
<1>9. g[n] = G[n]
  BY <1>5, <1>7, Zenon
<1> QED
  BY <1>6, <1>7, <1>8, <1>9

\* An item taken from the pool is the next one out: the stack is the same.
LEMMA AllocKeeps ==
  ASSUME NEW p, NEW out, Kept(p, out), ~ Pool!AllocFails(p)
  PROVE  Kept(Pool!mempool_alloc(p), Append(out, Pool!AllocItem(p))) /\ Pool!AllocItem(p) \in Int
<1>1. PICK f \in Seq(Int), a \in Nat : p = [free_items |-> f, allocated |-> a]
  BY DEF Kept, Pools
<1>2. out \in Seq(Int) /\ a = Len(out) /\ a < Len(f)
  BY <1>1 DEF Kept, Pool!AllocFails, Pool!Capacity
<1>3. Pool!AllocItem(p) = f[a + 1] /\ f[a + 1] \in Int
  BY <1>1, <1>2 DEF Pool!AllocItem
<1>4. Pool!mempool_alloc(p) = [free_items |-> f, allocated |-> a + 1]
  BY <1>1 DEF Pool!mempool_alloc
<1>5. PICK q : q = [free_items |-> f, allocated |-> a + 1]
  OBVIOUS
<1>6. PICK o \in Seq(Int) : o = Append(out, f[a + 1])
  <2>1. PICK e \in Int : e = f[a + 1]
    BY <1>3
  <2>2. Append(out, e) \in Seq(Int)
    BY <1>2
  <2> QED
    BY <2>1, <2>2
<1>7. Len(o) = a + 1 /\ o[a + 1] = f[a + 1] /\ \A j \in 1 .. a : o[j] = out[j]
  BY <1>2, <1>3, <1>6
<1>8. Stack(q, o) = Stack(p, out)
  <2>1. ASSUME NEW j \in 1 .. Len(f)
        PROVE  (IF j <= a + 1 THEN o[j] ELSE f[j]) = (IF j <= a THEN out[j] ELSE f[j])
    BY <1>7
  <2>2. Stack(q, o) = [j \in 1 .. Len(f) |-> IF j <= a + 1 THEN o[j] ELSE f[j]]
    BY <1>5 DEF Stack
  <2>3. Stack(p, out) = [j \in 1 .. Len(f) |-> IF j <= a THEN out[j] ELSE f[j]]
    BY <1>1 DEF Stack
  <2> QED
    BY <2>1, <2>2, <2>3
<1>9. q \in Pools /\ q.allocated = a + 1 /\ q.free_items = f
  BY <1>5 DEF Pools
<1>10. Kept(q, o)
  BY <1>2, <1>7, <1>8, <1>9 DEF Kept
<1> QED
  BY <1>3, <1>4, <1>5, <1>6, <1>10

\* When k of the a items that are out have gone back, place j of the stack has
\* what this place had before.
Place(a, k, j) == IF j <= a - k THEN j + k ELSE IF j <= a THEN a - j + 1 ELSE j

\* No two places have what one had.
LEMMA PlacesApart ==
  ASSUME NEW a \in Nat, NEW k \in 0 .. a, NEW i \in Nat \ {0}, NEW j \in Nat \ {0},
         Place(a, k, i) = Place(a, k, j)
  PROVE  i = j
BY DEF Place

\* The first k items that are out go back: the stack is permuted.
LEMMA FreeKeeps ==
  ASSUME NEW p, NEW out, Kept(p, out), NEW k \in 0 .. Len(out)
  PROVE  Kept(FreeAll(p, [i \in 1 .. k |-> out[i]]), SubSeq(out, k + 1, Len(out)))
<1>1. PICK f \in Seq(Int), a \in Nat : p = [free_items |-> f, allocated |-> a]
  BY DEF Kept, Pools
<1>2. out \in Seq(Int) /\ a = Len(out) /\ a <= Len(f) /\ p \in Pools
  BY <1>1 DEF Kept
<1>3. PICK n \in Nat : n = Len(f)
  OBVIOUS
<1>a. k \in Nat /\ k <= a /\ a <= n
  BY <1>2, <1>3
<1>4. PICK items \in Seq(Int) : items = [i \in 1 .. k |-> out[i]] /\ Len(items) = k
  <2>1. \A i \in 1 .. k : out[i] \in Int
    BY <1>2
  <2>2. [i \in 1 .. k |-> out[i]] \in Seq(Int) /\ Len([i \in 1 .. k |-> out[i]]) = k
    BY <2>1
  <2> QED
    BY <2>2
<1> DEFINE F == [j \in 1 .. n |-> IF a - k < j /\ j <= a THEN items[a - j + 1] ELSE f[j]]
<1>5. FreeAll(p, items) = [free_items |-> F, allocated |-> a - k]
  <2>1. p.allocated = a /\ p.free_items = f
    BY <1>1
  <2>2. FreeAll(p, items) = Freed(p, items, Len(items))
    <3>1. p.allocated <= Len(p.free_items) /\ Len(items) <= p.allocated
      BY <1>3, <1>4, <1>a, <2>1
    <3> QED
      BY <1>2, <3>1, FreeAllIs
  <2>3. Freed(p, items, k) = [free_items |-> F, allocated |-> a - k]
    BY <1>3, <2>1 DEF Freed
  <2> QED
    BY <1>4, <2>2, <2>3
<1>6. F \in Seq(Int) /\ Len(F) = n
  <2>1. ASSUME NEW j \in 1 .. n PROVE F[j] \in Int
    <3>1. CASE a - k < j /\ j <= a
      <4>1. a - j + 1 \in 1 .. k
        BY <1>a, <3>1
      <4>2. items[a - j + 1] \in Int
        BY <1>4, <4>1
      <4> QED
        BY <3>1, <4>2
    <3>2. CASE ~ (a - k < j /\ j <= a)
      <4>1. f[j] \in Int
        BY <1>3
      <4> QED
        BY <3>2, <4>1
    <3> QED
      BY <3>1, <3>2
  <2>2. F \in [1 .. n -> Int]
    BY <2>1
  <2> HIDE DEF F
  <2> QED
    BY <2>2
<1>7. PICK o \in Seq(Int) : /\ o = SubSeq(out, k + 1, Len(out)) /\ Len(o) = a - k
                            /\ \A j \in 1 .. a - k : o[j] = out[j + k]
  <2>1. SubSeq(out, k + 1, Len(out)) = [j \in 1 .. a - k |-> out[j + k]]
    BY <1>2, <1>a
  <2>2. \A j \in 1 .. a - k : out[j + k] \in Int
    BY <1>2, <1>a
  <2>3. [j \in 1 .. a - k |-> out[j + k]] \in Seq(Int) /\ Len([j \in 1 .. a - k |-> out[j + k]]) = a - k
    BY <1>a, <2>2
  <2> QED
    BY <2>1, <2>3
<1>8. PICK q : q = [free_items |-> F, allocated |-> a - k]
  OBVIOUS
<1> DEFINE Pi(j) == Place(a, k, j)
<1>9. ASSUME NEW j \in 1 .. n
      PROVE  Stack(q, o)[j] = Stack(p, out)[Pi(j)] /\ Pi(j) \in 1 .. n
  <2>1. Stack(q, o)[j] = IF j <= a - k THEN o[j] ELSE F[j]
    <3> HIDE DEF F
    <3> QED
      BY <1>6, <1>8 DEF Stack
  <2>2. \A i \in 1 .. n : Stack(p, out)[i] = IF i <= a THEN out[i] ELSE f[i]
    BY <1>1, <1>3 DEF Stack
  <2>3. CASE j <= a - k
    <3>1. Pi(j) = j + k /\ j + k \in 1 .. n /\ j + k <= a /\ j \in 1 .. a - k
      BY <1>a, <2>3 DEF Place
    <3> QED
      BY <1>7, <2>1, <2>2, <2>3, <3>1
  <2>4. CASE a - k < j /\ j <= a
    <3>1. Pi(j) = a - j + 1 /\ a - j + 1 \in 1 .. n /\ a - j + 1 <= a /\ a - j + 1 \in 1 .. k /\ ~ (j <= a - k)
      BY <1>a, <2>4 DEF Place
    <3>2. F[j] = items[a - j + 1] /\ items[a - j + 1] = out[a - j + 1]
      BY <1>4, <2>4, <3>1
    <3> QED
      BY <2>1, <2>2, <3>1, <3>2
  <2>5. CASE a < j
    <3>1. Pi(j) = j /\ ~ (j <= a) /\ ~ (j <= a - k)
      BY <1>a, <2>5 DEF Place
    <3>2. F[j] = f[j]
      BY <3>1
    <3> QED
      BY <2>1, <2>2, <3>1, <3>2
  <2> QED
    BY <1>a, <2>3, <2>4, <2>5
<1>10. ASSUME NEW i \in 1 .. n, NEW j \in 1 .. n, Pi(i) = Pi(j) PROVE i = j
  <2>1. k \in 0 .. a /\ i \in Nat \ {0} /\ j \in Nat \ {0}
    BY <1>a
  <2> QED
    BY <1>10, <2>1, PlacesApart
<1>11. DOMAIN Stack(q, o) = 1 .. n /\ DOMAIN Stack(p, out) = 1 .. n
  <2>1. DOMAIN Stack(q, o) = 1 .. n
    <3> HIDE DEF F
    <3> QED
      BY <1>6, <1>8 DEF Stack
  <2>2. DOMAIN Stack(p, out) = 1 .. n
    BY <1>1, <1>3 DEF Stack
  <2> QED
    BY <2>1, <2>2
<1> HIDE DEF Pi, F
<1>12. IsInjective(Stack(q, o))
  <2>1. IsInjective(Stack(p, out))
    BY DEF Kept
  <2>2. ASSUME NEW i \in 1 .. n, NEW j \in 1 .. n, Stack(q, o)[i] = Stack(q, o)[j] PROVE i = j
    <3>1. Stack(p, out)[Pi(i)] = Stack(p, out)[Pi(j)] /\ Pi(i) \in 1 .. n /\ Pi(j) \in 1 .. n
      BY <1>9, <2>2
    <3>2. Pi(i) = Pi(j)
      BY <1>11, <2>1, <3>1 DEF IsInjective
    <3> QED
      BY <1>10, <3>2
  <2> QED
    BY <1>11, <2>2 DEF IsInjective
<1>13. q \in Pools /\ q.allocated = a - k /\ q.free_items = F
  BY <1>6, <1>8, <1>a DEF Pools
<1>14. Kept(q, o)
  <2>1. q.allocated = Len(o) /\ Len(q.free_items) = n /\ a - k <= n
    BY <1>6, <1>7, <1>13, <1>a
  <2> QED
    BY <1>7, <1>12, <1>13, <2>1 DEF Kept
<1> QED
  BY <1>4, <1>5, <1>7, <1>8, <1>14

\* The order of the stack: what is out, then what the pool hands out next.
LEMMA StackIs ==
  ASSUME NEW p, NEW out, Kept(p, out)
  PROVE  out \o Pool!FreeItems(p) = Stack(p, out)
<1>1. PICK f \in Seq(Int), a \in Nat : p = [free_items |-> f, allocated |-> a]
  BY DEF Kept, Pools
<1>2. out \in Seq(Int) /\ a = Len(out) /\ a <= Len(f)
  BY <1>1 DEF Kept
<1>3. PICK n \in Nat : n = Len(f) /\ a <= n
  BY <1>2
<1>4. Pool!FreeItems(p) = SubSeq(f, a + 1, n)
  BY <1>1, <1>3 DEF Pool!FreeItems, Pool!Capacity
<1>5. SubSeq(f, a + 1, n) = [j \in 1 .. n - a |-> f[j + a]]
  BY <1>3
<1>6. PICK t \in Seq(Int) : /\ t = SubSeq(f, a + 1, n) /\ Len(t) = n - a
                            /\ \A j \in 1 .. n - a : t[j] = f[j + a]
  <2>1. \A j \in 1 .. n - a : f[j + a] \in Int
    BY <1>3
  <2>2. [j \in 1 .. n - a |-> f[j + a]] \in Seq(Int) /\ Len([j \in 1 .. n - a |-> f[j + a]]) = n - a
    BY <1>3, <2>1
  <2> QED
    BY <1>5, <2>2
<1>7. out \o t = [j \in 1 .. n |-> IF j <= a THEN out[j] ELSE t[j - a]]
  <2>1. out \o t = [j \in 1 .. Len(out) + Len(t) |-> IF j <= Len(out) THEN out[j] ELSE t[j - Len(out)]]
    <3>1. PICK c \in Seq(Int) : c = out \o t
      BY <1>2, <1>6, ConcatProperties
    <3>2. Len(c) = Len(out) + Len(t)
      BY <1>2, <1>6, <3>1, ConcatProperties
    <3>3. \A j \in 1 .. Len(out) + Len(t) : c[j] = IF j <= Len(out) THEN out[j] ELSE t[j - Len(out)]
      BY <1>2, <1>6, <3>1, ConcatProperties
    <3>4. c = [j \in 1 .. Len(c) |-> c[j]]
      OBVIOUS
    <3> QED
      BY <3>1, <3>2, <3>3, <3>4
  <2>2. Len(out) + Len(t) = n /\ Len(out) = a
    BY <1>2, <1>3, <1>6
  <2> QED
    BY <2>1, <2>2
<1>8. \A j \in 1 .. n : ~ (j <= a) => t[j - a] = f[j]
  <2> SUFFICES ASSUME NEW j \in 1 .. n, ~ (j <= a) PROVE t[j - a] = f[j]
    OBVIOUS
  <2>1. j - a \in 1 .. n - a /\ (j - a) + a = j
    BY <1>3
  <2> QED
    BY <1>6, <2>1
<1>9. Stack(p, out) = [j \in 1 .. n |-> IF j <= a THEN out[j] ELSE f[j]]
  BY <1>1, <1>3 DEF Stack
<1> QED
  BY <1>4, <1>6, <1>7, <1>8, <1>9

---------------------------------------------------------------------------
\* The buffers.

Sends == [m : Int, head : Int]
Mbufs(q) == [i \in 1 .. Len(q) |-> q[i].m]
Heads(q) == [i \in 1 .. Len(q) |-> q[i].head]

\* The sends in the ring, and the one the loop is trying to post.
OutSends == IF pc = "send" THEN Append(queue, pkt) ELSE queue

\* What is in the sends is out of the pools, in the order of the sends.
Buffers ==
    pc # "crash" =>
        /\ queue \in Seq(Sends) /\ pkt \in Sends /\ done \in 0 .. Len(queue)
        /\ Kept(mbuf_mempool, Mbufs(OutSends)) /\ Kept(tx_buf_mempool, Heads(OutSends))

\* A step that leaves the pools and the ring alone.
PoolsStill == UNCHANGED poolVars /\ (pc = "send" <=> pc' = "send") /\ (pc = "crash" => pc' = "crash")

\* Only five steps concern the pools.
LEMMA PoolCases ==
  ASSUME [Next]_vars
  PROVE  Begin \/ BeginNoBuffer \/ SendFull \/ SendPost \/ NicComplete \/ PoolsStill
<1>1. CASE UNCHANGED vars
  BY <1>1 DEF vars, PoolsStill
<1>2. CASE BeginNoMbuf \/ EndPolling \/ GatherRx \/ DropInvalid \/ TakeReply \/ BurstDone
  BY <1>2 DEF BeginNoMbuf, EndPolling, GatherRx, DropInvalid, TakeReply, BurstDone, PoolsStill
<1>3. CASE EndLoop \/ Dump \/ Stray \/ Tick \/ \E id \in DOMAIN timestamp_offset : Reply(id)
  BY <1>3 DEF EndLoop, Dump, Tick, Stray, Reply, Arrival, PoolsStill
<1> QED
  BY <1>1, <1>2, <1>3 DEF Next, ClientStep

\* A fresh pool of n items has the items 0 to n - 1, all apart.
LEMMA FreshPool ==
  ASSUME NEW n \in Nat
  PROVE  Kept(Pool!mempool_create(n, 1, 1), <<>>)
<1>1. 1 \div 1 = 1 /\ n \div 1 = n /\ \A k \in 1 .. n : (k - 1) \div 1 = k - 1 /\ (k - 1) % 1 = 0
  BY Z3
<1>2. Pool!mempool_populate(n, 1, 1) = [k \in 1 .. n |-> k - 1]
  BY <1>1 DEF Pool!mempool_populate
<1>3. [k \in 1 .. n |-> k - 1] \in Seq(Int) /\ Len([k \in 1 .. n |-> k - 1]) = n
  OBVIOUS
<1>4. PICK f \in Seq(Int) : f = [k \in 1 .. n |-> k - 1] /\ Len(f) = n
  BY <1>3
<1>5. PICK p : p = [free_items |-> f, allocated |-> 0]
  OBVIOUS
<1>6. Pool!mempool_create(n, 1, 1) = p
  BY <1>2, <1>4, <1>5 DEF Pool!mempool_create
<1>7. p \in Pools /\ p.allocated = 0 /\ p.free_items = f
  BY <1>5 DEF Pools
<1>8. Stack(p, <<>>) = [k \in 1 .. n |-> k - 1]
  <2>1. Stack(p, <<>>) = [j \in 1 .. n |-> IF j <= 0 THEN <<>>[j] ELSE f[j]]
    BY <1>4, <1>7 DEF Stack
  <2>2. \A j \in 1 .. n : ~ (j <= 0) /\ f[j] = j - 1
    BY <1>4
  <2> QED
    BY <2>1, <2>2
<1>9. IsInjective([k \in 1 .. n |-> k - 1])
  BY DEF IsInjective
<1>10. <<>> \in Seq(Int) /\ Len(<<>>) = 0
  OBVIOUS
<1> QED
  BY <1>4, <1>6, <1>7, <1>8, <1>9, <1>10 DEF Kept

\* Before the loop all items are in their pools.
LEMMA InitBuffers == Init => Buffers
<1> SUFFICES ASSUME Init PROVE Buffers
  OBVIOUS
<1>1. setup.mbufs \in Nat /\ setup.tx_bufs \in Nat
  BY ClientAssumption DEF Init
<1>2. pc # "send" /\ queue = <<>> /\ done = 0 /\ pkt = NoPkt
  BY DEF Init
<1>3. mbuf_mempool = Pool!mempool_create(setup.mbufs, 1, 1) /\ tx_buf_mempool = Pool!mempool_create(setup.tx_bufs, 1, 1)
  BY DEF Init
<1>4. Kept(mbuf_mempool, <<>>) /\ Kept(tx_buf_mempool, <<>>)
  BY <1>1, <1>3, FreshPool
<1>5. OutSends = <<>>
  BY <1>2 DEF OutSends
<1>6. Mbufs(<<>>) = <<>> /\ Heads(<<>>) = <<>>
  BY DEF Mbufs, Heads
<1>7. NoPkt \in Sends /\ <<>> \in Seq(Sends) /\ done \in 0 .. Len(<<>>)
  BY <1>2 DEF NoPkt, Sends
<1> QED
  BY <1>2, <1>4, <1>5, <1>6, <1>7 DEF Buffers

\* An element of a sequence.
LEMMA InSeq ==
  ASSUME NEW S, NEW s \in Seq(S), NEW i \in 1 .. Len(s)
  PROVE  s[i] \in S
OBVIOUS

\* A sequence without its first k elements.
LEMMA Rest ==
  ASSUME NEW S, NEW s \in Seq(S), NEW k \in 0 .. Len(s)
  PROVE  /\ SubSeq(s, k + 1, Len(s)) = [i \in 1 .. Len(s) - k |-> s[i + k]]
         /\ SubSeq(s, k + 1, Len(s)) \in Seq(S) /\ Len(SubSeq(s, k + 1, Len(s))) = Len(s) - k
<1>1. PICK n \in Nat : n = Len(s) /\ k \in Nat /\ k <= n
  OBVIOUS
<1>2. SubSeq(s, k + 1, n) = [i \in 1 .. n - k |-> s[i + k]]
  BY <1>1
<1>3. \A i \in 1 .. n - k : s[i + k] \in S
  BY <1>1
<1>4. [i \in 1 .. n - k |-> s[i + k]] \in Seq(S) /\ Len([i \in 1 .. n - k |-> s[i + k]]) = n - k
  BY <1>1, <1>3
<1> QED
  BY <1>1, <1>2, <1>4

\* A sequence with one more element.
LEMMA OneLonger ==
  ASSUME NEW S, NEW s \in Seq(S), NEW e \in S
  PROVE  /\ Append(s, e) \in Seq(S) /\ Len(Append(s, e)) = Len(s) + 1
         /\ Append(s, e) = [i \in 1 .. Len(s) + 1 |-> IF i = Len(s) + 1 THEN e ELSE s[i]]
<1>1. PICK c \in Seq(S) : c = Append(s, e)
  BY AppendProperties
<1>2. Len(c) = Len(s) + 1 /\ c[Len(s) + 1] = e /\ \A i \in 1 .. Len(s) : c[i] = s[i]
  BY <1>1, AppendProperties
<1>3. c = [i \in 1 .. Len(c) |-> c[i]]
  OBVIOUS
<1>4. [i \in 1 .. Len(c) |-> c[i]] = [i \in 1 .. Len(s) + 1 |-> IF i = Len(s) + 1 THEN e ELSE s[i]]
  <2>1. Len(s) \in Nat
    OBVIOUS
  <2> QED
    BY <1>2, <2>1
<1> QED
  BY <1>1, <1>2, <1>3, <1>4

\* The mbufs and buffers of the sends when one more is out.
LEMMA OutGrows ==
  ASSUME NEW q \in Seq(Sends), NEW s \in Sends
  PROVE  /\ Append(q, s) \in Seq(Sends)
         /\ Mbufs(Append(q, s)) = Append(Mbufs(q), s.m)
         /\ Heads(Append(q, s)) = Append(Heads(q), s.head)
<1>1. PICK c \in Seq(Sends) : c = Append(q, s)
  BY OneLonger
<1>2. Len(c) = Len(q) + 1 /\ c[Len(q) + 1] = s /\ \A i \in 1 .. Len(q) : c[i] = q[i]
  BY <1>1, OneLonger
<1>3. s.m \in Int /\ s.head \in Int /\ \A i \in 1 .. Len(q) : q[i].m \in Int /\ q[i].head \in Int
  <2>1. \A i \in 1 .. Len(q) : q[i] \in Sends
    BY InSeq
  <2> QED
    BY <2>1 DEF Sends
<1>4. Mbufs(q) \in Seq(Int) /\ Len(Mbufs(q)) = Len(q) /\ \A i \in 1 .. Len(q) : Mbufs(q)[i] = q[i].m
  BY <1>3 DEF Mbufs
<1>5. Heads(q) \in Seq(Int) /\ Len(Heads(q)) = Len(q) /\ \A i \in 1 .. Len(q) : Heads(q)[i] = q[i].head
  BY <1>3 DEF Heads
<1>6. Append(Mbufs(q), s.m) = [i \in 1 .. Len(q) + 1 |-> IF i = Len(q) + 1 THEN s.m ELSE q[i].m]
  BY <1>3, <1>4
<1>7. Append(Heads(q), s.head) = [i \in 1 .. Len(q) + 1 |-> IF i = Len(q) + 1 THEN s.head ELSE q[i].head]
  BY <1>3, <1>5
<1>8. Mbufs(c) = [i \in 1 .. Len(q) + 1 |-> IF i = Len(q) + 1 THEN s.m ELSE q[i].m]
  BY <1>2 DEF Mbufs
<1>9. Heads(c) = [i \in 1 .. Len(q) + 1 |-> IF i = Len(q) + 1 THEN s.head ELSE q[i].head]
  BY <1>2 DEF Heads
<1> QED
  BY <1>1, <1>6, <1>7, <1>8, <1>9

\* What is left when the first k sends have gone.
LEMMA OutShrinks ==
  ASSUME NEW q \in Seq(Sends), NEW k \in 0 .. Len(q)
  PROVE  /\ SubSeq(q, k + 1, Len(q)) \in Seq(Sends)
         /\ Len(SubSeq(q, k + 1, Len(q))) = Len(q) - k
         /\ Len(Mbufs(q)) = Len(q) /\ Len(Heads(q)) = Len(q)
         /\ Mbufs(SubSeq(q, k + 1, Len(q))) = SubSeq(Mbufs(q), k + 1, Len(q))
         /\ Heads(SubSeq(q, k + 1, Len(q))) = SubSeq(Heads(q), k + 1, Len(q))
<1>1. PICK n \in Nat : n = Len(q) /\ k \in Nat /\ k <= n
  OBVIOUS
<1>3. PICK c \in Seq(Sends) : c = SubSeq(q, k + 1, n) /\ Len(c) = n - k /\ \A i \in 1 .. n - k : c[i] = q[i + k]
  <2>1. /\ SubSeq(q, k + 1, n) = [i \in 1 .. n - k |-> q[i + k]]
        /\ SubSeq(q, k + 1, n) \in Seq(Sends) /\ Len(SubSeq(q, k + 1, n)) = n - k
    BY <1>1, Rest
  <2> QED
    BY <2>1
<1>4. \A i \in 1 .. n : q[i].m \in Int /\ q[i].head \in Int
  <2>1. \A i \in 1 .. Len(q) : q[i] \in Sends
    BY InSeq
  <2> QED
    BY <1>1, <2>1 DEF Sends
<1>5. Mbufs(q) \in Seq(Int) /\ Len(Mbufs(q)) = n /\ \A i \in 1 .. n : Mbufs(q)[i] = q[i].m
  BY <1>1, <1>4 DEF Mbufs
<1>6. Heads(q) \in Seq(Int) /\ Len(Heads(q)) = n /\ \A i \in 1 .. n : Heads(q)[i] = q[i].head
  BY <1>1, <1>4 DEF Heads
<1>7. SubSeq(Mbufs(q), k + 1, n) = [i \in 1 .. n - k |-> q[i + k].m]
  <2>1. SubSeq(Mbufs(q), k + 1, n) = [i \in 1 .. n - k |-> Mbufs(q)[i + k]]
    BY <1>1, <1>5, Rest
  <2>2. \A i \in 1 .. n - k : i + k \in 1 .. n
    BY <1>1
  <2> QED
    BY <1>5, <2>1, <2>2
<1>8. SubSeq(Heads(q), k + 1, n) = [i \in 1 .. n - k |-> q[i + k].head]
  <2>1. SubSeq(Heads(q), k + 1, n) = [i \in 1 .. n - k |-> Heads(q)[i + k]]
    BY <1>1, <1>6, Rest
  <2>2. \A i \in 1 .. n - k : i + k \in 1 .. n
    BY <1>1
  <2> QED
    BY <1>6, <2>1, <2>2
<1>9. Mbufs(c) = [i \in 1 .. n - k |-> q[i + k].m] /\ Heads(c) = [i \in 1 .. n - k |-> q[i + k].head]
  BY <1>3 DEF Mbufs, Heads
<1> QED
  BY <1>1, <1>3, <1>5, <1>6, <1>7, <1>8, <1>9

\* Freeing the first k of the sends that are out.
LEMMA Reaping ==
  ASSUME NEW q \in Seq(Sends), NEW k \in 0 .. Len(q),
         Kept(mbuf_mempool, Mbufs(q)), Kept(tx_buf_mempool, Heads(q))
  PROVE  /\ Kept(FreeAll(mbuf_mempool, [i \in 1 .. k |-> q[i].m]), Mbufs(SubSeq(q, k + 1, Len(q))))
         /\ Kept(FreeAll(tx_buf_mempool, [i \in 1 .. k |-> q[i].head]), Heads(SubSeq(q, k + 1, Len(q))))
<1>1. \A i \in 1 .. k : i \in 1 .. Len(q)
  OBVIOUS
<1>2. [i \in 1 .. k |-> q[i].m] = [i \in 1 .. k |-> Mbufs(q)[i]]
  BY <1>1 DEF Mbufs
<1>3. [i \in 1 .. k |-> q[i].head] = [i \in 1 .. k |-> Heads(q)[i]]
  BY <1>1 DEF Heads
<1>4. Len(Mbufs(q)) = Len(q) /\ Len(Heads(q)) = Len(q)
  BY OutShrinks
<1>5. Kept(FreeAll(mbuf_mempool, [i \in 1 .. k |-> Mbufs(q)[i]]), SubSeq(Mbufs(q), k + 1, Len(q)))
  BY <1>4, FreeKeeps
<1>6. Kept(FreeAll(tx_buf_mempool, [i \in 1 .. k |-> Heads(q)[i]]), SubSeq(Heads(q), k + 1, Len(q)))
  BY <1>4, FreeKeeps
<1> QED
  BY <1>2, <1>3, <1>5, <1>6, OutShrinks

\* No more is reaped than is done.
LEMMA ReapedSize ==
  ASSUME NEW n \in Nat
  PROVE  Reaped(n) \in 0 .. n
<1>1. SQ_CLEAN_MAX \in Nat
  BY ClientAssumption
<1>2. \E x \in {n, SQ_CLEAN_MAX} : \A y \in {n, SQ_CLEAN_MAX} : x <= y
  BY <1>1
<1>3. Min({n, SQ_CLEAN_MAX}) \in {n, SQ_CLEAN_MAX} /\ \A y \in {n, SQ_CLEAN_MAX} : Min({n, SQ_CLEAN_MAX}) <= y
  BY <1>2 DEF Min
<1> QED
  BY <1>1, <1>3 DEF Reaped

\* Every step leaves each mbuf and each buffer in one place.
LEMMA BuffersKept ==
  ASSUME Buffers, [Next]_vars
  PROVE  Buffers'
<1>1. CASE Begin
  <2>1. /\ pc = "loop" /\ pc' = "send" /\ queue' = queue /\ done' = done
        /\ ~ Pool!AllocFails(mbuf_mempool) /\ ~ Pool!AllocFails(tx_buf_mempool)
        /\ pkt' = [m |-> Pool!AllocItem(mbuf_mempool), head |-> Pool!AllocItem(tx_buf_mempool)]
        /\ mbuf_mempool' = Pool!mempool_alloc(mbuf_mempool)
        /\ tx_buf_mempool' = Pool!mempool_alloc(tx_buf_mempool)
    BY <1>1 DEF Begin
  <2>2. OutSends = queue /\ OutSends' = Append(queue, pkt')
    BY <2>1 DEF OutSends
  <2>3. /\ queue \in Seq(Sends) /\ done \in 0 .. Len(queue)
        /\ Kept(mbuf_mempool, Mbufs(queue)) /\ Kept(tx_buf_mempool, Heads(queue))
    BY <2>1, <2>2 DEF Buffers
  <2>4. /\ Kept(mbuf_mempool', Append(Mbufs(queue), Pool!AllocItem(mbuf_mempool)))
        /\ Pool!AllocItem(mbuf_mempool) \in Int
    BY <2>1, <2>3, AllocKeeps
  <2>5. /\ Kept(tx_buf_mempool', Append(Heads(queue), Pool!AllocItem(tx_buf_mempool)))
        /\ Pool!AllocItem(tx_buf_mempool) \in Int
    BY <2>1, <2>3, AllocKeeps
  <2>6. /\ pkt' \in Sends /\ pkt'.m = Pool!AllocItem(mbuf_mempool)
        /\ pkt'.head = Pool!AllocItem(tx_buf_mempool)
    BY <2>1, <2>4, <2>5 DEF Sends
  <2>7. /\ Mbufs(OutSends') = Append(Mbufs(queue), Pool!AllocItem(mbuf_mempool))
        /\ Heads(OutSends') = Append(Heads(queue), Pool!AllocItem(tx_buf_mempool))
    BY <2>2, <2>3, <2>6, OutGrows
  <2> QED
    BY <2>1, <2>3, <2>4, <2>5, <2>6, <2>7 DEF Buffers
<1>2. CASE BeginNoBuffer
  BY <1>2 DEF BeginNoBuffer, Buffers
<1>3. CASE SendFull
  <2>1. /\ pc = "send" /\ pc' = "send" /\ pkt' = pkt
        /\ FreeSends(queue, Reaped(done))
    BY <1>3 DEF SendFull
  <2>2. /\ queue \in Seq(Sends) /\ pkt \in Sends /\ done \in 0 .. Len(queue)
        /\ Kept(mbuf_mempool, Mbufs(Append(queue, pkt))) /\ Kept(tx_buf_mempool, Heads(Append(queue, pkt)))
    BY <2>1 DEF Buffers, OutSends
  <2>3. PICK k \in 0 .. done : k = Reaped(done)
    BY <2>2, ReapedSize
  <2>4. PICK q \in Seq(Sends) : q = Append(queue, pkt)
    BY <2>2, OneLonger
  <2>5. Len(q) = Len(queue) + 1 /\ q[Len(queue) + 1] = pkt /\ \A i \in 1 .. Len(queue) : q[i] = queue[i]
    BY <2>2, <2>4, OneLonger
  <2>6. /\ mbuf_mempool' = FreeAll(mbuf_mempool, [i \in 1 .. k |-> queue[i].m])
        /\ tx_buf_mempool' = FreeAll(tx_buf_mempool, [i \in 1 .. k |-> queue[i].head])
        /\ queue' = SubSeq(queue, k + 1, Len(queue)) /\ done' = done - k
    BY <2>1, <2>3 DEF FreeSends
  <2>7. PICK n \in Nat : n = Len(queue) /\ k \in 0 .. n
    BY <2>2, <2>3
  <2>8. /\ [i \in 1 .. k |-> queue[i].m] = [i \in 1 .. k |-> q[i].m]
        /\ [i \in 1 .. k |-> queue[i].head] = [i \in 1 .. k |-> q[i].head]
    BY <2>5, <2>7
  <2>9. k \in 0 .. Len(q)
    BY <2>5, <2>7
  <2>10. /\ Kept(mbuf_mempool', Mbufs(SubSeq(q, k + 1, Len(q))))
         /\ Kept(tx_buf_mempool', Heads(SubSeq(q, k + 1, Len(q))))
    BY <2>2, <2>4, <2>6, <2>8, <2>9, Reaping
  <2>11. queue' \in Seq(Sends) /\ Len(queue') = n - k
    BY <2>2, <2>6, <2>7, OutShrinks
  <2>12. SubSeq(q, k + 1, Len(q)) = Append(queue', pkt)
    <3>1. SubSeq(q, k + 1, n + 1) = [i \in 1 .. n + 1 - k |-> q[i + k]]
      <4>1. SubSeq(q, k + 1, Len(q)) = [i \in 1 .. Len(q) - k |-> q[i + k]]
        BY <2>9, Rest
      <4>2. Len(q) = n + 1
        BY <2>5, <2>7
      <4> QED
        BY <4>1, <4>2
    <3>2. queue' = [i \in 1 .. n - k |-> queue[i + k]]
      BY <2>2, <2>6, <2>7, Rest
    <3>3. Append(queue', pkt) = [i \in 1 .. n - k + 1 |-> IF i = n - k + 1 THEN pkt ELSE queue'[i]]
      BY <2>2, <2>11, OneLonger
    <3>4. ASSUME NEW i \in 1 .. n + 1 - k
          PROVE  q[i + k] = IF i = n - k + 1 THEN pkt ELSE queue'[i]
      <4>1. CASE i = n - k + 1
        <5>1. i + k = n + 1
          BY <2>7, <4>1
        <5> QED
          BY <2>5, <2>7, <4>1, <5>1
      <4>2. CASE i # n - k + 1
        <5>1. i \in 1 .. n - k /\ i + k \in 1 .. n
          BY <2>7, <4>2
        <5> QED
          BY <2>5, <2>7, <3>2, <4>2, <5>1
      <4> QED
        BY <4>1, <4>2
    <3>5. n + 1 - k = n - k + 1 /\ Len(q) = n + 1
      BY <2>5, <2>7
    <3> QED
      BY <3>1, <3>3, <3>4, <3>5
  <2>13. OutSends' = Append(queue', pkt)
    BY <2>1 DEF OutSends
  <2>14. done' \in 0 .. Len(queue')
    <3>1. PICK d \in 0 .. n : d = done /\ k <= d
      BY <2>2, <2>3, <2>7
    <3>2. d - k \in 0 .. n - k
      BY <2>7, <3>1
    <3> QED
      BY <2>6, <2>11, <3>1, <3>2
  <2> QED
    BY <2>1, <2>2, <2>10, <2>11, <2>12, <2>13, <2>14 DEF Buffers
<1>4. CASE SendPost
  <2>1. PICK q : q = Append(queue, pkt)
    OBVIOUS
  <2>2. PICK k : k = IF NumWqes * Len(q) >= SQ_CLEAN_THRESH THEN Reaped(done) ELSE 0
    OBVIOUS
  <2>3. pc = "send" /\ pc' = "poll" /\ pkt' = NoPkt /\ FreeSends(q, k)
    BY <1>4, <2>1, <2>2 DEF SendPost
  <2>4. /\ queue \in Seq(Sends) /\ pkt \in Sends /\ done \in 0 .. Len(queue)
        /\ Kept(mbuf_mempool, Mbufs(q)) /\ Kept(tx_buf_mempool, Heads(q))
    BY <2>1, <2>3 DEF Buffers, OutSends
  <2>5. q \in Seq(Sends) /\ Len(q) = Len(queue) + 1
    BY <2>1, <2>4, OneLonger
  <2>6. k \in 0 .. done
    <3>1. Reaped(done) \in 0 .. done
      BY <2>4, ReapedSize
    <3> QED
      BY <2>2, <2>4, <3>1
  <2>7. k \in 0 .. Len(q)
    BY <2>4, <2>5, <2>6
  <2>8. /\ mbuf_mempool' = FreeAll(mbuf_mempool, [i \in 1 .. k |-> q[i].m])
        /\ tx_buf_mempool' = FreeAll(tx_buf_mempool, [i \in 1 .. k |-> q[i].head])
        /\ queue' = SubSeq(q, k + 1, Len(q)) /\ done' = done - k
    BY <2>3 DEF FreeSends
  <2>9. /\ Kept(mbuf_mempool', Mbufs(queue')) /\ Kept(tx_buf_mempool', Heads(queue'))
    BY <2>4, <2>5, <2>7, <2>8, Reaping
  <2>10. queue' \in Seq(Sends) /\ Len(queue') = Len(q) - k
    BY <2>5, <2>7, <2>8, OutShrinks
  <2>11. done' \in 0 .. Len(queue')
    BY <2>4, <2>5, <2>6, <2>8, <2>10
  <2>12. OutSends' = queue' /\ pkt' \in Sends
    BY <2>3 DEF OutSends, NoPkt, Sends
  <2> QED
    BY <2>9, <2>10, <2>11, <2>12 DEF Buffers
<1>5. CASE NicComplete
  <2>1. /\ pc \in {"loop", "send", "poll", "recv"} /\ pc' = pc /\ pkt' = pkt /\ queue' = queue
        /\ mbuf_mempool' = mbuf_mempool /\ tx_buf_mempool' = tx_buf_mempool
        /\ done < Len(queue) /\ done' = done + 1
    BY <1>5 DEF NicComplete, Running
  <2>2. queue \in Seq(Sends) /\ done \in 0 .. Len(queue)
    BY <2>1 DEF Buffers
  <2>3. done' \in 0 .. Len(queue)
    BY <2>1, <2>2
  <2> QED
    BY <2>1, <2>3 DEF Buffers, OutSends
<1>6. CASE PoolsStill
  <2>1. /\ pkt' = pkt /\ queue' = queue /\ done' = done
        /\ mbuf_mempool' = mbuf_mempool /\ tx_buf_mempool' = tx_buf_mempool
        /\ (pc = "send" <=> pc' = "send") /\ (pc = "crash" => pc' = "crash")
    BY <1>6 DEF PoolsStill, poolVars
  <2> QED
    BY <2>1 DEF Buffers, OutSends
<1> QED
  BY <1>1, <1>2, <1>3, <1>4, <1>5, <1>6, PoolCases

\* do_client never gives the NIC a buffer that is free or in another send:
\* what mempool_alloc returns is nowhere else, and tx_completion returns it
\* once, whenever and in however many turns the ring is cleaned.
THEOREM OwnBuffersHold == Spec => []SendsOwnBuffers
<1>1. Init => Buffers
  BY InitBuffers
<1>2. Buffers /\ [Next]_vars => Buffers'
  BY BuffersKept
<1>3. Buffers => SendsOwnBuffers
  <2> SUFFICES ASSUME Buffers, pc # "crash"
               PROVE  /\ IsInjective(MbufsOut \o Pool!FreeItems(mbuf_mempool))
                      /\ IsInjective(HeadsOut \o Pool!FreeItems(tx_buf_mempool))
                      /\ mbuf_mempool.allocated = Len(MbufsOut)
                      /\ tx_buf_mempool.allocated = Len(HeadsOut)
    BY DEF SendsOwnBuffers
  <2>1. /\ queue \in Seq(Sends) /\ pkt \in Sends
        /\ Kept(mbuf_mempool, Mbufs(OutSends)) /\ Kept(tx_buf_mempool, Heads(OutSends))
    BY DEF Buffers
  <2>2. MbufsOut = Mbufs(OutSends) /\ HeadsOut = Heads(OutSends)
    <3>1. Mbufs(queue) \in Seq(Int) /\ Heads(queue) \in Seq(Int) /\ pkt.m \in Int /\ pkt.head \in Int
      <4>1. \A i \in 1 .. Len(queue) : queue[i].m \in Int /\ queue[i].head \in Int
        <5>1. \A i \in 1 .. Len(queue) : queue[i] \in Sends
          BY <2>1, InSeq
        <5> QED
          BY <5>1 DEF Sends
      <4> QED
        BY <2>1, <4>1 DEF Mbufs, Heads, Sends
    <3>2. /\ [i \in DOMAIN queue |-> queue[i].m] = Mbufs(queue)
          /\ [i \in DOMAIN queue |-> queue[i].head] = Heads(queue)
      BY <2>1 DEF Mbufs, Heads
    <3>3. CASE pc = "send"
      <4>1. Mbufs(queue) \o <<pkt.m>> = Append(Mbufs(queue), pkt.m)
        BY <3>1, AppendIsConcat
      <4>2. Heads(queue) \o <<pkt.head>> = Append(Heads(queue), pkt.head)
        BY <3>1, AppendIsConcat
      <4>3. /\ Mbufs(OutSends) = Append(Mbufs(queue), pkt.m)
            /\ Heads(OutSends) = Append(Heads(queue), pkt.head)
        BY <2>1, <3>3, OutGrows DEF OutSends
      <4> QED
        BY <3>2, <3>3, <4>1, <4>2, <4>3 DEF MbufsOut, HeadsOut
    <3>4. CASE pc # "send"
      <4>1. Mbufs(queue) \o <<>> = Mbufs(queue) /\ Heads(queue) \o <<>> = Heads(queue)
        BY <3>1, ConcatEmptySeq
      <4> QED
        BY <3>2, <3>4, <4>1 DEF MbufsOut, HeadsOut, OutSends
    <3> QED
      BY <3>3, <3>4
  <2>3. /\ IsInjective(Mbufs(OutSends) \o Pool!FreeItems(mbuf_mempool))
        /\ IsInjective(Heads(OutSends) \o Pool!FreeItems(tx_buf_mempool))
    BY <2>1, StackIs DEF Kept
  <2> QED
    BY <2>1, <2>2, <2>3 DEF Kept
<1> QED
  BY <1>1, <1>2, <1>3, PTL DEF Spec

---------------------------------------------------------------------------
\* Order statistics: what sorting does.

\* Of finitely many numbers one is the largest.
LEMMA Largest ==
  ASSUME NEW n \in Nat, NEW f \in [1 .. n -> Int], NEW K \in SUBSET (1 .. n), K # {}
  PROVE  \E k \in K : \A j \in K : f[j] <= f[k]
<1> DEFINE S == {m \in 0 .. n : \/ K \cap (1 .. m) = {}
                                \/ \E k \in K : \A j \in K \cap (1 .. m) : f[j] <= f[k]}
<1>1. 0 \in S
  OBVIOUS
<1>2. ASSUME NEW m \in 0 .. n - 1, m \in S PROVE m + 1 \in S
  <2>1. m + 1 \in 0 .. n /\ 1 .. m + 1 = (1 .. m) \cup {m + 1}
    OBVIOUS
  <2>2. CASE m + 1 \notin K
    <3>1. K \cap (1 .. m + 1) = K \cap (1 .. m)
      BY <2>1, <2>2
    <3> QED
      BY <1>2, <2>1, <3>1
  <2>3. CASE m + 1 \in K /\ K \cap (1 .. m) = {}
    <3>1. \A j \in K \cap (1 .. m + 1) : f[j] <= f[m + 1]
      BY <2>1, <2>3
    <3> QED
      BY <2>1, <2>3, <3>1
  <2>4. CASE m + 1 \in K /\ \E k \in K : \A j \in K \cap (1 .. m) : f[j] <= f[k]
    <3>1. PICK k \in K : \A j \in K \cap (1 .. m) : f[j] <= f[k]
      BY <2>4
    <3>2. PICK b \in K : (b = k \/ b = m + 1) /\ f[k] <= f[b] /\ f[m + 1] <= f[b]
      <4>1. f[k] \in Int /\ f[m + 1] \in Int
        BY <2>4
      <4> QED
        BY <2>4, <4>1
    <3>3. ASSUME NEW j \in K \cap (1 .. m + 1) PROVE f[j] <= f[b]
      <4>1. f[j] \in Int /\ f[k] \in Int /\ f[b] \in Int
        OBVIOUS
      <4> QED
        BY <2>1, <3>1, <3>2, <4>1
    <3> QED
      BY <2>1, <3>3
  <2> QED
    BY <1>2, <2>2, <2>3, <2>4
<1>3. \A m \in 0 .. n : m \in S
  <2> HIDE DEF S
  <2> QED
    BY <1>1, <1>2, UpTo
<1>4. K \cap (1 .. n) = K /\ n \in S
  <2>1. K \cap (1 .. n) = K
    OBVIOUS
  <2>2. n \in 0 .. n
    OBVIOUS
  <2> HIDE DEF S
  <2> QED
    BY <1>3, <2>1, <2>2
<1> QED
  BY <1>4

\* The largest of a set is what Max says.
LEMMA MaxIs ==
  ASSUME NEW S \in SUBSET Int, NEW m \in S, \A y \in S : y <= m
  PROVE  Max(S) = m
<1>1. ASSUME NEW x \in S, \A y \in S : x >= y PROVE x = m
  BY <1>1
<1>2. \A y \in S : m >= y
  OBVIOUS
<1> QED
  BY <1>1, <1>2 DEF Max

\* The smallest of a set is what Min says.
LEMMA MinIs ==
  ASSUME NEW S \in SUBSET Int, NEW m \in S, \A y \in S : m <= y
  PROVE  Min(S) = m
<1>1. ASSUME NEW x \in S, \A y \in S : x =< y PROVE x = m
  BY <1>1
<1> QED
  BY <1>1 DEF Min

\* p puts s in order.
Sorts(p, s, n) ==
    /\ p \in Bijection(1 .. n, 1 .. n)
    /\ \A i, j \in 1 .. n : i < j => s[p[i]] <= s[p[j]]

\* With two values exchanged it remains a bijection.
LEMMA Exchanged ==
  ASSUME NEW n \in Nat, NEW p \in Bijection(1 .. n, 1 .. n), NEW a \in 1 .. n, NEW b \in 1 .. n
  PROVE  [p EXCEPT ![a] = p[b], ![b] = p[a]] \in Bijection(1 .. n, 1 .. n)
<1> DEFINE q == [p EXCEPT ![a] = p[b], ![b] = p[a]]
<1>1. p \in [1 .. n -> 1 .. n] /\ (\A i, j \in 1 .. n : p[i] = p[j] => i = j) /\ (\A t \in 1 .. n : \E i \in 1 .. n : p[i] = t)
  BY DEF Bijection, Injection, Surjection, IsInjective
<1>2. q \in [1 .. n -> 1 .. n]
  BY <1>1
<1>3. \A i \in 1 .. n : q[i] = IF i = b THEN p[a] ELSE IF i = a THEN p[b] ELSE p[i]
  BY <1>1
<1> HIDE DEF q
<1>4. ASSUME NEW i \in 1 .. n, NEW j \in 1 .. n, q[i] = q[j] PROVE i = j
  <2> DEFINE x(l) == IF l = b THEN a ELSE IF l = a THEN b ELSE l
  <2>1. \A l \in 1 .. n : x(l) \in 1 .. n /\ q[l] = p[x(l)]
    BY <1>3
  <2>2. p[x(i)] = p[x(j)] /\ x(i) \in 1 .. n /\ x(j) \in 1 .. n
    BY <1>4, <2>1
  <2>3. x(i) = x(j)
    <3> HIDE DEF x
    <3> QED
      BY <1>1, <2>2
  <2> QED
    BY <2>3
<1>5. ASSUME NEW t \in 1 .. n PROVE \E i \in 1 .. n : q[i] = t
  <2>1. PICK i \in 1 .. n : p[i] = t
    BY <1>1
  <2>2. CASE i = a
    BY <1>3, <2>1, <2>2
  <2>3. CASE i = b
    BY <1>3, <2>1, <2>3
  <2>4. CASE i # a /\ i # b
    BY <1>3, <2>1, <2>4
  <2> QED
    BY <2>2, <2>3, <2>4
<1>6. q \in Bijection(1 .. n, 1 .. n)
  BY <1>2, <1>4, <1>5 DEF Bijection, Injection, Surjection, IsInjective
<1> QED
  BY <1>6 DEF q

\* Every sequence of numbers can be sorted.
LEMMA CanSort ==
  ASSUME NEW n \in Nat, NEW s \in [1 .. n -> Int]
  PROVE  \E p : Sorts(p, s, n)
<1> DEFINE B == Bijection(1 .. n, 1 .. n)
           Top(p, m) == \A i, j \in 1 .. n : i < j /\ n - m < j => s[p[i]] <= s[p[j]]
           S == {m \in 0 .. n : \E p \in B : Top(p, m)}
<1>1. 0 \in S
  <2>1. [i \in 1 .. n |-> i] \in B
    BY DEF Bijection, Injection, Surjection, IsInjective
  <2>2. Top([i \in 1 .. n |-> i], 0)
    OBVIOUS
  <2> QED
    BY <2>1, <2>2
<1>2. ASSUME NEW m \in 0 .. n - 1, m \in S PROVE m + 1 \in S
  <2>1. PICK p \in B : Top(p, m)
    BY <1>2
  <2>2. PICK t \in 1 .. n : t = n - m
    OBVIOUS
  <2>3. p \in [1 .. n -> 1 .. n]
    BY DEF Bijection, Injection
  <2>4. PICK k \in 1 .. t : \A j \in 1 .. t : s[p[j]] <= s[p[k]]
    <3>1. PICK f \in [1 .. t -> Int] : \A j \in 1 .. t : f[j] = s[p[j]]
      <4>1. [j \in 1 .. t |-> s[p[j]]] \in [1 .. t -> Int]
        BY <2>3
      <4> QED
        BY <4>1
    <3>2. PICK K \in SUBSET (1 .. t) : K = 1 .. t /\ K # {} /\ t \in Nat
      <4>1. 1 \in 1 .. t /\ t \in Nat
        OBVIOUS
      <4>2. 1 .. t # {} /\ 1 .. t \in SUBSET (1 .. t)
        BY <4>1
      <4> QED
        BY <4>1, <4>2, Zenon
    <3>3. \E k \in K : \A j \in K : f[j] <= f[k]
      BY <3>1, <3>2, Largest, Zenon
    <3> QED
      BY <3>1, <3>2, <3>3
  <2>5. PICK q \in B : q = [p EXCEPT ![t] = p[k], ![k] = p[t]]
    <3>1. k \in 1 .. n
      OBVIOUS
    <3>2. [p EXCEPT ![t] = p[k], ![k] = p[t]] \in Bijection(1 .. n, 1 .. n)
      BY <3>1, Exchanged
    <3> QED
      BY <3>2
  <2>6. \A i \in 1 .. n : q[i] = IF i = k THEN p[t] ELSE IF i = t THEN p[k] ELSE p[i]
    BY <2>3, <2>5
  <2>7. ASSUME NEW i \in 1 .. n, NEW j \in 1 .. n, i < j, n - (m + 1) < j PROVE s[q[i]] <= s[q[j]]
    <3>1. CASE j = t
      <4>1. q[j] = p[k]
        BY <2>6, <3>1
      <4>2. q[i] = IF i = k THEN p[t] ELSE p[i]
        BY <2>6, <2>7, <3>1
      <4> QED
        BY <2>4, <2>7, <3>1, <4>1, <4>2
    <3>2. CASE j > t
      <4>1. q[j] = p[j] /\ n - m < j
        BY <2>2, <2>6, <3>2
      <4>2. PICK l \in 1 .. n : l < j /\ q[i] = p[l]
        BY <2>6, <2>7, <3>2
      <4> QED
        BY <2>1, <4>1, <4>2
    <3> QED
      BY <2>2, <2>7, <3>1, <3>2
  <2>8. Top(q, m + 1)
    BY <2>7
  <2>9. m + 1 \in 0 .. n
    OBVIOUS
  <2> QED
    BY <2>8, <2>9
<1>3. \A m \in 0 .. n : m \in S
  <2> HIDE DEF S
  <2> QED
    BY <1>1, <1>2, UpTo
<1>4. PICK p \in B : Top(p, n)
  <2>1. n \in S
    BY <1>3
  <2> QED
    BY <2>1
<1>5. Sorts(p, s, n)
  BY <1>4 DEF Sorts
<1> QED
  BY <1>5

\* In a sorted sequence the k-th smallest has place k.
LEMMA SortedPlaces ==
  ASSUME NEW n \in Nat, NEW s \in [1 .. n -> Int], NEW p, Sorts(p, s, n), NEW k \in 1 .. n
  PROVE  KthSmallest(s, k, s[p[k]])
<1> DEFINE A == {i \in DOMAIN s : s[i] < s[p[k]]}
           B == {i \in DOMAIN s : s[i] <= s[p[k]]}
<1>0. DOMAIN s = 1 .. n
  OBVIOUS
<1>1. p \in [1 .. n -> 1 .. n] /\ (\A i, j \in 1 .. n : p[i] = p[j] => i = j) /\ (\A t \in 1 .. n : \E i \in 1 .. n : p[i] = t)
  <2>1. p \in Bijection(1 .. n, 1 .. n)
    BY DEF Sorts
  <2> QED
    BY <2>1 DEF Bijection, Injection, Surjection, IsInjective
<1>2. \A i, j \in 1 .. n : i <= j => s[p[i]] <= s[p[j]]
  <2> SUFFICES ASSUME NEW i \in 1 .. n, NEW j \in 1 .. n, i <= j PROVE s[p[i]] <= s[p[j]]
    OBVIOUS
  <2>1. CASE i = j
    <3>1. s[p[i]] \in Int
      BY <1>1
    <3> QED
      BY <2>1, <3>1
  <2>2. CASE i < j
    BY <2>2 DEF Sorts
  <2> QED
    BY <2>1, <2>2
<1>3. Cardinality(A) < k
  <2> DEFINE f == [i \in A |-> CHOOSE j \in 1 .. n : p[j] = i]
  <2>1. ASSUME NEW i \in A PROVE f[i] \in 1 .. n /\ p[f[i]] = i
    BY <1>0, <1>1
  <2>2. ASSUME NEW i \in A PROVE f[i] \in 1 .. k - 1
    <3> HIDE DEF f
    <3>1. PICK j \in 1 .. n : j = f[i] /\ p[j] = i
      BY <2>1
    <3>2. s[p[j]] < s[p[k]]
      BY <3>1
    <3>3. s[p[j]] \in Int /\ s[p[k]] \in Int
      BY <1>1
    <3>4. ~ (k <= j)
      BY <1>2, <3>2, <3>3
    <3> QED
      BY <3>1, <3>4
  <2>3. f \in [A -> 1 .. k - 1]
    BY <2>2
  <2>4. ASSUME NEW i \in A, NEW j \in A, f[i] = f[j] PROVE i = j
    BY <2>1, <2>4, Zenon
  <2>5. f \in Injection(A, 1 .. k - 1)
    BY <2>3, <2>4 DEF Injection, IsInjective
  <2>6. IsFiniteSet(1 .. k - 1) /\ Cardinality(1 .. k - 1) = k - 1
    BY FS_Interval
  <2> HIDE DEF f, A
  <2>7. IsFiniteSet(A) /\ Cardinality(A) <= Cardinality(1 .. k - 1)
    BY <2>5, <2>6, FS_Injection
  <2>8. Cardinality(A) \in Nat
    BY <2>7, FS_CardinalityType
  <2> QED
    BY <2>6, <2>7, <2>8
<1>4. Cardinality(B) >= k
  <2> DEFINE f == [j \in 1 .. k |-> p[j]]
  <2>0. \A j \in 1 .. k : j \in 1 .. n /\ j <= k
    OBVIOUS
  <2>1. ASSUME NEW j \in 1 .. k PROVE p[j] \in B
    <3>1. j \in 1 .. n /\ s[p[j]] <= s[p[k]]
      BY <1>2, <2>0
    <3> QED
      BY <1>0, <1>1, <3>1
  <2>2. f \in Injection(1 .. k, B)
    <3>1. f \in [1 .. k -> B]
      BY <2>1
    <3>2. \A i, j \in 1 .. k : f[i] = f[j] => i = j
      BY <1>1, <2>0
    <3> QED
      BY <3>1, <3>2 DEF Injection, IsInjective
  <2>3. IsFiniteSet(1 .. n) /\ B \in SUBSET (1 .. n)
    BY <1>0, FS_Interval
  <2>4. Cardinality(1 .. k) = k
    BY FS_Interval
  <2> HIDE DEF f, B
  <2>5. IsFiniteSet(B)
    BY <2>3, FS_Subset
  <2>6. Cardinality(1 .. k) <= Cardinality(B) /\ Cardinality(B) \in Nat
    BY <2>2, <2>5, FS_Injection, FS_CardinalityType
  <2> QED
    BY <2>4, <2>6
<1> QED
  BY <1>3, <1>4 DEF KthSmallest

\* Half of the range of an int.
LEMMA HalfRange == \E H \in Nat \ {0} : H = IntMod \div 2 /\ IntMod = 2 * H
<1>1. IntMod \in Nat \ {0} /\ IntMod % 2 = 0
  BY LatencyAssumption
<1>2. PICK d \in Int, r \in 0 .. 2 - 1 : IntMod = 2 * d + r /\ d = IntMod \div 2 /\ r = IntMod % 2
  BY <1>1, DivMod
<1> QED
  BY <1>1, <1>2

\* Narrowing loses nothing of a difference below half of the range.
LEMMA Narrowed ==
  ASSUME NEW a \in Int, NEW b \in Int, a - b < IntMod \div 2, b - a < IntMod \div 2
  PROVE  cmpfunc(a, b) = a - b
<1>1. PICK H \in Nat \ {0} : H = IntMod \div 2 /\ IntMod = 2 * H
  BY HalfRange
<1>2. PICK M \in Nat \ {0}, d \in Int : M = IntMod /\ d = a - b /\ M = 2 * H /\ d < H /\ -d < H
  BY <1>1
<1>3. CASE d >= 0
  <2>1. d \in 0 .. M - 1
    BY <1>2, <1>3
  <2>2. d % M = d
    BY <2>1, ModNear
  <2> QED
    BY <1>1, <1>2, <2>2 DEF cmpfunc
<1>4. CASE d < 0
  <2>1. d \in -M .. -1
    BY <1>2, <1>4
  <2>2. d % M = d + M
    BY <2>1, ModNear
  <2>3. d + M >= H /\ d + M - M = d
    BY <1>2
  <2> QED
    BY <1>1, <1>2, <2>2, <2>3 DEF cmpfunc
<1> QED
  BY <1>2, <1>3, <1>4

\* The smallest and the largest of a sequence.
LEMMA Extremes ==
  ASSUME NEW n \in Nat \ {0}, NEW s \in [1 .. n -> Int]
  PROVE  /\ Min(Range(s)) \in Int /\ Max(Range(s)) \in Int
         /\ \A i \in 1 .. n : Min(Range(s)) <= s[i] /\ s[i] <= Max(Range(s))
         /\ KthSmallest(s, 1, Min(Range(s))) /\ KthSmallest(s, n, Max(Range(s)))
<1>1. PICK p : Sorts(p, s, n)
  BY CanSort
<1>2. p \in [1 .. n -> 1 .. n] /\ (\A t \in 1 .. n : \E i \in 1 .. n : p[i] = t)
  BY <1>1 DEF Sorts, Bijection, Injection, Surjection
<1>3. 1 \in 1 .. n /\ n \in 1 .. n
  OBVIOUS
<1>4. s[p[1]] \in Int /\ s[p[n]] \in Int
  BY <1>2, <1>3
<1>5. ASSUME NEW i \in 1 .. n PROVE s[p[1]] <= s[i] /\ s[i] <= s[p[n]]
  <2>1. PICK j \in 1 .. n : p[j] = i
    BY <1>2
  <2>2. \A k, l \in 1 .. n : k < l => s[p[k]] <= s[p[l]]
    BY <1>1 DEF Sorts
  <2>3. j = 1 \/ s[p[1]] <= s[p[j]]
    BY <1>3, <2>2
  <2>4. j = n \/ s[p[j]] <= s[p[n]]
    BY <1>3, <2>2
  <2> QED
    BY <1>4, <2>1, <2>3, <2>4
<1>6. Range(s) = {s[i] : i \in 1 .. n} /\ Range(s) \in SUBSET Int
  BY DEF Range
<1>7. s[p[1]] \in Range(s) /\ s[p[n]] \in Range(s)
  BY <1>2, <1>3, <1>6
<1>8. \A y \in Range(s) : s[p[1]] <= y /\ y <= s[p[n]]
  BY <1>5, <1>6
<1>9. Min(Range(s)) = s[p[1]]
  BY <1>6, <1>7, <1>8, MinIs
<1>10. Max(Range(s)) = s[p[n]]
  BY <1>6, <1>7, <1>8, MaxIs
<1>11. KthSmallest(s, 1, s[p[1]]) /\ KthSmallest(s, n, s[p[n]])
  BY <1>1, <1>3, SortedPlaces
<1> QED
  BY <1>4, <1>5, <1>9, <1>10, <1>11

\* qsort with cmpfunc sorts numbers that are less than half of the range apart.
LEMMA Sorted ==
  ASSUME NEW n \in Nat \ {0}, NEW s \in [1 .. n -> Int],
         Max(Range(s)) - Min(Range(s)) < IntMod \div 2,
         NEW arr \in qsort(s), NEW k \in 1 .. n
  PROVE  KthSmallest(s, k, arr[k])
<1>0. DOMAIN s = 1 .. n
  OBVIOUS
<1>1. ASSUME NEW i \in 1 .. n, NEW j \in 1 .. n PROVE cmpfunc(s[i], s[j]) = s[i] - s[j]
  <2>1. PICK lo \in Int, hi \in Int : lo = Min(Range(s)) /\ hi = Max(Range(s))
    BY Extremes
  <2>2. s[i] \in Int /\ s[j] \in Int /\ lo <= s[i] /\ s[i] <= hi /\ lo <= s[j] /\ s[j] <= hi
    BY <2>1, Extremes
  <2>3. PICK H \in Nat : H = IntMod \div 2
    BY HalfRange
  <2>4. hi - lo < H
    BY <2>1, <2>3
  <2>5. s[i] - s[j] < IntMod \div 2 /\ s[j] - s[i] < IntMod \div 2
    BY <2>2, <2>3, <2>4
  <2> QED
    BY <2>2, <2>5, Narrowed
<1>2. ASSUME NEW p \in Bijection(1 .. n, 1 .. n)
      PROVE  Ordered([i \in DOMAIN s |-> s[p[i]]]) <=> Sorts(p, s, n)
  <2>1. p \in [1 .. n -> 1 .. n]
    BY DEF Bijection, Injection
  <2>2. PICK t : t = [i \in DOMAIN s |-> s[p[i]]]
    OBVIOUS
  <2>3. DOMAIN t = 1 .. n /\ \A i \in 1 .. n : t[i] = s[p[i]]
    BY <1>0, <2>2
  <2>4. ASSUME NEW i \in 1 .. n, NEW j \in 1 .. n
        PROVE  cmpfunc(t[i], t[j]) <= 0 <=> s[p[i]] <= s[p[j]]
    <3>1. cmpfunc(t[i], t[j]) = s[p[i]] - s[p[j]]
      BY <1>1, <2>1, <2>3
    <3>2. s[p[i]] \in Int /\ s[p[j]] \in Int
      BY <2>1
    <3> QED
      BY <3>1, <3>2
  <2>5. Ordered(t) <=> \A i, j \in 1 .. n : i < j => cmpfunc(t[i], t[j]) <= 0
    BY <2>3, Zenon DEF Ordered
  <2>6. Ordered(t) <=> \A i, j \in 1 .. n : i < j => s[p[i]] <= s[p[j]]
    BY <2>4, <2>5, Zenon
  <2> QED
    BY <2>2, <2>6 DEF Sorts
<1>3. PICK q : Sorts(q, s, n)
  BY CanSort
<1>4. q \in Bijection(1 .. n, 1 .. n)
  BY <1>3 DEF Sorts
<1>5. [i \in DOMAIN s |-> s[q[i]]] \in Permuted(s) /\ Ordered([i \in DOMAIN s |-> s[q[i]]])
  BY <1>0, <1>2, <1>3, <1>4, Zenon DEF Permuted
<1>6. arr \in Permuted(s) /\ Ordered(arr)
  BY <1>5, Zenon DEF qsort
<1>7. PICK p \in Bijection(1 .. n, 1 .. n) : arr = [i \in DOMAIN s |-> s[p[i]]]
  BY <1>0, <1>6, Zenon DEF Permuted
<1>8. Sorts(p, s, n)
  BY <1>2, <1>6, <1>7, Zenon
<1>9. arr[k] = s[p[k]]
  BY <1>0, <1>7
<1>10. KthSmallest(s, k, s[p[k]])
  BY <1>8, SortedPlaces
<1> QED
  BY <1>9, <1>10

\* The places that the percentiles are read from.
LEMMA PercentilePlaces ==
  ASSUME NEW n \in Nat \ {0}
  PROVE  /\ (n * 50) \div 100 + 1 = n \div 2 + 1 /\ n \div 2 + 1 \in 1 .. n
         /\ (n * 99) \div 100 + 1 = (99 * n) \div 100 + 1 /\ (99 * n) \div 100 + 1 \in 1 .. n
         /\ (n * 999) \div 1000 + 1 = (999 * n) \div 1000 + 1 /\ (999 * n) \div 1000 + 1 \in 1 .. n
<1>1. PICK d \in Int, r \in 0 .. 2 - 1 : n = 2 * d + r /\ d = n \div 2 /\ r = n % 2
  BY DivMod
<1>2. (n * 50) \div 100 = d
  <2>1. n * 50 = 100 * d + 50 * r /\ 50 * r \in 0 .. 100 - 1
    BY <1>1
  <2> QED
    BY <2>1
<1>3. d + 1 \in 1 .. n
  BY <1>1
<1>4. (99 * n) \div 100 + 1 \in 1 .. n
  OBVIOUS
<1>5. (999 * n) \div 1000 + 1 \in 1 .. n
  OBVIOUS
<1>6. n * 99 = 99 * n /\ n * 999 = 999 * n
  OBVIOUS
<1> QED
  BY <1>1, <1>2, <1>3, <1>4, <1>5, <1>6

\* The figures of a distribution of n latencies.
LEMMA FiguresOf ==
  ASSUME NEW n \in Nat \ {0}, NEW dist, dist.latencies \in Seq(Int),
         Len(dist.latencies) = n, NEW f \in Figures(dist)
  PROVE  /\ f.log = dist.latencies /\ f.avg = dist.latency_sum \div n
         /\ StatsTrue(f, n)
<1> DEFINE Figure(arr) ==
        [min |-> Min(Range(dist.latencies)), max |-> Max(Range(dist.latencies)),
         avg |-> dist.latency_sum \div Len(dist.latencies),
         median |-> Percentile(arr, 50, 100), p99 |-> Percentile(arr, 99, 100),
         p999 |-> Percentile(arr, 999, 1000), log |-> dist.latencies]
<1>0. f \in {Figure(arr) : arr \in qsort(dist.latencies)}
  BY DEF Figures
<1>1. PICK arr \in qsort(dist.latencies) : f = Figure(arr)
  <2> HIDE DEF Figure
  <2> QED
    BY <1>0, Zenon
<1>2. /\ f.log = dist.latencies /\ f.avg = dist.latency_sum \div n
      /\ f.min = Min(Range(dist.latencies)) /\ f.max = Max(Range(dist.latencies))
  BY <1>1
<1>3. f.median = Percentile(arr, 50, 100) /\ f.p99 = Percentile(arr, 99, 100) /\ f.p999 = Percentile(arr, 999, 1000)
  BY <1>1
<1>4. PICK s \in [1 .. n -> Int] : s = f.log
  BY <1>2
<1>5. arr \in qsort(s) /\ f.min = Min(Range(s)) /\ f.max = Max(Range(s))
  BY <1>2, <1>4
<1>6. KthSmallest(s, 1, f.min) /\ KthSmallest(s, n, f.max)
  BY <1>5, Extremes
<1>7. ASSUME f.max - f.min < IntMod \div 2
      PROVE  /\ KthSmallest(s, n \div 2 + 1, f.median)
             /\ KthSmallest(s, (99 * n) \div 100 + 1, f.p99)
             /\ KthSmallest(s, (999 * n) \div 1000 + 1, f.p999)
  <2>1. \A k \in 1 .. n : KthSmallest(s, k, arr[k])
    BY <1>5, <1>7, Sorted
  <2>2. Len(arr) = n
    <3>1. arr \in Permuted(s)
      BY <1>5, Zenon DEF qsort
    <3>2. PICK p : arr = [i \in DOMAIN s |-> s[p[i]]]
      BY <3>1, Zenon DEF Permuted
    <3>3. DOMAIN s = 1 .. n
      OBVIOUS
    <3> QED
      BY <3>2, <3>3
  <2>3. PICK a \in 1 .. n : a = n \div 2 + 1 /\ f.median = arr[a]
    BY <1>3, <2>2, PercentilePlaces DEF Percentile
  <2>4. PICK b \in 1 .. n : b = (99 * n) \div 100 + 1 /\ f.p99 = arr[b]
    BY <1>3, <2>2, PercentilePlaces DEF Percentile
  <2>5. PICK c \in 1 .. n : c = (999 * n) \div 1000 + 1 /\ f.p999 = arr[c]
    BY <1>3, <2>2, PercentilePlaces DEF Percentile
  <2>6. KthSmallest(s, a, f.median)
    BY <2>1, <2>3
  <2>7. KthSmallest(s, b, f.p99)
    BY <2>1, <2>4
  <2>8. KthSmallest(s, c, f.p999)
    BY <2>1, <2>5
  <2> QED
    BY <2>3, <2>4, <2>5, <2>6, <2>7, <2>8
<1>8. StatsTrue(f, n)
  BY <1>4, <1>6, <1>7 DEF StatsTrue
<1> QED
  BY <1>2, <1>8

\* The sums of the prefixes of s.
Sums(s) == {g \in [0 .. Len(s) -> Int] : g[0] = 0 /\ \A i \in 1 .. Len(s) : g[i] = g[i - 1] + s[i]}

\* Total is the last of these sums.
LEMMA TotalIs ==
  ASSUME NEW s \in Seq(Int)
  PROVE  \E g \in Sums(s) : Total(s) = g[Len(s)]
<1>1. PICK n \in Nat : n = Len(s)
  OBVIOUS
<1> DEFINE Step(g) == [i \in 0 .. n |-> IF i = 0 THEN 0 ELSE g[i - 1] + s[i]]
           next == [x \in (1 .. n) \X Int |-> x[2] + s[x[1]]]
<1>2. next \in [(1 .. n) \X Int -> Int]
  BY <1>1
<1>3. \A i \in 1 .. n, v \in Int : next[<<i, v>>] = v + s[i]
  OBVIOUS
<1>4. PICK g : g \in Recursive(n, Int, 0, next)
  <2> HIDE DEF next
  <2>1. 0 \in Int
    OBVIOUS
  <2> QED
    BY <1>2, <2>1, Recursion
<1>5. /\ g \in [0 .. n -> Int] /\ g[0] = 0
      /\ \A i \in 1 .. n : g[i] = next[<<i, g[i - 1]>>]
  BY <1>4 DEF Recursive
<1> HIDE DEF next
<1>6. \A i \in 1 .. n : g[i] = g[i - 1] + s[i]
  <2> SUFFICES ASSUME NEW i \in 1 .. n PROVE g[i] = g[i - 1] + s[i]
    OBVIOUS
  <2>1. i - 1 \in 0 .. n
    OBVIOUS
  <2>2. g[i - 1] \in Int
    BY <1>5, <2>1
  <2> QED
    BY <1>3, <1>5, <2>2
<1>7. g = Step(g)
  <2>1. ASSUME NEW i \in 0 .. n PROVE g[i] = Step(g)[i]
    <3>1. i = 0 \/ i \in 1 .. n
      OBVIOUS
    <3>2. i \in 1 .. n => i # 0
      OBVIOUS
    <3> QED
      BY <1>5, <1>6, <3>1, <3>2
  <2> QED
    BY <1>5, <2>1, Zenon
<1>8. Total(s) = (CHOOSE h : h = Step(h))[n]
  BY <1>1 DEF Total
<1>9. PICK h : h = (CHOOSE k : k = Step(k)) /\ h = Step(h)
  BY <1>7, Zenon
<1>10. h[n] = g[n]
  <2> DEFINE S == {i \in 0 .. n : h[i] = g[i]}
  <2>1. 0 \in S
    <3>1. 0 \in 0 .. n
      OBVIOUS
    <3>2. h[0] = 0
      BY <1>9, <3>1
    <3> QED
      BY <1>5, <3>1, <3>2
  <2>2. ASSUME NEW i \in 0 .. n - 1, i \in S PROVE i + 1 \in S
    <3>1. i + 1 \in 1 .. n /\ i + 1 \in 0 .. n /\ i + 1 # 0 /\ (i + 1) - 1 = i
      OBVIOUS
    <3>2. h[i + 1] = h[(i + 1) - 1] + s[i + 1]
      BY <1>9, <3>1
    <3>3. g[i + 1] = g[(i + 1) - 1] + s[i + 1]
      BY <1>6, <3>1
    <3> QED
      BY <2>2, <3>1, <3>2, <3>3
  <2>3. \A j \in 0 .. n : j \in S
    <3> HIDE DEF S
    <3> QED
      BY <2>1, <2>2, UpTo
  <2> QED
    BY <2>3
<1>11. g \in Sums(s)
  BY <1>1, <1>5, <1>6 DEF Sums
<1> HIDE DEF Step
<1> QED
  BY <1>1, <1>8, <1>9, <1>10, <1>11

\* The sum of nothing.
LEMMA TotalOfNothing == Total(<<>>) = 0
<1>1. <<>> \in Seq(Int) /\ Len(<<>>) = 0
  OBVIOUS
<1>2. PICK g \in Sums(<<>>) : Total(<<>>) = g[Len(<<>>)]
  BY <1>1, TotalIs
<1> QED
  BY <1>1, <1>2 DEF Sums

\* Adding one more to the end adds it to the sum.
LEMMA TotalOfMore ==
  ASSUME NEW s \in Seq(Int), NEW x \in Int
  PROVE  Total(s) \in Int /\ Total(Append(s, x)) = Total(s) + x
<1>a. PICK n \in Nat : n = Len(s)
  OBVIOUS
<1>b. Append(s, x) \in Seq(Int)
  OBVIOUS
<1>1. PICK t \in Seq(Int) : n = Len(s) /\ t = Append(s, x)
  BY <1>a, <1>b, Zenon
<1>2. Len(t) = n + 1 /\ t[n + 1] = x /\ \A i \in 1 .. n : t[i] = s[i]
  BY <1>1
<1>3. PICK g \in Sums(s) : Total(s) = g[n]
  BY <1>1, TotalIs
<1>4. PICK h \in Sums(t) : Total(t) = h[n + 1]
  <2>1. \E h \in Sums(t) : Total(t) = h[Len(t)]
    BY TotalIs
  <2> QED
    BY <1>2, <2>1
<1>5. g \in [0 .. n -> Int] /\ g[0] = 0 /\ \A i \in 1 .. n : g[i] = g[i - 1] + s[i]
  BY <1>1, <1>3 DEF Sums
<1>6. h[0] = 0 /\ \A i \in 1 .. n + 1 : h[i] = h[i - 1] + t[i]
  BY <1>2, <1>4 DEF Sums
<1> DEFINE S == {i \in 0 .. n : g[i] = h[i]}
<1>7. 0 \in S
  BY <1>5, <1>6
<1>8. ASSUME NEW i \in 0 .. n - 1, i \in S PROVE i + 1 \in S
  <2>1. i + 1 \in 1 .. n /\ i + 1 \in 1 .. n + 1 /\ i + 1 \in 0 .. n /\ (i + 1) - 1 = i
    OBVIOUS
  <2>2. g[i + 1] = g[(i + 1) - 1] + s[i + 1] /\ h[i + 1] = h[(i + 1) - 1] + t[i + 1]
    BY <1>5, <1>6, <2>1
  <2> QED
    BY <1>2, <1>8, <2>1, <2>2
<1>9. \A j \in 0 .. n : j \in S
  <2> HIDE DEF S
  <2> QED
    BY <1>7, <1>8, UpTo
<1>10. h[n + 1] = h[(n + 1) - 1] + t[n + 1] /\ (n + 1) - 1 = n
  BY <1>6
<1>11. g[n] \in Int
  BY <1>5
<1> QED
  BY <1>1, <1>2, <1>3, <1>4, <1>9, <1>10, <1>11

---------------------------------------------------------------------------
\* calculate_latencies, one request after the other.

Dists == [latencies : Seq(Int), latency_sum : Int]

\* What the loop has collected after each request.
Collected(entries, N, nb) ==
    {d \in [0 .. N -> Dists] :
        /\ d[0] = EmptyDist
        /\ \A r \in 1 .. N :
             d[r] = IF GroupedRtts(entries, r - 1, nb) = {} THEN d[r - 1]
                    ELSE add_latency(d[r - 1], Max(GroupedRtts(entries, r - 1, nb)))}

\* calculate_latencies returns the last of these, whatever it groups.
LEMMA CollectedIs ==
  ASSUME NEW entries, NEW N \in Nat, NEW nb,
         \A r \in 1 .. N : GroupedRtts(entries, r - 1, nb) # {} => Max(GroupedRtts(entries, r - 1, nb)) \in Int
  PROVE  \E d \in Collected(entries, N, nb) : calculate_latencies(entries, N, nb) = d[N]
<1> DEFINE G(r) == GroupedRtts(entries, r - 1, nb)
           After(r, v) == IF G(r) = {} THEN v ELSE add_latency(v, Max(G(r)))
           Step(d) == [r \in 0 .. N |-> IF r = 0 THEN EmptyDist ELSE After(r, d[r - 1])]
           next == [x \in (1 .. N) \X Dists |-> After(x[1], x[2])]
<1>1. ASSUME NEW r \in 1 .. N, NEW v \in Dists PROVE After(r, v) \in Dists
  <2>1. CASE G(r) = {}
    BY <2>1
  <2>2. CASE G(r) # {}
    <3>1. PICK m \in Int : m = Max(G(r))
      BY <2>2
    <3>2. v.latencies \in Seq(Int) /\ v.latency_sum \in Int
      BY DEF Dists
    <3>3. add_latency(v, m) \in Dists
      BY <3>2 DEF add_latency, Dists
    <3> QED
      BY <2>2, <3>1, <3>3
  <2> QED
    BY <2>1, <2>2
<1> HIDE DEF After
<1>2. next \in [(1 .. N) \X Dists -> Dists]
  BY <1>1
<1>3. \A r \in 1 .. N, v \in Dists : next[<<r, v>>] = After(r, v)
  OBVIOUS
<1>4. EmptyDist \in Dists
  BY DEF EmptyDist, Dists
<1>5. PICK g : g \in Recursive(N, Dists, EmptyDist, next)
  <2> HIDE DEF next
  <2> QED
    BY <1>2, <1>4, Recursion
<1>6. /\ g \in [0 .. N -> Dists] /\ g[0] = EmptyDist
      /\ \A r \in 1 .. N : g[r] = next[<<r, g[r - 1]>>]
  BY <1>5 DEF Recursive
<1> HIDE DEF next
<1>7. ASSUME NEW r \in 1 .. N PROVE g[r] = After(r, g[r - 1])
  <2>1. r - 1 \in 0 .. N
    OBVIOUS
  <2>2. g[r - 1] \in Dists
    BY <1>6, <2>1
  <2> QED
    BY <1>3, <1>6, <2>2
<1>8. g = Step(g)
  <2>1. ASSUME NEW r \in 0 .. N PROVE g[r] = Step(g)[r]
    <3>1. r = 0 \/ r \in 1 .. N
      OBVIOUS
    <3>2. r \in 1 .. N => r # 0
      OBVIOUS
    <3> QED
      BY <1>6, <1>7, <3>1, <3>2
  <2> QED
    BY <1>6, <2>1, Zenon
<1>9. calculate_latencies(entries, N, nb) = (CHOOSE d : d = Step(d))[N]
  BY DEF calculate_latencies, After
<1>10. PICK h : h = (CHOOSE d : d = Step(d)) /\ h = Step(h)
  BY <1>8, Zenon
<1>11. h[N] = g[N]
  <2> DEFINE S == {i \in 0 .. N : h[i] = g[i]}
  <2>1. 0 \in S
    <3>1. 0 \in 0 .. N
      OBVIOUS
    <3>2. h[0] = EmptyDist
      BY <1>10, <3>1
    <3> QED
      BY <1>6, <3>1, <3>2
  <2>2. ASSUME NEW i \in 0 .. N - 1, i \in S PROVE i + 1 \in S
    <3>1. i + 1 \in 1 .. N /\ i + 1 \in 0 .. N /\ i + 1 # 0 /\ (i + 1) - 1 = i
      OBVIOUS
    <3>2. h[i + 1] = After(i + 1, h[(i + 1) - 1])
      BY <1>10, <3>1
    <3>3. g[i + 1] = After(i + 1, g[(i + 1) - 1])
      BY <1>7, <3>1
    <3> QED
      BY <2>2, <3>1, <3>2, <3>3
  <2>3. \A j \in 0 .. N : j \in S
    <3> HIDE DEF S
    <3> QED
      BY <2>1, <2>2, UpTo
  <2> QED
    BY <2>3
<1>12. g \in Collected(entries, N, nb)
  BY <1>6, <1>7, Zenon DEF Collected, After
<1> HIDE DEF Step
<1> QED
  BY <1>9, <1>10, <1>11, <1>12

\* The ids of the first r requests that have times, and the place of one.
With(G, r) == {id \in 0 .. r - 1 : G[id] # {}}
PlaceIn(G, r, id) == Cardinality({j \in With(G, r) : j <= id})

\* After r requests there is one latency, the largest, for each that has
\* times, in the order of the ids.
Fits(d, G, r) ==
    /\ Len(d.latencies) = Cardinality(With(G, r))
    /\ \A id \in With(G, r) : d.latencies[PlaceIn(G, r, id)] = Max(G[id])
    /\ d.latency_sum = Total(d.latencies)

\* There are finitely many of them.
LEMMA WithFinite ==
  ASSUME NEW G, NEW r \in Nat
  PROVE  IsFiniteSet(With(G, r))
<1>1. With(G, r) \in SUBSET (0 .. r - 1)
  BY DEF With
<1>2. IsFiniteSet(0 .. r - 1)
  BY FS_Interval
<1> QED
  BY <1>1, <1>2, FS_Subset

\* One more request without times changes no place.
LEMMA OneWithout ==
  ASSUME NEW G, NEW r \in Nat, G[r] = {}
  PROVE  With(G, r + 1) = With(G, r) /\ \A id : PlaceIn(G, r + 1, id) = PlaceIn(G, r, id)
<1>1. 0 .. (r + 1) - 1 = (0 .. r - 1) \cup {r}
  OBVIOUS
<1>2. With(G, r + 1) = With(G, r)
  BY <1>1 DEF With
<1> QED
  BY <1>2 DEF PlaceIn

\* One more request with times comes last.
LEMMA OneWith ==
  ASSUME NEW G, NEW r \in Nat, G[r] # {}, NEW c \in Nat, c = Cardinality(With(G, r))
  PROVE  /\ With(G, r + 1) = With(G, r) \cup {r}
         /\ Cardinality(With(G, r + 1)) = c + 1 /\ PlaceIn(G, r + 1, r) = c + 1
         /\ \A id \in With(G, r) : PlaceIn(G, r + 1, id) = PlaceIn(G, r, id)
<1>1. 0 .. (r + 1) - 1 = (0 .. r - 1) \cup {r} /\ r \notin 0 .. r - 1
  OBVIOUS
<1>2. With(G, r + 1) = With(G, r) \cup {r} /\ r \notin With(G, r)
  BY <1>1 DEF With
<1>3. Cardinality(With(G, r + 1)) = c + 1
  BY <1>2, WithFinite, FS_AddElement
<1>4. {j \in With(G, r + 1) : j <= r} = With(G, r + 1)
  BY DEF With
<1>5. ASSUME NEW id \in With(G, r)
      PROVE  {j \in With(G, r + 1) : j <= id} = {j \in With(G, r) : j <= id}
  <2>1. ~ (r <= id)
    BY DEF With
  <2> QED
    BY <1>2, <2>1
<1> QED
  BY <1>2, <1>3, <1>4, <1>5 DEF PlaceIn

\* Every place is one of as many.
LEMMA PlaceRange ==
  ASSUME NEW G, NEW r \in Nat, NEW c \in Nat, c = Cardinality(With(G, r)), NEW id \in With(G, r)
  PROVE  PlaceIn(G, r, id) \in 1 .. c
<1> DEFINE Q == {j \in With(G, r) : j <= id}
<1>1. id \in Q /\ Q \in SUBSET With(G, r)
  BY DEF With
<1>2. IsFiniteSet(With(G, r))
  BY WithFinite
<1> HIDE DEF Q
<1>3. IsFiniteSet(Q) /\ Cardinality(Q) <= c
  BY <1>1, <1>2, FS_Subset
<1>4. Cardinality(Q) \in Nat /\ Cardinality(Q) # 0
  BY <1>1, <1>3, FS_CardinalityType, FS_EmptySet
<1> QED
  BY <1>3, <1>4 DEF PlaceIn, Q

\* Every request finds its place.
LEMMA CollectedFits ==
  ASSUME NEW entries, NEW N \in Nat, NEW nb, NEW G,
         \A id \in 0 .. N - 1 : G[id] = GroupedRtts(entries, id, nb) /\ (G[id] # {} => Max(G[id]) \in Int),
         NEW d \in Collected(entries, N, nb)
  PROVE  d[N] \in Dists /\ Fits(d[N], G, N)
<1>1. /\ d \in [0 .. N -> Dists] /\ d[0] = EmptyDist
      /\ \A r \in 1 .. N : d[r] = IF GroupedRtts(entries, r - 1, nb) = {} THEN d[r - 1]
                                  ELSE add_latency(d[r - 1], Max(GroupedRtts(entries, r - 1, nb)))
  BY Zenon DEF Collected
<1> DEFINE S == {r \in 0 .. N : Fits(d[r], G, r)}
<1>2. 0 \in S
  <2>1. With(G, 0) = {}
    BY DEF With
  <2>2. Cardinality(With(G, 0)) = 0
    BY <2>1, FS_EmptySet
  <2> QED
    BY <1>1, <2>1, <2>2, TotalOfNothing DEF Fits, EmptyDist
<1>3. ASSUME NEW r \in 0 .. N - 1, r \in S PROVE r + 1 \in S
  <2>1. r \in Nat /\ r + 1 \in 1 .. N /\ r + 1 \in 0 .. N /\ r \in 0 .. N /\ (r + 1) - 1 = r
    OBVIOUS
  <2>2. PICK e \in Dists : e = d[r]
    BY <1>1, <2>1
  <2>3. d[r + 1] = IF G[r] = {} THEN e ELSE add_latency(e, Max(G[r]))
    BY <1>1, <2>1, <2>2
  <2>4. Fits(e, G, r)
    BY <1>3, <2>2
  <2>5. CASE G[r] = {}
    <3>1. With(G, r + 1) = With(G, r) /\ \A id \in With(G, r) : PlaceIn(G, r + 1, id) = PlaceIn(G, r, id)
      BY <2>1, <2>5, OneWithout
    <3>2. Fits(e, G, r + 1)
      BY <2>4, <3>1 DEF Fits
    <3> QED
      BY <2>1, <2>3, <2>5, <3>2
  <2>6. CASE G[r] # {}
    <3>1. PICK m \in Int : m = Max(G[r])
      BY <2>6
    <3>2. PICK l \in Seq(Int), t \in Int : l = e.latencies /\ t = e.latency_sum
      BY DEF Dists
    <3>3. d[r + 1] = [latencies |-> Append(l, m), latency_sum |-> t + m]
      BY <2>3, <2>6, <3>1, <3>2 DEF add_latency
    <3>4. PICK c \in Nat : c = Cardinality(With(G, r))
      BY <2>1, WithFinite, FS_CardinalityType
    <3>5. Len(l) = c /\ (\A id \in With(G, r) : l[PlaceIn(G, r, id)] = Max(G[id])) /\ t = Total(l)
      BY <2>4, <3>2, <3>4 DEF Fits
    <3>6. Len(Append(l, m)) = c + 1 /\ Append(l, m)[c + 1] = m /\ \A i \in 1 .. c : Append(l, m)[i] = l[i]
      BY <3>5
    <3>7. /\ With(G, r + 1) = With(G, r) \cup {r} /\ Cardinality(With(G, r + 1)) = c + 1
          /\ PlaceIn(G, r + 1, r) = c + 1
          /\ \A id \in With(G, r) : PlaceIn(G, r + 1, id) = PlaceIn(G, r, id)
      BY <2>1, <2>6, <3>4, OneWith
    <3>a. \A id \in With(G, r) : PlaceIn(G, r, id) \in 1 .. c
      BY <2>1, <3>4, PlaceRange
    <3>8. ASSUME NEW id \in With(G, r + 1) PROVE Append(l, m)[PlaceIn(G, r + 1, id)] = Max(G[id])
      <4>1. CASE id = r
        BY <3>1, <3>6, <3>7, <4>1
      <4>2. CASE id \in With(G, r)
        BY <3>5, <3>6, <3>7, <3>a, <4>2
      <4> QED
        BY <3>7, <4>1, <4>2
    <3>9. t + m = Total(Append(l, m))
      BY <3>5, TotalOfMore
    <3>b. d[r + 1].latencies = Append(l, m) /\ d[r + 1].latency_sum = t + m
      BY <3>3
    <3>10. Fits(d[r + 1], G, r + 1)
      BY <3>b, <3>6, <3>7, <3>8, <3>9 DEF Fits
    <3> QED
      BY <2>1, <3>10
  <2> QED
    BY <2>5, <2>6
<1>4. \A j \in 0 .. N : j \in S
  <2> HIDE DEF S
  <2> QED
    BY <1>2, <1>3, UpTo
<1> QED
  BY <1>1, <1>4

---------------------------------------------------------------------------
\* The report.

\* A reply comes later than its request was sent: no time that is recorded
\* is 0, which calculate_latencies would take for an empty slot.
Past == {Invalid} \cup {i \in Posted : sent_at[i + 1] < now}
Logged == {e \in [id : Posted, at : Nat] : sent_at[e.id + 1] < e.at}
Late ==
    /\ rxq \in Seq(Past) /\ recv_pkts \in Seq(Past)
    /\ log \in Seq(Logged)

\* Before the loop nothing has come.
LEMMA InitLate == Init => Late
<1> SUFFICES ASSUME Init PROVE Late
  OBVIOUS
<1>1. rxq = <<>> /\ recv_pkts = <<>> /\ log = <<>>
  BY DEF Init
<1> QED
  BY <1>1 DEF Late

\* What was sent in the past stays there.
LEMMA PastKept ==
  ASSUME Types, Stamps, [Next]_vars
  PROVE  Past \subseteq Past' /\ Logged \subseteq Logged'
<1>1. cur' \in Nat /\ cur \in Nat /\ cur <= cur' /\ Slots' = Slots /\ cur <= Len(sent_at)
  BY SendsKept, HistoryKept DEF Types, Slots
<1>2. ASSUME NEW i \in Posted PROVE i \in Posted' /\ sent_at'[i + 1] = sent_at[i + 1]
  <2>1. i \in Slots /\ i < cur /\ i \in Nat
    BY DEF Posted, Slots
  <2>2. i \in Posted'
    BY <1>1, <2>1 DEF Posted
  <2>3. Len(sent_at) \in Nat
    BY DEF Types
  <2>4. i + 1 \in 1 .. Len(sent_at)
    BY <1>1, <2>1, <2>3
  <2> QED
    BY <2>2, <2>4, HistoryKept
<1>3. now \in Nat /\ (now' = now \/ now' = now + 1)
  <2>1. now \in Nat
    BY DEF Types
  <2> QED
    BY <2>1, SendCases DEF Begin, SendPost, EndPolling, Tick, SendsStill
<1>4. \A i \in Posted : sent_at[i + 1] \in Nat
  <2> SUFFICES ASSUME NEW i \in Posted PROVE sent_at[i + 1] \in Nat
    OBVIOUS
  <2>1. i \in Nat /\ i < cur
    BY DEF Posted, Slots
  <2>2. sent_at \in Seq(Nat) /\ i + 1 \in 1 .. Len(sent_at)
    BY <1>1, <2>1 DEF Types
  <2> QED
    BY <2>2
<1>5. ASSUME NEW i \in Past PROVE i \in Past'
  <2>1. CASE i = Invalid
    BY <2>1 DEF Past, Invalid
  <2>2. CASE i \in Posted /\ sent_at[i + 1] < now
    <3>1. sent_at'[i + 1] < now'
      BY <1>2, <1>3, <1>4, <2>2
    <3> QED
      BY <1>2, <2>2, <3>1 DEF Past
  <2> QED
    BY <2>1, <2>2 DEF Past
<1>6. ASSUME NEW e \in Logged PROVE e \in Logged'
  <2>1. e \in [id : Posted, at : Nat] /\ e.id \in Posted /\ sent_at[e.id + 1] < e.at
    BY DEF Logged
  <2>2. e \in [id : Posted', at : Nat] /\ sent_at'[e.id + 1] < e.at
    BY <1>2, <2>1
  <2> QED
    BY <2>2 DEF Logged
<1> QED
  BY <1>5, <1>6

\* No step brings a reply that is as early as its request.
LEMMA LateKept ==
  ASSUME Types, Stamps, Replies, Late, [Next]_vars
  PROVE  Late'
<1>1. Past \subseteq Past' /\ Logged \subseteq Logged'
  BY PastKept
<1>2. rxq \in Seq(Past') /\ recv_pkts \in Seq(Past') /\ log \in Seq(Logged')
  BY <1>1, SeqMono DEF Late
<1>4. CASE RepliesStill
  BY <1>2, <1>4 DEF RepliesStill, recvVars, Late
<1>5. CASE GatherRx
  <2>1. PICK n \in 1 .. Len(rxq) : recv_pkts' = SubSeq(rxq, 1, n) /\ rxq' = SubSeq(rxq, n + 1, Len(rxq))
    <3>1. rxq # <<>> /\ Len(rxq) \in Nat \ {0}
      BY <1>2, <1>5 DEF GatherRx
    <3> QED
      BY <1>5, <3>1, BurstSize DEF GatherRx
  <2>2. recv_pkts' \in Seq(Past') /\ rxq' \in Seq(Past')
    BY <1>2, <2>1, Bursts
  <2>3. log' = log
    BY <1>5 DEF GatherRx
  <2> QED
    BY <1>2, <2>2, <2>3 DEF Late
<1>6. CASE DropInvalid
  <2>1. recv_pkts' = Tail(recv_pkts) /\ recv_pkts # <<>> /\ rxq' = rxq /\ log' = log
    BY <1>6 DEF DropInvalid, netVars
  <2>2. Tail(recv_pkts) \in Seq(Past')
    BY <1>2, <2>1, HeadTail
  <2> QED
    BY <1>2, <2>1, <2>2 DEF Late
<1>7. CASE TakeReply
  <2>1. /\ recv_pkts # <<>> /\ Head(recv_pkts) # Invalid
        /\ recv_pkts' = Tail(recv_pkts) /\ rxq' = rxq
        /\ log' = Append(log, [id |-> Head(recv_pkts), at |-> now])
        /\ UNCHANGED <<sent_at, now, setup, cur>>
    BY <1>7 DEF TakeReply, netVars, sendVars
  <2>2. Tail(recv_pkts) \in Seq(Past')
    BY <1>2, <2>1, HeadTail
  <2>3. Head(recv_pkts) \in Past
    BY <2>1, HeadTail DEF Late
  <2>4. Head(recv_pkts) \in Posted /\ sent_at[Head(recv_pkts) + 1] < now
    BY <2>1, <2>3 DEF Past
  <2>5. [id |-> Head(recv_pkts), at |-> now] \in Logged
    BY <2>4 DEF Logged, Types
  <2>6. log' \in Seq(Logged')
    BY <1>1, <1>2, <2>1, <2>5
  <2> QED
    BY <1>2, <2>1, <2>2, <2>6 DEF Late
<1>8. CASE Stray
  <2>1. rxq' = Append(rxq, Invalid) /\ recv_pkts' = recv_pkts /\ log' = log
    BY <1>8 DEF Stray, recvVars
  <2>2. Invalid \in Past'
    BY DEF Past, Invalid
  <2> QED
    BY <1>2, <2>1, <2>2 DEF Late
<1>9. ASSUME NEW id \in DOMAIN timestamp_offset, Reply(id)
      PROVE  Late'
  <2>1. /\ rxq' = Append(rxq, id) /\ recv_pkts' = recv_pkts /\ log' = log
        /\ id < cur /\ sent_at[id + 1] < now
    BY <1>9 DEF Reply, recvVars
  <2>2. id \in Posted
    BY <2>1 DEF Posted, Types
  <2>3. id \in Past'
    BY <1>1, <2>1, <2>2 DEF Past
  <2> QED
    BY <1>2, <2>1, <2>3 DEF Late
<1> QED
  BY <1>4, <1>5, <1>6, <1>7, <1>8, <1>9, ReplyCases

---------------------------------------------------------------------------
\* The times of a request, as calculate_latencies groups them, are those of
\* the replies that count.
LEMMA Grouped ==
  ASSUME Types, Replies, Recorded, Late, Len(log) <= MAX_ITERATIONS, NEW id \in Nat
  PROVE  /\ GroupedRtts(Entries(packet_map), id, num_per_bucket) = RttsOf(id)
         /\ RttsOf(id) # {} <=> CountedReplies(id) # {}
         /\ RttsOf(id) # {} => Max(RttsOf(id)) \in Int
<1>1. PICK n \in Nat : n = Len(log) /\ DOMAIN log = 1 .. n
  BY DEF Late
<1>2. PICK E : E = Entries(packet_map)
  OBVIOUS
<1>3. packet_map.total_count = n
  BY <1>1 DEF Recorded
<1>4. DOMAIN E = 1 .. n /\ \A i \in 1 .. n : E[i] = [id |-> packet_map.ids[i - 1], rtt |-> packet_map.rtts[i - 1]]
  BY <1>2, <1>3 DEF Entries
<1>5. \A i \in 1 .. n : E[i].id = log[i].id /\ E[i].rtt = log[i].at - sent_at[log[i].id + 1]
  BY <1>1, <1>4 DEF Recorded
<1>6. ASSUME NEW i \in 1 .. n
      PROVE  /\ log[i].at \in Nat /\ sent_at[log[i].id + 1] \in Nat
             /\ E[i].rtt # 0 /\ E[i].rtt \in Int
  <2>1. log[i] \in Logged
    BY <1>1, InSeq DEF Late
  <2>2. log[i].id \in Posted /\ log[i].at \in Nat /\ sent_at[log[i].id + 1] < log[i].at
    BY <2>1 DEF Logged
  <2>3. PICK k \in Nat : k = log[i].id /\ k < cur
    BY <2>2 DEF Posted, Slots
  <2>4. sent_at \in Seq(Nat) /\ cur \in Nat /\ cur <= Len(sent_at)
    BY DEF Types
  <2>5. k + 1 \in 1 .. Len(sent_at)
    <3>1. PICK m \in Nat : m = Len(sent_at)
      BY <2>4
    <3> QED
      BY <2>3, <2>4, <3>1
  <2>6. sent_at[k + 1] \in Nat
    BY <2>4, <2>5, InSeq
  <2>7. PICK a \in Nat, b \in Nat : a = log[i].at /\ b = sent_at[log[i].id + 1] /\ b < a
    BY <2>2, <2>3, <2>6
  <2>8. E[i].rtt = a - b
    BY <1>5, <2>7
  <2> QED
    BY <2>7, <2>8
<1> DEFINE K == CountedReplies(id)
<1>7. {i \in DOMAIN E : E[i].id = id /\ E[i].rtt # 0} = {i \in DOMAIN log : log[i].id = id}
  BY <1>1, <1>4, <1>5, <1>6
<1>8. K \in SUBSET (1 .. n) /\ \A i \in K : log[i].id = id
  BY <1>1 DEF CountedReplies
<1>9. GroupedRtts(E, id, num_per_bucket) = {E[i].rtt : i \in K}
  BY <1>7, Zenon DEF GroupedRtts, CountedReplies
<1> HIDE DEF K
<1>10. RttsOf(id) = {E[i].rtt : i \in K}
  <2>1. RttsOf(id) = {log[i].at - sent_at[id + 1] : i \in K}
    BY DEF RttsOf, K
  <2>2. \A i \in K : E[i].rtt = log[i].at - sent_at[id + 1]
    BY <1>5, <1>8
  <2> QED
    BY <2>1, <2>2
<1>11. ASSUME K # {} PROVE Max(RttsOf(id)) \in Int
  <2>1. PICK f \in [1 .. n -> Int] : \A i \in 1 .. n : f[i] = E[i].rtt
    <3>1. [i \in 1 .. n |-> E[i].rtt] \in [1 .. n -> Int]
      BY <1>6
    <3> QED
      BY <3>1
  <2>2. PICK k \in K : \A j \in K : f[j] <= f[k]
    BY <1>8, <1>11, Largest
  <2>3. RttsOf(id) = {f[i] : i \in K}
    BY <1>8, <1>10, <2>1
  <2>4. RttsOf(id) \in SUBSET Int /\ f[k] \in RttsOf(id) /\ \A y \in RttsOf(id) : y <= f[k]
    BY <1>8, <2>2, <2>3
  <2>5. Max(RttsOf(id)) = f[k]
    BY <2>4, MaxIs
  <2> QED
    BY <1>8, <2>5
<1> QED
  BY <1>2, <1>9, <1>10, <1>11 DEF K

\* ReportExact as a statement about the history l, the times the requests
\* were sent and the report r.
CountedOf(l, nb, id) ==
    LET mine == {i \in DOMAIN l : l[i].id = id}
    IN  {i \in mine : Cardinality({j \in mine : j < i}) < nb}
TimesOf(l, sent, nb, id) == {l[i].at - sent[id + 1] : i \in CountedOf(l, nb, id)}
AnsweredOf(c, l, nb) == {id \in 0 .. c - 2 : CountedOf(l, nb, id) # {}}
RankOf(c, l, nb, id) == Cardinality({j \in AnsweredOf(c, l, nb) : j <= id})
FiguresFor(c, l, sent, nb, f, n) ==
    /\ Len(f.log) = n
    /\ \A id \in AnsweredOf(c, l, nb) : f.log[RankOf(c, l, nb, id)] = Max(TimesOf(l, sent, nb, id))
    /\ f.avg = Total(f.log) \div n
    /\ StatsTrue(f, n)
ReportFor(c, l, sent, nb, r) ==
    \/ c = 0 /\ r.ret = "ENOMEM"
    \/ c > 0 /\ AnsweredOf(c, l, nb) = {} /\ r.ret = "EINVAL"
    \/ /\ c > 0 /\ AnsweredOf(c, l, nb) # {} /\ r.ret = "ok"
       /\ FiguresFor(c, l, sent, nb, r.figures, Cardinality(AnsweredOf(c, l, nb)))

\* ReportExact says this of the state, and of the next one.
LEMMA ReportForm ==
    ReportExact <=>
        (pc = "done" /\ Len(log) <= MAX_ITERATIONS => ReportFor(cur, log, sent_at, num_per_bucket, report))
<1>1. /\ Answered = AnsweredOf(cur, log, num_per_bucket)
      /\ \A id : Rank(id) = RankOf(cur, log, num_per_bucket, id)
      /\ \A id : RttsOf(id) = TimesOf(log, sent_at, num_per_bucket, id)
  BY Zenon DEF Answered, AnsweredOf, Rank, RankOf, RttsOf, TimesOf, CountedReplies, CountedOf
<1>2. FiguresExact(report.figures, Cardinality(Answered)) <=>
        FiguresFor(cur, log, sent_at, num_per_bucket, report.figures, Cardinality(AnsweredOf(cur, log, num_per_bucket)))
  BY Zenon DEF FiguresExact, FiguresFor, Answered, AnsweredOf, Rank, RankOf, RttsOf, TimesOf, CountedReplies, CountedOf
<1> QED
  BY <1>1, <1>2, Zenon DEF ReportExact, ReportFor

\* The same in the next state.
LEMMA ReportFormNext ==
    ReportExact' <=>
        (pc' = "done" /\ Len(log') <= MAX_ITERATIONS => ReportFor(cur', log', sent_at', num_per_bucket', report'))
<1>1. /\ Answered' = AnsweredOf(cur', log', num_per_bucket')
      /\ \A id : Rank(id)' = RankOf(cur', log', num_per_bucket', id)
      /\ \A id : RttsOf(id)' = TimesOf(log', sent_at', num_per_bucket', id)
  BY Zenon DEF Answered, AnsweredOf, Rank, RankOf, RttsOf, TimesOf, CountedReplies, CountedOf
<1>2. FiguresExact(report.figures, Cardinality(Answered))' <=>
        FiguresFor(cur', log', sent_at', num_per_bucket', report'.figures, Cardinality(AnsweredOf(cur', log', num_per_bucket')))
  BY Zenon DEF FiguresExact, FiguresFor, Answered, AnsweredOf, Rank, RankOf, RttsOf, TimesOf, CountedReplies, CountedOf
<1> QED
  BY <1>1, <1>2, Zenon DEF ReportExact, ReportFor

\* What Report returns is the report that ReportExact describes.
LEMMA ReportIsGood ==
  ASSUME Types, Replies, Recorded, Late, Len(log) <= MAX_ITERATIONS, NEW r \in Report
  PROVE  ReportFor(cur, log, sent_at, num_per_bucket, r)
<1>1. cur \in Nat
  BY DEF Types
<1>2. CASE cur = 0
  <2>1. total_sent < 0
    BY <1>2 DEF total_sent
  <2>2. r = [ret |-> "ENOMEM"]
    BY <2>1, Zenon DEF Report
  <2> QED
    BY <1>2, <2>2 DEF ReportFor
<1>3. CASE cur > 0
  <2>1. PICK N \in Nat : N = cur - 1 /\ N = total_sent
    BY <1>1, <1>3 DEF total_sent
  <2>2. PICK E, dist : E = Entries(packet_map) /\ dist = calculate_latencies(E, N, num_per_bucket)
    OBVIOUS
  <2>3. ~ (total_sent < 0)
    BY <2>1
  <2>4. r \in IF dist.latencies = <<>> THEN {[ret |-> "EINVAL"]} ELSE {[ret |-> "ok", figures |-> f] : f \in Figures(dist)}
    BY <2>1, <2>2, <2>3, Zenon DEF Report
  <2>5. PICK G : G = [id \in 0 .. N - 1 |-> RttsOf(id)]
    OBVIOUS
  <2>6. \A id \in 0 .. N - 1 : /\ G[id] = GroupedRtts(E, id, num_per_bucket) /\ G[id] = RttsOf(id)
                               /\ G[id] # {} <=> CountedReplies(id) # {}
                               /\ G[id] # {} => Max(G[id]) \in Int
    <3> SUFFICES ASSUME NEW id \in 0 .. N - 1
                 PROVE  /\ G[id] = GroupedRtts(E, id, num_per_bucket) /\ G[id] = RttsOf(id)
                        /\ G[id] # {} <=> CountedReplies(id) # {}
                        /\ G[id] # {} => Max(G[id]) \in Int
      OBVIOUS
    <3>1. id \in Nat /\ G[id] = RttsOf(id)
      BY <2>5
    <3> QED
      BY <2>2, <3>1, Grouped
  <2>7. PICK d \in Collected(E, N, num_per_bucket) : dist = d[N]
    <3>1. \A k \in 1 .. N : GroupedRtts(E, k - 1, num_per_bucket) # {} => Max(GroupedRtts(E, k - 1, num_per_bucket)) \in Int
      <4> SUFFICES ASSUME NEW k \in 1 .. N, GroupedRtts(E, k - 1, num_per_bucket) # {}
                   PROVE  Max(GroupedRtts(E, k - 1, num_per_bucket)) \in Int
        OBVIOUS
      <4>1. k - 1 \in 0 .. N - 1
        OBVIOUS
      <4> QED
        BY <2>6, <4>1
    <3> QED
      BY <2>2, <3>1, CollectedIs
  <2>8. dist \in Dists /\ Fits(dist, G, N)
    BY <2>6, <2>7, CollectedFits
  <2>a. PICK A : A = AnsweredOf(cur, log, num_per_bucket)
    OBVIOUS
  <2>b. \A id : /\ CountedReplies(id) = CountedOf(log, num_per_bucket, id)
                /\ RttsOf(id) = TimesOf(log, sent_at, num_per_bucket, id)
    BY Zenon DEF CountedReplies, CountedOf, RttsOf, TimesOf
  <2>9. A = With(G, N)
    <3>1. cur - 2 = N - 1
      BY <1>1, <2>1
    <3> QED
      BY <2>6, <2>a, <2>b, <3>1 DEF AnsweredOf, With
  <2>10. \A id \in A : RankOf(cur, log, num_per_bucket, id) = PlaceIn(G, N, id) /\ G[id] = TimesOf(log, sent_at, num_per_bucket, id)
    BY <2>6, <2>9, <2>a, <2>b DEF RankOf, PlaceIn, With
  <2>11. PICK l \in Seq(Int), n \in Nat : l = dist.latencies /\ n = Len(l)
    BY <2>8 DEF Dists
  <2>12. /\ n = Cardinality(A) /\ dist.latency_sum = Total(l)
         /\ \A id \in A : l[RankOf(cur, log, num_per_bucket, id)] = Max(TimesOf(log, sent_at, num_per_bucket, id))
    BY <2>8, <2>9, <2>10, <2>11 DEF Fits
  <2>13. n = 0 <=> A = {}
    <3>1. IsFiniteSet(A)
      BY <2>9, WithFinite
    <3> QED
      BY <2>12, <3>1, FS_EmptySet
  <2>14. CASE l = <<>>
    <3>1. A = {}
      BY <2>11, <2>13, <2>14
    <3>2. r = [ret |-> "EINVAL"]
      BY <2>4, <2>11, <2>14
    <3> QED
      BY <1>3, <2>a, <3>1, <3>2 DEF ReportFor
  <2>15. CASE l # <<>>
    <3>1. n \in Nat \ {0} /\ A # {}
      BY <2>11, <2>13, <2>15
    <3>2. PICK f \in Figures(dist) : r = [ret |-> "ok", figures |-> f]
      BY <2>4, <2>11, <2>15, Zenon
    <3>a. dist.latencies \in Seq(Int) /\ Len(dist.latencies) = n
      BY <2>11
    <3>3. f.log = dist.latencies /\ f.avg = dist.latency_sum \div n /\ StatsTrue(f, n)
      BY <3>1, <3>a, FiguresOf
    <3>d. f.log = l /\ f.avg = Total(l) \div n
      BY <2>11, <2>12, <3>3
    <3>b. f.log = l /\ Len(f.log) = n /\ f.avg = Total(f.log) \div n
      BY <2>11, <3>d
    <3>c. \A id \in AnsweredOf(cur, log, num_per_bucket) : f.log[RankOf(cur, log, num_per_bucket, id)] = Max(TimesOf(log, sent_at, num_per_bucket, id))
      BY <2>12, <2>a, <3>b
    <3>4. FiguresFor(cur, log, sent_at, num_per_bucket, f, n)
      BY <3>3, <3>b, <3>c, Zenon DEF FiguresFor
    <3>5. r.ret = "ok" /\ r.figures = f
      BY <3>2
    <3> QED
      BY <1>3, <2>12, <2>a, <3>1, <3>4, <3>5 DEF ReportFor
  <2> QED
    BY <2>14, <2>15
<1> QED
  BY <1>1, <1>2, <1>3

\* Nothing happens after the report.
LEMMA DoneStays ==
  ASSUME [Next]_vars, pc' = "done"
  PROVE  (Dump /\ pc = "report" /\ report' \in Report) \/ UNCHANGED vars
<1>1. ~ ClientStep
  BY DEF ClientStep, Begin, BeginNoMbuf, BeginNoBuffer, SendFull, SendPost, EndPolling, GatherRx,
         DropInvalid, TakeReply, BurstDone, EndLoop
<1>2. ~ NicComplete /\ ~ Tick /\ ~ Stray /\ \A id \in DOMAIN timestamp_offset : ~ Reply(id)
  BY DEF NicComplete, Running, Tick, Stray, Reply, Arrival
<1> QED
  BY <1>1, <1>2 DEF Next, Dump

\* do_client reports what its replies were: every request but the last that
\* was answered, once and in order, with the largest of its counted times,
\* and the true figures of these.
THEOREM ReportHolds == Spec => []ReportExact
<1>1. Init => ReportExact
  BY DEF Init, ReportExact
<1>2. ASSUME Inv, Late, ReportExact, [Next]_vars PROVE ReportExact'
  <2>0. (pc' = "done" /\ Len(log') <= MAX_ITERATIONS
           => ReportFor(cur', log', sent_at', num_per_bucket', report')) => ReportExact'
    BY ReportFormNext
  <2>1. CASE pc' # "done"
    BY <2>0, <2>1
  <2>2. CASE UNCHANGED vars
    <3>1. UNCHANGED <<setup, pc, cur, sent_at, log, report>> /\ num_per_bucket' = num_per_bucket
      BY <2>2 DEF vars, sendVars, recvVars, num_per_bucket
    <3> QED
      BY <1>2, <2>0, <3>1, ReportForm
  <2>3. CASE Dump /\ report' \in Report
    <3>1. UNCHANGED <<setup, cur, sent_at, log>> /\ num_per_bucket' = num_per_bucket
      BY <2>3 DEF Dump, sendVars, recvVars, num_per_bucket
    <3>2. Len(log) <= MAX_ITERATIONS => ReportFor(cur, log, sent_at, num_per_bucket, report')
      BY <1>2, <2>3, ReportIsGood DEF Inv
    <3> QED
      BY <2>0, <3>1, <3>2
  <2> QED
    BY <1>2, <2>1, <2>2, <2>3, DoneStays
<1>3. Init => Late
  BY InitLate
<1>4. Inv /\ Late /\ [Next]_vars => Late'
  BY LateKept DEF Inv
<1> QED
  BY <1>1, <1>2, <1>3, <1>4, Invariance, PTL DEF Spec
=============================================================================
