------------------------------ MODULE Library ------------------------------
(***************************************************************************)
(* The functions that compute without keeping state, called one at a time  *)
(* with arguments from small sets; the properties compare what a call      *)
(* returns with what it is for.                                            *)
(***************************************************************************)
EXTENDS Integers, Sequences, FiniteSets, WqeLayout

CONSTANTS
    MaxCopy,     \* longest copy
    BufLens,     \* lengths of a buffer
    SegSizes,    \* lengths of a segment that is copied into it
    MaxBits,     \* longest bitmap
    Texts,       \* the bit lists that are parsed
    PoolSizes,   \* lengths of a region, a page and an item
    MaxLen,      \* most segments of a working set
    Hosts        \* addresses of client and server

ASSUME LibraryAssumption ==
    /\ MaxCopy \in Nat /\ MaxBits \in Nat /\ MaxLen \in Nat
    /\ BufLens \subseteq Nat /\ SegSizes \subseteq Nat /\ PoolSizes \subseteq Nat

\* A host is named by its addresses.
ASSUME HostsAssumption == \A h \in Hosts : h = [mac |-> h.mac, ip |-> h.ip, port |-> h.port]

VARIABLE call    \* the call that returned last
vars == call

Mem == INSTANCE Memcpy
Bits == INSTANCE Bitmap
Pool == INSTANCE Mempool
Work == INSTANCE Workload
Net == INSTANCE Wire
Buf == INSTANCE Mbuf

ASSUME TextsAssumption == Texts \subseteq Seq(Bits!Chars)

Idle == [fn |-> "none"]
Init == call = Idle

FillTxSegment ==
    \E block \in 0 .. WqeCnt - 1, len \in {0, InlinedLen}, n \in 1 .. MaxSegs :
        call' = [fn |-> "mlx5_fill_tx_segment", start |-> block * Block, len |-> len, nb_segs |-> n,
                 ret |-> mlx5_fill_tx_segment(block * Block, len, n)]

Copy ==
    \E n \in 0 .. MaxCopy : call' = [fn |-> "rte_memcpy", n |-> n, ret |-> Mem!rte_memcpy_func(n)]

\* A buffer of head_len bytes and the ones behind it.
Untouched == -1
Memory(head_len) == [o \in 0 .. head_len + 2 * Buf!RX_BUF_HEAD - 1 |-> Untouched]
num_total_segments == 3

CopyRequest ==
    \E head_len \in BufLens, num_segments \in 1 .. 3 :
        LET header == [i \in 1 .. Net!PaddedPayloadAt |-> i]
            payload == [i \in 1 .. Buf!WordSize * (num_segments + Buf!SEGLIST_OFFSET) |-> Len(header) + i]
        IN  call' = [fn |-> "do_client", packet |-> header \o payload,
                     ret |-> Buf!client_packet(Memory(head_len), head_len, header, payload)]

\* The NIC has written the request behind RX_BUF_HEAD; word k of its payload
\* is the number of a segment, which may be past the working set.
CopyReply ==
    \E head_len \in BufLens, segment_size \in SegSizes, segments \in UNION {[1 .. n -> 0 .. num_total_segments] : n \in 1 .. 2} :
        LET n == Len(segments)
            word(o) == (o - Buf!RX_BUF_HEAD - Net!PayloadAt) \div Buf!WordSize
            len == Net!PayloadAt + Buf!WordSize * (n + Buf!SEGLIST_OFFSET)
            buf == [o \in Buf!RX_BUF_HEAD + Net!PayloadAt + Buf!WordSize .. Buf!RX_BUF_HEAD + len - 1 |->
                       <<segments[word(o)], (o - Buf!RX_BUF_HEAD - Net!PayloadAt) % Buf!WordSize>>]
        IN  call' = [fn |-> "process_server_requests", segments |-> segments, segment_size |-> segment_size,
                     ret |-> Buf!copied_packet(Memory(head_len), head_len, Buf!mbuf_fill_cqe(buf, head_len, len),
                                               n, segment_size, num_total_segments)]

FindNext ==
    \E nbits \in 1 .. MaxBits, invert \in BOOLEAN :
        \E bits \in SUBSET Bits!WordBits(nbits), pos \in 0 .. nbits :
            call' = [fn |-> "bitmap_find_next", bits |-> bits, nbits |-> nbits, pos |-> pos, invert |-> invert,
                     ret |-> Bits!bitmap_find_next(bits, nbits, pos, invert)]

ForEach ==
    \E nbits \in 1 .. MaxBits, invert \in BOOLEAN :
        \E bits \in SUBSET Bits!WordBits(nbits) :
            call' = [fn |-> "bitmap_for_each", bits |-> bits, nbits |-> nbits, invert |-> invert,
                     ret |-> Bits!bitmap_for_each(bits, nbits, invert),
                     popcount |-> Bits!bitmap_popcount(bits, nbits)]

\* Bitmaps put together bit by bit, from clear or from set.
SetBits(nbits, on) ==
    LET made[p \in 0 .. nbits] ==
            IF p = 0 THEN Bits!bitmap_init(nbits, FALSE)
            ELSE IF p - 1 \in on THEN Bits!bitmap_set(made[p - 1], p - 1) ELSE made[p - 1]
    IN  made[nbits]
ClearBits(nbits, off) ==
    LET made[p \in 0 .. nbits] ==
            IF p = 0 THEN Bits!bitmap_init(nbits, TRUE)
            ELSE IF p - 1 \in off THEN Bits!bitmap_clear(made[p - 1], p - 1) ELSE made[p - 1]
    IN  made[nbits]

\* Two of them, combined.
Combine ==
    \E nbits \in 1 .. MaxBits - 2 : \E on, off \in SUBSET (0 .. nbits - 1) :
        LET a == SetBits(nbits, on)
            b == ClearBits(nbits, off)
        IN  \E op \in {[name |-> "and", ret |-> Bits!bitmap_and(a, b, nbits)],
                       [name |-> "or", ret |-> Bits!bitmap_or(a, b, nbits)],
                       [name |-> "xor", ret |-> Bits!bitmap_xor(a, b, nbits)]} :
                call' = [fn |-> "combine", op |-> op.name, nbits |-> nbits, on |-> on, off |-> off,
                         set |-> {p \in 0 .. nbits - 1 : Bits!bitmap_test(op.ret, p)},
                         visited |-> Bits!bitmap_for_each(op.ret, nbits, FALSE)]

\* The same text for both parsers; errno may be set from before.
ParseList ==
    \E nbits \in 1 .. MaxBits, text \in Texts, errno \in BOOLEAN :
        call' = [fn |-> "string_to_bitmap", text |-> text, nbits |-> nbits,
                 ret |-> Bits!string_to_bitmap(text, nbits),
                 sysfs |-> Bits!sysfs_parse_bitlist(text, nbits, errno)]

CreatePool ==
    \E len \in PoolSizes, pgsize \in PoolSizes, item_len \in PoolSizes :
        /\ Pool!MempoolParams(len, pgsize, item_len)
        /\ call' = [fn |-> "mempool_create", len |-> len, pgsize |-> pgsize, item_len |-> item_len,
                    ret |-> Pool!mempool_create(len, pgsize, item_len)]

\* Arrays that are not a number of segments are refused on both sides.
MakeRequests ==
    \E array_size \in 1 .. 2 * MaxLen, segment_size \in 1 .. 2, num_segments \in 1 .. 2 :
        LET len == array_size \div segment_size
        IN  /\ Work!Aligned(array_size, segment_size) /\ len <= MaxLen
            /\ \E rands \in [1 .. len - 1 -> 0 .. len - 1] :
                LET pointers == Work!initialize_pointer_chasing_at_client(len, rands)
                IN  call' = [fn |-> "initialize_client_requests", segment_size |-> segment_size,
                             ret |-> Work!initialize_client_requests(pointers, len, num_segments),
                             memory |-> Work!initialize_server_memory(segment_size, array_size)]

\* A request of the client's making or one without padding, and the reply.
Answer ==
    \E client \in Hosts : \E server \in Hosts \ {client}, id \in {"id1", "id2"} :
        \E sent \in {Net!client_request(client, server, id), Net!packed_request(client, server, id)} :
            \E reply \in {Net!parse_outgoing_request_header(sent), Net!copied_reply(sent), Net!flip_headers(sent)} :
                call' = [fn |-> "answer", client |-> client, server |-> server, id |-> id,
                         made_by_client |-> sent = Net!client_request(client, server, id),
                         valid |-> Net!check_valid_packet(sent, server.mac), reply |-> reply]

Return == call # Idle /\ call' = Idle

Next ==
    \/ call = Idle /\ (\/ FillTxSegment \/ Copy \/ CopyRequest \/ CopyReply \/ FindNext \/ ForEach \/ Combine \/ ParseList
                       \/ CreatePool \/ MakeRequests \/ Answer)
    \/ Return

Spec == Init /\ [][Next]_vars

---------------------------------------------------------------------------
\* Properties.

\* The address of byte k of the request, counted around the ring.
ByteAt(k) == (call.start + k) % RingEnd
InlinedAt(i) == ByteAt(CtrlSize + InlineHdrStart + i - 1)

\* The hardware finds the data segments right after the header octowords
\* announced in qpn_ds, around the end of the ring as well, and inside the
\* blocks the request is charged for; the inlined headers of a request that
\* does not wrap while they are written are where it reads them.
WqeInPlace ==
    call.fn = "mlx5_fill_tx_segment" =>
        /\ \A k \in DOMAIN call.ret.dpsegs :
              /\ call.ret.dpsegs[k] = ByteAt(Octoword * (NumHdrSegs(call.len) + k - 1))
              /\ Octoword * (NumHdrSegs(call.len) + k) <= NumWqes(call.len, call.nb_segs) * Block
        /\ call.start + CtrlSize + InlineHdrStart + call.len <= RingEnd =>
              \A i \in DOMAIN call.ret.inlined : call.ret.inlined[i] = InlinedAt(i)

\* "Inlines data into ring buffer, wrapping around if need be": every inlined
\* byte lands where the hardware reads it, and in the ring.
InlineWraps ==
    call.fn = "mlx5_fill_tx_segment" =>
        \A i \in DOMAIN call.ret.inlined : call.ret.inlined[i] = InlinedAt(i)

\* rte_memcpy_func, whose last moves reach back over the ones before them,
\* writes the n bytes of the destination and not one more.  A packet put
\* together from several copies holds the header and the payload of the
\* request, or behind the header of the reply the segments asked for, in
\* that order and at their places; its length is that of what was copied,
\* and when it fits no byte outside it is touched.
CopiesExact ==
    /\ call.fn = "rte_memcpy" => call.ret = 0 .. call.n - 1
    /\ call.fn = "do_client" /\ Len(call.packet) <= call.ret.head_len =>
          /\ Buf!mbuf_length(call.ret) = Len(call.packet)
          /\ \A o \in DOMAIN call.ret.bytes :
                call.ret.bytes[o] = IF o < Len(call.packet) THEN call.packet[o + 1] ELSE Untouched
    /\ call.fn = "process_server_requests" /\ Buf!mbuf_length(call.ret) <= call.ret.head_len =>
          \A o \in DOMAIN call.ret.bytes :
              LET i == o - (Net!PayloadAt + 16)
              IN  IF o < Net!PayloadAt + 16 \/ o >= Buf!mbuf_length(call.ret)
                  THEN call.ret.bytes[o] = Untouched
                  ELSE call.ret.bytes[o] = (call.segments[i \div call.segment_size + 1] % num_total_segments)
                                           * call.segment_size + (i % call.segment_size)

\* A list as both parsers are meant to read it: numbers of an int, without
\* leading zeros, between single commas and dashes, at most one dash to a
\* range and nothing else.
IsDigit(text, p) == Bits!At(text, p) \in 0 .. 9
PlainList(text) ==
    LET starts == {p \in DOMAIN text : IsDigit(text, p) /\ ~IsDigit(text, p - 1)}
    IN  /\ text # <<>>
        /\ \A p \in DOMAIN text :
              \/ IsDigit(text, p)
              \/ text[p] \in {Bits!Comma, Bits!Dash} /\ IsDigit(text, p - 1) /\ IsDigit(text, p + 1)
        /\ \A p \in starts : /\ text[p] = 0 => ~IsDigit(text, p + 1)
                             /\ Bits!Run(text, p, 10).val <= Bits!INT_MAX
        /\ \A p, q \in DOMAIN text :
              p < q /\ text[p] = Bits!Dash /\ text[q] = Bits!Dash => \E c \in p .. q : text[c] = Bits!Comma

\* bitmap_find_next, which goes by words, gives the first bit at or after pos
\* that is set (cleared), or nbits; the loops over a bitmap stop at each of
\* these once; and bitmap_popcount is their number when the bits past nbits
\* in the last word are clear.  A bitmap combined of two, one made by setting
\* bits and one by clearing them, has the bits it should and the loop visits
\* them, whatever is past nbits.
\* Whatever the text, no parser of bit lists sets a bit past nbits.  On a
\* PlainList the two agree: both accept it, and set the same bits, or neither
\* does.  On others they need not, the two read numbers in different ways.
BitmapsExact ==
    /\ call.fn = "bitmap_find_next" =>
          LET hits == {p \in call.pos .. call.nbits - 1 : (p \in call.bits) # call.invert}
          IN  IF hits = {} THEN call.ret = call.nbits
              ELSE call.ret \in hits /\ \A p \in hits : call.ret <= p
    /\ call.fn = "bitmap_for_each" =>
          /\ call.ret = {p \in 0 .. call.nbits - 1 : (p \in call.bits) # call.invert}
          /\ ~call.invert /\ call.bits \subseteq 0 .. call.nbits - 1 => call.popcount = Cardinality(call.ret)
    /\ call.fn = "combine" =>
          /\ call.visited = call.set
          /\ call.set = {p \in 0 .. call.nbits - 1 :
                            CASE call.op = "and" -> p \in call.on /\ p \notin call.off
                              [] call.op = "or" -> p \in call.on \/ p \notin call.off
                              [] OTHER -> (p \in call.on) = (p \in call.off)}
    /\ call.fn = "string_to_bitmap" =>
          /\ call.ret.bits \subseteq 0 .. call.nbits - 1 /\ call.sysfs.bits \subseteq 0 .. call.nbits - 1
          /\ PlainList(call.text) =>
                call.ret.ok = call.sysfs.ok /\ (call.ret.ok => call.ret.bits = call.sysfs.bits)

\* The items of a pool are apart, inside the region, and none straddles two
\* pages, which need not be adjacent in physical memory.
PoolItemsApart ==
    call.fn = "mempool_create" =>
        LET items == call.ret.free_items
            first(k) == items[k]
            last(k) == items[k] + call.item_len - 1
        IN  \A k \in DOMAIN items :
                /\ last(k) < call.len
                /\ first(k) \div call.pgsize = last(k) \div call.pgsize
                /\ \A j \in DOMAIN items : j # k => last(j) < first(k) \/ last(k) < first(j)

\* Whatever rand returns, the requests name segments that lie in the working
\* set and have a letter of their own there, and no segment is named again
\* before the chase is back at segment 0.
RequestsChase ==
    call.fn = "initialize_client_requests" =>
        LET n == Len(call.ret[1])
            named == [k \in 1 .. Len(call.ret) * n |-> call.ret[(k - 1) \div n + 1][((k - 1) % n) + 1]]
        IN  \A k \in DOMAIN named :
                /\ LET region == Work!get_server_region(named[k], call.segment_size)
                   IN  region \subseteq DOMAIN call.memory /\ \A b \in region : call.memory[b] = named[k] % 26
                /\ \A j \in 1 .. k - 1 : named[j] = named[k] => named[k - j + 1] = 0

\* Every reply to a request the server accepts passes check_valid_packet at
\* the host that sent the request, names the two hosts the other way round,
\* and has the request's id where the client reads it, as 64 bits.
ReplyReadable ==
    call.fn = "answer" /\ call.valid =>
        /\ Net!check_valid_packet(call.reply, call.client.mac)
        /\ Net!Sender(call.reply) = call.server /\ Net!Receiver(call.reply) = call.client
        /\ Net!packet_id(call.reply) = call.id
        /\ Net!ReadBytes(call.reply, Net!PayloadAt + 4, 4) = "0"

\* FULL_PROTO_HEADER: the payload of a request begins 42 bytes into the
\* packet, so that the server accepts what the client sends.
RequestsAccepted == call.fn = "answer" /\ call.made_by_client => call.valid
=============================================================================
