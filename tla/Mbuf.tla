------------------------------- MODULE Mbuf -------------------------------
(***************************************************************************)
(* Buffers (mbuf.h), and the two places that put a packet together in one  *)
(* by copies: do_client and the copying branch of process_server_requests. *)
(* Pointers into a buffer are offsets from its head; `bytes` is the memory *)
(* from there on, past the end of the buffer as well.  NETPERF_ASSERT is   *)
(* compiled out, as in the default build.                                  *)
(***************************************************************************)
EXTENDS Integers, Sequences

Mem == INSTANCE Memcpy
Net == INSTANCE Wire

RX_BUF_HEAD == 16          \* room for the struct mbuf, stands for 128
SEGLIST_OFFSET == 1
WordSize == 8              \* sizeof(uint64_t)

mbuf_init(head, head_len, reserve_len) ==
    [bytes |-> head, head_len |-> head_len, data |-> reserve_len, len |-> 0]

mbuf_data(m) == m.data
mbuf_length(m) == m.len

mbuf_copy(m, source, off) ==
    LET written == Mem!rte_memcpy_func(Len(source))
        at(o) == o - m.data - off
    IN  [m EXCEPT !.len = @ + Len(source),
                  !.bytes = [o \in DOMAIN @ |-> IF at(o) \in written THEN source[at(o) + 1] ELSE @[o]]]

\* A received packet of `len` bytes: the struct mbuf is the buffer's head.
mbuf_fill_cqe(buf, head_len, len) == [mbuf_init(buf, head_len, RX_BUF_HEAD) EXCEPT !.len = len]

\* do_client: the header, and behind it packet id and list of segments.
client_packet(buffer, head_len, header, payload) ==
    mbuf_copy(mbuf_copy(mbuf_init(buffer, head_len, 0), header, 0), payload, Len(header))

read_u64(bytes, ptr, offset) == Net!ReadBytes(bytes, ptr + offset * WordSize, WordSize)

\* process_server_requests: the segments a request asks for.
RequestedSegments(request, num_segments) ==
    LET payload == mbuf_data(request) + Net!PayloadAt
    IN  [seg \in 1 .. num_segments |-> read_u64(request.bytes, payload, seg - 1 + SEGLIST_OFFSET)]

header_len == Net!PayloadAt + 16     \* with packet_id, id_padding and checksum

\* Where in the reply the segment goes.
SegmentAt(seg, segment_size) == header_len + (seg - 1) * segment_size

\* The copying branch: each segment of the working set, whose bytes are
\* named by their addresses, is copied behind the header; len is set anew.
copied_packet(buffer, head_len, request, num_segments, segment_size, num_total_segments) ==
    LET segments == RequestedSegments(request, num_segments)
        region(seg) == (segments[seg] % num_total_segments) * segment_size
        copied[seg \in 0 .. num_segments] ==
            IF seg = 0 THEN mbuf_init(buffer, head_len, 0)
            ELSE mbuf_copy(copied[seg - 1], [i \in 1 .. segment_size |-> region(seg) + i - 1],
                           SegmentAt(seg, segment_size))
    IN  [copied[num_segments] EXCEPT !.len = header_len + segment_size * num_segments]
=============================================================================
