------------------------------- MODULE Wire -------------------------------
(***************************************************************************)
(* The bytes of requests and replies: what the client and the three kinds  *)
(* of replies of the server write, and where check_valid_packet and the    *)
(* request parsers read.  A packet is a function from byte offsets to      *)
(* pairs <<value, k>>, byte k of a value; lengths and checksums, which no  *)
(* code of this program reads, are left out.                               *)
(***************************************************************************)
EXTENDS Integers, Sequences

\* A header is a sequence of <<field, size>>.
eth_hdr == <<<<"dhost", 6>>, <<"shost", 6>>, <<"type", 2>>>>
ip_hdr == <<<<"version_ihl", 1>>, <<"tos", 1>>, <<"len", 2>>, <<"id", 2>>, <<"off", 2>>,
            <<"ttl", 1>>, <<"proto", 1>>, <<"chksum", 2>>, <<"saddr", 4>>, <<"daddr", 4>>>>
udp_hdr == <<<<"src_port", 2>>, <<"dst_port", 2>>, <<"len", 2>>, <<"chksum", 2>>>>

\* The size of its first n fields.
SizeOfFields(hdr, n) ==
    LET size[i \in 0 .. n] == IF i = 0 THEN 0 ELSE size[i - 1] + hdr[i][2]
    IN  size[n]
SizeOf(hdr) == SizeOfFields(hdr, Len(hdr))
FieldNo(hdr, name) == CHOOSE i \in DOMAIN hdr : hdr[i][1] = name
OffsetOf(hdr, name) == SizeOfFields(hdr, FieldNo(hdr, name) - 1)

\* Headers one after the other, as the code that walks a packet sees them.
IpAt == SizeOf(eth_hdr)
UdpAt == IpAt + SizeOf(ip_hdr)
PayloadAt == UdpAt + SizeOf(udp_hdr)          \* FULL_PROTO_HEADER, 42

\* OutgoingHeader, a struct: ip_hdr is aligned to 4 bytes.
PaddedIpAt == ((SizeOf(eth_hdr) + 3) \div 4) * 4
PaddedUdpAt == PaddedIpAt + SizeOf(ip_hdr)
PaddedPayloadAt == PaddedUdpAt + SizeOf(udp_hdr)

\* A value of `size` bytes at `at`, and the value found there.
Bytes(at, size, value) == [o \in at .. at + size - 1 |-> <<value, o - at>>]
ReadBytes(pkt, at, size) ==
    IF \E v \in {pkt[o][1] : o \in at .. at + size - 1} : \A o \in at .. at + size - 1 : pkt[o] = <<v, o - at>>
    THEN pkt[at][1] ELSE "mixed"
Read(pkt, at, hdr, name) == ReadBytes(pkt, at + OffsetOf(hdr, name), hdr[FieldNo(hdr, name)][2])

\* A header at `at` whose fields have the values given, the others zero.
Header(at, hdr, values) ==
    LET field(o) == CHOOSE i \in DOMAIN hdr : o - at \in OffsetOf(hdr, hdr[i][1]) .. OffsetOf(hdr, hdr[i][1]) + hdr[i][2] - 1
        value(i) == IF hdr[i][1] \in DOMAIN values THEN values[hdr[i][1]] ELSE "0"
    IN  [o \in at .. at + SizeOf(hdr) - 1 |-> <<value(field(o)), o - at - OffsetOf(hdr, hdr[field(o)][1])>>]

\* The first function wins where both are defined.
Over(a, b) == [o \in DOMAIN a \cup DOMAIN b |-> IF o \in DOMAIN a THEN a[o] ELSE b[o]]

\* The three headers of a packet between two hosts, at the given places.
Headers(src, dst, ip_at, udp_at) ==
    Over(Header(0, eth_hdr, [dhost |-> dst.mac, shost |-> src.mac, type |-> "ETHTYPE_IP"]),
    Over(Header(ip_at, ip_hdr, [version_ihl |-> "VERSION_IHL", ttl |-> "64", id |-> "1", proto |-> "IPPROTO_UDP",
                                saddr |-> src.ip, daddr |-> dst.ip]),
         Header(udp_at, udp_hdr, [src_port |-> src.port, dst_port |-> dst.port])))

\* initialize_outgoing_header and the two copies of do_client: the struct,
\* its padding 0, and behind it the request from its packet_id on.
client_request(src, dst, id) ==
    Over(Headers(src, dst, PaddedIpAt, PaddedUdpAt),
    Over(Bytes(SizeOf(eth_hdr), PaddedIpAt - SizeOf(eth_hdr), "0"),
    Over(Bytes(PaddedPayloadAt, 4, id), Bytes(PaddedPayloadAt + 4, 4, "0"))))

\* A request laid out the way the server reads it.
packed_request(src, dst, id) ==
    Over(Headers(src, dst, IpAt, UdpAt), Over(Bytes(PayloadAt, 4, id), Bytes(PayloadAt + 4, 4, "0")))

check_valid_packet(pkt, our_eth) ==
    /\ Read(pkt, 0, eth_hdr, "dhost") = our_eth
    /\ Read(pkt, 0, eth_hdr, "type") = "ETHTYPE_IP"
    /\ Read(pkt, IpAt, ip_hdr, "proto") = "IPPROTO_UDP"

\* The requester and the server, as the request's headers name them.
Sender(pkt) == [mac |-> Read(pkt, 0, eth_hdr, "shost"), ip |-> Read(pkt, IpAt, ip_hdr, "saddr"),
                port |-> Read(pkt, UdpAt, udp_hdr, "src_port")]
Receiver(pkt) == [mac |-> Read(pkt, 0, eth_hdr, "dhost"), ip |-> Read(pkt, IpAt, ip_hdr, "daddr"),
                  port |-> Read(pkt, UdpAt, udp_hdr, "dst_port")]
packet_id(pkt) == ReadBytes(pkt, PayloadAt, 4)

\* A RequestHeader, as mlx5_fill_tx_segment inlines it: headers, id and
\* checksum one after the other.
initialize_reverse_request_header(src, dst, id) ==
    Over(Headers(src, dst, IpAt, UdpAt),
    Over(Bytes(PayloadAt, 4, id),
    Over(Bytes(PayloadAt + 4, 4, "0"), Bytes(PayloadAt + 8, 8, "checksum"))))

\* Zero-copy: the header of the reply, made of the request's.
parse_outgoing_request_header(pkt) ==
    initialize_reverse_request_header(Receiver(pkt), Sender(pkt), packet_id(pkt))

\* Copy: parse_outgoing_request_header_into_mbuf.
copied_reply(pkt) ==
    Over(Headers(Receiver(pkt), Sender(pkt), IpAt, UdpAt),
    Over(Bytes(PayloadAt, 4, packet_id(pkt)), Bytes(PayloadAt + 4, 4, "0")))

Field(at, hdr, name, value) == Bytes(at + OffsetOf(hdr, name), hdr[FieldNo(hdr, name)][2], value)

\* Mutant: the Ethernet addresses are left as they are.
flip_headers_keeps_eth(pkt) ==
    Over(Field(IpAt, ip_hdr, "saddr", Receiver(pkt).ip), Over(Field(IpAt, ip_hdr, "daddr", Sender(pkt).ip),
    Over(Field(UdpAt, udp_hdr, "src_port", Receiver(pkt).port),
    Over(Field(UdpAt, udp_hdr, "dst_port", Sender(pkt).port), pkt))))

\* Echo: flip_headers exchanges the addresses in the request's own buffer.
flip_headers(pkt) ==
    Over(Field(0, eth_hdr, "dhost", Sender(pkt).mac), Over(Field(0, eth_hdr, "shost", Receiver(pkt).mac),
    Over(Field(IpAt, ip_hdr, "saddr", Receiver(pkt).ip), Over(Field(IpAt, ip_hdr, "daddr", Sender(pkt).ip),
    Over(Field(UdpAt, udp_hdr, "src_port", Receiver(pkt).port),
    Over(Field(UdpAt, udp_hdr, "dst_port", Sender(pkt).port), pkt))))))
=============================================================================
