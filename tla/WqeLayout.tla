----------------------------- MODULE WqeLayout -----------------------------
(***************************************************************************)
(* Where mlx5_fill_tx_segment writes the parts of a work request in the    *)
(* send ring: a control segment, an Ethernet segment whose last two bytes  *)
(* are the first of the inlined headers (mlx5_inline_data), the rest of    *)
(* the inlined headers, and one data segment per mbuf.  The ring is a byte *)
(* array of WqeCnt blocks; a work request may run past its end and goes on *)
(* at its start.  Addresses are offsets from the start of the ring, `len`  *)
(* is the length of what is inlined.                                       *)
(*                                                                         *)
(* TxQueue takes from this only the number of blocks a request occupies.   *)
(***************************************************************************)
EXTENDS Integers, Sequences, SequencesExt

CONSTANTS
    WqeCnt,      \* blocks of the send ring
    InlinedHeaders, \* lengths of the headers inlined one after the other
    MaxSegs      \* MAX_SCATTERS, mbufs in a chain

ASSUME LayoutAssumption ==
    /\ WqeCnt \in Nat \ {0} /\ MaxSegs \in Nat \ {0}
    /\ InlinedHeaders \in Seq(Nat \ {0})

Octoword == 16
Block == 64                           \* stride of the send ring
RingEnd == WqeCnt * Block             \* end_ptr
CtrlSize == 16
InlineHdrStart == 14                  \* offset in the Ethernet segment

Padded(n) == ((n + 15) \div Octoword) * Octoword

\* Where the k-th header ends behind the first byte of the first one.
HeaderEnd(k) ==
    LET end[i \in 0 .. Len(InlinedHeaders)] == IF i = 0 THEN 0 ELSE end[i - 1] + InlinedHeaders[i]
    IN  end[k]
InlinedLen == HeaderEnd(Len(InlinedHeaders))

NumHdrSegs(len) == IF len = 0 THEN 2 ELSE 2 + (len - 2 + 15) \div Octoword
NumWqes(len, nb_segs) == (NumHdrSegs(len) + nb_segs + 3) \div 4

\* Headers that ended with a block at the end of the ring would leave the
\* pointer to the data segments there, behind the ring: it is not wrapped.
\* The headers of a reply are 58 bytes, 6 octowords with the segments.
ASSUME HeadersAssumption ==
    /\ NumHdrSegs(InlinedLen) % 4 # 0
    /\ NumHdrSegs(InlinedLen) <= 4 * WqeCnt

\* mlx5_inline_data: the addresses of the len bytes of a header, `offset`
\* bytes behind ptr.  When the header begins at or past the end of the ring
\* it subtracts the room before the end from the header's length, not from
\* its offset.
mlx5_inline_data(ptr, offset, len) ==
    LET off == IF ptr + offset >= RingEnd THEN len - (RingEnd - ptr) ELSE ptr + offset
        first == RingEnd - off
    IN  [i \in 1 .. len |-> IF i <= first THEN off + i - 1 ELSE i - 1 - first]

\* The addresses of all inlined bytes, in the order of the data.
Inlined(ptr) ==
    LET done[i \in 0 .. Len(InlinedHeaders)] ==
            IF i = 0 THEN <<>>
            ELSE done[i - 1] \o mlx5_inline_data(ptr, HeaderEnd(i - 1), InlinedHeaders[i])
    IN  done[Len(InlinedHeaders)]

\* Mutant: the padding after a wrap is forgotten.
PastInlinedNoPad(ptr, len) ==
    IF RingEnd - ptr < len THEN len - (RingEnd - ptr) ELSE ptr + 2 + Padded(len - 2)

\* Past the inlined bytes, padded to an octoword.
PastInlined(ptr, len) ==
    IF RingEnd - ptr < len THEN Padded(len - (RingEnd - ptr)) ELSE ptr + 2 + Padded(len - 2)

Wrapped(p) == IF p = RingEnd THEN 0 ELSE p

\* The addresses of the data segments, the first of them at ptr.
Dpsegs(ptr, nb_segs) ==
    LET at[k \in 1 .. nb_segs] == IF k = 1 THEN ptr ELSE Wrapped(at[k - 1] + Octoword)
    IN  at

\* A request that begins at `start`, the first byte of a block.
mlx5_fill_tx_segment(start, len, nb_segs) ==
    LET eseg == start + CtrlSize
        ptr == eseg + InlineHdrStart
    IN  IF len > 0
        THEN [inlined |-> Inlined(ptr), dpsegs |-> Dpsegs(PastInlined(ptr, len), nb_segs)]
        ELSE [inlined |-> <<>>, dpsegs |-> Dpsegs(Wrapped(eseg + Octoword), nb_segs)]
=============================================================================
