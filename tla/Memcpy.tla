------------------------------ MODULE Memcpy ------------------------------
(***************************************************************************)
(* rte_memcpy_func (rte_memcpy.h), which copies every header and payload:  *)
(* n bytes in moves of fixed sizes, the last of which may overlap the one  *)
(* before it.  A move reads and writes at the same offset, so a copy is    *)
(* the set of the offsets its moves cover.                                 *)
(***************************************************************************)
EXTENDS Integers

Bytes(offset, len) == offset .. offset + len - 1

rte_mov16(p) == Bytes(p, 16)
rte_mov32(p) == rte_mov16(p) \cup rte_mov16(p + 16)
rte_mov64(p) == rte_mov32(p) \cup rte_mov32(p + 32)
rte_mov128(p) == rte_mov64(p) \cup rte_mov64(p + 64)
rte_mov256(p) == rte_mov128(p) \cup rte_mov128(p + 128)

Bit(n, b) == (n \div b) % 2 = 1

\* n < 16: a byte, two, four and eight, as the bits of n say.
SmallCopy(n) ==
    UNION {Bytes(n % b, b) : b \in {c \in {1, 2, 4, 8} : Bit(n, c)}}

\* Mutant: the bytes left over are moved from where the moves before ended.
RestForward(done, n) == IF n = 0 THEN {} ELSE rte_mov16(done)

\* The n < 16 bytes left over, moved together with the ones before them.
Rest(done, n) == IF n = 0 THEN {} ELSE rte_mov16(done - 16 + n)

\* n > 128: by 256, then up to three moves of 64 and three of 16.
LargeCopy(n) ==
    LET d256 == n - (n % 256)
        d64 == n - (n % 64)
        d16 == n - (n % 16)
    IN  (UNION {rte_mov256(256 * k) : k \in 0 .. d256 \div 256 - 1})
        \cup (UNION {rte_mov64(d256 + 64 * k) : k \in 0 .. (d64 - d256) \div 64 - 1})
        \cup (UNION {rte_mov16(d64 + 16 * k) : k \in 0 .. (d16 - d64) \div 16 - 1})
        \cup Rest(d16, n - d16)

rte_memcpy_func(n) ==
    CASE n < 16 -> SmallCopy(n)
      [] n \in 16 .. 32 -> rte_mov16(0) \cup rte_mov16(n - 16)
      [] n \in 33 .. 64 -> rte_mov32(0) \cup rte_mov32(n - 32)
      [] n \in 65 .. 128 -> rte_mov64(0) \cup rte_mov64(n - 64)
      [] OTHER -> LargeCopy(n)
=============================================================================
