------------------------------- MODULE Rings -------------------------------
(***************************************************************************)
(* What the send and the receive path share (inc/mlx5.h): a work queue of  *)
(* WqeCnt slots and a completion queue of CqeCnt entries, both powers of   *)
(* two, indexed by counters that are uint32_t in the code and wrap (here   *)
(* at CounterMod).  The doorbell record of a work queue and the index in a *)
(* completion carry only the low 16 bits of a counter (WqeIdxMod), the     *)
(* doorbell record of a completion queue the low 24 bits (CqDbMod).        *)
(***************************************************************************)
EXTENDS Integers, Sequences, FiniteSets

CONSTANTS
    WqeCnt,           \* wqe_cnt, slots of the work queue
    CqeCnt,           \* cqe_cnt, entries of the completion queue
    CounterMod,       \* 2^32
    WqeIdxMod,        \* 2^16
    CqDbMod           \* 2^24

\* That the driver makes the completion queue as long as the ring is assumed:
\* the code asks for as many CQEs as work requests, while wqe_cnt counts
\* blocks of 64 bytes, and no line compares the two.
ASSUME RingAssumption ==
    /\ WqeCnt \in Nat \ {0} /\ CqeCnt \in Nat \ {0}
    /\ CqeCnt >= WqeCnt                           \* one CQE per WQE fits

ASSUME WidthAssumption ==
    /\ WqeIdxMod \in Nat /\ WqeCnt < WqeIdxMod
    /\ CqDbMod \in Nat /\ CqeCnt < CqDbMod
    /\ CqeCnt < WqeIdxMod                        \* cqe_status: uint16_t parity
    /\ CounterMod \in Nat \ {0}
    /\ WqeIdxMod % WqeCnt = 0 /\ CounterMod % WqeIdxMod = 0
    /\ CounterMod % (2 * CqeCnt) = 0 /\ CounterMod % CqDbMod = 0

---------------------------------------------------------------------------
Counter == 0 .. CounterMod - 1
Slot == 0 .. WqeCnt - 1
CqSlot == 0 .. CqeCnt - 1

\* Mutant: a counter that does not wrap.
AddNoWrap(x, n) == x + n

Add(x, n) == (x + n) % CounterMod
Sub(x, y) == (x - y) % CounterMod

SlotOf(x) == x % WqeCnt
CqSlotOf(x) == x % CqeCnt

\* head & cqe_cnt, as 0 or 1: which lap over the completion ring head is in.
Parity(x) == (x \div CqeCnt) % 2

\* Mutant: the owner bit is ignored.
cqe_status_opcode_only(cqe, head) == cqe.opcode

\* The status a poll at index head reads: an entry whose owner bit is not
\* that of the current lap has not been written yet.
cqe_status(cqe, head) ==
    IF cqe.owner = 1 - Parity(head) THEN "INVALID" ELSE cqe.opcode
=============================================================================
