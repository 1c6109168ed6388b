----------------------------- MODULE MCTxQueue -----------------------------
(***************************************************************************)
(* Instances of TxQueue for TLC.                                           *)
(***************************************************************************)
EXTENDS TxQueue, TLC

\* A copied reply takes one block of the ring.
CopyShape == [inline_len |-> 0, nb_segs |-> 1]

\* A zero-copy reply inlines a 58 byte header; with one data segment it
\* takes two blocks, with three to six it takes three.
ZeroCopyShape(segs) == [inline_len |-> 58, nb_segs |-> segs]

MixedShapes == {CopyShape, ZeroCopyShape(3)}
ShortShapes == {CopyShape, ZeroCopyShape(1)}

\* mbufs are interchangeable.
MbufSymmetry == Permutations(Mbufs)
=============================================================================
