------------------------------ MODULE MCClient ------------------------------
(***************************************************************************)
(* Instances of Client for TLC: segments of at most two units.             *)
(***************************************************************************)
EXTENDS Client

Setup(time, size, segs, mbufs, bufs) ==
    [total_time |-> time, segment_size |-> size, num_segments |-> segs,
     mbufs |-> mbufs, tx_bufs |-> bufs]

\* One reply per request and two; no time at all; segments of more than a
\* packet while there are two of them; a pool that runs dry.
AllSetups ==
    {Setup(5, 1, 2, 3, 3), Setup(5, 2, 2, 3, 3), Setup(0, 1, 2, 3, 3),
     Setup(5, 3, 2, 3, 3), Setup(4, 1, 2, 1, 3), Setup(4, 1, 2, 3, 1)}
OneSetup == {Setup(4, 1, 2, 3, 3)}
=============================================================================
