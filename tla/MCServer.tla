------------------------------ MODULE MCServer ------------------------------
(* Instances of Server: bursts of up to three packets, batches of two.     *)
EXTENDS Server

CONSTANT BURST_SIZE

AllBursts == UNION {[1 .. n -> {"valid", "invalid"}] : n \in 1 .. BURST_SIZE}

\* Bursts after which no packet is left in the batch: the last packet is
\* valid, or the valid ones fill whole batches.
FlushedBursts ==
    {b \in AllBursts :
        \/ b[Len(b)] = "valid"
        \/ Cardinality({i \in DOMAIN b : b[i] = "valid"}) % BATCH_SIZE = 0}
=============================================================================
