------------------------------- MODULE TxFifo -------------------------------
(***************************************************************************)
(* What the transmit path promises its callers, without rings, counters or *)
(* owner bits: a bounded FIFO between the CPU and the NIC.  An mbuf taken  *)
(* from the pool is posted once; the NIC finishes posted mbufs in order;   *)
(* the CPU collects finished ones in order and only then returns them to   *)
(* the pool.  A post needs as many free blocks as the send occupies.       *)
(***************************************************************************)
EXTENDS Naturals, Sequences

CONSTANTS
    Capacity,   \* blocks in the ring
    MaxReap,    \* mbufs collected before they are freed
    Mbufs,
    Sizes       \* blocks a send may occupy

VARIABLES
    free,       \* mbufs in the pool
    held,       \* mbufs a caller has taken and not posted
    queue,      \* posted sends [m, n], oldest first
    done,       \* how many of them the NIC has finished
    used,       \* blocks occupied
    reaped      \* collected mbufs that are about to be freed

vars == <<free, held, queue, done, used, reaped>>

Init ==
    /\ free = Mbufs
    /\ held = {}
    /\ queue = <<>>
    /\ done = 0
    /\ used = 0
    /\ reaped = <<>>

Take(m) ==
    /\ m \in free
    /\ free' = free \ {m}
    /\ held' = held \cup {m}
    /\ UNCHANGED <<queue, done, used, reaped>>

Post(m, n) ==
    /\ m \in held
    /\ used + n <= Capacity
    /\ held' = held \ {m}
    /\ queue' = Append(queue, [m |-> m, n |-> n])
    /\ used' = used + n
    /\ UNCHANGED <<free, done, reaped>>

Finish ==
    /\ done < Len(queue)
    /\ done' = done + 1
    /\ UNCHANGED <<free, held, queue, used, reaped>>

Reap ==
    /\ done > 0
    /\ Len(reaped) < MaxReap
    /\ reaped' = Append(reaped, queue[1].m)
    /\ queue' = Tail(queue)
    /\ done' = done - 1
    /\ used' = used - queue[1].n
    /\ UNCHANGED <<free, held>>

Release ==
    /\ reaped # <<>>
    /\ free' = free \cup {reaped[i] : i \in DOMAIN reaped}
    /\ reaped' = <<>>
    /\ UNCHANGED <<held, queue, done, used>>

Next ==
    \/ \E m \in Mbufs : Take(m)
    \/ \E m \in Mbufs, n \in Sizes : Post(m, n)
    \/ Finish
    \/ Reap
    \/ Release

Spec == Init /\ [][Next]_vars
=============================================================================
