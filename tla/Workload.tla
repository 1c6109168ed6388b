----------------------------- MODULE Workload -----------------------------
(***************************************************************************)
(* The requests of the client and the memory of the server (requests.c):   *)
(* a shuffled list of the segments of the working set, a pointer from each *)
(* to the next, and requests that follow the pointers.                     *)
(***************************************************************************)
EXTENDS Integers, Sequences, SequencesExt

\* initialize_server_memory and initialize_pointer_chasing_at_client refuse
\* an array that is not a number of segments.
Aligned(array_size, segment_size) == array_size % segment_size = 0

Swap(f, i, j) == [f EXCEPT ![i] = f[j], ![j] = f[i]]

\* Mutant: the second half of the swap is forgotten.
shuffled_half_swap(len, rands) ==
    LET after[i \in 0 .. len - 1] ==
            IF i = 0 THEN [k \in 0 .. len - 1 |-> k]
            ELSE [after[i - 1] EXCEPT ![i - 1] = after[i - 1][i - 1 + (rands[i] % (len - (i - 1)))]]
    IN  after[len - 1]

\* indices, after every i < len - 1 has been swapped with i + rand() % (len - i).
shuffled(len, rands) ==
    LET after[i \in 0 .. len - 1] ==
            IF i = 0 THEN [k \in 0 .. len - 1 |-> k]
            ELSE Swap(after[i - 1], i - 1, i - 1 + (rands[i] % (len - (i - 1))))
    IN  after[len - 1]

\* The pointers: indices, moved down by one place.
initialize_pointer_chasing_at_client(len, rands) ==
    LET indices == shuffled(len, rands)
    IN  [i \in 0 .. len - 1 |-> IF i = len - 1 THEN indices[0] ELSE indices[i + 1]]

\* The segments named, one after the other: cur_region_idx follows the
\* pointers from segment 0.
Chase(pointers, n) ==
    LET cur[k \in 0 .. n - 1] == IF k = 0 THEN 0 ELSE pointers[cur[k - 1]]
    IN  cur

\* segment_offsets of the requests: the chase goes on from one to the next.
initialize_client_requests(pointers, num_requests, num_segments) ==
    LET chase == Chase(pointers, num_requests * num_segments)
    IN  [iter \in 1 .. num_requests |->
            [i \in 1 .. num_segments |-> chase[(iter - 1) * num_segments + i - 1]]]

\* get_server_region: the bytes of the working set a segment stands for.
get_server_region(idx, segment_size) == idx * segment_size .. (idx + 1) * segment_size - 1

\* initialize_server_memory: the letter every byte of the array is set to.
initialize_server_memory(segment_size, array_size) ==
    [byte \in 0 .. array_size - 1 |->
        (CHOOSE i \in 0 .. array_size \div segment_size - 1 : byte \in get_server_region(i, segment_size)) % 26]
=============================================================================
