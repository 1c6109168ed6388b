------------------------------ MODULE Mempool ------------------------------
(***************************************************************************)
(* A pool of equally long items in one mapped region (mempool.c): a stack  *)
(* of the addresses of free items, of which the first `allocated` entries  *)
(* are out.  An address is an offset into the region.                      *)
(***************************************************************************)
EXTENDS Integers, Sequences

\* Stands for 2^64, the range of size_t.
SizeMod == 2 ^ 16

\* Mutant: items are laid out without regard to pages.
mempool_populate_dense(len, pgsize, item_len) ==
    LET per_page == pgsize \div item_len
    IN  [k \in 1 .. (len \div pgsize) * per_page |-> item_len * (k - 1)]

\* Where the items are: whole items only, page by page.
mempool_populate(len, pgsize, item_len) ==
    LET per_page == pgsize \div item_len
    IN  [k \in 1 .. (len \div pgsize) * per_page |->
            pgsize * ((k - 1) \div per_page) + item_len * ((k - 1) % per_page)]

is_power_of_two(x) == x # 0 /\ \E i \in 0 .. 15 : x = 2 ^ i

\* The parameters that mempool_create does not refuse with EINVAL.
MempoolParams(len, pgsize, item_len) ==
    item_len # 0 /\ is_power_of_two(pgsize) /\ len % pgsize = 0

mempool_create(len, pgsize, item_len) ==
    [free_items |-> mempool_populate(len, pgsize, item_len), allocated |-> 0]

Capacity(p) == Len(p.free_items)

\* mempool_alloc: the caller gets AllocItem(p), or NULL when AllocFails(p).
AllocFails(p) == p.allocated >= Capacity(p)
AllocItem(p) == p.free_items[p.allocated + 1]
mempool_alloc(p) == [p EXCEPT !.allocated = @ + 1]

\* mempool_free.  With nothing allocated the index wraps, and the item is
\* written in front of the array; the assertion after it is compiled out.
mempool_free(p, item) ==
    IF p.allocated = 0
    THEN [p EXCEPT !.allocated = SizeMod - 1]
    ELSE [p EXCEPT !.free_items[p.allocated] = item, !.allocated = @ - 1]

\* The items a pool would hand out next, in order.
FreeItems(p) == SubSeq(p.free_items, p.allocated + 1, Capacity(p))
=============================================================================
