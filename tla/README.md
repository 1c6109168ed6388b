# mlx5-netperf: a verification development

mlx5-netperf is a network benchmark that drives a Mellanox ConnectX NIC
directly: it writes work requests into the NIC's rings, polls its completion
rings and manages packet buffers itself. A client sends requests that name
segments of the server's working set; the server answers by echoing the packet,
by copying the segments into a fresh buffer, or by sending them in place
(zero-copy scatter-gather). One thread does all the work of a process; the NIC
is the other actor.

This directory holds TLA+ modules translated from the C code, TLC runs that
check them on small instances, and TLAPS proofs of the transmit path, the receive
path, the server loop, the client loop, the life of the process and the functions
these are built on, for every size.
`PROJECT.json` maps every definition to the lines it stands for, names the property
each mutant of the code violates, and lists the hazards.

## 1. Inventory

### Components

| Component | Source | State | Operations | Module |
|---|---|---|---|---|
| Transmit path | `mlx5_rxtx.c`, `inc/mlx5.h` | `struct mlx5_txq`: `sq_head`, `true_cq_head`, `cq_head`, `buffers[]`; `num_wqes` of an mbuf | `mlx5_transmit_one`, `mlx5_transmit_batch`, `mlx5_fill_tx_segment`, `mlx5_ring_doorbell`, `mlx5_gather_completions` | `TxQueue` |
| Receive path | `mlx5_rxtx.c`, `inc/mlx5_rxtx.h` | `struct mlx5_rxq`: `wq_head`, `consumer_idx`, `buffers[]` | `mlx5_gather_rx`, `mlx5_refill_rxqueue`, `rx_completion` | `RxQueue` |
| Server loop | `main.c` | burst, batch, replies under construction; reference counts of the working set | `do_server`, `process_server_requests`, `process_echo_requests`, `post_mbufs`, completion functions | `Server` |
| Client loop | `main.c` | request list, send clock, packet map, both pools | `do_client` | `Client` |
| Latency statistics | `latency.c` | packet map, distribution | `add_latency_to_map`, `calculate_latencies`, `add_latency`, `dump_latencies` | `Latency` |
| Memory pools | `mempool.c`, `inc/base/mempool.h` | a stack of free items | create, alloc, free | `Mempool` |
| Set-up and shutdown, memory mapping | `main.c`, `mlx5_init.c`, `mem.c` | mappings, registrations, device, timers | `init_mlx5`, `init_workload`, `sig_handler`, `cleanup_mlx5` | `Lifecycle` |
| Work request layout | `mlx5_rxtx.c` | the bytes of the send ring | `mlx5_fill_tx_segment`, `mlx5_inline_data` | `WqeLayout` |
| Packet buffers, memory copy | `inc/base/mbuf.h`, `inc/base/rte_memcpy.h` | none | `mbuf_init`, `mbuf_copy`, `mbuf_fill_cqe`, `rte_memcpy` | `Mbuf`, `Memcpy` |
| Packet headers | `requests.c`, `main.c`, `inc/net/` | none | what is written, checked and reversed | `Wire` |
| Workload | `requests.c` | request list, pointer chase, server memory | `initialize_client_requests` and its helpers | `Workload` |
| Bitmaps | `bitmap.c`, `bitmap.h`, `sysfs.c` | none | search, iteration, combination, parsing | `Bitmap` |
| PCI, clock, busy work | `pci.c`, `time.c`, `busy_work.c` | none | start-up utilities | partly `Lifecycle` |

### How they interact

The server loop calls the receive path for a burst of packets (a poll that also
refills the receive ring), collects valid packets into a batch, builds one reply
per packet from `mbuf_mempool` and `tx_buf_mempool`, and calls the transmit path
until all replies are in the send ring. The transmit path frees mbufs when it
sees their completions; each mbuf carries a `release` function which returns it
to its pools and, for zero-copy replies, decrements the reference counts of the
segments it pointed to. So a buffer taken by one component is freed by another
one, much later, and only because a third party (the NIC) wrote a completion.

CPU and NIC share memory without locks: descriptors and doorbell records written
by the CPU, completion entries written by the NIC. An entry is told from what an
earlier lap left in the same place by one owner bit.

### What is hard here

* Interleaving: the NIC fetches requests, reads and writes buffers and posts
  completions between any two steps of the CPU.
* Wrapping counters of three widths (32, 24 and 16 bits) which are compared with
  each other; slots reused while older work waits; requests that occupy several
  blocks, run past the end of the ring, and have one completion.
* Lazy reaping: completions are only collected when the ring is full enough, or
  too full.
* Ownership of buffers over several components and error paths.
* Batches cut across bursts, and failures in the middle of a batch.
* An open-loop client whose replies are lost, late, doubled or in another order,
  and whose request record changes meaning when the request is sent.
* A set-up of a dozen calls that can each fail, and a signal at any moment.

What makes each component correct: for the rings, exact accounting, no
overwriting of unfetched requests, every completion leading to its own mbuf, no
overrun; for buffers, one owner at any time; for the server, every accepted
request answered and then freed exactly once, exact reference counts, and a loop
that always gets back to polling; for the layout, every byte where the hardware
reads it; for the client, every reply matched to its own request, requests kept
apart and within their list, and a report that says what happened; for the
process, memory mapped for as long as the NIC may use it and a clean-up that
fits the mappings, registrations and timers of the set-up.

## 2. Modules

| Module | Models | Used by |
|---|---|---|
| `Rings` | counters, slots, owner bits: what both paths share | `TxQueue`, `RxQueue` |
| `TxQueue` | the transmit path against the NIC | `MCTxQueue`, proofs |
| `TxFifo` | abstract specification of the transmit path: a bounded FIFO | `TxQueue` (refinement mapping `Fifo`) |
| `RxQueue` | the receive path against the NIC | `MCRxQueue`, proofs |
| `Server` | the server loop in its three modes | `MCServer`, proofs |
| `Mempool` | a pool as a stack, and the layout of its items | `Client`, `Library` |
| `Latency` | packet map, grouping, distribution, figures | `Client` |
| `Client` | the client loop against clock, NIC, network and server | `MCClient`, proofs |
| `Lifecycle` | the process from `main` to its end | `MCLifecycle`, proofs |
| `WqeLayout`, `Mbuf`, `Memcpy`, `Bitmap`, `Workload`, `Wire` | functions without state, as operators | `Library` |
| `Library` | calls of those functions, each with any argument from given sets | `MCLibrary`, proofs |
| `CounterArith` | lemmas on remainders and wrapping counters, induction and recursion over the numbers | all proofs |
| `RingProofs` | lemmas on slots, laps and owner bits | `TxQueueProofs`, `RxQueueProofs` |
| `TxQueueProofs` | the inductive invariant of `TxQueue` and what follows; `TxQueue` implements `TxFifo` | |
| `RxQueueProofs` | the inductive invariant of `RxQueue` and what follows | |
| `ServerProofs` | ownership, reference counts and pool sizes of `Server` | |
| `ClientProofs` | replies matched, requests paced, buffers owned and the report right in `Client` | |
| `LifecycleProofs` | the inductive invariant of `Lifecycle` and what follows | |
| `LibraryProofs` | what the functions called by `Library` return, for every argument | |

### State and actions

*Transmit path.* The variables of `TxQueue` are the fields of `mlx5_txq`, the
shared rings, the locals of `mlx5_transmit_one` (`pc`, `req`, `mbs`, `after`), and
the position of the NIC. `TransmitOne` is the entry; `CheckRoom` and
`RecheckRoom` are the two tests of `mlx5_fill_tx_segment`; `GatherOne`,
`GatherDone`, `GatherPanic` are the iterations and exits of
`mlx5_gather_completions` (the exit includes the `mbuf_free` of what was
gathered); `FillTxSegment` is the rest of `mlx5_fill_tx_segment`; `RingDoorbell`
publishes `sq_head` and goes on to the reap above `SQ_CLEAN_THRESH`. When
`RecheckRoom` finds no room the call returns 0, and since both callers
(`post_mbufs`, `do_client`) call again with the same mbuf, the action goes back
to the first test. `inflight` is a history variable. `NicFetch` and `NicComplete`
are external: a NIC that fetches up to the doorbell record and completes in order.

*Receive path.* `GatherRx`, `GatherOne`, `GatherDone`, `GatherPanic` are
`mlx5_gather_rx`; `RefillOne`, `RefillDone` and `RefillCrash` the refill inside it;
`Free` is `rx_completion`, called by the owner of a packet between two polls.
`NicReceive` is external. A packet with no posted descriptor is dropped and
changes nothing.

*Server.* One action per step of the loops: `Poll`, `SkipInvalid`, `TakeValid`,
`ScanDone` (do_server), `BuildEcho`, `BuildCopy`, `BuildZeroCopy` and their
failures (process_server_requests), `PostOne`, `PostFull`, `Clean`, `PostDone`
(post_mbufs with what `mlx5_transmit_one` does to the ring), `FreeFailed`,
`FreeBatch`. The receive and the transmit path appear as what they promise: a
poll swaps the buffers of a burst for as many free ones, or ends the process;
the send ring is a FIFO with `done` finished replies (`TxFifo`). Which item an
allocation returns does not matter for any property, so `Take` picks one.

*Client.* `Begin` takes an mbuf and a buffer and notes the time; `BeginNoMbuf` and
`BeginNoBuffer` are the two ways in which a pool that is empty ends the process.
`SendFull` and `SendPost` are one turn each of the loop around
`mlx5_transmit_one`; `EndPolling`, `GatherRx`, `DropInvalid`, `TakeReply` and
`BurstDone` are the polling loop, `EndLoop` and `Dump` the end. `Tick` is the
clock, `NicComplete`, `Reply` and `Stray` are external. `timestamp_offset` is one
array, as in the code: an interval until the request is sent, a time afterwards.
`FillSegs` is `nb_segs` of an mbuf, which `do_client` never sets: the passing run
takes 1 to look past the defect that `client_hang` shows (section 4). The packet
map keeps the code's overflow: the entry past the end overwrites the first id and
the count, the ones after it other ids. A run that sends nothing, segments longer than a packet, and ids past
the arrays of the report are all there. To keep the state space small, packets
arrive only while the loop polls (nobody looks at them earlier) and the clock
moves only while the loop waits; `MaxPackets` bounds the packets delivered.

*Latency.* `calculate_latencies` groups the recorded times by request and adds the
largest of each; `Figures` gives every outcome `qsort` may have with a `cmpfunc`
that narrows to int (`IntMod` stands for 2^32): orders consistent with it when
it is an order on the values, any permutation otherwise.

*Process.* What remains of a function's body is the sequence `todo`; an action
takes its first step. `init_mlx5`, `Main`, `cleanup_mlx5` and `sig_handler` are
sequences of steps, so that what they do and in which order can be compared with
the code line by line. Every call may fail; `MAP_FAILED` is not noticed by the
callers of `mem_map_anom`, nor that `mmap` refuses an empty working set, with which
a client divides by zero in its shuffle (requests.c:155); an uninitialised `pci_addr` and the padding that
`memcmp` compares are nondeterministic; the result of `time_init` is overwritten.
`Sigint` is possible at any moment; the handler runs on top of the loop, which
never continues. The build with timers is a configuration with two timers for the
seven of the code.

*Functions.* `Library` has one action per function: it calls the function with any
arguments from small sets and keeps arguments and result in `call` for the
properties. `WqeLayout` gives the addresses `mlx5_fill_tx_segment` writes to
(negative ones lie before the ring). `Memcpy` gives the set of offsets a copy
covers, `Mbuf` builds on it the packets that are put together from several
copies. In `Wire` a packet is a function from offsets to bytes of named values,
so that a field read at a wrong offset shows. In `Bitmap` a bitmap is a set of
positions, with the bits past its end in the last word; the words are 4 bits
wide. The parsers work on a text, a sequence of characters, from position to position
as the code does by pointer: `nexttoken` finds the next separator past whatever is in
between, `strtoul` and `strtoull` (external) convert the digits they find, in base 10
or in the one the prefix tells, with their overflow, and each parser ends as in the
code, at a NUL or at a newline. An `errno` left over from before the call, which
`sysfs_parse_bitlist` may return, is an argument. No code of the program calls either. `Workload` takes the results of `rand` as an argument.

## 3. Runs

| Run | Question | Bounds |
|---|---|---|
| `tx_ring` | is the send ring consistent? | 4 blocks, 4 CQEs, counters mod 8, 3 mbufs, sends of one and three blocks |
| `tx_progress` | is a full ring only a retry, is the order that of a FIFO? | 2 blocks, counters mod 4, 3 mbufs, error completions |
| `rx` | is the receive ring always full, exclusive, read in order, and does every packet reach the caller? | 2 slots, 4 laps until the counters wrap, budget 2, 5 buffers of which the caller may hold 2, error completions |
| `server` | who owns what in each mode, are counts exact, is every request answered, does the loop get back to polling? | bursts and batches of 2, ring of 2 replies, 2 segments per reply and in the working set |
| `server_failures` | what does a failed batch lead to? | 3 mbufs, 1 data buffer, replies that do not fit a receive buffer |
| `client` | are replies matched, requests paced, buffers owned, is the report right, does the client finish? | 4 requests at most, ring of 2, up to 4 packets, 2 copies of a reply, a map of 3, six set-ups |
| `lifecycle` | does the clean-up fit the configuration, and what does it leave? | all combinations of options, 4 sizes of working set (empty, and with and without a rest in pages and segments), lists of up to 2 devices |
| `library` | do the functions compute what they are for? | copies up to 600 bytes, all bitmaps of up to 7 bits, all texts of up to 3 of 11 characters and some thousand longer lists, pools up to 32, working sets of up to 5 segments for every outcome of rand, buffers of up to 96 bytes |
| `server_stranded` | violation: a burst that ends in an invalid packet | as `server`, echo mode, all bursts |
| `wqe_inline_wrap` | violation: inlining around the end of the ring | as `library` |
| `client_hang` | violation: the client's first packet | as `client`, with the `nb_segs` an mbuf really has |
| `request_rejected` | violation: the server and the client's packets | as `library` |

*What the passing runs show.* `tx_ring`, `tx_progress` and `rx`: no interleaving
of CPU and NIC and no wrap makes the rings disagree (`RingAccounting`,
`CompletionsInOrder`, `GathersWhatArrived`, `RingFull`), no buffer is read or written by
the NIC after it was given away (`UnfetchedWqesIntact`, `DmaBuffersOwned`,
`NicBuffersExclusive`), none is lost (`OneOwner`, `NoBufferLost`), and a full ring is only a
matter of time. `server`: the ownership of buffers across both rings and
three pools, over all three reply modes (`RxBufferOwners`, `ReplyOwners`,
`PoolsSuffice`), reference counts equal to the references in flight (`RefcntExact`), every
request of a batch answered before it is forgotten. `server_failures`: an echo batch
that fails is freed and survived; in the other modes the batch is freed twice and the
process ends (`FailureIsFatal`). `client`: `MapRecordsRtts`, `PacedWithinList`,
`SendsOwnBuffers`, `ReportExact` and `ClientFinishes` under loss, duplication and
reordering; `ReportExact` states what is printed against the history of replies,
including that the last request sent is left out (`total_sent` is `packet_id - 1`).
`lifecycle`: `RegisteredIsMapped`, `CleanupMatchesSetup`, `RunsOnlyWhenUp`. `library`: each
function against a definition of what it is for.

*Why the bounds are enough.* What can go wrong in a ring depends on laps: whether
a slot is reused, whether an owner bit changes, whether a counter wraps. Counters
that wrap after two laps make every one of these happen within a few sends, and
all of them together; the widths are constants, and the proofs cover the real
ones. Three mbufs, sends of one and three blocks in a ring of four give full
rings, wrapped sends and reaps that free less than is needed. In the server,
`BATCH_SIZE` and `BURST_SIZE` are equal, as in the code (32 and 32). A ring of two
replies is no larger than a batch, so that posting has to wait. `SQ_CLEAN_THRESH`
and `SQ_CLEAN_MAX` are at most the ring size, as in the code. The client sends
enough requests to fill its ring and to have several replies out of order, and
gets one more than its map holds. The layout, the headers and the copies use the
real sizes; only the number of blocks is smaller. 600 bytes take a copy through
each of its branches with every remainder.

*Where a property is restricted.* The passing server runs poll `FlushedBursts`, the
bursts after which no packet is left in the batch; `server_stranded` has all bursts.
`WqeInPlace` is about inlined headers only when they do not wrap; `wqe_inline_wrap` is
about the others. `CopiesExact` is about packets that fit their buffer, as
`NETPERF_ASSERT` would check in a debug build, and leaves out the 8 bytes of
checksum that a copied reply never writes. `BitmapsExact` says of every text that
neither parser sets a bit past the end; it compares what the two accept on lists that
are written plainly (`PlainList`: decimal numbers that an int can hold and that begin
with no 0, ranges, single commas, nothing else). On others they differ:
`string_to_bitmap` reads "010" as 10 and `sysfs_parse_bitlist` as 8, only the first
knows strides, skips what follows a number, and refuses a newline at the end, only the
second knows "0x3", "1,,2" and blanks. `RequestsChase` has at most
`MAX_SCATTERS` segments in a request, which nothing in `parse_args` checks.
`ReportExact` and `MapRecordsRtts` hold until the map overflows. `PacedWithinList` needs
a total time that is nearly a whole number of intervals (`Padded`, section 5), as
all set-ups of the run have.

*Symmetry* is used for mbufs in `tx_ring`, none of which any definition chooses
from; never in a run with a liveness property. *Deadlock* is not checked where the
process may end (a panic, a crash or an exit stops everything).

*Mutants.* Each property has a mutant: the definition of an operation with a
plausible slip (a dropped guard, a late record, a forgotten doorbell), under which
TLC finds the property violated.

### Fairness

`CpuStep` is weakly fair: one thread that never blocks. It contains the steps
inside a call, never the decision to make one, except in `RxQueue`, whose callers
poll for ever and free every packet (`GatherRx`, `Free`); in `Server`, `Poll` is
not in it, since nothing obliges packets to arrive. `NicFetch` and `NicComplete`
are weakly fair: the NIC works off what was posted to it, as the code assumes
when it spins. Nothing obliges packets to arrive at the receive ring. In `Client`
the loop, the NIC and the clock are weakly fair, the network is not.

## 4. Findings

* `main.c:1003` (`server_stranded`). When the last packet of a burst is invalid,
  `continue` skips the test that processes the batch. The packets collected from
  that burst are neither answered nor freed, and the next burst starts an empty
  batch. In the run the receive pool, large enough otherwise, runs dry, and the
  refill that must not fail does.
* `mlx5_rxtx.c:108` (`wqe_inline_wrap`). A request that starts in the last block
  of the ring has its UDP header, packet id and checksum written 26 bytes before
  the ring instead of at its start. The data segments are placed correctly
  (`WqeInPlace`).
* `main.c:642` (`client_hang`). `do_client` never sets `nb_segs`; the memory of its
  mbufs is filled with `'c'`, so that a request seems to need more blocks than any
  ring has, and the loop around `mlx5_transmit_one` never ends.
* `main.c:624` (`request_rejected`). The client copies a struct with two bytes of
  padding before the IP header; `check_valid_packet` looks for the protocol two
  bytes before it is, and refuses the packet.

`FailureIsFatal` records a fifth: after a failed batch in copy or zero-copy mode
`do_server` frees the batch, sets its entries to `NULL`, and frees them again.
With the pools the program creates a failed batch cannot happen (`PoolsSuffice`).

## 5. Proofs

The theorems hold for every value of the constants that meets the named
assumptions of the modules. All but the first are what the code guarantees: the completion
ring has an entry per block (`CqeCnt >= WqeCnt`: an assumption about the driver,
which is asked for 128 CQEs and 128 work requests, while `wqe_cnt` counts blocks of 64
bytes; `mlx5_init.c:546` prints both and nothing compares them), ring sizes divide the counter widths (powers of two) and are smaller
than the 16-bit and 24-bit indices, a burst is no longer than the receive ring, a
reply fits an empty send ring, sets of buffers are finite, `None` and `NULL` are
no configuration, buffer or status, inlined headers fit the ring and do not end with
a block (the program's 58 bytes do not), a host is its three addresses. TLC
evaluates them in every run.

### Transmit path

| Theorem | States |
|---|---|
| `Invariance` | `IndInv` is an invariant |
| `TypeCorrect` | `TypeOK` |
| `RingAccountingHolds` | blocks in use are those of the unreaped sends, end to end, and fit |
| `RecordedHolds` | `buffers[]` and `num_wqes` describe every unreaped send |
| `UnfetchedHolds` | no unfetched request is overwritten |
| `OneOwnerHolds` | every mbuf has one owner |
| `DmaHolds` | the NIC reads no freed buffer |
| `CompletionsHold` | completions are met in order, and the owner bit tells laps apart |
| `CqOverrunHolds` | the completion ring never overruns |
| `Refinement` | `Spec => Fifo!Spec` |

The properties alone are not inductive. `IndInv` adds
`LayoutInv` (sends occupy disjoint intervals counted from `true_cq_head`, and each
leaves at least a block for each later one, so that there are no more sends than
blocks), `ControlInv` (at `fill` there is room; at `doorbell` the last send is not
fetched; gathered mbufs and sends in flight together are at most the ring size,
which bounds the lag of the published consumer index), `NicInv` (how the NIC's
16-bit head and the doorbell record relate to the 32-bit counters) and `CqInv`
(around the completion ring from `cq_head`: the unread completions, then entries
that read as unwritten). `CounterArith` has the arithmetic of remainders that the
SMT backend cannot find by itself, `RingProofs` turns it into facts about `Add`,
`Sub`, slots and laps; `TxQueueProofs` has one lemma per action and part of the
invariant. The refinement maps the FIFO's queue to `inflight`, `done` to the unread
completions, `used` to `nr_inflight_tx`; `FillTxSegment` is `Post`, `NicComplete` is
`Finish`, `GatherOne` is `Reap`, `GatherDone` is `Release`, the rest stutters.

### Receive path

| Theorem | States |
|---|---|
| `Invariance` | `IndInv` is an invariant |
| `TypeHolds` | `TypeOK` |
| `RingFullHolds` | between two polls every slot has a buffer; a refill overruns nothing |
| `ExclusiveHolds` | a buffer the NIC may write is nowhere else |
| `GathersHolds` | every packet is returned once, in order, from the buffer it was written to |
| `NoLossHolds` | no buffer is lost or freed twice |
| `CqOverrunHolds` | the completion ring never overruns |

`IndInv` measures everything from `consumer_idx`: `HeadInv` (`wq_head` is ahead by
the slots that have a buffer, the doorbell record by those the NIC knows of),
`NicInv` (the NIC is ahead by the packets that arrived), `CqInv` (the entries that
wait name the oldest descriptors in order, all others read as unwritten),
`OwnerInv` (each buffer is in one slot, the pool, the burst or with the caller) and
`CountInv` (the numbers add up, which is what keeps a refill from failing or
overrunning). The middle of a refill, when slots are filled that the doorbell
record does not show, is a state of its own in each of them.

### Server

| Theorem | States | Under |
|---|---|---|
| `ShapeHolds` | replies, phases and places of packets fit together | |
| `TypeHolds` | `TypeOK` | |
| `NeverTwoOwners` | no receive buffer is in two places | |
| `OwnersHold` | `RxBufferOwners`: each is in exactly one | `AllFlushed` |
| `ReplyOwnersHold` | `ReplyOwners`: no control mbuf or data buffer is lost or shared | |
| `RefcntHolds` | `RefcntExact`: counts neither drift nor wrap | `CountsFit` |
| `PoolsHold` | `PoolsSuffice`: no allocation ever fails | `AllFlushed`, `Sized` |
| `AnsweredHolds` | `AnsweredBeforeForgotten`: what joins a batch is answered | `AllFlushed`, `Sized` |

The invariant is built in layers, each proved with those before it: `Shape` (types,
what a reply of each mode holds, how far the batch is at each point of the loop, no
receive buffer twice), `FlushInv` (no packet is left in the batch when the loop
polls, because the rest of a burst completes it), `RxAll` (no receive buffer is
missing), `ReplyInv` (every control mbuf and data buffer is in its pool, in one reply
under construction or in one in the ring), `CountInv` (a count is one plus the
references of the unfinished replies) and `Healthy` (no batch has failed). For
`ReplyInv` and `CountInv` every action is one of four kinds (`ReplyStep`): it leaves
the replies alone, builds one, posts the first, or frees those the NIC has finished.
References are counted as cardinalities of sets of positions, about which the
provers can reason without induction.

The hypotheses say where the code needs what nothing checks. `AllFlushed`: without
it packets are stranded, which is the finding of `server_stranded`; the theorems
show that this is the only way to lose one. `Sized` and `CountsFit` hold with the
numbers in the code: 1024 receive descriptors, a send ring of 128 blocks, bursts
and batches of 32, at most `MAX_SCATTERS` = 32 segments, so at most 160 unfinished
replies and 5120 references, against pools of several thousand items and a count of
16 bits. When a batch fails in copy or zero-copy mode mbufs are lost and the process
is about to end (`FailureIsFatal`); `ReplyOwners` and `ReplyInv` exempt exactly those
states.

### Client

| Theorem | States | Under |
|---|---|---|
| `Invariance` | `Inv` is an invariant | |
| `RttsHold` | `MapRecordsRtts`: every reply is recorded with the time of its own request | |
| `PaceHolds` | `PacedWithinList`: the times noted for requests keep their distance and the list is not left | `Padded` |
| `OwnBuffersHold` | `SendsOwnBuffers`: no item is in two sends, or in a send and its pool | |
| `ReportHolds` | `ReportExact`: the report says what happened to the requests | |

`Stamps` says what `timestamp_offset` means on both sides of a send: the interval
from the slot after the last request on, the time of the send before it. `Replies`:
what is in the network, in a burst or in the log is the id of a request that was
posted and has a slot; so a reply, however late or often it comes, reads a time and
never an interval. `Recorded` is the map against the log cell by cell, as long as the
log fits, and only the types of the map afterwards. `Pace` counts: the time noted
for the k-th request is no earlier than k - 1 intervals after the start and before the
total time. It is noted before the loop around `mlx5_transmit_one`, so that after a full
ring two posts may be closer than the interval; the code measures from the same time.

`PaceHolds` is not true of every total time and interval. With a total time of one
and a half intervals two requests are sent and the list has two, so that the look
at the next interval is one past its end. `Padded` excludes exactly this: the
intervals begun within the total time, plus one, are at most the padded number of
requests. It holds when the total time is a whole number of intervals, which is
what `main.c` makes of `rate_pps` and seconds, and tolerates the rounding of the
interval to nanoseconds and cycles from five requests on; a run of fewer requests
with an interval that is rounded down relies on the rounding.

`Buffers` carries `OwnBuffersHold`. For each of the two pools it says that what the
unfreed sends hold, in the order of the sends, and what the pool's stack still holds
make up one arrangement of all items in which none has two places (`Kept`). An
allocation takes the top of the stack to the end of the sends, a reap pushes a prefix
of the sends back in order (`FreeAll`, a recursive function), a failed allocation ends
the process. So an item that was freed twice, or kept by a send and freed, would show
as an item with two places.

`ReportHolds` follows a reply from the network to the printed figures. `Late` is what
the grouping needs: nothing arrives at the time it was sent, so that no recorded time is
0, which `calculate_latencies` would take for an empty slot. With `Recorded` it makes the
times grouped for a request those of the replies that count (`Grouped`). The loop is a
recursive function over the number of requests (`CollectedIs`); by induction it holds
one latency per answered request, at its rank among them, and their sum
(`CollectedFits`). The figures are about order: every sequence can be sorted
(`CanSort`, selection sort as a bijection of places), and the k-th place of a sorted one
holds the k-th smallest value, which counting with injections shows
(`PercentilePlaces`). `cmpfunc` is the true order while no two latencies are half the
range of an int apart. Beyond that qsort may leave any permutation, and the theorem
claims the list, its minimum, maximum and average, and nothing of the percentiles; it
claims nothing once the packet map has overflowed.

### Functions

`Library` calls one function per step, so its invariants are statements about what
the functions return; each theorem is a chain of lemmas about the function and one
step that applies them to the call.

| Theorem | States |
|---|---|
| `PoolsHold` | `PoolItemsApart`: the items of any pool that is accepted are apart, inside the region, within a page |
| `MemcpyExact` | `rte_memcpy_func` writes the `n` bytes of the destination and no other, through every branch |
| `CopiesHold` | `CopiesExact`: copies, requests and copied replies are put together exactly |
| `LayoutHolds` | `WqeInPlace`: the hardware finds every data segment, and inlined headers that do not wrap |
| `BitmapsHold` | `BitmapsExact`: search, iteration and combination agree with the set of bits, no text sets a bit past the end, the parsers agree on plain lists |
| `ChaseHolds` | `RequestsChase`: whatever `rand` returns, requests name segments of the working set and none twice before the chase starts again |
| `RepliesReadable` | `ReplyReadable`: what the server makes of an accepted request, the client accepts and matches |

*Recursive functions.* A loop of the code is a function `f[i \in 0 .. n]` defined from
`f[i - 1]`. Induction with a predicate as a parameter cannot be used here, so
`CounterArith` does it with sets: `NatSet` and `UpTo` (a set that has 0 and, with a
number, the next one, has all of them) follow from the existence of least elements,
and `Recursion` (a function with the given first value and step exists) from `UpTo`.
A definition by recursion is a choice among such functions; `Recursion` shows that
there is one, and what the loop computes is then proved with `UpTo` for the set of
those `i` for which it holds.

*Copies.* The blocks of 16, 32, 64, 128 and 256 bytes that the branches copy are shown
to be consecutive or to overlap at the end only; `CopiesHold` adds up the segments of a
packet. *Layout.* An address in the ring is followed around its end by a remainder;
`HeadersAssumption` is what keeps the pointer to the data segments from starting
behind the ring, and the code relies on it silently. *Bitmaps.* The word loops are
compared with the positions they stand for, for every length and all bits, including
those past the end in the last word; the width of a word and the range of an int are
those of the model. For a parser the proof goes through its loop turn by turn: each
turn leaves a position inside the text and bits below `nbits` (`StringTurns`,
`SysfsTurns`). On a plain list both loops read the same number at the same position
(`PlainNumber`, `PlainRange`), so that after each turn either both have stopped or they
have set the same bits (`TurnsInStep`). *Chase.* The shuffle of `initialize_client_requests` stays a
permutation after each exchange, so the pointers it makes form a cycle: they are
injective, and if a segment came up twice too early, so would the one before it, back
to the start. *Replies.* The offset of a field is the sum of the sizes before it, and is
computed once for each header. A packet `Shows` ten fields at disjoint places; each of the
three ways of replying shows them exchanged, and what `check_valid_packet` looks at is
among them. The client's own padded requests are not accepted (`request_rejected`), so
they are no case of the theorem.

### Life of the process

| Theorem | States |
|---|---|
| `Invariance` | `Inv` is an invariant |
| `RegisteredHolds` | `RegisteredIsMapped` |
| `CleanupHolds` | `CleanupMatchesSetup`: mappings, registrations and timers are gone, and exactly the objects of `init_mlx5` that nothing releases remain |
| `RunsHolds` | `RunsOnlyWhenUp` |

They hold for every set of configurations, every list of devices, any number of
timers, every page size and pool length, and for `SIGINT` between any two steps.
`Inv` follows the phases. `Course`: each step that main still has to take finds what
it needs done before it or earlier in the list, and what is done and what is to be
done together contain the set-up; so main can only reach its end, the handler or the
ready file with the whole set-up behind it (`Complete`). `Effects`: what the finished
steps left (regions by their full length in pages, registrations of the region that
the mode registers, timers, pools, the device). `Closing`: the list of the clean-up
deregisters a region before it unmaps it, unmaps whole regions, has a step for
every region, registration and timer that is still there, and a call that the system must refuse (the empty
working set) only at its end. `Closed`: what this leaves at exit. `Taken`, on top of
them, says that the process does no step but those of `Main`: what `cleanup_mlx5` has
no call for (the context and its protection domain, the arrays of the pools, the
reference counts, queues and flows, main.c:303-337) is at exit what `init_mlx5` created
for this configuration (`KeptSteps`). The lemmas about
lists show that `Main`, `cleanup_mlx5` and `sig_handler` are such lists in each mode.

### Only model-checked

Liveness (`TransmitCompletes`, `EveryPacketGathered`, `ReturnsToPoll`,
`FailureIsFatal`, `ClientFinishes`), which is out of the prover's reach like
`ENABLED`. Every invariant of the passing runs is stated by a theorem.

## 6. Not modelled

* Lengths and checksums in packet headers, which this program writes and never
  reads; the busy work between request and reply and its calibration; unit
  conversion, moving average and goodput in the statistics.
* Object creation through libibverbs: one step of `Lifecycle` that succeeds or not.
* The option letters and formats of `parse_args`: `Lifecycle` starts from the
  configuration they produce.
* The code of `mlx5_transmit_batch` behind its first return, which is never reached.
* `pci.c` apart from the search for a device, `mem_map_file` and the page-table
  look-ups of `mem.c`, and the headers taken over from another system (lists,
  shared-memory queues, slabs, the other mbuf.h): nothing calls them.
* Memory ordering: the code has a barrier or release store wherever it publishes
  (`udma_to_device_barrier`, `store_release`), and the models take each publication
  as one step.
* Reference-count arrays beyond one (`num_refcnt_arrays`).
* A valid packet whose id is that of no request: `do_client` indexes its list with
  whatever id it reads (main.c:678-681). Every other packet is there (`Reply`, `Stray`).
* What the heap makes of the reply to the last request sent, whose id is written behind
  `sent_ids` and `grouped_rtts` (latency.c:136-140): `Dump` goes on or ends in
  "corrupted", and `ReportExact` is about the runs that go on.

## 7. Plan

1. An abstract specification of the receive path and its refinement, as for the
   transmit path; `GathersHolds` and `NoLossHolds` are what it needs.
2. `Mempool` with a set of free items as its abstract specification.
