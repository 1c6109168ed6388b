----------------------------- MODULE Lifecycle -----------------------------
(***************************************************************************)
(* The life of the process, from main to its end: calibrating the clock,   *)
(* parsing the arguments, init_mlx5 and init_workload, the client or the   *)
(* server loop, and cleanup_mlx5, called by do_client or by the handler of *)
(* SIGINT.  Any call to the system may fail and SIGINT may arrive at any   *)
(* moment.  The loops themselves are the modules Client and Server.        *)
(*                                                                         *)
(* What remains of a function's body is a sequence of steps, of which the  *)
(* actions take the first.                                                 *)
(***************************************************************************)
EXTENDS Integers, Sequences, SequencesExt

CONSTANTS
    Configs,     \* what the command line may ask for
    DeviceLists, \* what ibv_get_device_list may return
    Pgsize,      \* PGSIZE_2MB
    PoolLen,     \* length of the region of a memory pool
    Dists,       \* the server's timers, a sequence: server_request_dist, ...
    None

ASSUME LifecycleAssumption ==
    /\ Pgsize \in Nat \ {0} /\ PoolLen \in Nat \ {0}
    /\ Configs \subseteq [client : BOOLEAN, zero_copy : BOOLEAN, using_ref_counting : BOOLEAN,
                          ready_file : BOOLEAN, timers : BOOLEAN,
                          working_set_size : Nat, segment_size : Nat]
    /\ DeviceLists \subseteq Seq([mlx5 : BOOLEAN, addr : {"wanted", "other", "none", "unreadable"}])
    /\ Dists \in Seq(STRING)
    /\ None \notin Configs /\ None # "ok"

VARIABLES
    config,      \* mode, zero_copy, using_ref_counting, ... as parsed
    phase,       \* "main", "run", "cleanup", "exited", "killed" or "crashed"
    todo,        \* the steps before the next phase
    up,          \* the set-up steps that succeeded
    device,      \* the device opened, with the address sysfs has for it
    mapped,      \* length of every mapped region
    pools,       \* the regions whose struct mempool is filled in
    dists,       \* the timers whose latencies are allocated
    mr,          \* tx_mr and rx_mr: the region registered
    refused,     \* the system refused a clean-up call that was in order
    status       \* exit status

vars == <<config, phase, todo, up, device, mapped, pools, dists, mr, refused, status>>

align_up(n) == ((n + Pgsize - 1) \div Pgsize) * Pgsize

Step(op, a, b) == [op |-> op, a |-> a, b |-> b]
Call(op) == Step(op, None, None)
MapPool(r) == Step("mempool_memory_init", r, PoolLen)
Register(m, r) == Step("memory_registration", m, r)
Deregister(m) == Step("memory_deregistration", m, None)
Optional(cond, s) == IF cond THEN <<s>> ELSE <<>>

\* The memory the two modes set up.
ClientMemory == <<MapPool("tx"), Register("tx_mr", "tx"), MapPool("rx"), Register("rx_mr", "rx")>>
ServerMemory(c) ==
    <<Step("server_memory_init", "working_set", c.working_set_size)>>
    \o Optional(c.using_ref_counting, Call("server_init_refcnt_array"))
    \o <<MapPool("rx"), Register("rx_mr", "rx")>>
    \o IF c.zero_copy THEN <<Register("tx_mr", "working_set")>>
                      ELSE <<MapPool("tx"), Register("tx_mr", "tx")>>

init_mlx5(c) ==
    <<Call("init_ibv_context"), MapPool("mbuf")>>
    \o (IF c.client THEN ClientMemory ELSE ServerMemory(c))
    \o <<Call("mlx5_init_rxq"), Call("mlx5_qs_init_flows"), Call("mlx5_init_txq")>>

\* One step for each timer.
ForDists(op) == [i \in DOMAIN Dists |-> Step(op, Dists[i], None)]

\* main, after the arguments are parsed.
Main(c) ==
    init_mlx5(c) \o <<Call("init_workload")>>
    \o (IF ~c.client /\ c.timers THEN ForDists("alloc_latency_dist") ELSE <<>>)
    \o Optional(~c.client, Call("signal"))
    \o Optional(~c.client /\ c.ready_file, Call("ready_file"))

PoolUnmap(r) == Step("munmap", r, IF r \in pools THEN PoolLen ELSE 0)

\* Mutant: the tx pool is unmapped whether there is one or not.
cleanup_mlx5_always_tx(c) ==
    IF c.client
    THEN <<PoolUnmap("mbuf"), Deregister("tx_mr"), PoolUnmap("tx"), Deregister("rx_mr"), PoolUnmap("rx")>>
    ELSE <<PoolUnmap("mbuf"), Deregister("rx_mr"), PoolUnmap("rx"), Deregister("tx_mr"), PoolUnmap("tx"),
           Step("munmap", "working_set", align_up(c.working_set_size))>>

\* Mutant: memory is unmapped before it is deregistered.
cleanup_mlx5_unmaps_first(c) ==
    IF c.client
    THEN <<PoolUnmap("mbuf"), PoolUnmap("tx"), Deregister("tx_mr"), PoolUnmap("rx"), Deregister("rx_mr")>>
    ELSE <<PoolUnmap("mbuf"), Deregister("rx_mr"), PoolUnmap("rx")>>
         \o Optional(~c.zero_copy, PoolUnmap("tx"))
         \o <<Step("munmap", "working_set", align_up(c.working_set_size)), Deregister("tx_mr")>>

cleanup_mlx5(c) ==
    IF c.client
    THEN <<PoolUnmap("mbuf"), Deregister("tx_mr"), PoolUnmap("tx"), Deregister("rx_mr"), PoolUnmap("rx")>>
    ELSE <<PoolUnmap("mbuf"), Deregister("rx_mr"), PoolUnmap("rx"), Deregister("tx_mr")>>
         \o Optional(~c.zero_copy, PoolUnmap("tx"))
         \o <<Step("munmap", "working_set", align_up(c.working_set_size))>>

\* sig_handler: with timers they are dumped and freed first.
sig_handler(c) ==
    (IF c.timers THEN ForDists("dump_debug_latencies") \o ForDists("free_latency_dist") ELSE <<>>)
    \o cleanup_mlx5(c)

Init ==
    /\ config = None /\ phase = "main"
    /\ todo = <<Call("time_init"), Call("parse_args")>>
    /\ up = {} /\ device = None
    /\ mapped = <<>> /\ pools = {} /\ dists = {}
    /\ mr = [m \in {"tx_mr", "rx_mr"} |-> None]
    /\ refused = FALSE /\ status = None

At(op) == phase = "main" /\ todo # <<>> /\ Head(todo).op = op
Advance == todo' = Tail(todo)
Done == Advance /\ UNCHANGED <<phase, status>> /\ up' = up \cup {Head(todo)}
Ends(p, s) == phase' = p /\ status' = s /\ todo' = <<>>

\* A failing step makes main return its error; nothing is undone.
Fails == Ends("exited", "error") /\ UNCHANGED up

\* The result of time_init is overwritten by that of parse_args.
TimeInit ==
    /\ At("time_init")
    /\ Done \/ (Advance /\ UNCHANGED <<up, phase, status>>)
    /\ UNCHANGED <<config, device, mapped, pools, dists, mr, refused>>

\* An option may be refused; num_total_segments divides by segment_size.
ParseArgs(c) ==
    /\ At("parse_args")
    /\ \/ Fails /\ UNCHANGED config
       \/ /\ config' = c /\ UNCHANGED up
          /\ IF c.segment_size = 0 THEN Ends("crashed", None)
             ELSE todo' = Main(c) /\ UNCHANGED <<phase, status>>
    /\ UNCHANGED <<device, mapped, pools, dists, mr, refused>>

\* ibv_device_to_pci_addr leaves the caller's pci_addr as it was when the
\* device's uevent file has no PCI_SLOT_NAME line, and reports success.
AddrSeen(devs, i, garbage) ==
    LET read == {j \in 1 .. i : devs[j].mlx5 /\ devs[j].addr \in {"wanted", "other"}}
    IN  IF read = {} THEN garbage ELSE devs[CHOOSE j \in read : \A k \in read : k <= j].addr

\* The devices that pass the comparison, which includes the padding of
\* struct pci_addr: `pad` says that the caller's was zero.
Matches(devs, garbage, pad) ==
    {i \in DOMAIN devs : devs[i].mlx5 /\ devs[i].addr # "unreadable"
                         /\ pad /\ AddrSeen(devs, i, garbage) = "wanted"}

InitIbvContext ==
    /\ At("init_ibv_context")
    /\ \E devs \in DeviceLists, garbage \in {"wanted", "other"}, pad \in BOOLEAN :
         LET found == Matches(devs, garbage, pad)
         IN  \/ Fails /\ UNCHANGED device
             \/ /\ found # {} /\ Done
                /\ device' = devs[CHOOSE i \in found : \A j \in found : i <= j]
    /\ UNCHANGED <<config, mapped, pools, dists, mr, refused>>

\* mem_map_anom hands out MAP_FAILED when mmap or mbind fails and exits when
\* a page cannot be touched; its callers test for NULL and write through the
\* pointer.
MapCrash ==
    /\ At("mempool_memory_init") \/ At("server_memory_init")
    /\ Ends("crashed", None) \/ Ends("exited", "error")
    /\ UNCHANGED <<config, up, device, mapped, pools, dists, mr, refused>>

Mapping == [r \in DOMAIN mapped \cup {Head(todo).a} |->
               IF r = Head(todo).a THEN align_up(Head(todo).b) ELSE mapped[r]]

\* Nobody notices that mmap refuses an empty working set.
ServerMemoryInit ==
    /\ At("server_memory_init")
    /\ mapped' = IF Head(todo).b = 0 THEN mapped ELSE Mapping
    /\ Done
    /\ UNCHANGED <<config, device, pools, dists, mr, refused>>

\* mempool_create refuses a length that is not a number of pages; after it
\* has filled in the pool, the array of items may not be allocated.
MempoolMemoryInit ==
    /\ At("mempool_memory_init")
    /\ mapped' = Mapping
    /\ IF Head(todo).b % Pgsize # 0 THEN Fails /\ UNCHANGED pools
       ELSE pools' = pools \cup {Head(todo).a} /\ (Done \/ Fails)
    /\ UNCHANGED <<config, device, dists, mr, refused>>

MemoryRegistration ==
    /\ At("memory_registration")
    /\ \/ Done /\ mr' = [mr EXCEPT ![Head(todo).a] = Head(todo).b]
       \/ Fails /\ mr' = [mr EXCEPT ![Head(todo).a] = None]
    /\ UNCHANGED <<config, device, mapped, pools, dists, refused>>

Creates == {"server_init_refcnt_array", "mlx5_init_rxq", "mlx5_qs_init_flows", "mlx5_init_txq"}

\* Mutant: the error is reported and the set-up goes on.
CreateLogged ==
    /\ \E op \in Creates : At(op)
    /\ Done \/ (Advance /\ UNCHANGED <<up, phase, status>>)
    /\ UNCHANGED <<config, device, mapped, pools, dists, mr, refused>>

\* The steps that create objects in the NIC or on the heap.  The queues'
\* strides are taken for powers of two: PANIC_ON_TRUE is unreachable code.
Create ==
    /\ \E op \in Creates : At(op)
    /\ \/ Done \/ Fails
       \/ (At("mlx5_init_rxq") \/ At("mlx5_init_txq")) /\ Ends("crashed", None) /\ UNCHANGED up
    /\ UNCHANGED <<config, device, mapped, pools, dists, mr, refused>>

\* Client and server refuse a segment size that does not divide the array.
\* The client shuffles its segments; with none it takes rand() % 0.
NothingToShuffle == config.client /\ config.working_set_size = 0
InitWorkload ==
    /\ At("init_workload")
    /\ \/ config.working_set_size % config.segment_size = 0 /\ ~NothingToShuffle /\ Done
       \/ Fails
       \/ NothingToShuffle /\ Ends("crashed", None) /\ UNCHANGED up
    /\ UNCHANGED <<config, device, mapped, pools, dists, mr, refused>>

\* A timer that cannot be allocated is only warned of.
AllocLatencyDist ==
    /\ At("alloc_latency_dist")
    /\ \/ Done /\ dists' = dists \cup {Head(todo).a}
       \/ Advance /\ UNCHANGED <<up, phase, status, dists>>
    /\ UNCHANGED <<config, device, mapped, pools, mr, refused>>

\* signal(SIGINT, sig_handler): a failure is only printed.
InstallHandler ==
    /\ At("signal")
    /\ Done \/ (Advance /\ UNCHANGED <<up, phase, status>>)
    /\ UNCHANGED <<config, device, mapped, pools, dists, mr, refused>>

WriteReady ==
    /\ At("ready_file")
    /\ Done \/ Fails
    /\ UNCHANGED <<config, device, mapped, pools, dists, mr, refused>>

\* do_client or do_server is called.
Run ==
    /\ phase = "main" /\ todo = <<>>
    /\ phase' = "run"
    /\ UNCHANGED <<config, todo, up, device, mapped, pools, dists, mr, refused, status>>

\* The client's loop ends: its report is followed by the clean-up.
ClientEnds ==
    /\ phase = "run" /\ config.client
    /\ phase' = "cleanup" /\ todo' = cleanup_mlx5(config)
    /\ UNCHANGED <<config, up, device, mapped, pools, dists, mr, refused, status>>

\* Either loop returns an error: main returns it, without a clean-up.
LoopFails ==
    /\ phase = "run" /\ Fails
    /\ UNCHANGED <<config, device, mapped, pools, dists, mr, refused>>

\* add_latency writes through the pointer of a timer that is not there.
AddLatencyCrash ==
    /\ phase = "run" /\ ~config.client /\ config.timers
    /\ dists # ToSet(Dists)
    /\ Ends("crashed", None)
    /\ UNCHANGED <<config, up, device, mapped, pools, dists, mr, refused>>

HandlerSet == Call("signal") \in up

\* SIGINT: sig_handler, during which it is blocked, or the default action.
Sigint ==
    /\ phase \in {"main", "run"} \/ (phase = "cleanup" /\ ~HandlerSet)
    /\ IF HandlerSet
       THEN phase' = "cleanup" /\ todo' = sig_handler(config) /\ UNCHANGED status
       ELSE Ends("killed", None)
    /\ UNCHANGED <<config, up, device, mapped, pools, dists, mr, refused>>

InCleanup(op) == phase = "cleanup" /\ todo # <<>> /\ Head(todo).op = op

\* A timer with entries is sorted in an array of its own; without memory for
\* that the process exits at once.
DumpDebugLatencies ==
    /\ InCleanup("dump_debug_latencies")
    /\ \/ Advance /\ UNCHANGED <<phase, status>>
       \/ Head(todo).a \in dists /\ Ends("exited", "error")
    /\ UNCHANGED <<config, up, device, mapped, pools, dists, mr, refused>>

FreeLatencyDist ==
    /\ InCleanup("free_latency_dist")
    /\ dists' = dists \ {Head(todo).a} /\ Advance
    /\ UNCHANGED <<config, phase, up, device, mapped, pools, mr, refused, status>>

\* cleanup_mlx5 returns at the first failure; its callers ignore the result.
SkipRest(valid) == todo' = <<>> /\ refused' = (refused \/ valid)

MemoryDeregistration ==
    /\ InCleanup("memory_deregistration")
    /\ \/ Advance /\ mr' = [mr EXCEPT ![Head(todo).a] = None] /\ UNCHANGED refused
       \/ SkipRest(TRUE) /\ UNCHANGED mr
    /\ UNCHANGED <<config, phase, up, device, mapped, pools, dists, status>>

\* munmap refuses a length that is zero or not a number of pages.
Munmap ==
    /\ InCleanup("munmap")
    /\ LET r == Head(todo).a
           len == Head(todo).b
           valid == len > 0 /\ len % Pgsize = 0
       IN  \/ /\ valid
              /\ mapped' = [s \in {t \in DOMAIN mapped : t # r \/ mapped[t] > len} |->
                               IF s = r THEN mapped[s] - len ELSE mapped[s]]
              /\ Advance /\ UNCHANGED refused
           \/ SkipRest(valid) /\ UNCHANGED mapped
    /\ UNCHANGED <<config, phase, up, device, pools, dists, mr, status>>

\* exit(0), from the handler or by returning from main.
Exit ==
    /\ phase = "cleanup" /\ todo = <<>>
    /\ Ends("exited", "ok")
    /\ UNCHANGED <<config, up, device, mapped, pools, dists, mr, refused>>

Next ==
    \/ TimeInit \/ \E c \in Configs : ParseArgs(c)
    \/ InitIbvContext \/ MapCrash \/ ServerMemoryInit \/ MempoolMemoryInit
    \/ MemoryRegistration \/ Create \/ InitWorkload \/ AllocLatencyDist \/ InstallHandler \/ WriteReady
    \/ Run \/ ClientEnds \/ LoopFails \/ AddLatencyCrash \/ Sigint
    \/ DumpDebugLatencies \/ FreeLatencyDist
    \/ MemoryDeregistration \/ Munmap \/ Exit

Spec == Init /\ [][Next]_vars

---------------------------------------------------------------------------
\* Properties.

\* The NIC reads and writes through a registration at any time until it is
\* deregistered, also while the handler runs on top of the server loop: every
\* byte of the region behind tx_mr and rx_mr is mapped as long as they exist.
RegionLen(r) == IF r = "working_set" THEN config.working_set_size ELSE PoolLen
RegisteredIsMapped ==
    \A m \in DOMAIN mr : mr[m] # None /\ RegionLen(mr[m]) > 0 =>
        mr[m] \in DOMAIN mapped /\ mapped[mr[m]] >= RegionLen(mr[m])

\* What cleanup_mlx5 and sig_handler give back, and the steps of init_mlx5
\* that leave something they do not: the context and its protection domain,
\* the array free_items of each pool, the reference counts, the queues and
\* the flows.
Released == DOMAIN mapped = {} /\ dists = {} /\ \A m \in DOMAIN mr : mr[m] = None
Kept(steps) == {s \in steps : s.op \in Creates \cup {"init_ibv_context", "mempool_memory_init"}}

\* cleanup_mlx5 fits the configuration init_mlx5 set up: unless the system
\* refuses a call, the process exits with every region unmapped, by its full
\* length, every registration undone and every timer freed; all that is left
\* to the end of the process are the objects this configuration's init_mlx5
\* created, each of them and no other.
CleanupMatchesSetup ==
    status = "ok" /\ ~refused => Released /\ Kept(up) = Kept(ToSet(init_mlx5(config)))

\* The set-up that the loops and the clean-up rely on.
SetUp(c) == ToSet(Main(c)) \ ({Call("signal"), Call("ready_file")} \cup ToSet(ForDists("alloc_latency_dist")))

\* A failure of any step of init_mlx5 or init_workload keeps the loops from
\* starting, the ready file from being written and the handler from cleaning
\* up what is not there; and no device at another address is opened.
RunsOnlyWhenUp ==
    phase \in {"run", "cleanup"} \/ status = "ok" \/ Call("ready_file") \in up =>
        SetUp(config) \subseteq up /\ device.addr \in {"wanted", "none"}
=============================================================================
