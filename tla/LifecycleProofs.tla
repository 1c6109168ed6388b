-------------------------- MODULE LifecycleProofs --------------------------
(***************************************************************************)
(* Proofs about Lifecycle for every set of configurations, every list of   *)
(* devices, every number of timers and every page and pool size.  The      *)
(* invariant follows the process through its phases: what main has still   *)
(* to do finds what it needs (Course), what it has done is there           *)
(* (Effects), and the clean-up has a step for all of that, in an order in  *)
(* which nothing is unmapped under a registration (Closing).               *)
(***************************************************************************)
EXTENDS Lifecycle, CounterArith, SequenceTheorems, FiniteSetTheorems

---------------------------------------------------------------------------
\* The inductive invariant.

\* The regions a configuration maps, their lengths, and what is registered.
Regions(c) ==
    {"mbuf", "rx"} \cup (IF c.client \/ ~c.zero_copy THEN {"tx"} ELSE {})
                   \cup (IF c.client THEN {} ELSE {"working_set"})
LenOf(c, r) == IF r = "working_set" THEN c.working_set_size ELSE PoolLen
RegionOf(c, m) == IF m = "rx_mr" THEN "rx" ELSE IF c.client \/ ~c.zero_copy THEN "tx" ELSE "working_set"
MapStep(c, r) == IF r = "working_set" THEN Step("server_memory_init", r, c.working_set_size) ELSE MapPool(r)

\* What must have been done before a step of the set-up.
Needs(c, s) ==
    CASE s.op = "memory_registration" -> {MapStep(c, s.b)}
      [] s.op \in {"signal", "ready_file"} -> SetUp(c)
      [] OTHER -> {}
Ready(c, steps, before) ==
    \A i \in DOMAIN steps : \A n \in Needs(c, steps[i]) : n \in before \/ \E j \in 1 .. i - 1 : steps[j] = n

\* The steps main takes in a configuration.
Allowed(c, s) ==
    /\ s.op \notin {"time_init", "parse_args"}
    /\ s.op = "mempool_memory_init" => s.a \in Regions(c) \ {"working_set"} /\ s = MapPool(s.a)
    /\ s.op = "server_memory_init" => ~c.client /\ s = MapStep(c, "working_set")
    /\ s.op = "memory_registration" => s.a \in {"tx_mr", "rx_mr"} /\ s.b = RegionOf(c, s.a)
    /\ s.op = "alloc_latency_dist" => s \in ToSet(ForDists("alloc_latency_dist")) /\ ~c.client /\ c.timers
    /\ s.op = "signal" => s = Call("signal") /\ ~c.client
    /\ s.op = "ready_file" => s = Call("ready_file")

Ops ==
    {"time_init", "parse_args", "init_ibv_context", "mempool_memory_init", "server_memory_init",
     "memory_registration", "server_init_refcnt_array", "mlx5_init_rxq", "mlx5_qs_init_flows",
     "mlx5_init_txq", "init_workload", "alloc_latency_dist", "signal", "ready_file",
     "dump_debug_latencies", "free_latency_dist", "memory_deregistration", "munmap"}
Names == {None, "mbuf", "rx", "tx", "working_set", "rx_mr", "tx_mr"} \cup ToSet(Dists)
StepSet == [op : Ops, a : Names, b : Names \cup Nat]

Types ==
    /\ config \in Configs \cup {None}
    /\ todo \in Seq(StepSet)
    /\ dists \subseteq ToSet(Dists)
    /\ DOMAIN mr = {"tx_mr", "rx_mr"}

\* Before the arguments are parsed nothing is set up.
Unparsed ==
    config = None =>
        /\ up \subseteq {Call("time_init")} /\ DOMAIN mapped = {} /\ pools = {} /\ dists = {}
        /\ \A m \in DOMAIN mr : mr[m] = None
        /\ phase \notin {"run", "cleanup"} /\ status # "ok"
        /\ phase = "main" => todo \in {<<Call("time_init"), Call("parse_args")>>, <<Call("parse_args")>>}

\* main goes through its steps in an order in which each finds what it needs.
Course ==
    phase = "main" /\ config # None =>
        /\ SetUp(config) \subseteq up \cup ToSet(todo)
        /\ Ready(config, todo, up)
        /\ \A i \in DOMAIN todo : Allowed(config, todo[i])

\* Every step of the set-up is done.
Complete ==
    phase \in {"run", "cleanup"} \/ status = "ok" \/ HandlerSet \/ Call("ready_file") \in up =>
        config # None /\ SetUp(config) \subseteq up

\* What the finished steps have left: regions by their full length,
\* registrations, timers, the handler, the device, pools.
Sizes == \A r \in DOMAIN mapped :
    r \in Regions(config) /\ mapped[r] = align_up(LenOf(config, r)) /\ LenOf(config, r) > 0
Registered == \A m \in DOMAIN mr : mr[m] # None => mr[m] = RegionOf(config, m)
Timers == dists # {} => ~config.client /\ config.timers
Handler == HandlerSet => ~config.client
Opened == Call("init_ibv_context") \in up => device.addr \in {"wanted", "none"}
Pooled == \A r \in Regions(config) \ {"working_set"} : MapPool(r) \in up => r \in pools /\ PoolLen % Pgsize = 0
Present == phase \in {"main", "run"} =>
    \A r \in Regions(config) : MapStep(config, r) \in up /\ LenOf(config, r) > 0 => r \in DOMAIN mapped
Backed == \A m \in DOMAIN mr : mr[m] # None /\ LenOf(config, mr[m]) > 0 => mr[m] \in DOMAIN mapped
Effects ==
    config # None => Sizes /\ Registered /\ Timers /\ Handler /\ Opened /\ Pooled /\ Present /\ Backed

\* The clean-up deregisters a region before it unmaps it, and has a step for
\* everything that is still there.
Unmap(c, r) == Step("munmap", r, align_up(LenOf(c, r)))
CleanStep(c, s) ==
    \/ s.op \in {"dump_debug_latencies", "free_latency_dist"}
    \/ \E m \in {"tx_mr", "rx_mr"} : s = Deregister(m)
    \/ \E r \in Regions(c) : s = Unmap(c, r)
Tidy(c, steps, regs) ==
    /\ \A i \in DOMAIN steps : CleanStep(c, steps[i])
    /\ \A i \in DOMAIN steps, m \in {"tx_mr", "rx_mr"} :
         regs[m] # None /\ steps[i].op = "munmap" /\ steps[i].a = regs[m] =>
             \E j \in 1 .. i - 1 : steps[j] = Deregister(m)
    /\ \A i \in DOMAIN steps : steps[i].op = "munmap" /\ steps[i].b = 0 => i = Len(steps)
Covers(steps) ==
    /\ \A r \in DOMAIN mapped : Unmap(config, r) \in ToSet(steps)
    /\ \A m \in DOMAIN mr : mr[m] # None => Deregister(m) \in ToSet(steps)
    /\ \A d \in dists : Step("free_latency_dist", d, None) \in ToSet(steps)
Closing == phase = "cleanup" => Tidy(config, todo, mr) /\ (~refused => Covers(todo))
Closed == status = "ok" => phase = "exited" /\ (~refused => Released)

Inv == Types /\ Unparsed /\ Course /\ Complete /\ Effects /\ Closing /\ Closed

---------------------------------------------------------------------------
\* Lists of steps.

\* A part of main that comes after the steps in D.
Part(c, steps, D) ==
    /\ steps \in Seq(StepSet)
    /\ \A i \in DOMAIN steps : Allowed(c, steps[i])
    /\ Ready(c, steps, D)

\* With D done before them, the steps have E done after them.
Reaches(D, steps, E) == E \subseteq D \cup ToSet(steps)

\* The elements of two lists, one after the other.
LEMMA ToSetConcat ==
  ASSUME NEW S, NEW s \in Seq(S), NEW t \in Seq(S)
  PROVE  ToSet(s \o t) = ToSet(s) \cup ToSet(t)
<1>1. /\ Len(s) \in Nat /\ DOMAIN s = 1 .. Len(s) /\ Len(t) \in Nat /\ DOMAIN t = 1 .. Len(t)
      /\ Len(s \o t) = Len(s) + Len(t) /\ DOMAIN (s \o t) = 1 .. Len(s) + Len(t)
      /\ \A i \in 1 .. Len(s) + Len(t) : (s \o t)[i] = IF i <= Len(s) THEN s[i] ELSE t[i - Len(s)]
  BY ConcatProperties, LenProperties
<1>2. ASSUME NEW x \in ToSet(s \o t) PROVE x \in ToSet(s) \cup ToSet(t)
  <2>1. PICK i \in 1 .. Len(s) + Len(t) : x = (s \o t)[i]
    BY <1>1, <1>2 DEF ToSet
  <2>2. CASE i <= Len(s)
    BY <1>1, <2>1, <2>2 DEF ToSet
  <2>3. CASE ~(i <= Len(s))
    <3>1. i - Len(s) \in DOMAIN t /\ x = t[i - Len(s)]
      BY <1>1, <2>1, <2>3
    <3> QED
      BY <3>1 DEF ToSet
  <2> QED
    BY <2>2, <2>3
<1>3. ASSUME NEW x \in ToSet(s) PROVE x \in ToSet(s \o t)
  <2>1. PICK i \in 1 .. Len(s) : x = s[i]
    BY <1>1, <1>3 DEF ToSet
  <2>2. i \in DOMAIN (s \o t) /\ (s \o t)[i] = x
    BY <1>1, <2>1
  <2> QED
    BY <2>2 DEF ToSet
<1>4. ASSUME NEW x \in ToSet(t) PROVE x \in ToSet(s \o t)
  <2>1. PICK i \in 1 .. Len(t) : x = t[i]
    BY <1>1, <1>4 DEF ToSet
  <2>2. PICK k \in 1 .. Len(s) + Len(t) : k = i + Len(s)
    BY <1>1
  <2>3. ~(k <= Len(s)) /\ k - Len(s) = i
    BY <1>1, <2>2
  <2>4. (s \o t)[k] = x
    BY <1>1, <2>1, <2>3
  <2> QED
    BY <1>1, <2>4 DEF ToSet
<1> QED
  BY <1>2, <1>3, <1>4

\* Parts of main one after the other.
LEMMA PartConcat ==
  ASSUME NEW c, NEW s, NEW t, NEW u, NEW D, NEW E, Part(c, s, D), Part(c, t, E),
         Reaches(D, s, E), u = s \o t
  PROVE  Part(c, u, D)
<1>1. s \in Seq(StepSet) /\ t \in Seq(StepSet) /\ E \subseteq D \cup ToSet(s)
  BY DEF Part, Reaches
<1>2. /\ Len(s) \in Nat /\ DOMAIN s = 1 .. Len(s) /\ Len(t) \in Nat /\ DOMAIN t = 1 .. Len(t)
      /\ s \o t \in Seq(StepSet) /\ DOMAIN (s \o t) = 1 .. Len(s) + Len(t)
      /\ \A i \in 1 .. Len(s) + Len(t) : (s \o t)[i] = IF i <= Len(s) THEN s[i] ELSE t[i - Len(s)]
  BY <1>1, ConcatProperties, LenProperties
<1>3. ASSUME NEW i \in DOMAIN (s \o t)
      PROVE  /\ Allowed(c, (s \o t)[i])
             /\ \A n \in Needs(c, (s \o t)[i]) : n \in D \/ \E j \in 1 .. i - 1 : (s \o t)[j] = n
  <2>1. CASE i <= Len(s)
    <3>1. i \in DOMAIN s /\ (s \o t)[i] = s[i]
      BY <1>2, <1>3, <2>1
    <3>2. \A j \in 1 .. i - 1 : (s \o t)[j] = s[j]
      BY <1>2, <1>3, <2>1
    <3>3. Allowed(c, s[i]) /\ \A n \in Needs(c, s[i]) : n \in D \/ \E j \in 1 .. i - 1 : s[j] = n
      BY <3>1 DEF Part, Ready
    <3> QED
      BY <3>1, <3>2, <3>3
  <2>2. CASE ~(i <= Len(s))
    <3>1. PICK k \in DOMAIN t : k = i - Len(s) /\ (s \o t)[i] = t[k]
      BY <1>2, <1>3, <2>2
    <3>2. Allowed(c, t[k]) /\ \A n \in Needs(c, t[k]) : n \in E \/ \E j \in 1 .. k - 1 : t[j] = n
      BY <3>1 DEF Part, Ready
    <3>3. ASSUME NEW n \in Needs(c, t[k]) PROVE n \in D \/ \E j \in 1 .. i - 1 : (s \o t)[j] = n
      <4>1. CASE n \in D
        BY <4>1
      <4>2. CASE n \in ToSet(s)
        <5>1. PICK j \in 1 .. Len(s) : s[j] = n
          BY <1>2, <4>2 DEF ToSet
        <5>2. j \in 1 .. i - 1 /\ (s \o t)[j] = n
          BY <1>2, <1>3, <2>2, <5>1
        <5> QED
          BY <5>2
      <4>3. CASE \E j \in 1 .. k - 1 : t[j] = n
        <5>1. PICK j \in 1 .. k - 1 : t[j] = n
          BY <4>3
        <5>2. PICK h \in Nat : h = j + Len(s)
          BY <1>2, <3>1
        <5>3. h \in 1 .. i - 1 /\ h \in 1 .. Len(s) + Len(t) /\ ~(h <= Len(s)) /\ h - Len(s) = j
          BY <1>2, <1>3, <3>1, <5>1, <5>2
        <5>4. (s \o t)[h] = n
          BY <1>2, <5>1, <5>3
        <5> QED
          BY <5>3, <5>4
      <4> QED
        BY <1>1, <3>2, <3>3, <4>1, <4>2, <4>3
    <3> QED
      BY <3>1, <3>2, <3>3
  <2> QED
    BY <2>1, <2>2
<1>4. PICK v \in Seq(StepSet) : v = s \o t
  BY <1>2, Zenon
<1>5. \A i \in DOMAIN v : /\ Allowed(c, v[i])
                          /\ \A n \in Needs(c, v[i]) : n \in D \/ \E j \in 1 .. i - 1 : v[j] = n
  BY <1>3, <1>4, Zenon
<1>6. Part(c, v, D)
  BY <1>5 DEF Part, Ready
<1> QED
  BY <1>4, <1>6, Zenon

\* Parts of no step, of one and of two.
LEMMA PartNone ==
  ASSUME NEW c, NEW D, NEW u, u = <<>>
  PROVE  Part(c, u, D) /\ ToSet(u) = {}
<1>1. u \in Seq(StepSet) /\ DOMAIN u = {}
  OBVIOUS
<1> QED
  BY <1>1 DEF Part, Ready, ToSet

\* A part of one step, which needs nothing that is not done before.
LEMMA PartOne ==
  ASSUME NEW c, NEW D, NEW u, NEW x \in StepSet, u = <<x>>, Allowed(c, x), Needs(c, x) \subseteq D
  PROVE  Part(c, u, D) /\ ToSet(u) = {x}
<1>1. u \in Seq(StepSet) /\ DOMAIN u = {1} /\ u[1] = x
  OBVIOUS
<1>2. \A i \in DOMAIN u : u[i] = x
  BY <1>1
<1>3. ToSet(u) = {x}
  BY <1>1 DEF ToSet
<1> QED
  BY <1>1, <1>2, <1>3 DEF Part, Ready

\* A part of two steps, the second of which may need the first.
LEMMA PartTwo ==
  ASSUME NEW c, NEW D, NEW u, NEW x1 \in StepSet, NEW x2 \in StepSet, u = <<x1, x2>>,
         Allowed(c, x1), Allowed(c, x2), Needs(c, x1) \subseteq D, Needs(c, x2) \subseteq D \cup {x1}
  PROVE  Part(c, u, D) /\ ToSet(u) = {x1, x2}
<1>1. u \in Seq(StepSet) /\ DOMAIN u = {1, 2} /\ u[1] = x1 /\ u[2] = x2
  OBVIOUS
<1>2. \A i \in DOMAIN u : Allowed(c, u[i])
  BY <1>1
<1>3. ASSUME NEW i \in DOMAIN u, NEW n \in Needs(c, u[i]) PROVE n \in D \/ \E j \in 1 .. i - 1 : u[j] = n
  <2>1. CASE i = 1
    BY <1>1, <1>3, <2>1
  <2>2. CASE i = 2
    <3>1. n \in D \/ n = u[1]
      BY <1>1, <1>3, <2>2
    <3>2. 1 \in 1 .. i - 1
      BY <2>2
    <3> QED
      BY <3>1, <3>2
  <2> QED
    BY <1>1, <2>1, <2>2
<1>4. ToSet(u) = {x1, x2}
  BY <1>1 DEF ToSet
<1> QED
  BY <1>1, <1>2, <1>3, <1>4 DEF Part, Ready

\* The fields of a step.
LEMMA StepFields ==
  ASSUME NEW o, NEW x, NEW y
  PROVE  /\ Step(o, x, y).op = o /\ Step(o, x, y).a = x /\ Step(o, x, y).b = y
         /\ (o \in Ops /\ x \in Names /\ y \in Names \cup Nat => Step(o, x, y) \in StepSet)
  BY DEF Step, StepSet

\* The fields of a step without arguments.
LEMMA CallFields ==
  ASSUME NEW o
  PROVE  Call(o).op = o /\ (o \in Ops => Call(o) \in StepSet)
<1>1. None \in Names
  BY DEF Names
<1> QED
  BY <1>1, StepFields DEF Call

\* The fields of mempool_memory_init.
LEMMA PoolFields ==
  ASSUME NEW r
  PROVE  /\ MapPool(r).op = "mempool_memory_init" /\ MapPool(r).a = r /\ MapPool(r).b = PoolLen
         /\ (r \in Names => MapPool(r) \in StepSet)
<1>1. PoolLen \in Nat
  BY LifecycleAssumption
<1>2. "mempool_memory_init" \in Ops
  BY DEF Ops
<1> QED
  BY <1>1, <1>2, StepFields DEF MapPool

\* The fields of memory_registration.
LEMMA RegisterFields ==
  ASSUME NEW m, NEW r
  PROVE  /\ Register(m, r).op = "memory_registration" /\ Register(m, r).a = m /\ Register(m, r).b = r
         /\ (m \in Names /\ r \in Names => Register(m, r) \in StepSet)
<1>1. "memory_registration" \in Ops
  BY DEF Ops
<1> QED
  BY <1>1, StepFields DEF Register

\* The fields of server_memory_init.
LEMMA WorkingSetFields ==
  ASSUME NEW c \in Configs, NEW s, s = MapStep(c, "working_set")
  PROVE  /\ s.op = "server_memory_init" /\ s.a = "working_set" /\ s.b = c.working_set_size
         /\ s = Step("server_memory_init", "working_set", c.working_set_size)
         /\ s \in StepSet
<1>1. s = Step("server_memory_init", "working_set", c.working_set_size)
  BY DEF MapStep
<1>2. c.working_set_size \in Nat
  BY LifecycleAssumption
<1>3. "server_memory_init" \in Ops /\ "working_set" \in Names
  BY DEF Ops, Names
<1> QED
  BY <1>1, <1>2, <1>3, StepFields

\* The step that maps a region names it.
LEMMA MapStepFields ==
  ASSUME NEW c \in Configs, NEW r
  PROVE  /\ MapStep(c, r).op \in {"server_memory_init", "mempool_memory_init"}
         /\ MapStep(c, r).a = r
         /\ r # "working_set" => MapStep(c, r) = MapPool(r)
<1>1. CASE r = "working_set"
  BY <1>1, WorkingSetFields
<1>2. CASE r # "working_set"
  BY <1>2, PoolFields DEF MapStep
<1> QED
  BY <1>1, <1>2

\* What the steps of main need.
LEMMA CallFacts ==
  ASSUME NEW c, NEW op \in {"init_ibv_context", "server_init_refcnt_array", "mlx5_init_rxq",
                            "mlx5_qs_init_flows", "mlx5_init_txq", "init_workload"}
  PROVE  Call(op) \in StepSet /\ Allowed(c, Call(op)) /\ Needs(c, Call(op)) = {}
<1>1. op \in Ops
  BY DEF Ops
<1>2. Call(op).op = op /\ Call(op) \in StepSet
  BY <1>1, CallFields
<1>3. Allowed(c, Call(op))
  BY <1>2 DEF Allowed
<1>4. Needs(c, Call(op)) = {}
  BY <1>2 DEF Needs
<1> QED
  BY <1>2, <1>3, <1>4

\* Mapping a pool needs nothing.
LEMMA PoolFacts ==
  ASSUME NEW c, NEW r \in Regions(c) \ {"working_set"}
  PROVE  MapPool(r) \in StepSet /\ Allowed(c, MapPool(r)) /\ Needs(c, MapPool(r)) = {}
<1>1. r \in Names
  BY DEF Regions, Names
<1>2. MapPool(r).op = "mempool_memory_init" /\ MapPool(r).a = r /\ MapPool(r) \in StepSet
  BY <1>1, PoolFields
<1>3. Allowed(c, MapPool(r))
  BY <1>2 DEF Allowed
<1>4. Needs(c, MapPool(r)) = {}
  BY <1>2 DEF Needs
<1> QED
  BY <1>2, <1>3, <1>4

\* Mapping the working set needs nothing.
LEMMA WorkingSetFacts ==
  ASSUME NEW c \in Configs, ~c.client, NEW s, s = MapStep(c, "working_set")
  PROVE  s \in StepSet /\ Allowed(c, s) /\ Needs(c, s) = {}
<1>1. s.op = "server_memory_init" /\ s \in StepSet
  BY WorkingSetFields
<1>2. Allowed(c, s)
  BY <1>1 DEF Allowed
<1>3. Needs(c, s) = {}
  BY <1>1 DEF Needs
<1> QED
  BY <1>1, <1>2, <1>3

\* Registering a region needs the region.
LEMMA RegisterFacts ==
  ASSUME NEW c, NEW m \in {"tx_mr", "rx_mr"}, NEW r \in Names, r = RegionOf(c, m)
  PROVE  /\ Register(m, r) \in StepSet /\ Allowed(c, Register(m, r))
         /\ Needs(c, Register(m, r)) = {MapStep(c, r)}
<1>1. m \in Names
  BY DEF Names
<1>2. /\ Register(m, r).op = "memory_registration" /\ Register(m, r).a = m /\ Register(m, r).b = r
      /\ Register(m, r) \in StepSet
  BY <1>1, RegisterFields
<1>3. Allowed(c, Register(m, r))
  BY <1>2 DEF Allowed
<1>4. Needs(c, Register(m, r)) = {MapStep(c, r)}
  BY <1>2 DEF Needs
<1> QED
  BY <1>2, <1>3, <1>4

\* The handler and the ready file need the whole set-up.
LEMMA LastFacts ==
  ASSUME NEW c
  PROVE  /\ Call("signal") \in StepSet /\ Needs(c, Call("signal")) = SetUp(c)
         /\ ~c.client => Allowed(c, Call("signal"))
         /\ Call("ready_file") \in StepSet /\ Needs(c, Call("ready_file")) = SetUp(c)
         /\ Allowed(c, Call("ready_file"))
<1>1. "signal" \in Ops /\ "ready_file" \in Ops
  BY DEF Ops
<1>2. /\ Call("signal").op = "signal" /\ Call("signal") \in StepSet
      /\ Call("ready_file").op = "ready_file" /\ Call("ready_file") \in StepSet
  BY <1>1, CallFields
<1>3. Needs(c, Call("signal")) = SetUp(c) /\ Needs(c, Call("ready_file")) = SetUp(c)
  BY <1>2 DEF Needs
<1>4. (~c.client => Allowed(c, Call("signal"))) /\ Allowed(c, Call("ready_file"))
  BY <1>2 DEF Allowed
<1> QED
  BY <1>2, <1>3, <1>4

\* Two regions, each with its registration.
LEMMA PartFour ==
  ASSUME NEW c, NEW D, NEW u, NEW x1 \in StepSet, NEW x2 \in StepSet, NEW x3 \in StepSet, NEW x4 \in StepSet,
         u = <<x1, x2, x3, x4>>, Allowed(c, x1), Allowed(c, x2), Allowed(c, x3), Allowed(c, x4),
         Needs(c, x1) = {}, Needs(c, x2) = {x1}, Needs(c, x3) = {}, Needs(c, x4) = {x3}
  PROVE  Part(c, u, D) /\ ToSet(u) = {x1, x2, x3, x4}
<1>1. u \in Seq(StepSet) /\ DOMAIN u = {1, 2, 3, 4} /\ u[1] = x1 /\ u[2] = x2 /\ u[3] = x3 /\ u[4] = x4
  OBVIOUS
<1>2. \A i \in DOMAIN u : Allowed(c, u[i])
  BY <1>1
<1>3. ASSUME NEW i \in DOMAIN u, NEW n \in Needs(c, u[i]) PROVE \E j \in 1 .. i - 1 : u[j] = n
  <2>1. i = 2 \/ i = 4
    BY <1>1, <1>3
  <2>2. CASE i = 2
    <3>1. n = u[1] /\ 1 \in 1 .. i - 1
      BY <1>1, <1>3, <2>2
    <3> QED
      BY <3>1
  <2>3. CASE i = 4
    <3>1. n = u[3] /\ 3 \in 1 .. i - 1
      BY <1>1, <1>3, <2>3
    <3> QED
      BY <3>1
  <2> QED
    BY <2>1, <2>2, <2>3
<1>4. ToSet(u) = {x1, x2, x3, x4}
  BY <1>1 DEF ToSet
<1> QED
  BY <1>1, <1>2, <1>3, <1>4 DEF Part, Ready

\* A pool and its registration.
LEMMA PairFacts ==
  ASSUME NEW c \in Configs, NEW m \in {"tx_mr", "rx_mr"}, NEW r \in Regions(c) \ {"working_set"}, r = RegionOf(c, m)
  PROVE  /\ MapPool(r) \in StepSet /\ Allowed(c, MapPool(r)) /\ Needs(c, MapPool(r)) = {}
         /\ Register(m, r) \in StepSet /\ Allowed(c, Register(m, r)) /\ Needs(c, Register(m, r)) = {MapPool(r)}
         /\ MapStep(c, r) = MapPool(r)
<1>1. r \in Names
  BY DEF Regions, Names
<1>2. MapStep(c, r) = MapPool(r)
  BY MapStepFields
<1> QED
  BY <1>1, <1>2, PoolFacts, RegisterFacts

\* The client's memory.
LEMMA ClientPart ==
  ASSUME NEW c \in Configs, c.client, NEW D
  PROVE  /\ Part(c, ClientMemory, D)
         /\ \A r \in Regions(c) \ {"mbuf"} : MapStep(c, r) \in ToSet(ClientMemory)
<1>1. "tx" \in Regions(c) \ {"working_set"} /\ "rx" \in Regions(c) \ {"working_set"}
  BY DEF Regions
<1>2. "tx" = RegionOf(c, "tx_mr") /\ "rx" = RegionOf(c, "rx_mr")
  BY DEF RegionOf
<1>3. PICK x1 : x1 = MapPool("tx")
  OBVIOUS
<1>4. PICK x2 : x2 = Register("tx_mr", "tx")
  OBVIOUS
<1>5. PICK x3 : x3 = MapPool("rx")
  OBVIOUS
<1>6. PICK x4 : x4 = Register("rx_mr", "rx")
  OBVIOUS
<1>7. /\ x1 \in StepSet /\ Allowed(c, x1) /\ Needs(c, x1) = {}
      /\ x2 \in StepSet /\ Allowed(c, x2) /\ Needs(c, x2) = {x1}
      /\ MapStep(c, "tx") = x1
  BY <1>1, <1>2, <1>3, <1>4, PairFacts
<1>8. /\ x3 \in StepSet /\ Allowed(c, x3) /\ Needs(c, x3) = {}
      /\ x4 \in StepSet /\ Allowed(c, x4) /\ Needs(c, x4) = {x3}
      /\ MapStep(c, "rx") = x3
  BY <1>1, <1>2, <1>5, <1>6, PairFacts
<1>9. ClientMemory = <<x1, x2, x3, x4>>
  BY <1>3, <1>4, <1>5, <1>6, Zenon DEF ClientMemory
<1>10. Part(c, ClientMemory, D) /\ ToSet(ClientMemory) = {x1, x2, x3, x4}
  BY <1>7, <1>8, <1>9, PartFour
<1>11. \A r \in Regions(c) \ {"mbuf"} : r = "tx" \/ r = "rx"
  BY DEF Regions
<1> QED
  BY <1>7, <1>8, <1>10, <1>11

\* The server's memory.
LEMMA ServerPart ==
  ASSUME NEW c \in Configs, ~c.client, NEW D
  PROVE  /\ Part(c, ServerMemory(c), D)
         /\ \A r \in Regions(c) \ {"mbuf"} : MapStep(c, r) \in ToSet(ServerMemory(c))
<1>1. PICK ws : ws = MapStep(c, "working_set")
  OBVIOUS
<1>2. PICK p1 : p1 = <<ws>>
  OBVIOUS
<1>3. PICK ref : ref = Optional(c.using_ref_counting, Call("server_init_refcnt_array"))
  OBVIOUS
<1>4. PICK rx : rx = <<MapPool("rx"), Register("rx_mr", "rx")>>
  OBVIOUS
<1>5. PICK tx : tx = IF c.zero_copy THEN <<Register("tx_mr", "working_set")>>
                                    ELSE <<MapPool("tx"), Register("tx_mr", "tx")>>
  OBVIOUS
<1>6. PICK p2 : p2 = p1 \o ref
  OBVIOUS
<1>7. PICK p3 : p3 = p2 \o rx
  OBVIOUS
<1>8. PICK p4 : p4 = p3 \o tx
  OBVIOUS
<1>9. ServerMemory(c) = p4
  <2>1. ws = Step("server_memory_init", "working_set", c.working_set_size)
    BY <1>1, WorkingSetFields
  <2> QED
    BY <2>1, <1>2, <1>3, <1>4, <1>5, <1>6, <1>7, <1>8, Zenon DEF ServerMemory
<1>10. ws \in StepSet /\ Allowed(c, ws) /\ Needs(c, ws) = {}
  BY <1>1, WorkingSetFacts
<1>11. Part(c, p1, D) /\ ToSet(p1) = {ws}
  BY <1>2, <1>10, PartOne
<1>12. Part(c, ref, D)
  <2>1. CASE c.using_ref_counting
    <3>1. PICK x : x = Call("server_init_refcnt_array")
      OBVIOUS
    <3>2. x \in StepSet /\ Allowed(c, x) /\ Needs(c, x) \subseteq D
      BY <3>1, CallFacts
    <3>3. ref = <<x>>
      BY <1>3, <2>1, <3>1 DEF Optional
    <3> QED
      BY <3>2, <3>3, PartOne
  <2>2. CASE ~c.using_ref_counting
    <3>1. ref = <<>>
      BY <1>3, <2>2 DEF Optional
    <3> QED
      BY <3>1, PartNone
  <2> QED
    BY <2>1, <2>2
<1>13. Part(c, rx, D) /\ MapStep(c, "rx") \in ToSet(rx)
  <2>1. "rx" \in Regions(c) \ {"working_set"} /\ "rx" = RegionOf(c, "rx_mr")
    BY DEF Regions, RegionOf
  <2>2. PICK x1 : x1 = MapPool("rx")
    OBVIOUS
  <2>3. PICK x2 : x2 = Register("rx_mr", "rx")
    OBVIOUS
  <2>4. /\ x1 \in StepSet /\ Allowed(c, x1) /\ Needs(c, x1) \subseteq D
        /\ x2 \in StepSet /\ Allowed(c, x2) /\ Needs(c, x2) \subseteq D \cup {x1}
        /\ MapStep(c, "rx") = x1
    BY <2>1, <2>2, <2>3, PairFacts
  <2>5. rx = <<x1, x2>>
    BY <1>4, <2>2, <2>3
  <2>6. Part(c, rx, D) /\ ToSet(rx) = {x1, x2}
    BY <2>4, <2>5, PartTwo
  <2> QED
    BY <2>4, <2>6
<1>14. PICK E : E = D \cup {ws}
  OBVIOUS
<1>15. Part(c, tx, E) /\ (~c.zero_copy => MapStep(c, "tx") \in ToSet(tx))
  <2>1. CASE c.zero_copy
    <3>1. "working_set" = RegionOf(c, "tx_mr") /\ "working_set" \in Names
      BY <2>1 DEF RegionOf, Names
    <3>2. PICK x : x = Register("tx_mr", "working_set")
      OBVIOUS
    <3>3. x \in StepSet /\ Allowed(c, x) /\ Needs(c, x) = {ws}
      BY <1>1, <3>1, <3>2, RegisterFacts
    <3>4. tx = <<x>>
      BY <1>5, <2>1, <3>2
    <3>5. Needs(c, x) \subseteq E
      BY <1>14, <3>3
    <3> QED
      BY <2>1, <3>3, <3>4, <3>5, PartOne
  <2>2. CASE ~c.zero_copy
    <3>1. "tx" \in Regions(c) \ {"working_set"} /\ "tx" = RegionOf(c, "tx_mr")
      BY <2>2 DEF Regions, RegionOf
    <3>2. PICK x1 : x1 = MapPool("tx")
      OBVIOUS
    <3>3. PICK x2 : x2 = Register("tx_mr", "tx")
      OBVIOUS
    <3>4. /\ x1 \in StepSet /\ Allowed(c, x1) /\ Needs(c, x1) \subseteq E
          /\ x2 \in StepSet /\ Allowed(c, x2) /\ Needs(c, x2) \subseteq E \cup {x1}
          /\ MapStep(c, "tx") = x1
      BY <3>1, <3>2, <3>3, PairFacts
    <3>5. tx = <<x1, x2>>
      BY <1>5, <2>2, <3>2, <3>3
    <3>6. Part(c, tx, E) /\ ToSet(tx) = {x1, x2}
      BY <3>4, <3>5, PartTwo
    <3> QED
      BY <3>4, <3>6
  <2> QED
    BY <2>1, <2>2
<1>16. Part(c, p2, D) /\ ToSet(p2) = ToSet(p1) \cup ToSet(ref)
  <2>1. Reaches(D, p1, D)
    BY DEF Reaches
  <2>2. Part(c, p1, D)
    BY <1>11
  <2>3. Part(c, p2, D)
    BY <1>6, <2>2, <1>12, <2>1, PartConcat
  <2>4. p1 \in Seq(StepSet) /\ ref \in Seq(StepSet)
    BY <1>11, <1>12 DEF Part
  <2>5. ToSet(p2) = ToSet(p1) \cup ToSet(ref)
    BY <1>6, <2>4, ToSetConcat
  <2> QED
    BY <2>3, <2>5
<1>17. Part(c, p3, D) /\ ToSet(p3) = ToSet(p2) \cup ToSet(rx)
  <2>1. Reaches(D, p2, D)
    BY DEF Reaches
  <2>2. Part(c, p2, D) /\ Part(c, rx, D)
    BY <1>13, <1>16
  <2>3. Part(c, p3, D)
    BY <1>7, <2>2, <2>1, PartConcat
  <2>4. p2 \in Seq(StepSet) /\ rx \in Seq(StepSet)
    BY <1>13, <1>16 DEF Part
  <2>5. ToSet(p3) = ToSet(p2) \cup ToSet(rx)
    BY <1>7, <2>4, ToSetConcat
  <2> QED
    BY <2>3, <2>5
<1>18. Reaches(D, p3, E)
  BY <1>11, <1>14, <1>16, <1>17 DEF Reaches
<1>19. Part(c, p4, D) /\ ToSet(p4) = ToSet(p3) \cup ToSet(tx)
  <2>1. Part(c, p3, D) /\ Part(c, tx, E)
    BY <1>15, <1>17
  <2>2. Part(c, p4, D)
    BY <1>8, <1>18, <2>1, PartConcat
  <2>3. p3 \in Seq(StepSet) /\ tx \in Seq(StepSet)
    BY <1>15, <1>17 DEF Part
  <2>4. ToSet(p4) = ToSet(p3) \cup ToSet(tx)
    BY <1>8, <2>3, ToSetConcat
  <2> QED
    BY <2>2, <2>4
<1>20. ASSUME NEW r \in Regions(c) \ {"mbuf"} PROVE MapStep(c, r) \in ToSet(p4)
  <2>1. CASE r = "working_set"
    BY <1>1, <1>11, <1>16, <1>17, <1>19, <2>1
  <2>2. CASE r = "rx"
    BY <1>13, <1>17, <1>19, <2>2
  <2>3. CASE r = "tx" /\ ~c.zero_copy
    BY <1>15, <1>19, <2>3
  <2> QED
    BY <1>20, <2>1, <2>2, <2>3 DEF Regions
<1> QED
  BY <1>9, <1>19, <1>20

\* Steps that need nothing.
LEMMA PartFree ==
  ASSUME NEW c, NEW D, NEW u \in Seq(StepSet), \A i \in DOMAIN u : Allowed(c, u[i]) /\ Needs(c, u[i]) = {}
  PROVE  Part(c, u, D)
  BY DEF Part, Ready

\* The steps for the timers.
LEMMA DistSteps ==
  ASSUME NEW op \in Ops, NEW u, u = ForDists(op)
  PROVE  /\ u \in Seq(StepSet)
         /\ \A i \in DOMAIN u : u[i].op = op /\ u[i].a \in ToSet(Dists)
         /\ \A d \in ToSet(Dists) : Step(op, d, None) \in ToSet(u)
<1>1. Dists \in Seq(STRING)
  BY LifecycleAssumption
<1>2. Len(Dists) \in Nat /\ DOMAIN Dists = 1 .. Len(Dists)
  BY <1>1
<1>3. u = [i \in 1 .. Len(Dists) |-> Step(op, Dists[i], None)]
  BY <1>2 DEF ForDists
<1>4. DOMAIN u = 1 .. Len(Dists) /\ \A i \in 1 .. Len(Dists) : u[i] = Step(op, Dists[i], None)
  BY <1>3
<1>5. \A i \in 1 .. Len(Dists) : Dists[i] \in ToSet(Dists)
  BY <1>2 DEF ToSet
<1>6. ASSUME NEW i \in 1 .. Len(Dists)
      PROVE  u[i] \in StepSet /\ u[i].op = op /\ u[i].a \in ToSet(Dists)
  <2>1. Dists[i] \in Names /\ None \in Names
    BY <1>5 DEF Names
  <2> QED
    BY <1>4, <1>5, <2>1, StepFields
<1>7. u \in Seq(StepSet)
  BY <1>2, <1>3, <1>4, <1>6
<1>8. ASSUME NEW d \in ToSet(Dists) PROVE Step(op, d, None) \in ToSet(u)
  <2>1. PICK i \in 1 .. Len(Dists) : d = Dists[i]
    BY <1>2, <1>8 DEF ToSet
  <2>2. u[i] = Step(op, d, None) /\ i \in DOMAIN u
    BY <1>4, <2>1
  <2> QED
    BY <2>2 DEF ToSet
<1> QED
  BY <1>4, <1>6, <1>7, <1>8

\* The allocation of the timers.
LEMMA AllocPart ==
  ASSUME NEW c, NEW D, NEW u, u = (IF ~c.client /\ c.timers THEN ForDists("alloc_latency_dist") ELSE <<>>)
  PROVE  Part(c, u, D)
<1>1. CASE ~c.client /\ c.timers
  <2>1. u = ForDists("alloc_latency_dist") /\ "alloc_latency_dist" \in Ops
    BY <1>1 DEF Ops
  <2>2. u \in Seq(StepSet) /\ \A i \in DOMAIN u : u[i].op = "alloc_latency_dist"
    BY <2>1, DistSteps
  <2>3. ASSUME NEW i \in DOMAIN u PROVE Allowed(c, u[i]) /\ Needs(c, u[i]) = {}
    <3>1. u[i].op = "alloc_latency_dist" /\ u[i] \in ToSet(ForDists("alloc_latency_dist"))
      BY <2>1, <2>2, <2>3 DEF ToSet
    <3>2. Allowed(c, u[i])
      BY <1>1, <3>1 DEF Allowed
    <3>3. Needs(c, u[i]) = {}
      BY <3>1 DEF Needs
    <3> QED
      BY <3>2, <3>3
  <2> QED
    BY <2>2, <2>3, PartFree
<1>2. CASE ~(~c.client /\ c.timers)
  <2>1. u = <<>>
    BY <1>2
  <2> QED
    BY <2>1, PartNone
<1> QED
  BY <1>1, <1>2

\* init_mlx5.
LEMMA InitPart ==
  ASSUME NEW c \in Configs, NEW D, NEW u, u = init_mlx5(c)
  PROVE  /\ Part(c, u, D)
         /\ \A r \in Regions(c) : MapStep(c, r) \in ToSet(u)
         /\ Call("init_ibv_context") \in ToSet(u)
<1>1. PICK a : a = <<Call("init_ibv_context"), MapPool("mbuf")>>
  OBVIOUS
<1>2. PICK b : b = IF c.client THEN ClientMemory ELSE ServerMemory(c)
  OBVIOUS
<1>3. PICK q : q = <<Call("mlx5_init_rxq"), Call("mlx5_qs_init_flows"), Call("mlx5_init_txq")>>
  OBVIOUS
<1>4. PICK ab : ab = a \o b
  OBVIOUS
<1>5. u = ab \o q
  BY <1>1, <1>2, <1>3, <1>4, Zenon DEF init_mlx5
<1>6. Part(c, a, D) /\ ToSet(a) = {Call("init_ibv_context"), MapPool("mbuf")}
  <2>1. PICK x1 : x1 = Call("init_ibv_context")
    OBVIOUS
  <2>2. PICK x2 : x2 = MapPool("mbuf")
    OBVIOUS
  <2>3. x1 \in StepSet /\ Allowed(c, x1) /\ Needs(c, x1) \subseteq D
    BY <2>1, CallFacts
  <2>4. "mbuf" \in Regions(c) \ {"working_set"}
    BY DEF Regions
  <2>5. x2 \in StepSet /\ Allowed(c, x2) /\ Needs(c, x2) \subseteq D \cup {x1}
    BY <2>2, <2>4, PoolFacts
  <2>6. a = <<x1, x2>>
    BY <1>1, <2>1, <2>2
  <2>7. Part(c, a, D) /\ ToSet(a) = {x1, x2}
    BY <2>3, <2>5, <2>6, PartTwo
  <2> QED
    BY <2>1, <2>2, <2>7
<1>7. Part(c, b, D) /\ \A r \in Regions(c) \ {"mbuf"} : MapStep(c, r) \in ToSet(b)
  BY <1>2, ClientPart, ServerPart
<1>8. Part(c, q, D)
  <2>1. PICK x1 : x1 = Call("mlx5_init_rxq")
    OBVIOUS
  <2>2. PICK x2 : x2 = Call("mlx5_qs_init_flows")
    OBVIOUS
  <2>3. PICK x3 : x3 = Call("mlx5_init_txq")
    OBVIOUS
  <2>4. /\ x1 \in StepSet /\ Allowed(c, x1) /\ Needs(c, x1) = {}
        /\ x2 \in StepSet /\ Allowed(c, x2) /\ Needs(c, x2) = {}
        /\ x3 \in StepSet /\ Allowed(c, x3) /\ Needs(c, x3) = {}
    BY <2>1, <2>2, <2>3, CallFacts
  <2>5. q = <<x1, x2, x3>>
    BY <1>3, <2>1, <2>2, <2>3
  <2>6. q \in Seq(StepSet) /\ DOMAIN q = {1, 2, 3} /\ q[1] = x1 /\ q[2] = x2 /\ q[3] = x3
    BY <2>4, <2>5
  <2>7. \A i \in DOMAIN q : Allowed(c, q[i]) /\ Needs(c, q[i]) = {}
    BY <2>4, <2>6
  <2> QED
    BY <2>6, <2>7, PartFree
<1>9. Part(c, a, D) /\ Part(c, b, D)
  BY <1>6, <1>7
<1>10. a \in Seq(StepSet) /\ b \in Seq(StepSet) /\ q \in Seq(StepSet)
  BY <1>8, <1>9 DEF Part
<1>11. Reaches(D, a, D) /\ Reaches(D, ab, D)
  BY DEF Reaches
<1>12. Part(c, ab, D)
  BY <1>4, <1>9, <1>11, PartConcat
<1>13. Part(c, u, D)
  BY <1>5, <1>8, <1>11, <1>12, PartConcat
<1>14. ab \in Seq(StepSet)
  BY <1>12 DEF Part
<1>15. ToSet(ab) = ToSet(a) \cup ToSet(b)
  BY <1>4, <1>10, ToSetConcat
<1>16. ToSet(u) = ToSet(ab) \cup ToSet(q)
  BY <1>5, <1>10, <1>14, ToSetConcat
<1>17. Call("init_ibv_context") \in ToSet(u) /\ MapPool("mbuf") \in ToSet(u)
  BY <1>6, <1>15, <1>16
<1>18. \A r \in Regions(c) \ {"mbuf"} : MapStep(c, r) \in ToSet(u)
  BY <1>7, <1>15, <1>16
<1>19. MapStep(c, "mbuf") = MapPool("mbuf")
  BY MapStepFields
<1> QED
  BY <1>13, <1>17, <1>18, <1>19

\* main after the arguments are parsed, and the set-up in it.
LEMMA MainPart ==
  ASSUME NEW c \in Configs, NEW D, NEW u, u = Main(c)
  PROVE  /\ Part(c, u, D)
         /\ \A r \in Regions(c) : MapStep(c, r) \in SetUp(c)
         /\ Call("init_ibv_context") \in SetUp(c)
         /\ SetUp(c) \subseteq ToSet(u)
         /\ \A s \in SetUp(c) : s.op \notin {"time_init", "alloc_latency_dist", "signal"}
<1>1. PICK p0 : p0 = init_mlx5(c)
  OBVIOUS
<1>2. PICK w : w = <<Call("init_workload")>>
  OBVIOUS
<1>3. PICK al : al = IF ~c.client /\ c.timers THEN ForDists("alloc_latency_dist") ELSE <<>>
  OBVIOUS
<1>4. PICK sg : sg = Optional(~c.client, Call("signal"))
  OBVIOUS
<1>5. PICK rd : rd = Optional(~c.client /\ c.ready_file, Call("ready_file"))
  OBVIOUS
<1>6. PICK p1 : p1 = p0 \o w
  OBVIOUS
<1>7. PICK p2 : p2 = p1 \o al
  OBVIOUS
<1>8. PICK p3 : p3 = p2 \o sg
  OBVIOUS
<1>9. u = p3 \o rd
  BY <1>1, <1>2, <1>3, <1>4, <1>5, <1>6, <1>7, <1>8, Zenon DEF Main
<1>10. Part(c, p0, D)
  BY <1>1, InitPart
<1>11. Part(c, w, D)
  <2>1. PICK x : x = Call("init_workload")
    OBVIOUS
  <2>2. x \in StepSet /\ Allowed(c, x) /\ Needs(c, x) \subseteq D
    BY <2>1, CallFacts
  <2>3. w = <<x>>
    BY <1>2, <2>1
  <2> QED
    BY <2>2, <2>3, PartOne
<1>12. Part(c, al, D)
  BY <1>3, AllocPart
<1>13. PICK E : E = SetUp(c)
  OBVIOUS
<1>14. Part(c, sg, E) /\ ToSet(sg) \subseteq {Call("signal")}
  <2>1. PICK x : x = Call("signal")
    OBVIOUS
  <2>2. CASE ~c.client
    <3>1. x \in StepSet /\ Allowed(c, x) /\ Needs(c, x) = E
      BY <1>13, <2>1, <2>2, LastFacts
    <3>2. Needs(c, x) \subseteq E
      BY <3>1
    <3>3. sg = <<x>>
      BY <1>4, <2>1, <2>2 DEF Optional
    <3>4. Part(c, sg, E) /\ ToSet(sg) = {x}
      BY <3>1, <3>2, <3>3, PartOne
    <3> QED
      BY <2>1, <3>4
  <2>3. CASE c.client
    <3>1. sg = <<>>
      BY <1>4, <2>3 DEF Optional
    <3>2. Part(c, sg, E) /\ ToSet(sg) = {}
      BY <3>1, PartNone
    <3> QED
      BY <3>2
  <2> QED
    BY <2>2, <2>3
<1>15. Part(c, rd, E) /\ ToSet(rd) \subseteq {Call("ready_file")}
  <2>1. PICK x : x = Call("ready_file")
    OBVIOUS
  <2>2. CASE ~c.client /\ c.ready_file
    <3>1. x \in StepSet /\ Allowed(c, x) /\ Needs(c, x) = E
      BY <1>13, <2>1, <2>2, LastFacts
    <3>2. Needs(c, x) \subseteq E
      BY <3>1
    <3>3. rd = <<x>>
      BY <1>5, <2>1, <2>2 DEF Optional
    <3>4. Part(c, rd, E) /\ ToSet(rd) = {x}
      BY <3>1, <3>2, <3>3, PartOne
    <3> QED
      BY <2>1, <3>4
  <2>3. CASE ~(~c.client /\ c.ready_file)
    <3>1. rd = <<>>
      BY <1>5, <2>3 DEF Optional
    <3>2. Part(c, rd, E) /\ ToSet(rd) = {}
      BY <3>1, PartNone
    <3> QED
      BY <3>2
  <2> QED
    BY <2>2, <2>3
<1>16. Reaches(D, p0, D) /\ Reaches(D, p1, D) /\ Reaches(D, p2, D)
  BY DEF Reaches
<1>17. Part(c, p1, D)
  BY <1>6, <1>10, <1>11, <1>16, PartConcat
<1>18. Part(c, p2, D)
  BY <1>7, <1>12, <1>16, <1>17, PartConcat
<1>19. Part(c, sg, E) /\ Part(c, rd, E)
  BY <1>14, <1>15
<1>20. /\ p0 \in Seq(StepSet) /\ w \in Seq(StepSet) /\ p1 \in Seq(StepSet) /\ al \in Seq(StepSet)
       /\ p2 \in Seq(StepSet) /\ sg \in Seq(StepSet) /\ rd \in Seq(StepSet)
  BY <1>10, <1>11, <1>12, <1>17, <1>18, <1>19 DEF Part
<1>21. ToSet(p1) = ToSet(p0) \cup ToSet(w)
  BY <1>6, <1>20, ToSetConcat
<1>22. ToSet(p2) = ToSet(p1) \cup ToSet(al)
  BY <1>7, <1>20, ToSetConcat
<1>23. ToSet(p3) = ToSet(p2) \cup ToSet(sg)
  BY <1>8, <1>20, ToSetConcat
<1>24. p3 \in Seq(StepSet)
  BY <1>8, <1>20, ConcatProperties
<1>25. ToSet(u) = ToSet(p3) \cup ToSet(rd)
  BY <1>9, <1>20, <1>24, ToSetConcat
<1>26. E = ToSet(u) \ ({Call("signal"), Call("ready_file")} \cup ToSet(ForDists("alloc_latency_dist")))
  BY <1>13 DEF SetUp
<1>27. E \subseteq ToSet(p2)
  BY <1>14, <1>15, <1>23, <1>25, <1>26
<1>28. Reaches(D, p2, E) /\ Reaches(D, p3, E)
  BY <1>23, <1>27 DEF Reaches
<1>29. Part(c, p3, D)
  BY <1>8, <1>18, <1>19, <1>28, PartConcat
<1>30. Part(c, u, D)
  BY <1>9, <1>19, <1>28, <1>29, PartConcat
<1>31. ASSUME NEW s \in E PROVE s.op \notin {"time_init", "alloc_latency_dist", "signal"}
  <2>1. PICK i \in DOMAIN u : s = u[i]
    BY <1>26, <1>31 DEF ToSet
  <2>2. Allowed(c, s)
    BY <1>30, <2>1 DEF Part
  <2>3. s # Call("signal") /\ s \notin ToSet(ForDists("alloc_latency_dist"))
    BY <1>26, <1>31
  <2> QED
    BY <2>2, <2>3 DEF Allowed
<1>32. ToSet(p0) \subseteq ToSet(u)
  BY <1>21, <1>22, <1>23, <1>25
<1>33. ASSUME NEW s \in ToSet(p0),
              s.op \in {"init_ibv_context", "server_memory_init", "mempool_memory_init"}
       PROVE  s \in E
  <2>1. Call("signal").op = "signal" /\ Call("ready_file").op = "ready_file"
    BY CallFields
  <2>2. ASSUME s \in ToSet(ForDists("alloc_latency_dist")) PROVE FALSE
    <3>1. PICK v : v = ForDists("alloc_latency_dist")
      OBVIOUS
    <3>2. "alloc_latency_dist" \in Ops
      BY DEF Ops
    <3>3. \A i \in DOMAIN v : v[i].op = "alloc_latency_dist"
      BY <3>1, <3>2, DistSteps
    <3>4. s.op = "alloc_latency_dist"
      BY <2>2, <3>1, <3>3 DEF ToSet
    <3> QED
      BY <1>33, <3>4
  <2> QED
    BY <1>26, <1>32, <1>33, <2>1, <2>2
<1>34. Call("init_ibv_context") \in E
  <2>1. Call("init_ibv_context").op = "init_ibv_context"
    BY CallFields
  <2>2. Call("init_ibv_context") \in ToSet(p0)
    BY <1>1, InitPart
  <2> QED
    BY <1>33, <2>1, <2>2
<1>35. ASSUME NEW r \in Regions(c) PROVE MapStep(c, r) \in E
  <2>1. MapStep(c, r) \in ToSet(p0)
    BY <1>1, <1>35, InitPart
  <2> QED
    BY <1>33, <2>1, MapStepFields
<1> QED
  BY <1>13, <1>26, <1>30, <1>31, <1>34, <1>35

---------------------------------------------------------------------------
\* Control: how the steps of main move on or end the process.

\* The list of steps without its first.
LEMMA TailSteps ==
  ASSUME NEW s \in Seq(StepSet), s # <<>>
  PROVE  /\ Len(s) \in Nat \ {0} /\ DOMAIN s = 1 .. Len(s) /\ s[1] = Head(s) /\ Head(s) \in StepSet
         /\ Tail(s) \in Seq(StepSet) /\ Len(Tail(s)) = Len(s) - 1 /\ DOMAIN Tail(s) = 1 .. Len(s) - 1
         /\ \A i \in 1 .. Len(s) - 1 : Tail(s)[i] = s[i + 1]
         /\ ToSet(s) = {Head(s)} \cup ToSet(Tail(s))
<1>1. /\ Len(s) \in Nat \ {0} /\ DOMAIN s = 1 .. Len(s) /\ s[1] = Head(s) /\ Head(s) \in StepSet
      /\ Tail(s) \in Seq(StepSet) /\ Len(Tail(s)) = Len(s) - 1 /\ DOMAIN Tail(s) = 1 .. Len(s) - 1
      /\ \A i \in 1 .. Len(s) - 1 : Tail(s)[i] = s[i + 1]
  BY HeadTailProperties, LenProperties
<1>2. ASSUME NEW x \in ToSet(s) PROVE x = Head(s) \/ x \in ToSet(Tail(s))
  <2>1. PICK i \in 1 .. Len(s) : x = s[i]
    BY <1>1, <1>2 DEF ToSet
  <2>2. CASE i = 1
    BY <1>1, <2>1, <2>2
  <2>3. CASE i # 1
    <3>1. PICK k \in 1 .. Len(s) - 1 : k + 1 = i
      BY <1>1, <2>3
    <3>2. k \in DOMAIN Tail(s) /\ Tail(s)[k] = x
      BY <1>1, <2>1, <3>1
    <3> QED
      BY <3>2 DEF ToSet
  <2> QED
    BY <2>2, <2>3
<1>3. Head(s) \in ToSet(s)
  BY <1>1 DEF ToSet
<1>4. ASSUME NEW x \in ToSet(Tail(s)) PROVE x \in ToSet(s)
  <2>1. PICK i \in 1 .. Len(s) - 1 : x = Tail(s)[i]
    BY <1>1, <1>4 DEF ToSet
  <2>2. i + 1 \in DOMAIN s /\ s[i + 1] = x
    BY <1>1, <2>1
  <2> QED
    BY <2>2 DEF ToSet
<1> QED
  BY <1>1, <1>2, <1>3, <1>4

\* What a step of main needs is a part of the set-up.
LEMMA NeedsSetUp ==
  ASSUME NEW c \in Configs, NEW s, Allowed(c, s), NEW n \in Needs(c, s)
  PROVE  n \in SetUp(c)
<1>1. CASE s.op = "memory_registration"
  <2>1. n = MapStep(c, s.b) /\ s.a \in {"tx_mr", "rx_mr"} /\ s.b = RegionOf(c, s.a)
    BY <1>1 DEF Allowed, Needs
  <2>2. s.b \in Regions(c)
    BY <2>1 DEF RegionOf, Regions
  <2> QED
    BY <2>1, <2>2, MainPart
<1>2. CASE s.op \in {"signal", "ready_file"}
  BY <1>2 DEF Needs
<1>3. CASE s.op \notin {"memory_registration", "signal", "ready_file"}
  BY <1>3 DEF Needs
<1> QED
  BY <1>1, <1>2, <1>3

\* A step of main that succeeds or whose failure nobody looks at.
Moves ==
    /\ phase = "main" /\ todo # <<>> /\ Head(todo).op # "parse_args" /\ todo' = Tail(todo)
    /\ UNCHANGED <<config, phase, status>>
    /\ \/ up' = up \cup {Head(todo)}
       \/ up' = up /\ Head(todo).op \in {"time_init", "alloc_latency_dist", "signal"}

\* The process ends.
Stops ==
    /\ phase' \in {"exited", "crashed", "killed"} /\ status' \in {"error", None} /\ todo' = <<>>
    /\ UNCHANGED <<config, up>>

\* What main has to do after a step finds what it needs.
LEMMA MovesCourse ==
  ASSUME Inv, Moves, config # None
  PROVE  Course' /\ Allowed(config, Head(todo)) /\ Needs(config, Head(todo)) \subseteq up
<1>1. /\ config \in Configs /\ todo \in Seq(StepSet) /\ todo # <<>> /\ config' = config
      /\ todo' = Tail(todo) /\ up \subseteq up' /\ phase = "main"
  BY DEF Inv, Types, Moves
<1>2. /\ SetUp(config) \subseteq up \cup ToSet(todo)
      /\ Ready(config, todo, up)
      /\ \A i \in DOMAIN todo : Allowed(config, todo[i])
  BY <1>1 DEF Inv, Course
<1>3. PICK n \in Nat : n = Len(todo)
  BY <1>1, TailSteps
<1>4. /\ n >= 1 /\ DOMAIN todo = 1 .. n /\ todo[1] = Head(todo) /\ DOMAIN Tail(todo) = 1 .. n - 1
      /\ \A i \in 1 .. n - 1 : Tail(todo)[i] = todo[i + 1]
      /\ ToSet(todo) = {Head(todo)} \cup ToSet(Tail(todo))
  BY <1>1, <1>3, TailSteps
<1>5. ASSUME NEW x \in SetUp(config), x = Head(todo) PROVE x \in up'
  <2>1. x.op \notin {"time_init", "alloc_latency_dist", "signal"}
    BY <1>1, <1>5, MainPart
  <2> QED
    BY <1>5, <2>1 DEF Moves
<1>6. SetUp(config) \subseteq up' \cup ToSet(todo')
  BY <1>1, <1>2, <1>4, <1>5
<1>7. ASSUME NEW i \in DOMAIN Tail(todo)
      PROVE  /\ Allowed(config, Tail(todo)[i])
             /\ \A x \in Needs(config, Tail(todo)[i]) : x \in up' \/ \E j \in 1 .. i - 1 : Tail(todo)[j] = x
  <2>1. i \in 1 .. n - 1 /\ i + 1 \in DOMAIN todo /\ Tail(todo)[i] = todo[i + 1] /\ (i + 1) - 1 = i
    BY <1>4, <1>7
  <2>2. Allowed(config, todo[i + 1])
    BY <1>2, <2>1
  <2>3. \A x \in Needs(config, todo[i + 1]) : x \in up \/ \E j \in 1 .. (i + 1) - 1 : todo[j] = x
    BY <1>2, <2>1 DEF Ready
  <2>4. ASSUME NEW x \in Needs(config, todo[i + 1]) PROVE x \in up' \/ \E j \in 1 .. i - 1 : Tail(todo)[j] = x
    <3>1. CASE x \in up
      BY <1>1, <3>1
    <3>2. CASE \E j \in 1 .. (i + 1) - 1 : todo[j] = x
      <4>1. PICK j \in 1 .. i : todo[j] = x
        BY <2>1, <3>2
      <4>2. CASE j = 1
        <5>1. x \in SetUp(config)
          BY <1>1, <2>2, <2>4, NeedsSetUp
        <5> QED
          BY <1>4, <1>5, <4>1, <4>2, <5>1
      <4>3. CASE j # 1
        <5>1. PICK k \in 1 .. i - 1 : k + 1 = j
          BY <2>1, <4>1, <4>3
        <5>2. Tail(todo)[k] = x
          BY <1>4, <2>1, <4>1, <5>1
        <5> QED
          BY <5>2
      <4> QED
        BY <4>2, <4>3
    <3> QED
      BY <2>3, <2>4, <3>1, <3>2
  <2> QED
    BY <2>1, <2>2, <2>4
<1>8. Ready(config, Tail(todo), up') /\ \A i \in DOMAIN Tail(todo) : Allowed(config, Tail(todo)[i])
  BY <1>7 DEF Ready
<1>9. Course'
  BY <1>1, <1>6, <1>8 DEF Course
<1>10. Allowed(config, Head(todo)) /\ \A x \in Needs(config, Head(todo)) : x \in up
  <2>1. 1 \in DOMAIN todo /\ 1 .. 1 - 1 = {}
    BY <1>4
  <2>2. \A x \in Needs(config, todo[1]) : x \in up \/ \E j \in 1 .. 1 - 1 : todo[j] = x
    BY <1>2, <2>1 DEF Ready
  <2> QED
    BY <1>2, <1>4, <2>1, <2>2
<1> QED
  BY <1>9, <1>10

\* The two steps of main before the arguments are known.
LEMMA UnparsedSteps ==
  ASSUME Inv, config = None, phase = "main"
  PROVE  /\ todo # <<>> /\ Head(todo).op \in {"time_init", "parse_args"}
         /\ Head(todo).op = "time_init" => Head(todo) = Call("time_init") /\ Tail(todo) = <<Call("parse_args")>>
<1>1. PICK x1 : x1 = Call("time_init") /\ x1.op = "time_init"
  BY CallFields
<1>2. PICK x2 : x2 = Call("parse_args") /\ x2.op = "parse_args"
  BY CallFields
<1>3. todo = <<x1, x2>> \/ todo = <<x2>>
  BY <1>1, <1>2 DEF Inv, Unparsed
<1>4. CASE todo = <<x1, x2>>
  BY <1>1, <1>2, <1>4
<1>5. CASE todo = <<x2>>
  BY <1>2, <1>5
<1> QED
  BY <1>3, <1>4, <1>5

\* A step of main that goes on keeps the control part of the invariant.
LEMMA MovesControl ==
  ASSUME Inv, Moves
  PROVE  /\ todo' \in Seq(StepSet) /\ Course' /\ Complete'
         /\ config = None => up' \subseteq {Call("time_init")} /\ todo' = <<Call("parse_args")>>
<1>1. /\ config \in Configs \cup {None} /\ todo \in Seq(StepSet) /\ todo # <<>> /\ config' = config
      /\ todo' = Tail(todo) /\ up \subseteq up' /\ up' \subseteq up \cup {Head(todo)}
      /\ phase = "main" /\ phase' = "main" /\ status' = status /\ Head(todo).op # "parse_args"
  BY DEF Inv, Types, Moves
<1>2. todo' \in Seq(StepSet)
  BY <1>1, TailSteps
<1>3. CASE config = None
  <2>1. Head(todo) = Call("time_init") /\ Tail(todo) = <<Call("parse_args")>>
    BY <1>1, <1>3, UnparsedSteps
  <2>2. up \subseteq {Call("time_init")} /\ status # "ok"
    BY <1>3 DEF Inv, Unparsed
  <2>3. up' \subseteq {Call("time_init")}
    BY <1>1, <2>1, <2>2
  <2>4. Call("time_init") # Call("signal") /\ Call("time_init") # Call("ready_file")
    BY CallFields
  <2>5. Call("signal") \notin up' /\ Call("ready_file") \notin up'
    BY <2>3, <2>4
  <2>6. Course' /\ Complete'
    BY <1>1, <1>3, <2>2, <2>5 DEF Course, Complete, HandlerSet
  <2> QED
    BY <1>1, <1>2, <2>1, <2>3, <2>6
<1>4. CASE config # None
  <2>1. Course' /\ Needs(config, Head(todo)) \subseteq up
    BY <1>4, MovesCourse
  <2>2. ASSUME status' = "ok" \/ HandlerSet' \/ Call("ready_file") \in up' PROVE SetUp(config) \subseteq up'
    <3>1. CASE status = "ok" \/ HandlerSet \/ Call("ready_file") \in up
      BY <1>1, <3>1 DEF Inv, Complete
    <3>2. CASE Head(todo) = Call("signal") \/ Head(todo) = Call("ready_file")
      <4>1. Needs(config, Head(todo)) = SetUp(config)
        BY <3>2, LastFacts
      <4> QED
        BY <1>1, <2>1, <4>1
    <3> QED
      BY <1>1, <2>2, <3>1, <3>2 DEF HandlerSet
  <2>3. Complete'
    BY <1>1, <1>4, <2>2 DEF Complete
  <2> QED
    BY <1>2, <1>4, <2>1, <2>3
<1> QED
  BY <1>3, <1>4

\* The end of the process keeps it too.
LEMMA StopsControl ==
  ASSUME Inv, Stops
  PROVE  todo' \in Seq(StepSet) /\ Course' /\ Complete' /\ Closing' /\ Closed'
<1>1. /\ phase' \in {"exited", "crashed", "killed"} /\ status' # "ok" /\ todo' = <<>>
      /\ config' = config /\ up' = up
  BY LifecycleAssumption DEF Stops
<1>2. todo' \in Seq(StepSet)
  BY <1>1
<1>3. Complete'
  BY <1>1 DEF Inv, Complete, HandlerSet
<1> QED
  BY <1>1, <1>2, <1>3 DEF Course, Closing, Closed

---------------------------------------------------------------------------
\* What the steps leave behind.

\* A step that maps nothing leaves regions and pools as they were.
LEMMA UpKept ==
  ASSUME Inv, config # None, config' = config, NEW h, up' \subseteq up \cup {h},
         h.op \notin {"server_memory_init", "mempool_memory_init"}, pools' = pools, mapped' = mapped,
         phase' \in {"main", "run"} => phase \in {"main", "run"}
  PROVE  Sizes' /\ Pooled' /\ Present'
<1>1. config \in Configs /\ Sizes /\ Pooled /\ Present
  BY DEF Inv, Types, Effects
<1>2. ASSUME NEW r, MapStep(config, r) \in up' PROVE MapStep(config, r) \in up
  BY <1>1, <1>2, MapStepFields
<1>3. ASSUME NEW r \in Regions(config) \ {"working_set"}, MapPool(r) \in up' PROVE MapPool(r) \in up
  BY <1>3, PoolFields
<1>4. Sizes'
  BY <1>1 DEF Sizes
<1>5. Pooled'
  BY <1>1, <1>3 DEF Pooled
<1>6. Present'
  BY <1>1, <1>2 DEF Present
<1> QED
  BY <1>4, <1>5, <1>6

\* The variables that say what is there.
data == <<device, mapped, pools, dists, mr, refused>>

\* A step of main whose only effect is that it is done.
LEMMA QuietMoves ==
  ASSUME Inv, Moves, UNCHANGED data,
         Head(todo).op \notin {"server_memory_init", "mempool_memory_init", "init_ibv_context"}
  PROVE  Inv'
<1>1. /\ config' = config /\ phase = "main" /\ phase' = "main" /\ status' = status
      /\ up' \subseteq up \cup {Head(todo)} /\ device' = device /\ mapped' = mapped /\ pools' = pools
      /\ dists' = dists /\ mr' = mr /\ refused' = refused
  BY DEF Moves, data
<1>2. /\ todo' \in Seq(StepSet) /\ Course' /\ Complete'
      /\ config = None => up' \subseteq {Call("time_init")} /\ todo' = <<Call("parse_args")>>
  BY MovesControl
<1>3. Types'
  BY <1>1, <1>2 DEF Inv, Types
<1>4. Unparsed'
  BY <1>1, <1>2 DEF Inv, Unparsed
<1>5. ASSUME config # None PROVE Effects'
  <2>1. Registered /\ Timers /\ Handler /\ Opened /\ Backed
    BY <1>5 DEF Inv, Effects
  <2>2. Sizes' /\ Pooled' /\ Present'
    BY <1>1, <1>5, UpKept
  <2>3. Registered' /\ Timers' /\ Backed'
    BY <1>1, <2>1 DEF Registered, Timers, Backed
  <2>4. Handler'
    <3>1. Allowed(config, Head(todo))
      BY <1>5, MovesCourse
    <3>2. Call("signal").op = "signal"
      BY CallFields
    <3>3. Head(todo) = Call("signal") => ~config.client
      BY <3>1, <3>2 DEF Allowed
    <3> QED
      BY <1>1, <2>1, <3>3 DEF Handler, HandlerSet
  <2>5. Opened'
    <3>1. Call("init_ibv_context").op = "init_ibv_context"
      BY CallFields
    <3>2. Call("init_ibv_context") \in up' => Call("init_ibv_context") \in up
      BY <1>1, <3>1
    <3> QED
      BY <1>1, <2>1, <3>2 DEF Opened
  <2> QED
    BY <2>2, <2>3, <2>4, <2>5 DEF Effects
<1>6. Effects'
  BY <1>1, <1>5 DEF Effects
<1>7. Closing' /\ Closed'
  BY <1>1 DEF Inv, Closing, Closed
<1> QED
  BY <1>2, <1>3, <1>4, <1>6, <1>7 DEF Inv

\* The end of the process leaves everything as it is.
LEMMA QuietStops ==
  ASSUME Inv, Stops, UNCHANGED data
  PROVE  Inv'
<1>1. /\ config' = config /\ up' = up /\ phase' \in {"exited", "crashed", "killed"} /\ status' # "ok"
      /\ device' = device /\ mapped' = mapped /\ pools' = pools
      /\ dists' = dists /\ mr' = mr
  BY LifecycleAssumption DEF Stops, data
<1>2. todo' \in Seq(StepSet) /\ Course' /\ Complete' /\ Closing' /\ Closed'
  BY StopsControl
<1>3. Types' /\ Unparsed'
  BY <1>1, <1>2 DEF Inv, Types, Unparsed
<1>4. Effects'
  <2>1. CASE config = None
    BY <1>1, <2>1 DEF Effects
  <2>2. CASE config # None
    <3>1. Sizes /\ Registered /\ Timers /\ Handler /\ Opened /\ Pooled /\ Backed
      BY <2>2 DEF Inv, Effects
    <3>2. Sizes' /\ Registered' /\ Timers' /\ Backed'
      BY <1>1, <3>1 DEF Sizes, Registered, Timers, Backed
    <3>3. Handler' /\ Opened' /\ Pooled' /\ Present'
      BY <1>1, <3>1 DEF Handler, HandlerSet, Opened, Pooled, Present
    <3> QED
      BY <3>2, <3>3 DEF Effects
  <2> QED
    BY <2>1, <2>2
<1> QED
  BY <1>2, <1>3, <1>4 DEF Inv

\* A non-empty set of numbers has a least one.
LEMMA LeastNumber ==
  ASSUME NEW T \in SUBSET Nat, T # {}
  PROVE  \E i \in T : \A j \in T : i <= j
<1>1. PICK R : R = StrictSubsetOrdering(Nat)
  OBVIOUS
<1>2. PICK S : S = FiniteSubsetsOf(Nat)
  OBVIOUS
<1>3. PICK F : F = {1 .. i : i \in T}
  OBVIOUS
<1>4. IsWellFoundedOn(R, S)
  BY <1>1, <1>2, FS_StrictSubsetOrderingWellFounded
<1>5. F \subseteq S /\ F # {}
  <2>1. ASSUME NEW i \in T PROVE 1 .. i \in FiniteSubsetsOf(Nat)
    <3>1. i \in Int /\ 1 \in Int
      OBVIOUS
    <3>2. IsFiniteSet(1 .. i)
      BY <3>1, FS_Interval
    <3>3. 1 .. i \subseteq Nat
      OBVIOUS
    <3> QED
      BY <3>2, <3>3 DEF FiniteSubsetsOf
  <2> QED
    BY <1>2, <1>3, <2>1
<1>6. PICK X \in F : \A Y \in F : ~(<<Y, X>> \in R)
  BY <1>4, <1>5, WFMin
<1>7. PICK i \in T : X = 1 .. i
  BY <1>3
<1>8. ASSUME NEW j \in T, j < i PROVE FALSE
  <2>1. PICK Y : Y = 1 .. j
    OBVIOUS
  <2>2. Y \in F
    BY <1>3, <2>1
  <2>3. i \in X /\ i \notin Y
    BY <1>7, <1>8, <2>1
  <2>4. Y \subseteq X
    BY <1>7, <1>8, <2>1
  <2>5. Y \in SUBSET Nat /\ X \in SUBSET Nat
    BY <1>7, <2>1
  <2>6. <<Y, X>> \in R
    BY <1>1, <2>3, <2>4, <2>5 DEF StrictSubsetOrdering
  <2> QED
    BY <1>6, <2>2, <2>6
<1> QED
  BY <1>8

\* The device that init_ibv_context opens is at the address asked for, or at
\* one that sysfs does not tell.
LEMMA MatchingDevice ==
  ASSUME NEW devs \in DeviceLists, NEW garbage, NEW pad \in BOOLEAN,
         NEW i \in Matches(devs, garbage, pad)
  PROVE  devs[i].addr \in {"wanted", "none"}
<1>1. devs \in Seq([mlx5 : BOOLEAN, addr : {"wanted", "other", "none", "unreadable"}])
  BY LifecycleAssumption
<1>2. PICK R : R = [mlx5 : BOOLEAN, addr : {"wanted", "other", "none", "unreadable"}]
  OBVIOUS
<1>3. devs \in Seq(R)
  BY <1>1, <1>2
<1>4. DOMAIN devs \subseteq Nat \ {0} /\ \A k \in DOMAIN devs : devs[k] \in R
  BY <1>3
<1>5. \A k \in DOMAIN devs : devs[k].mlx5 \in BOOLEAN /\ devs[k].addr \in {"wanted", "other", "none", "unreadable"}
  BY <1>2, <1>4
<1>6. /\ i \in DOMAIN devs /\ devs[i].mlx5 /\ devs[i].addr # "unreadable"
      /\ AddrSeen(devs, i, garbage) = "wanted"
  BY <1>5 DEF Matches
<1>7. i \in Nat /\ i >= 1
  BY <1>6, <1>4
<1>8. devs[i].addr \in {"wanted", "other", "none", "unreadable"}
  BY <1>6, <1>5
<1>9. ASSUME devs[i].addr = "other" PROVE FALSE
  <2>1. PICK read : read = {j \in 1 .. i : devs[j].mlx5 /\ devs[j].addr \in {"wanted", "other"}}
    OBVIOUS
  <2>2. i \in read /\ \A k \in read : k \in Nat /\ k <= i
    BY <1>6, <1>7, <1>9, <2>1
  <2>3. \A j \in read : (\A k \in read : k <= j) => j = i
    BY <1>7, <2>2
  <2>4. (CHOOSE j \in read : \A k \in read : k <= j) = i
    BY <2>2, <2>3
  <2>5. AddrSeen(devs, i, garbage) = devs[CHOOSE j \in read : \A k \in read : k <= j].addr
    BY <2>1, <2>2 DEF AddrSeen
  <2> QED
    BY <1>6, <1>9, <2>4, <2>5
<1> QED
  BY <1>6, <1>8, <1>9

\* init_ibv_context keeps the invariant.
LEMMA InitIbvContextInv ==
  ASSUME Inv, InitIbvContext
  PROVE  Inv'
<1>1. /\ At("init_ibv_context") /\ UNCHANGED <<config, mapped, pools, dists, mr, refused>>
      /\ \/ Fails /\ device' = device
         \/ Done /\ device'.addr \in {"wanted", "none"}
  <2>1. PICK devs \in DeviceLists, garbage \in {"wanted", "other"}, pad \in BOOLEAN :
          \/ Fails /\ device' = device
          \/ /\ Matches(devs, garbage, pad) # {} /\ Done
             /\ device' = devs[CHOOSE i \in Matches(devs, garbage, pad) :
                                 \A j \in Matches(devs, garbage, pad) : i <= j]
    BY DEF InitIbvContext
  <2>2. ASSUME Matches(devs, garbage, pad) # {},
               device' = devs[CHOOSE i \in Matches(devs, garbage, pad) :
                                \A j \in Matches(devs, garbage, pad) : i <= j]
        PROVE  device'.addr \in {"wanted", "none"}
    <3>1. PICK found : found = Matches(devs, garbage, pad)
      OBVIOUS
    <3>2. devs \in Seq([mlx5 : BOOLEAN, addr : {"wanted", "other", "none", "unreadable"}])
      BY LifecycleAssumption
    <3>3. found \in SUBSET Nat /\ found # {}
      BY <2>2, <3>1, <3>2, SMTT(30) DEF Matches
    <3>4. \E i \in found : \A j \in found : i <= j
      BY <3>3, LeastNumber
    <3>5. PICK i : i = (CHOOSE k \in found : \A j \in found : k <= j)
      OBVIOUS
    <3>6. i \in found
      BY <3>4, <3>5
    <3>7. device' = devs[i]
      BY <2>2, <3>1, <3>5
    <3> QED
      BY <3>1, <3>6, <3>7, MatchingDevice
  <2> QED
    BY <2>1, <2>2 DEF InitIbvContext
<1>2. CASE Fails /\ device' = device
  <2>1. Stops /\ UNCHANGED data
    BY <1>1, <1>2 DEF Fails, Ends, Stops, data
  <2> QED
    BY <2>1, QuietStops
<1>3. CASE Done /\ device'.addr \in {"wanted", "none"}
  <2>1. Moves /\ Head(todo).op = "init_ibv_context"
    BY <1>1, <1>3 DEF At, Done, Advance, Moves
  <2>2. /\ config' = config /\ phase = "main" /\ phase' = "main" /\ status' = status
        /\ up' \subseteq up \cup {Head(todo)} /\ mapped' = mapped /\ pools' = pools
        /\ dists' = dists /\ mr' = mr /\ refused' = refused
    BY <1>1, <2>1 DEF Moves
  <2>3. config # None
    BY <2>1, <2>2, UnparsedSteps
  <2>4. todo' \in Seq(StepSet) /\ Course' /\ Complete'
    BY <2>1, MovesControl
  <2>5. Sizes' /\ Pooled' /\ Present'
    BY <2>1, <2>2, <2>3, UpKept
  <2>6. Registered /\ Timers /\ Handler /\ Backed
    BY <2>3 DEF Inv, Effects
  <2>7. Registered' /\ Timers' /\ Backed'
    BY <2>2, <2>6 DEF Registered, Timers, Backed
  <2>8. Handler'
    <3>1. Call("signal").op = "signal"
      BY CallFields
    <3> QED
      BY <2>1, <2>2, <2>6, <3>1 DEF Handler, HandlerSet
  <2>9. Opened'
    BY <1>3 DEF Opened
  <2>10. Types' /\ Unparsed' /\ Closing' /\ Closed'
    BY <2>2, <2>3, <2>4 DEF Inv, Types, Unparsed, Closing, Closed
  <2> QED
    BY <2>4, <2>5, <2>7, <2>8, <2>9, <2>10 DEF Inv, Effects
<1> QED
  BY <1>1, <1>2, <1>3

\* The step main is at, once the arguments are known.
LEMMA HeadFacts ==
  ASSUME Inv, phase = "main", todo # <<>>, Head(todo).op \notin {"time_init", "parse_args"}
  PROVE  /\ config \in Configs /\ config # None /\ Allowed(config, Head(todo))
         /\ Needs(config, Head(todo)) \subseteq up
<1>1. config # None /\ config \in Configs /\ todo \in Seq(StepSet)
  BY UnparsedSteps DEF Inv, Types
<1>2. Ready(config, todo, up) /\ \A i \in DOMAIN todo : Allowed(config, todo[i])
  BY <1>1 DEF Inv, Course
<1>3. 1 \in DOMAIN todo /\ todo[1] = Head(todo) /\ 1 .. 1 - 1 = {}
  BY <1>1, TailSteps
<1>4. \A x \in Needs(config, todo[1]) : x \in up \/ \E j \in 1 .. 1 - 1 : todo[j] = x
  BY <1>2, <1>3 DEF Ready
<1> QED
  BY <1>1, <1>2, <1>3, <1>4

\* A region is mapped by the length of its configuration.
LEMMA MappingFacts ==
  ASSUME Inv, phase = "main", todo # <<>>, Head(todo).op \in {"server_memory_init", "mempool_memory_init"}
  PROVE  /\ Head(todo).a \in Regions(config) /\ Head(todo) = MapStep(config, Head(todo).a)
         /\ Head(todo).b = LenOf(config, Head(todo).a) /\ LenOf(config, Head(todo).a) \in Nat
         /\ (Head(todo).op = "mempool_memory_init" => Head(todo).a # "working_set")
         /\ (Head(todo).op = "server_memory_init" => Head(todo).a = "working_set")
<1>1. config \in Configs /\ Allowed(config, Head(todo))
  BY HeadFacts
<1>2. config.working_set_size \in Nat /\ PoolLen \in Nat
  BY <1>1, LifecycleAssumption
<1>3. CASE Head(todo).op = "mempool_memory_init"
  <2>1. Head(todo).a \in Regions(config) \ {"working_set"} /\ Head(todo) = MapPool(Head(todo).a)
    BY <1>1, <1>3 DEF Allowed
  <2>2. Head(todo).b = PoolLen
    BY <2>1, PoolFields
  <2> QED
    BY <1>1, <1>2, <1>3, <2>1, <2>2, MapStepFields DEF LenOf
<1>4. CASE Head(todo).op = "server_memory_init"
  <2>1. ~config.client /\ Head(todo) = MapStep(config, "working_set")
    BY <1>1, <1>4 DEF Allowed
  <2>2. Head(todo).a = "working_set" /\ Head(todo).b = config.working_set_size
    BY <1>1, <2>1, WorkingSetFields
  <2>3. "working_set" \in Regions(config)
    BY <2>1 DEF Regions
  <2> QED
    BY <1>2, <1>4, <2>1, <2>2, <2>3 DEF LenOf
<1> QED
  BY <1>3, <1>4

\* Another region leaves the ones that are mapped as they are.
LEMMA MappingKeeps ==
  ASSUME Inv, phase = "main", todo # <<>>, Head(todo).op \in {"server_memory_init", "mempool_memory_init"},
         LenOf(config, Head(todo).a) > 0, mapped' = Mapping, config' = config, mr' = mr
  PROVE  Sizes' /\ Backed' /\ DOMAIN mapped' = DOMAIN mapped \cup {Head(todo).a}
<1>1. PICK r : r = Head(todo).a
  OBVIOUS
<1>2. r \in Regions(config) /\ Head(todo).b = LenOf(config, r) /\ LenOf(config, r) > 0
  BY <1>1, MappingFacts
<1>3. config # None
  BY HeadFacts
<1>4. mapped' = [s \in DOMAIN mapped \cup {r} |-> IF s = r THEN align_up(LenOf(config, r)) ELSE mapped[s]]
  BY <1>1, <1>2 DEF Mapping
<1>5. /\ DOMAIN mapped' = DOMAIN mapped \cup {r}
      /\ \A s \in DOMAIN mapped' : mapped'[s] = IF s = r THEN align_up(LenOf(config, r)) ELSE mapped[s]
  BY <1>4
<1>6. Sizes /\ Backed
  BY <1>3 DEF Inv, Effects
<1>7. Sizes'
  BY <1>2, <1>5, <1>6 DEF Sizes
<1>8. Backed'
  BY <1>5, <1>6 DEF Backed
<1> QED
  BY <1>1, <1>5, <1>7, <1>8

\* A region is mapped and main goes on.
LEMMA MapMoves ==
  ASSUME Inv, Moves, Head(todo).op \in {"server_memory_init", "mempool_memory_init"},
         UNCHANGED <<device, dists, mr, refused>>,
         mapped' = (IF LenOf(config, Head(todo).a) = 0 THEN mapped ELSE Mapping),
         \/ Head(todo).op = "server_memory_init" /\ pools' = pools
         \/ /\ Head(todo).op = "mempool_memory_init" /\ PoolLen % Pgsize = 0
            /\ pools' = pools \cup {Head(todo).a}
  PROVE  Inv'
<1>1. PICK r : r = Head(todo).a
  OBVIOUS
<1>2. /\ config' = config /\ phase = "main" /\ phase' = "main" /\ status' = status /\ todo # <<>>
      /\ up' \subseteq up \cup {Head(todo)} /\ device' = device
      /\ dists' = dists /\ mr' = mr /\ refused' = refused
  BY DEF Moves
<1>3. /\ r \in Regions(config) /\ Head(todo) = MapStep(config, r) /\ LenOf(config, r) \in Nat
      /\ (Head(todo).op = "server_memory_init" => r = "working_set")
  BY <1>1, <1>2, MappingFacts
<1>4. config # None /\ config \in Configs
  BY <1>2, HeadFacts
<1>5. todo' \in Seq(StepSet) /\ Course' /\ Complete'
  BY MovesControl
<1>6. Sizes /\ Registered /\ Timers /\ Handler /\ Opened /\ Pooled /\ Present /\ Backed
  BY <1>4 DEF Inv, Effects
<1>7. /\ Sizes' /\ Backed' /\ DOMAIN mapped \subseteq DOMAIN mapped'
      /\ LenOf(config, r) > 0 => r \in DOMAIN mapped'
  <2>1. CASE LenOf(config, r) = 0
    <3>1. mapped' = mapped
      BY <1>1, <2>1
    <3> QED
      BY <1>2, <1>6, <2>1, <3>1 DEF Sizes, Backed
  <2>2. CASE LenOf(config, r) > 0
    <3>1. mapped' = Mapping
      BY <1>1, <2>2
    <3>2. Sizes' /\ Backed' /\ DOMAIN mapped' = DOMAIN mapped \cup {r}
      BY <1>1, <1>2, <2>2, <3>1, MappingKeeps
    <3> QED
      BY <3>2
  <2> QED
    BY <1>3, <2>1, <2>2
<1>8. ASSUME NEW s, MapStep(config, s) \in up' PROVE MapStep(config, s) \in up \/ s = r
  <2>1. CASE MapStep(config, s) = Head(todo)
    <3>1. MapStep(config, s).a = s /\ MapStep(config, r).a = r
      BY <1>4, MapStepFields
    <3> QED
      BY <1>3, <2>1, <3>1
  <2> QED
    BY <1>2, <1>8, <2>1
<1>9. Present'
  BY <1>2, <1>6, <1>7, <1>8 DEF Present
<1>10. Pooled'
  <2> SUFFICES ASSUME NEW s \in Regions(config) \ {"working_set"}, MapPool(s) \in up'
               PROVE  s \in pools' /\ PoolLen % Pgsize = 0
    BY <1>2 DEF Pooled
  <2>1. MapStep(config, s) = MapPool(s)
    BY <1>4, MapStepFields
  <2>2. CASE MapPool(s) \in up
    BY <1>6, <2>2 DEF Pooled
  <2>3. CASE s = r
    BY <1>1, <1>3, <2>3
  <2> QED
    BY <1>8, <2>1, <2>2, <2>3
<1>11. Registered' /\ Timers'
  BY <1>2, <1>6 DEF Registered, Timers
<1>12. Handler' /\ Opened'
  <2>1. Call("signal").op = "signal" /\ Call("init_ibv_context").op = "init_ibv_context"
    BY CallFields
  <2> QED
    BY <1>2, <1>6, <2>1 DEF Handler, HandlerSet, Opened
<1>13. Types' /\ Unparsed' /\ Closing' /\ Closed'
  BY <1>2, <1>4, <1>5 DEF Inv, Types, Unparsed, Closing, Closed
<1> QED
  BY <1>5, <1>7, <1>9, <1>10, <1>11, <1>12, <1>13 DEF Inv, Effects

\* A region is mapped, but the pool is not made: the process ends.
LEMMA MapStops ==
  ASSUME Inv, Stops, phase = "main", todo # <<>>, Head(todo).op = "mempool_memory_init",
         UNCHANGED <<device, dists, mr, refused>>, mapped' = Mapping, pools \subseteq pools'
  PROVE  Inv'
<1>1. /\ config' = config /\ up' = up /\ phase' \in {"exited", "crashed", "killed"} /\ status' # "ok"
      /\ device' = device /\ dists' = dists /\ mr' = mr
  BY LifecycleAssumption DEF Stops
<1>2. config # None
  BY HeadFacts
<1>3. todo' \in Seq(StepSet) /\ Course' /\ Complete' /\ Closing' /\ Closed'
  BY StopsControl
<1>4. LenOf(config, Head(todo).a) > 0
  <2>1. Head(todo).a # "working_set"
    BY MappingFacts
  <2> QED
    BY <2>1, LifecycleAssumption DEF LenOf
<1>5. Sizes' /\ Backed'
  BY <1>1, <1>4, MappingKeeps
<1>6. Registered /\ Timers /\ Handler /\ Opened /\ Pooled
  BY <1>2 DEF Inv, Effects
<1>7. Registered' /\ Timers' /\ Handler' /\ Opened' /\ Pooled' /\ Present'
  BY <1>1, <1>6 DEF Registered, Timers, Handler, HandlerSet, Opened, Pooled, Present
<1>8. Types' /\ Unparsed'
  BY <1>1, <1>2, <1>3 DEF Inv, Types, Unparsed
<1> QED
  BY <1>3, <1>5, <1>7, <1>8 DEF Inv, Effects

\* server_memory_init and mempool_memory_init keep the invariant.
LEMMA MemoryInv ==
  ASSUME Inv, MapCrash \/ ServerMemoryInit \/ MempoolMemoryInit
  PROVE  Inv'
<1>1. CASE MapCrash
  <2>1. Stops /\ UNCHANGED data
    BY <1>1 DEF MapCrash, Ends, Stops, data
  <2> QED
    BY <2>1, QuietStops
<1>2. CASE ServerMemoryInit
  <2>1. /\ Moves /\ Head(todo).op = "server_memory_init" /\ UNCHANGED <<device, dists, mr, refused>>
        /\ pools' = pools /\ mapped' = (IF Head(todo).b = 0 THEN mapped ELSE Mapping)
    BY <1>2 DEF ServerMemoryInit, At, Done, Advance, Moves
  <2>2. Head(todo).b = LenOf(config, Head(todo).a)
    BY <2>1, MappingFacts DEF Moves
  <2> QED
    BY <2>1, <2>2, MapMoves
<1>3. CASE MempoolMemoryInit
  <2>1. /\ phase = "main" /\ todo # <<>> /\ Head(todo).op = "mempool_memory_init"
        /\ UNCHANGED <<config, device, dists, mr, refused>> /\ mapped' = Mapping
        /\ IF Head(todo).b % Pgsize # 0 THEN Fails /\ pools' = pools
           ELSE pools' = pools \cup {Head(todo).a} /\ (Done \/ Fails)
    BY <1>3 DEF MempoolMemoryInit, At
  <2>2. Head(todo).b = PoolLen /\ LenOf(config, Head(todo).a) = PoolLen /\ PoolLen # 0
    BY <2>1, MappingFacts, LifecycleAssumption DEF LenOf
  <2>3. CASE Fails
    <3>1. Stops /\ pools \subseteq pools'
      BY <2>1, <2>3 DEF Fails, Ends, Stops
    <3> QED
      BY <2>1, <3>1, MapStops
  <2>4. CASE ~Fails
    <3>1. Done /\ PoolLen % Pgsize = 0 /\ pools' = pools \cup {Head(todo).a}
      BY <2>1, <2>2, <2>4
    <3>2. Moves
      BY <2>1, <3>1 DEF Done, Advance, Moves
    <3> QED
      BY <2>1, <2>2, <3>1, <3>2, MapMoves
  <2> QED
    BY <2>3, <2>4
<1> QED
  BY <1>1, <1>2, <1>3

\* A registration is of the region of its configuration, which is mapped.
LEMMA RegistrationKeeps ==
  ASSUME Inv, phase = "main", todo # <<>>, Head(todo).op = "memory_registration", config' = config,
         mapped' = mapped,
         \/ mr' = [mr EXCEPT ![Head(todo).a] = Head(todo).b]
         \/ mr' = [mr EXCEPT ![Head(todo).a] = None]
  PROVE  DOMAIN mr' = {"tx_mr", "rx_mr"} /\ Registered' /\ Backed'
<1>1. config \in Configs /\ config # None /\ Allowed(config, Head(todo)) /\ Needs(config, Head(todo)) \subseteq up
  BY HeadFacts
<1>2. PICK m \in {"tx_mr", "rx_mr"} : m = Head(todo).a
  BY <1>1 DEF Allowed
<1>3. PICK r : r = Head(todo).b
  OBVIOUS
<1>4. r = RegionOf(config, m) /\ r \in Regions(config)
  BY <1>1, <1>2, <1>3 DEF Allowed, RegionOf, Regions
<1>5. MapStep(config, r) \in up
  BY <1>1, <1>3 DEF Needs
<1>6. DOMAIN mr = {"tx_mr", "rx_mr"} /\ Registered /\ Backed /\ Present
  BY <1>1 DEF Inv, Types, Effects
<1>7. LenOf(config, r) > 0 => r \in DOMAIN mapped
  BY <1>4, <1>5, <1>6 DEF Present
<1>8. /\ DOMAIN mr' = {"tx_mr", "rx_mr"}
      /\ mr'[m] \in {r, None}
      /\ \A n \in {"tx_mr", "rx_mr"} : n # m => mr'[n] = mr[n]
  BY <1>2, <1>3, <1>6
<1>9. Registered'
  BY <1>4, <1>6, <1>8 DEF Registered
<1>10. Backed'
  BY <1>6, <1>7, <1>8 DEF Backed
<1> QED
  BY <1>8, <1>9, <1>10

\* memory_registration keeps the invariant.
LEMMA MemoryRegistrationInv ==
  ASSUME Inv, MemoryRegistration
  PROVE  Inv'
<1>1. /\ phase = "main" /\ todo # <<>> /\ Head(todo).op = "memory_registration"
      /\ UNCHANGED <<config, device, mapped, pools, dists, refused>>
      /\ \/ mr' = [mr EXCEPT ![Head(todo).a] = Head(todo).b]
         \/ mr' = [mr EXCEPT ![Head(todo).a] = None]
      /\ Done \/ Fails
  BY DEF MemoryRegistration, At
<1>2. DOMAIN mr' = {"tx_mr", "rx_mr"} /\ Registered' /\ Backed'
  BY <1>1, RegistrationKeeps
<1>3. config # None
  BY <1>1, HeadFacts
<1>4. Sizes /\ Timers /\ Handler /\ Opened /\ Pooled /\ Present
  BY <1>3 DEF Inv, Effects
<1>5. CASE Done
  <2>1. Moves
    BY <1>1, <1>5 DEF Done, Advance, Moves
  <2>2. /\ config' = config /\ phase' = "main" /\ status' = status /\ up' \subseteq up \cup {Head(todo)}
        /\ device' = device /\ mapped' = mapped /\ pools' = pools /\ dists' = dists
    BY <1>1, <2>1 DEF Moves
  <2>3. todo' \in Seq(StepSet) /\ Course' /\ Complete'
    BY <2>1, MovesControl
  <2>4. Sizes' /\ Pooled' /\ Present'
    BY <1>1, <1>3, <2>2, UpKept
  <2>5. Timers' /\ Handler' /\ Opened'
    <3>1. Call("signal").op = "signal" /\ Call("init_ibv_context").op = "init_ibv_context"
      BY CallFields
    <3> QED
      BY <1>1, <1>4, <2>2, <3>1 DEF Timers, Handler, HandlerSet, Opened
  <2>6. Types' /\ Unparsed' /\ Closing' /\ Closed'
    BY <1>1, <1>2, <1>3, <2>2, <2>3 DEF Inv, Types, Unparsed, Closing, Closed
  <2> QED
    BY <1>2, <2>3, <2>4, <2>5, <2>6 DEF Inv, Effects
<1>6. CASE Fails
  <2>1. Stops
    BY <1>1, <1>6 DEF Fails, Ends, Stops
  <2>2. /\ config' = config /\ up' = up /\ phase' = "exited" /\ status' # "ok"
        /\ device' = device /\ mapped' = mapped /\ pools' = pools /\ dists' = dists
    BY <1>1, <1>6 DEF Fails, Ends
  <2>3. todo' \in Seq(StepSet) /\ Course' /\ Complete' /\ Closing' /\ Closed'
    BY <2>1, StopsControl
  <2>4. Sizes' /\ Timers' /\ Handler' /\ Opened' /\ Pooled' /\ Present'
    BY <1>4, <2>2 DEF Sizes, Timers, Handler, HandlerSet, Opened, Pooled, Present
  <2>5. Types' /\ Unparsed'
    BY <1>2, <1>3, <2>2, <2>3 DEF Inv, Types, Unparsed
  <2> QED
    BY <1>2, <2>3, <2>4, <2>5 DEF Inv, Effects
<1> QED
  BY <1>1, <1>5, <1>6

\* A timer is allocated only by a server built with timers.
LEMMA AllocLatencyDistInv ==
  ASSUME Inv, AllocLatencyDist
  PROVE  Inv'
<1>1. /\ phase = "main" /\ todo # <<>> /\ Head(todo).op = "alloc_latency_dist"
      /\ UNCHANGED <<config, device, mapped, pools, mr, refused>>
      /\ \/ Done /\ dists' = dists \cup {Head(todo).a}
         \/ Advance /\ UNCHANGED <<up, phase, status, dists>>
  BY DEF AllocLatencyDist, At
<1>2. Moves
  BY <1>1 DEF Done, Advance, Moves
<1>3. config # None /\ Allowed(config, Head(todo))
  BY <1>1, HeadFacts
<1>4. ~config.client /\ config.timers /\ Head(todo) \in ToSet(ForDists("alloc_latency_dist"))
  BY <1>1, <1>3 DEF Allowed
<1>5. Head(todo).a \in ToSet(Dists)
  <2>1. PICK u : u = ForDists("alloc_latency_dist")
    OBVIOUS
  <2>2. "alloc_latency_dist" \in Ops
    BY DEF Ops
  <2>3. \A i \in DOMAIN u : u[i].a \in ToSet(Dists)
    BY <2>1, <2>2, DistSteps
  <2> QED
    BY <1>4, <2>1, <2>3 DEF ToSet
<1>6. /\ config' = config /\ phase' = "main" /\ status' = status /\ up' \subseteq up \cup {Head(todo)}
      /\ device' = device /\ mapped' = mapped /\ pools' = pools /\ mr' = mr
      /\ dists' \subseteq dists \cup {Head(todo).a}
  BY <1>1, <1>2 DEF Moves
<1>7. todo' \in Seq(StepSet) /\ Course' /\ Complete'
  BY <1>2, MovesControl
<1>8. Sizes' /\ Pooled' /\ Present'
  BY <1>1, <1>3, <1>6, UpKept
<1>9. Registered /\ Handler /\ Opened /\ Backed
  BY <1>3 DEF Inv, Effects
<1>10. Handler' /\ Opened'
  <2>1. Call("signal").op = "signal" /\ Call("init_ibv_context").op = "init_ibv_context"
    BY CallFields
  <2> QED
    BY <1>1, <1>6, <1>9, <2>1 DEF Handler, HandlerSet, Opened
<1>11. Registered' /\ Backed' /\ Timers'
  BY <1>4, <1>6, <1>9 DEF Registered, Backed, Timers
<1>12. dists' \subseteq ToSet(Dists)
  BY <1>5, <1>6 DEF Inv, Types
<1>13. Types' /\ Unparsed' /\ Closing' /\ Closed'
  BY <1>1, <1>3, <1>6, <1>7, <1>12 DEF Inv, Types, Unparsed, Closing, Closed
<1> QED
  BY <1>7, <1>8, <1>10, <1>11, <1>13 DEF Inv, Effects

\* The steps that only succeed, fail or are not looked at, and the ends.
LEMMA QuietInv ==
  ASSUME Inv, TimeInit \/ Create \/ InitWorkload \/ InstallHandler \/ WriteReady \/ LoopFails \/ AddLatencyCrash
  PROVE  Inv'
<1>1. UNCHANGED data
  BY DEF TimeInit, Create, InitWorkload, InstallHandler, WriteReady, LoopFails, AddLatencyCrash, data
<1>2. \/ Stops
      \/ Moves /\ Head(todo).op \notin {"server_memory_init", "mempool_memory_init", "init_ibv_context"}
  <2>1. CASE TimeInit
    BY <2>1 DEF TimeInit, At, Done, Advance, Moves
  <2>2. CASE Create
    BY <2>2 DEF Create, Creates, At, Done, Advance, Fails, Ends, Moves, Stops
  <2>3. CASE InitWorkload
    BY <2>3 DEF InitWorkload, NothingToShuffle, At, Done, Advance, Fails, Ends, Moves, Stops
  <2>4. CASE InstallHandler
    BY <2>4 DEF InstallHandler, At, Done, Advance, Moves
  <2>5. CASE WriteReady
    BY <2>5 DEF WriteReady, At, Done, Advance, Fails, Ends, Moves, Stops
  <2>6. CASE LoopFails \/ AddLatencyCrash
    BY <2>6 DEF LoopFails, AddLatencyCrash, Fails, Ends, Stops
  <2> QED
    BY <2>1, <2>2, <2>3, <2>4, <2>5, <2>6
<1> QED
  BY <1>1, <1>2, QuietMoves, QuietStops

\* The arguments are parsed once.
LEMMA ParsedOnce ==
  ASSUME Inv, phase = "main", todo # <<>>, Head(todo).op = "parse_args"
  PROVE  config = None
<1>1. ASSUME config # None PROVE FALSE
  <2>1. todo \in Seq(StepSet) /\ \A i \in DOMAIN todo : Allowed(config, todo[i])
    BY <1>1 DEF Inv, Types, Course
  <2>2. Allowed(config, Head(todo))
    BY <2>1, TailSteps
  <2> QED
    BY <2>2 DEF Allowed
<1> QED
  BY <1>1

\* With the arguments parsed, main's steps are those of the configuration.
LEMMA ParseArgsInv ==
  ASSUME Inv, NEW c \in Configs, ParseArgs(c)
  PROVE  Inv'
<1>1. /\ phase = "main" /\ todo # <<>> /\ Head(todo).op = "parse_args" /\ UNCHANGED data /\ up' = up
      /\ \/ Fails /\ config' = config
         \/ /\ config' = c
            /\ IF c.segment_size = 0 THEN Ends("crashed", None)
               ELSE todo' = Main(c) /\ phase' = phase /\ status' = status
  BY DEF ParseArgs, At, data, Fails
<1>2. CASE Fails /\ config' = config
  <2>1. Stops
    BY <1>1, <1>2 DEF Fails, Ends, Stops
  <2> QED
    BY <1>1, <2>1, QuietStops
<1>3. CASE config' = c /\ IF c.segment_size = 0 THEN Ends("crashed", None)
                          ELSE todo' = Main(c) /\ phase' = phase /\ status' = status
  <2>1. config = None
    BY <1>1, ParsedOnce
  <2>2. /\ up \subseteq {Call("time_init")} /\ DOMAIN mapped = {} /\ dists = {} /\ status # "ok"
        /\ \A m \in DOMAIN mr : mr[m] = None
    BY <2>1 DEF Inv, Unparsed
  <2>3. config' # None /\ config' \in Configs /\ mapped' = mapped /\ dists' = dists /\ mr' = mr
    BY <1>1, <1>3, LifecycleAssumption DEF data
  <2>4. Call("time_init").op = "time_init" /\ Call("signal").op = "signal"
        /\ Call("ready_file").op = "ready_file" /\ Call("init_ibv_context").op = "init_ibv_context"
    BY CallFields
  <2>5. Call("signal") \notin up' /\ Call("ready_file") \notin up' /\ Call("init_ibv_context") \notin up'
    BY <1>1, <2>2, <2>4
  <2>6. ASSUME NEW r PROVE MapStep(c, r) \notin up' /\ MapPool(r) \notin up'
    <3>1. MapStep(c, r).op # "time_init" /\ MapPool(r).op # "time_init"
      BY MapStepFields, PoolFields
    <3> QED
      BY <1>1, <2>2, <2>4, <3>1
  <2>7. Effects'
    <3>1. Sizes' /\ Registered' /\ Timers' /\ Backed'
      BY <2>2, <2>3 DEF Sizes, Registered, Timers, Backed
    <3>2. Handler' /\ Opened' /\ Pooled' /\ Present'
      BY <1>3, <2>5, <2>6 DEF Handler, HandlerSet, Opened, Pooled, Present
    <3> QED
      BY <3>1, <3>2 DEF Effects
  <2>8. Unparsed'
    BY <2>3 DEF Unparsed
  <2>9. CASE c.segment_size = 0
    <3>1. phase' = "crashed" /\ status' = None /\ todo' = <<>>
      BY <1>3, <2>9 DEF Ends
    <3>2. status' # "ok" /\ todo' \in Seq(StepSet)
      BY <3>1, LifecycleAssumption
    <3>3. Types' /\ Course' /\ Complete' /\ Closing' /\ Closed'
      BY <2>3, <2>5, <3>1, <3>2 DEF Inv, Types, Course, Complete, HandlerSet, Closing, Closed
    <3> QED
      BY <2>7, <2>8, <3>3 DEF Inv
  <2>10. CASE c.segment_size # 0
    <3>1. phase' = "main" /\ status' = status /\ todo' = Main(c)
      BY <1>1, <1>3, <2>10
    <3>2. Part(c, todo', up') /\ SetUp(c) \subseteq ToSet(todo')
      BY <3>1, MainPart
    <3>3. todo' \in Seq(StepSet) /\ Ready(c, todo', up') /\ \A i \in DOMAIN todo' : Allowed(c, todo'[i])
      BY <3>2 DEF Part
    <3>4. Course'
      BY <1>3, <3>2, <3>3 DEF Course
    <3>5. Types' /\ Complete' /\ Closing' /\ Closed'
      BY <2>2, <2>3, <2>5, <3>1, <3>3 DEF Inv, Types, Complete, HandlerSet, Closing, Closed
    <3> QED
      BY <2>7, <2>8, <3>4, <3>5 DEF Inv
  <2> QED
    BY <2>9, <2>10
<1> QED
  BY <1>1, <1>2, <1>3

---------------------------------------------------------------------------
\* The clean-up.

\* Lengths in pages.
LEMMA AlignUp ==
  ASSUME NEW n \in Nat
  PROVE  /\ align_up(n) \in Nat /\ align_up(n) >= n /\ align_up(n) % Pgsize = 0
         /\ n % Pgsize = 0 => align_up(n) = n
<1>1. PICK p \in Nat \ {0} : p = Pgsize
  BY LifecycleAssumption
<1>2. PICK t \in Nat : t = n + p - 1
  OBVIOUS
<1>3. PICK q \in Int, r \in 0 .. p - 1 : t = p * q + r /\ q = t \div p /\ r = t % p
  BY DivMod
<1>4. q \in Nat
  BY <1>3
<1>5. align_up(n) = q * p /\ p * q \in Nat /\ q * p = p * q
  BY <1>1, <1>2, <1>3, <1>4 DEF align_up
<1>6. PICK a \in Nat : a = p * q
  BY <1>5
<1>7. a >= n
  <2>1. n + p - 1 = a + r
    BY <1>2, <1>3, <1>6
  <2> QED
    BY <2>1
<1>8. a % p = 0
  <2>1. PICK z \in 0 .. p - 1 : z = 0
    OBVIOUS
  <2>2. a = p * q + z
    BY <1>6, <2>1
  <2>3. a % p = z
    BY <2>2, ModUnique
  <2> QED
    BY <2>1, <2>3
<1>9. ASSUME n % p = 0 PROVE a = n
  <2>1. PICK k \in Int, s \in 0 .. p - 1 : n = p * k + s /\ k = n \div p /\ s = n % p
    BY DivMod
  <2>2. n = p * k
    BY <1>9, <2>1
  <2>3. PICK e \in 0 .. p - 1 : e = p - 1
    OBVIOUS
  <2>4. t = p * k + e
    BY <1>2, <2>2, <2>3
  <2>5. t \div p = k
    BY <2>4, ModUnique
  <2> QED
    BY <1>3, <1>6, <2>2, <2>5
<1> QED
  BY <1>1, <1>5, <1>6, <1>7, <1>8, <1>9

\* The steps of the clean-up.
LEMMA DeregisterFields ==
  ASSUME NEW m
  PROVE  /\ Deregister(m).op = "memory_deregistration" /\ Deregister(m).a = m
         /\ (m \in {"tx_mr", "rx_mr"} => Deregister(m) \in StepSet)
<1>1. "memory_deregistration" \in Ops /\ None \in Names /\ (m \in {"tx_mr", "rx_mr"} => m \in Names)
  BY DEF Ops, Names
<1> QED
  BY <1>1, StepFields DEF Deregister

\* The step that unmaps a region names its length in pages.
LEMMA UnmapFields ==
  ASSUME NEW c \in Configs, NEW r
  PROVE  /\ Unmap(c, r).op = "munmap" /\ Unmap(c, r).a = r /\ Unmap(c, r).b = align_up(LenOf(c, r))
         /\ LenOf(c, r) \in Nat /\ align_up(LenOf(c, r)) \in Nat
         /\ align_up(LenOf(c, r)) >= LenOf(c, r) /\ align_up(LenOf(c, r)) % Pgsize = 0
         /\ (r \in Regions(c) => Unmap(c, r) \in StepSet)
         /\ (r # "working_set" => Unmap(c, r).b # 0)
<1>1. c.working_set_size \in Nat /\ PoolLen \in Nat \ {0}
  BY LifecycleAssumption
<1>2. LenOf(c, r) \in Nat /\ (r # "working_set" => LenOf(c, r) > 0)
  BY <1>1 DEF LenOf
<1>3. PICK n \in Nat : n = LenOf(c, r)
  BY <1>2
<1>4. align_up(n) \in Nat /\ align_up(n) >= n /\ align_up(n) % Pgsize = 0
  BY AlignUp
<1>5. "munmap" \in Ops /\ (r \in Regions(c) => r \in Names)
  BY DEF Ops, Names, Regions
<1>6. Unmap(c, r) = Step("munmap", r, align_up(n))
  BY <1>3 DEF Unmap
<1>7. /\ Unmap(c, r).op = "munmap" /\ Unmap(c, r).a = r /\ Unmap(c, r).b = align_up(n)
      /\ (r \in Regions(c) => Unmap(c, r) \in StepSet)
  BY <1>4, <1>5, <1>6, StepFields
<1>8. r # "working_set" => Unmap(c, r).b # 0
  BY <1>2, <1>3, <1>4, <1>7
<1> QED
  BY <1>2, <1>3, <1>4, <1>7, <1>8

\* Lists that deregister two regions before they unmap them.
LEMMA TidyFive ==
  ASSUME NEW c \in Configs, NEW regs, NEW m1 \in {"tx_mr", "rx_mr"}, NEW m2 \in {"tx_mr", "rx_mr"}, m1 # m2,
         NEW r1 \in Regions(c), NEW r2 \in Regions(c), r1 \notin {"mbuf", "working_set", r2}, r2 # "mbuf",
         regs[m1] \in {None, r1}, regs[m2] \in {None, r2}, NEW u,
         u = <<Unmap(c, "mbuf"), Deregister(m1), Unmap(c, r1), Deregister(m2), Unmap(c, r2)>>
  PROVE  Tidy(c, u, regs)
<1>1. PICK x1 : x1 = Unmap(c, "mbuf")
  OBVIOUS
<1>2. PICK x2 : x2 = Deregister(m1)
  OBVIOUS
<1>3. PICK x3 : x3 = Unmap(c, r1)
  OBVIOUS
<1>4. PICK x4 : x4 = Deregister(m2)
  OBVIOUS
<1>5. PICK x5 : x5 = Unmap(c, r2)
  OBVIOUS
<1>6. "mbuf" \in Regions(c)
  BY DEF Regions
<1>7. x1 \in StepSet /\ x1.op = "munmap" /\ x1.a = "mbuf" /\ x1.b # 0
  BY <1>1, <1>6, UnmapFields
<1>8. x2 \in StepSet /\ x2.op # "munmap" /\ x4 \in StepSet /\ x4.op # "munmap"
  BY <1>2, <1>4, DeregisterFields
<1>9. x3 \in StepSet /\ x3.op = "munmap" /\ x3.a = r1 /\ x3.b # 0
  BY <1>3, UnmapFields
<1>10. x5 \in StepSet /\ x5.op = "munmap" /\ x5.a = r2
  BY <1>5, UnmapFields
<1>11. u = <<x1, x2, x3, x4, x5>>
  BY <1>1, <1>2, <1>3, <1>4, <1>5
<1>12. /\ u \in Seq(StepSet) /\ DOMAIN u = {1, 2, 3, 4, 5} /\ Len(u) = 5
       /\ u[1] = x1 /\ u[2] = x2 /\ u[3] = x3 /\ u[4] = x4 /\ u[5] = x5
  BY <1>7, <1>8, <1>9, <1>10, <1>11
<1>13. \A i \in DOMAIN u : CleanStep(c, u[i])
  <2>1. CleanStep(c, x1) /\ CleanStep(c, x2) /\ CleanStep(c, x3) /\ CleanStep(c, x4) /\ CleanStep(c, x5)
    BY <1>1, <1>2, <1>3, <1>4, <1>5, <1>6 DEF CleanStep
  <2> QED
    BY <1>12, <2>1
<1>14. ASSUME NEW i \in DOMAIN u, NEW m \in {"tx_mr", "rx_mr"}, regs[m] # None, u[i].op = "munmap",
              u[i].a = regs[m]
       PROVE  \E j \in 1 .. i - 1 : u[j] = Deregister(m)
  <2>1. CASE m = m1
    <3>1. regs[m] = r1
      BY <1>14, <2>1
    <3>2. i = 3
      BY <1>7, <1>8, <1>9, <1>10, <1>12, <1>14, <3>1
    <3>3. 2 \in 1 .. i - 1 /\ u[2] = Deregister(m)
      BY <1>2, <1>12, <2>1, <3>2
    <3> QED
      BY <3>3
  <2>2. CASE m = m2
    <3>1. regs[m] = r2
      BY <1>14, <2>2
    <3>2. i = 5
      BY <1>7, <1>8, <1>9, <1>10, <1>12, <1>14, <3>1
    <3>3. 4 \in 1 .. i - 1 /\ u[4] = Deregister(m)
      BY <1>4, <1>12, <2>2, <3>2
    <3> QED
      BY <3>3
  <2> QED
    BY <1>14, <2>1, <2>2
<1>15. \A i \in DOMAIN u : u[i].op = "munmap" /\ u[i].b = 0 => i = Len(u)
  BY <1>7, <1>8, <1>9, <1>12
<1> QED
  BY <1>13, <1>14, <1>15 DEF Tidy

\* The elements of a list of five steps.
LEMMA FiveSteps ==
  ASSUME NEW x1 \in StepSet, NEW x2 \in StepSet, NEW x3 \in StepSet, NEW x4 \in StepSet, NEW x5 \in StepSet,
         NEW u, u = <<x1, x2, x3, x4, x5>>
  PROVE  /\ u \in Seq(StepSet) /\ \A i \in DOMAIN u : u[i] \in {x1, x2, x3, x4, x5}
         /\ x1 \in ToSet(u) /\ x2 \in ToSet(u) /\ x3 \in ToSet(u) /\ x4 \in ToSet(u) /\ x5 \in ToSet(u)
<1>1. /\ u \in Seq(StepSet) /\ DOMAIN u = {1, 2, 3, 4, 5}
      /\ u[1] = x1 /\ u[2] = x2 /\ u[3] = x3 /\ u[4] = x4 /\ u[5] = x5
  OBVIOUS
<1> QED
  BY <1>1 DEF ToSet

\* One more region, which is not registered, at the end.
LEMMA TidyMore ==
  ASSUME NEW c \in Configs, NEW regs, NEW u \in Seq(StepSet), Tidy(c, u, regs),
         \A i \in DOMAIN u : u[i].op = "munmap" => u[i].b # 0, NEW r \in Regions(c),
         \A m \in {"tx_mr", "rx_mr"} : regs[m] # None => regs[m] # r,
         NEW v, v = u \o <<Unmap(c, r)>>
  PROVE  /\ v \in Seq(StepSet) /\ Tidy(c, v, regs)
         /\ Unmap(c, r) \in ToSet(v) /\ \A x : x \in ToSet(u) => x \in ToSet(v)
<1>1. PICK x \in StepSet : x = Unmap(c, r)
  BY UnmapFields
<1>2. PICK n \in Nat : n = Len(u)
  OBVIOUS
<1>3. <<x>> \in Seq(StepSet)
  OBVIOUS
<1>4. PICK t \in Seq(StepSet) : t = <<x>>
  BY <1>3, Zenon
<1>5. Len(t) = 1 /\ t[1] = x /\ DOMAIN t = {1}
  BY <1>4
<1>6. v = u \o t
  BY <1>1, <1>4
<1>7. /\ v \in Seq(StepSet) /\ Len(v) = n + 1 /\ DOMAIN v = 1 .. n + 1 /\ DOMAIN u = 1 .. n
      /\ \A i \in 1 .. n + 1 : v[i] = IF i <= n THEN u[i] ELSE t[i - n]
  BY <1>2, <1>5, <1>6, ConcatProperties, LenProperties
<1>8. v[n + 1] = x /\ \A i \in 1 .. n : v[i] = u[i]
  <2>1. PICK k \in 1 .. n + 1 : k = n + 1
    OBVIOUS
  <2>2. k - n = 1 /\ ~(k <= n)
    BY <2>1
  <2>3. v[k] = x
    BY <1>5, <1>7, <2>2
  <2>4. \A i \in 1 .. n : i \in 1 .. n + 1 /\ i <= n
    OBVIOUS
  <2> QED
    BY <1>7, <2>1, <2>3, <2>4
<1>9. \A i \in DOMAIN v : CleanStep(c, v[i])
  <2>1. CleanStep(c, x)
    BY <1>1 DEF CleanStep
  <2>2. \A i \in 1 .. n : CleanStep(c, u[i])
    BY <1>7 DEF Tidy
  <2> QED
    BY <1>7, <1>8, <2>1, <2>2
<1>10. ASSUME NEW i \in DOMAIN v, NEW m \in {"tx_mr", "rx_mr"}, regs[m] # None, v[i].op = "munmap",
             v[i].a = regs[m]
      PROVE  \E j \in 1 .. i - 1 : v[j] = Deregister(m)
  <2>1. CASE i \in 1 .. n
    <3>1. \E j \in 1 .. i - 1 : u[j] = Deregister(m)
      BY <1>7, <1>8, <1>10, <2>1 DEF Tidy
    <3> QED
      BY <1>8, <2>1, <3>1
  <2>2. CASE i = n + 1
    <3>1. x.a = r
      BY <1>1, UnmapFields
    <3> QED
      BY <1>8, <1>10, <2>2, <3>1
  <2> QED
    BY <1>7, <1>10, <2>1, <2>2
<1>11. \A i \in DOMAIN v : v[i].op = "munmap" /\ v[i].b = 0 => i = Len(v)
  BY <1>7, <1>8
<1>12. Tidy(c, v, regs)
  BY <1>9, <1>10, <1>11 DEF Tidy
<1>13. ToSet(v) = ToSet(u) \cup ToSet(t)
  BY <1>6, ToSetConcat
<1>14. ToSet(t) = {x}
  BY <1>5 DEF ToSet
<1> QED
  BY <1>1, <1>7, <1>12, <1>13, <1>14

\* Steps for the timers before such a list.
LEMMA TidyAfter ==
  ASSUME NEW c, NEW regs, NEW s \in Seq(StepSet), NEW t \in Seq(StepSet), Tidy(c, t, regs), NEW u, u = s \o t,
         \A i \in DOMAIN s : s[i].op \in {"dump_debug_latencies", "free_latency_dist"}
  PROVE  Tidy(c, u, regs)
<1>1. /\ Len(s) \in Nat /\ Len(t) \in Nat /\ DOMAIN s = 1 .. Len(s) /\ DOMAIN t = 1 .. Len(t)
      /\ Len(u) = Len(s) + Len(t) /\ DOMAIN u = 1 .. Len(s) + Len(t)
      /\ \A i \in 1 .. Len(s) + Len(t) : u[i] = IF i <= Len(s) THEN s[i] ELSE t[i - Len(s)]
  BY ConcatProperties, LenProperties
<1>2. ASSUME NEW i \in DOMAIN u
      PROVE  \/ u[i].op \in {"dump_debug_latencies", "free_latency_dist"}
             \/ \E k \in DOMAIN t : i = k + Len(s) /\ u[i] = t[k]
  <2>1. CASE i <= Len(s)
    BY <1>1, <1>2, <2>1
  <2>2. CASE ~(i <= Len(s))
    <3>1. i - Len(s) \in DOMAIN t /\ i = (i - Len(s)) + Len(s) /\ u[i] = t[i - Len(s)]
      BY <1>1, <1>2, <2>2
    <3> QED
      BY <3>1
  <2> QED
    BY <2>1, <2>2
<1>3. \A i \in DOMAIN u : CleanStep(c, u[i])
  BY <1>2 DEF CleanStep, Tidy
<1>4. ASSUME NEW i \in DOMAIN u, NEW m \in {"tx_mr", "rx_mr"}, regs[m] # None, u[i].op = "munmap",
             u[i].a = regs[m]
      PROVE  \E j \in 1 .. i - 1 : u[j] = Deregister(m)
  <2>1. PICK k \in DOMAIN t : i = k + Len(s) /\ u[i] = t[k]
    BY <1>2, <1>4
  <2>2. PICK j \in 1 .. k - 1 : t[j] = Deregister(m)
    BY <1>4, <2>1 DEF Tidy
  <2>3. PICK h \in Nat : h = j + Len(s)
    BY <1>1, <2>1
  <2>4. h \in 1 .. i - 1 /\ h \in 1 .. Len(s) + Len(t) /\ ~(h <= Len(s)) /\ h - Len(s) = j
    BY <1>1, <2>1, <2>2, <2>3
  <2>5. u[h] = Deregister(m)
    BY <1>1, <2>2, <2>4
  <2> QED
    BY <2>4, <2>5
<1>5. ASSUME NEW i \in DOMAIN u, u[i].op = "munmap", u[i].b = 0 PROVE i = Len(u)
  <2>1. PICK k \in DOMAIN t : i = k + Len(s) /\ u[i] = t[k]
    BY <1>2, <1>5
  <2>2. k = Len(t)
    BY <1>5, <2>1 DEF Tidy
  <2> QED
    BY <1>1, <2>1, <2>2
<1> QED
  BY <1>3, <1>4, <1>5 DEF Tidy

\* Four steps and one more.
LEMMA AppendFive ==
  ASSUME NEW x1 \in StepSet, NEW x2 \in StepSet, NEW x3 \in StepSet, NEW x4 \in StepSet, NEW x5 \in StepSet
  PROVE  <<x1, x2, x3, x4>> \o <<x5>> = <<x1, x2, x3, x4, x5>>
<1> DEFINE s == <<x1, x2, x3, x4>>
           t == <<x5>>
           u == <<x1, x2, x3, x4, x5>>
<1>1. /\ s \in Seq(StepSet) /\ t \in Seq(StepSet) /\ u \in Seq(StepSet)
      /\ Len(s) = 4 /\ Len(t) = 1 /\ Len(u) = 5
      /\ s[1] = x1 /\ s[2] = x2 /\ s[3] = x3 /\ s[4] = x4 /\ t[1] = x5
      /\ u[1] = x1 /\ u[2] = x2 /\ u[3] = x3 /\ u[4] = x4 /\ u[5] = x5
  OBVIOUS
<1> HIDE DEF s, t, u
<1>2. /\ s \o t \in Seq(StepSet) /\ Len(s \o t) = Len(s) + Len(t)
      /\ \A i \in 1 .. Len(s) + Len(t) : (s \o t)[i] = IF i <= Len(s) THEN s[i] ELSE t[i - Len(s)]
  BY <1>1, ConcatProperties
<1>3. \A i \in 1 .. 5 : u[i] = (s \o t)[i]
  BY <1>1, <1>2
<1>4. u = s \o t
  BY <1>1, <1>2, <1>3, SeqEqual, SMTT(30)
<1> QED
  BY <1>4 DEF s, t, u

\* An optional step that is left out.
LEMMA AppendNone ==
  ASSUME NEW S, NEW s \in Seq(S)
  PROVE  s \o <<>> = s
  BY ConcatEmptySeq

\* cleanup_mlx5 has a step for every region and both registrations.
LEMMA CleanupList ==
  ASSUME Inv, config # None, SetUp(config) \subseteq up, NEW u, u = cleanup_mlx5(config)
  PROVE  /\ u \in Seq(StepSet) /\ Tidy(config, u, mr)
         /\ \A r \in Regions(config) : Unmap(config, r) \in ToSet(u)
         /\ \A m \in {"tx_mr", "rx_mr"} : Deregister(m) \in ToSet(u)
<1>1. /\ config \in Configs /\ Registered /\ Pooled
      /\ \A m \in {"tx_mr", "rx_mr"} : mr[m] \in {None, RegionOf(config, m)}
  BY DEF Inv, Types, Effects, Registered
<1>2. ASSUME NEW r \in Regions(config) \ {"working_set"} PROVE PoolUnmap(r) = Unmap(config, r)
  <2>1. MapPool(r) \in up
    <3>1. MapStep(config, r) = MapPool(r)
      BY <1>1, <1>2, MapStepFields
    <3>2. MapStep(config, r) \in SetUp(config)
      BY <1>1, <1>2, MainPart
    <3> QED
      BY <3>1, <3>2
  <2>2. r \in pools /\ PoolLen % Pgsize = 0
    BY <1>1, <1>2, <2>1 DEF Pooled
  <2>3. PoolLen \in Nat
    BY LifecycleAssumption
  <2>4. align_up(PoolLen) = PoolLen
    BY <2>2, <2>3, AlignUp
  <2>5. LenOf(config, r) = PoolLen
    BY <1>2 DEF LenOf
  <2> QED
    BY <2>2, <2>4, <2>5 DEF PoolUnmap, Unmap
<1>3. Step("munmap", "working_set", align_up(config.working_set_size)) = Unmap(config, "working_set")
  BY DEF Unmap, LenOf
<1>4. "mbuf" \in Regions(config) \ {"working_set"} /\ "rx" \in Regions(config) \ {"working_set"}
  BY DEF Regions
<1>5. PICK a : a = Unmap(config, "mbuf")
  OBVIOUS
<1>6. PICK b : b = Unmap(config, "rx")
  OBVIOUS
<1>7. PICK w : w = Unmap(config, "working_set")
  OBVIOUS
<1>8. PICK t : t = Unmap(config, "tx")
  OBVIOUS
<1>9. PICK g : g = Deregister("tx_mr")
  OBVIOUS
<1>10. PICK h : h = Deregister("rx_mr")
  OBVIOUS
<1>11. a \in StepSet /\ b \in StepSet /\ g \in StepSet /\ h \in StepSet
  BY <1>1, <1>4, <1>5, <1>6, <1>9, <1>10, UnmapFields, DeregisterFields
<1>12. PoolUnmap("mbuf") = a /\ PoolUnmap("rx") = b
  BY <1>2, <1>4, <1>5, <1>6
<1>13. CASE config.client
  <2>1. /\ "tx" \in Regions(config) \ {"working_set"} /\ RegionOf(config, "tx_mr") = "tx"
        /\ RegionOf(config, "rx_mr") = "rx" /\ Regions(config) = {"mbuf", "rx", "tx"}
    BY <1>13 DEF Regions, RegionOf
  <2>2. PoolUnmap("tx") = t
    BY <1>2, <1>8, <2>1
  <2>3. u = <<a, g, t, h, b>>
    BY <1>9, <1>10, <1>12, <1>13, <2>2 DEF cleanup_mlx5
  <2>4. Tidy(config, u, mr)
    <3>1. mr["tx_mr"] \in {None, "tx"} /\ mr["rx_mr"] \in {None, "rx"}
      BY <1>1, <2>1
    <3>2. u = <<Unmap(config, "mbuf"), Deregister("tx_mr"), Unmap(config, "tx"), Deregister("rx_mr"),
               Unmap(config, "rx")>>
      BY <1>5, <1>6, <1>8, <1>9, <1>10, <2>3
    <3>3. /\ "tx" \in Regions(config) /\ "rx" \in Regions(config)
          /\ "tx_mr" \in {"tx_mr", "rx_mr"} /\ "rx_mr" \in {"tx_mr", "rx_mr"} /\ "tx_mr" # "rx_mr"
          /\ "tx" \notin {"mbuf", "working_set", "rx"} /\ "rx" # "mbuf"
          /\ "rx" \notin {"mbuf", "working_set", "tx"} /\ "tx" # "mbuf"
      BY <2>1
    <3> QED
      BY <1>1, <3>1, <3>2, <3>3, TidyFive
  <2>5. \A r \in Regions(config) : Unmap(config, r) \in {a, t, b}
    BY <1>5, <1>6, <1>8, <2>1
  <2>6. t \in StepSet
    BY <1>1, <1>8, <2>1, UnmapFields
  <2>7. u \in Seq(StepSet) /\ a \in ToSet(u) /\ g \in ToSet(u) /\ t \in ToSet(u) /\ h \in ToSet(u) /\ b \in ToSet(u)
    BY <1>11, <2>3, <2>6, FiveSteps
  <2> QED
    BY <1>9, <1>10, <2>4, <2>5, <2>7
<1>14. CASE ~config.client /\ config.zero_copy
  <2>1. /\ "working_set" \in Regions(config) /\ RegionOf(config, "tx_mr") = "working_set"
        /\ RegionOf(config, "rx_mr") = "rx" /\ Regions(config) = {"mbuf", "rx", "working_set"}
    BY <1>14 DEF Regions, RegionOf
  <2>2. w \in StepSet
    BY <1>1, <1>7, <2>1, UnmapFields
  <2>3. u = <<a, h, b, g, w>>
    <3>1. u = (<<a, h, b, g>> \o <<>>) \o <<w>>
      BY <1>3, <1>7, <1>9, <1>10, <1>12, <1>14 DEF cleanup_mlx5, Optional
    <3>2. <<a, h, b, g>> \in Seq(StepSet)
      BY <1>11
    <3>3. <<a, h, b, g>> \o <<>> = <<a, h, b, g>>
      BY <3>2, AppendNone, Zenon
    <3>4. <<a, h, b, g>> \o <<w>> = <<a, h, b, g, w>>
      BY <1>11, <2>2, AppendFive
    <3> QED
      BY <3>1, <3>3, <3>4, Zenon
  <2>4. Tidy(config, u, mr)
    <3>1. mr["tx_mr"] \in {None, "working_set"} /\ mr["rx_mr"] \in {None, "rx"}
      BY <1>1, <2>1
    <3>2. u = <<Unmap(config, "mbuf"), Deregister("rx_mr"), Unmap(config, "rx"), Deregister("tx_mr"),
               Unmap(config, "working_set")>>
      BY <1>5, <1>6, <1>7, <1>9, <1>10, <2>3
    <3>3. "working_set" \in Regions(config) /\ "rx" \in Regions(config)
      BY <2>1
    <3> QED
      BY <1>1, <3>1, <3>2, <3>3, TidyFive
  <2>5. \A r \in Regions(config) : Unmap(config, r) \in {a, w, b}
    BY <1>5, <1>6, <1>7, <2>1
  <2>6. u \in Seq(StepSet) /\ a \in ToSet(u) /\ h \in ToSet(u) /\ b \in ToSet(u) /\ g \in ToSet(u) /\ w \in ToSet(u)
    BY <1>11, <2>2, <2>3, FiveSteps
  <2> QED
    BY <1>9, <1>10, <2>4, <2>5, <2>6
<1>15. CASE ~config.client /\ ~config.zero_copy
  <2>1. /\ "tx" \in Regions(config) \ {"working_set"} /\ RegionOf(config, "tx_mr") = "tx"
        /\ "working_set" \in Regions(config)
        /\ RegionOf(config, "rx_mr") = "rx" /\ Regions(config) = {"mbuf", "rx", "tx", "working_set"}
    BY <1>15 DEF Regions, RegionOf
  <2>2. PoolUnmap("tx") = t /\ t \in StepSet
    BY <1>1, <1>2, <1>8, <2>1, UnmapFields
  <2>3. PICK v : v = <<a, h, b, g, t>>
    OBVIOUS
  <2>4. u = v \o <<w>>
    <3>1. u = (<<a, h, b, g>> \o <<t>>) \o <<w>>
      BY <1>3, <1>7, <1>9, <1>10, <1>12, <1>15, <2>2 DEF cleanup_mlx5, Optional
    <3>2. <<a, h, b, g>> \o <<t>> = <<a, h, b, g, t>>
      BY <1>11, <2>2, AppendFive
    <3> QED
      BY <2>3, <3>1, <3>2, Zenon
  <2>5. Tidy(config, v, mr)
    <3>1. mr["tx_mr"] \in {None, "tx"} /\ mr["rx_mr"] \in {None, "rx"}
      BY <1>1, <2>1
    <3>2. v = <<Unmap(config, "mbuf"), Deregister("rx_mr"), Unmap(config, "rx"), Deregister("tx_mr"),
               Unmap(config, "tx")>>
      BY <1>5, <1>6, <1>8, <1>9, <1>10, <2>3
    <3>3. /\ "tx" \in Regions(config) /\ "rx" \in Regions(config)
          /\ "tx_mr" \in {"tx_mr", "rx_mr"} /\ "rx_mr" \in {"tx_mr", "rx_mr"} /\ "tx_mr" # "rx_mr"
          /\ "tx" \notin {"mbuf", "working_set", "rx"} /\ "rx" # "mbuf"
          /\ "rx" \notin {"mbuf", "working_set", "tx"} /\ "tx" # "mbuf"
      BY <2>1
    <3> QED
      BY <1>1, <3>1, <3>2, <3>3, TidyFive
  <2>6. /\ v \in Seq(StepSet) /\ \A i \in DOMAIN v : v[i] \in {a, h, b, g, t}
        /\ a \in ToSet(v) /\ h \in ToSet(v) /\ b \in ToSet(v) /\ g \in ToSet(v) /\ t \in ToSet(v)
    BY <1>11, <2>2, <2>3, FiveSteps
  <2>7. \A i \in DOMAIN v : v[i].op = "munmap" => v[i].b # 0
    <3>1. a.b # 0 /\ b.b # 0 /\ t.b # 0
      BY <1>1, <1>5, <1>6, <1>8, UnmapFields
    <3>2. g.op # "munmap" /\ h.op # "munmap"
      BY <1>9, <1>10, DeregisterFields
    <3> QED
      BY <2>6, <3>1, <3>2
  <2>8. \A m \in {"tx_mr", "rx_mr"} : mr[m] # None => mr[m] # "working_set"
    BY <1>1, <2>1
  <2>9. u = v \o <<Unmap(config, "working_set")>>
    BY <1>7, <2>4
  <2>10. v \in Seq(StepSet) /\ "working_set" \in Regions(config)
    BY <2>1, <2>6
  <2>11. /\ u \in Seq(StepSet) /\ Tidy(config, u, mr)
         /\ Unmap(config, "working_set") \in ToSet(u) /\ \A x : x \in ToSet(v) => x \in ToSet(u)
    BY <1>1, <2>5, <2>7, <2>8, <2>9, <2>10, TidyMore
  <2>12. \A r \in Regions(config) : Unmap(config, r) \in {a, w, b, t}
    BY <1>5, <1>6, <1>7, <1>8, <2>1
  <2> QED
    BY <1>7, <1>9, <1>10, <2>6, <2>11, <2>12
<1> QED
  BY <1>13, <1>14, <1>15

\* What cleanup_mlx5 and sig_handler start with covers everything there is.
LEMMA CleanupCovers ==
  ASSUME Inv, config # None, SetUp(config) \subseteq up, NEW t, t = cleanup_mlx5(config),
         NEW u \in Seq(StepSet), \A x \in ToSet(t) : x \in ToSet(u),
         \A d \in dists : Step("free_latency_dist", d, None) \in ToSet(u)
  PROVE  Covers(u)
<1>1. /\ \A r \in Regions(config) : Unmap(config, r) \in ToSet(t)
      /\ \A m \in {"tx_mr", "rx_mr"} : Deregister(m) \in ToSet(t)
  BY CleanupList
<1>2. Sizes /\ DOMAIN mr = {"tx_mr", "rx_mr"}
  BY DEF Inv, Types, Effects
<1>3. \A r \in DOMAIN mapped : r \in Regions(config)
  BY <1>2 DEF Sizes
<1> QED
  BY <1>1, <1>2, <1>3 DEF Covers

\* sig_handler has a step for every timer and then those of cleanup_mlx5.
LEMMA HandlerList ==
  ASSUME Inv, config # None, SetUp(config) \subseteq up, NEW u, u = sig_handler(config)
  PROVE  u \in Seq(StepSet) /\ Tidy(config, u, mr) /\ Covers(u)
<1>1. PICK t : t = cleanup_mlx5(config)
  OBVIOUS
<1>2. t \in Seq(StepSet) /\ Tidy(config, t, mr)
  BY <1>1, CleanupList
<1>3. /\ config \in Configs /\ dists \subseteq ToSet(Dists) /\ Timers
  BY DEF Inv, Types, Effects
<1>4. "dump_debug_latencies" \in Ops /\ "free_latency_dist" \in Ops
  BY DEF Ops
<1>5. CASE config.timers
  <2>1. PICK p : p = ForDists("dump_debug_latencies")
    OBVIOUS
  <2>2. PICK q : q = ForDists("free_latency_dist")
    OBVIOUS
  <2>3. p \in Seq(StepSet) /\ \A i \in DOMAIN p : p[i].op = "dump_debug_latencies"
    BY <1>4, <2>1, DistSteps
  <2>4. /\ q \in Seq(StepSet) /\ \A i \in DOMAIN q : q[i].op = "free_latency_dist"
        /\ \A d \in ToSet(Dists) : Step("free_latency_dist", d, None) \in ToSet(q)
    BY <1>4, <2>2, DistSteps
  <2>5. p \o q \in Seq(StepSet)
    BY <2>3, <2>4, ConcatProperties
  <2>6. PICK s \in Seq(StepSet) : s = p \o q
    BY <2>5, Zenon
  <2>7. /\ Len(p) \in Nat /\ Len(q) \in Nat /\ DOMAIN p = 1 .. Len(p) /\ DOMAIN q = 1 .. Len(q)
        /\ DOMAIN s = 1 .. Len(p) + Len(q)
        /\ \A i \in 1 .. Len(p) + Len(q) : s[i] = IF i <= Len(p) THEN p[i] ELSE q[i - Len(p)]
    BY <2>3, <2>4, <2>6, ConcatProperties, LenProperties
  <2>8. ASSUME NEW i \in DOMAIN s PROVE s[i].op \in {"dump_debug_latencies", "free_latency_dist"}
    <3>1. CASE i <= Len(p)
      BY <2>3, <2>7, <2>8, <3>1
    <3>2. CASE ~(i <= Len(p))
      <4>1. i - Len(p) \in DOMAIN q /\ s[i] = q[i - Len(p)]
        BY <2>7, <2>8, <3>2
      <4> QED
        BY <2>4, <4>1
    <3> QED
      BY <3>1, <3>2
  <2>9. u = s \o t
    BY <1>1, <1>5, <2>1, <2>2, <2>6 DEF sig_handler
  <2>10. u \in Seq(StepSet) /\ ToSet(u) = ToSet(s) \cup ToSet(t)
    BY <1>2, <2>9, ConcatProperties, ToSetConcat
  <2>11. ToSet(s) = ToSet(p) \cup ToSet(q)
    BY <2>3, <2>4, <2>6, ToSetConcat
  <2>12. Tidy(config, u, mr)
    BY <1>2, <2>8, <2>9, TidyAfter
  <2>13. \A d \in dists : Step("free_latency_dist", d, None) \in ToSet(u)
    BY <1>3, <2>4, <2>10, <2>11
  <2>14. \A x \in ToSet(t) : x \in ToSet(u)
    BY <2>10
  <2>15. Covers(u)
    BY <1>1, <2>10, <2>13, <2>14, CleanupCovers
  <2> QED
    BY <2>10, <2>12, <2>15
<1>6. CASE ~config.timers
  <2>1. dists = {}
    BY <1>3, <1>6 DEF Timers
  <2>2. u = <<>> \o t
    BY <1>1, <1>6 DEF sig_handler
  <2>3. u = t
    BY <1>2, <2>2, ConcatEmptySeq
  <2>4. Covers(u)
    BY <1>1, <1>2, <2>1, <2>3, CleanupCovers
  <2> QED
    BY <1>2, <2>3, <2>4
<1> QED
  BY <1>5, <1>6

---------------------------------------------------------------------------
\* The steps from main to the loops and from there to the end.

\* The clean-up undoes things and does nothing new.
LEMMA CleanupKeeps ==
  ASSUME Inv, config # None, SetUp(config) \subseteq up, status # "ok", phase' = "cleanup",
         UNCHANGED <<config, up, device, pools, status>>, todo' \in Seq(StepSet),
         dists' \subseteq dists, DOMAIN mr' = DOMAIN mr, \A m \in DOMAIN mr : mr'[m] \in {None, mr[m]},
         Sizes', Backed', Closing'
  PROVE  Inv'
<1>1. Registered /\ Timers /\ Handler /\ Opened /\ Pooled
  BY DEF Inv, Effects
<1>2. Types' /\ Unparsed'
  BY DEF Inv, Types, Unparsed
<1>3. Course' /\ Complete' /\ Closed'
  BY DEF Course, Complete, Closed
<1>4. Registered'
  BY <1>1 DEF Registered
<1>5. Timers' /\ Handler' /\ Opened' /\ Pooled' /\ Present'
  BY <1>1 DEF Timers, Handler, HandlerSet, Opened, Pooled, Present
<1>6. Effects'
  BY <1>4, <1>5 DEF Effects
<1> QED
  BY <1>2, <1>3, <1>6 DEF Inv

\* The clean-up begins.
LEMMA CleanupStarts ==
  ASSUME Inv, phase \in {"main", "run"}, config # None, SetUp(config) \subseteq up, phase' = "cleanup",
         UNCHANGED <<config, up, status>>, UNCHANGED data,
         todo' \in Seq(StepSet), Tidy(config, todo', mr), Covers(todo')
  PROVE  Inv'
<1>1. status # "ok" /\ Sizes /\ Backed
  BY DEF Inv, Closed, Effects
<1>2. UNCHANGED <<device, mapped, pools, dists, mr, refused>>
  BY DEF data
<1>3. Sizes' /\ Backed'
  BY <1>1, <1>2 DEF Sizes, Backed
<1>4. Tidy(config, todo, mr)'
  BY <1>2
<1>5. Covers(todo)'
  BY <1>2 DEF Covers
<1>6. Closing'
  BY <1>4, <1>5 DEF Closing
<1> QED
  BY <1>1, <1>2, <1>3, <1>6, CleanupKeeps

\* The end of do_client keeps the invariant.
LEMMA ClientEndsInv ==
  ASSUME Inv, ClientEnds
  PROVE  Inv'
<1>1. /\ phase = "run" /\ phase' = "cleanup" /\ config.client /\ UNCHANGED <<config, up, status>>
      /\ UNCHANGED data /\ todo' = cleanup_mlx5(config)
  BY DEF ClientEnds, data
<1>2. config # None /\ SetUp(config) \subseteq up
  BY <1>1 DEF Inv, Complete
<1>3. dists = {}
  BY <1>1, <1>2 DEF Inv, Effects, Timers
<1>4. PICK u : u = cleanup_mlx5(config)
  OBVIOUS
<1>5. u \in Seq(StepSet) /\ Tidy(config, u, mr)
  BY <1>2, <1>4, CleanupList
<1>6. Covers(u)
  BY <1>2, <1>3, <1>4, <1>5, CleanupCovers
<1>7. todo' = u
  BY <1>1, <1>4
<1> QED
  BY <1>1, <1>2, <1>5, <1>6, <1>7, CleanupStarts

\* SIGINT keeps the invariant, at whatever moment it comes.
LEMMA SigintInv ==
  ASSUME Inv, Sigint
  PROVE  Inv'
<1>1. UNCHANGED data /\ UNCHANGED <<config, up>>
  BY DEF Sigint, data
<1>2. CASE HandlerSet
  <2>1. /\ phase \in {"main", "run"} /\ phase' = "cleanup" /\ status' = status
        /\ todo' = sig_handler(config)
    BY <1>2 DEF Sigint
  <2>2. config # None /\ SetUp(config) \subseteq up
    BY <1>2 DEF Inv, Complete
  <2>3. PICK u : u = sig_handler(config)
    OBVIOUS
  <2>4. u \in Seq(StepSet) /\ Tidy(config, u, mr) /\ Covers(u)
    BY <2>2, <2>3, HandlerList
  <2>5. todo' = u
    BY <2>1, <2>3
  <2> QED
    BY <1>1, <2>1, <2>2, <2>4, <2>5, CleanupStarts
<1>3. CASE ~HandlerSet
  <2>1. Stops
    BY <1>1, <1>3 DEF Sigint, Ends, Stops
  <2> QED
    BY <1>1, <2>1, QuietStops
<1> QED
  BY <1>2, <1>3

\* A step that leaves what is there as it is.
LEMMA DataKept ==
  ASSUME Inv, UNCHANGED <<config, up>>, UNCHANGED data,
         phase' \in {"main", "run"} => phase \in {"main", "run"}
  PROVE  Effects'
<1>1. UNCHANGED <<device, mapped, pools, dists, mr, refused>>
  BY DEF data
<1>2. CASE config = None
  BY <1>2 DEF Effects
<1>3. CASE config # None
  <2>1. Sizes /\ Registered /\ Timers /\ Handler /\ Opened /\ Pooled /\ Present /\ Backed
    BY <1>3 DEF Inv, Effects
  <2>2. Sizes' /\ Registered' /\ Timers' /\ Backed'
    BY <1>1, <2>1 DEF Sizes, Registered, Timers, Backed
  <2>3. Handler' /\ Opened' /\ Pooled' /\ Present'
    BY <1>1, <2>1 DEF Handler, HandlerSet, Opened, Pooled, Present
  <2> QED
    BY <2>2, <2>3 DEF Effects
<1> QED
  BY <1>2, <1>3

\* The call of do_client or do_server keeps the invariant.
LEMMA RunInv ==
  ASSUME Inv, Run
  PROVE  Inv'
<1>1. /\ phase = "main" /\ todo = <<>> /\ phase' = "run" /\ UNCHANGED <<config, todo, up, status>>
      /\ UNCHANGED data /\ UNCHANGED <<device, mapped, pools, dists, mr, refused>>
  BY DEF Run, data
<1>2. config # None
  BY <1>1, UnparsedSteps
<1>3. ToSet(todo) = {}
  BY <1>1 DEF ToSet
<1>4. SetUp(config) \subseteq up
  BY <1>1, <1>2, <1>3 DEF Inv, Course
<1>5. Effects'
  BY <1>1, DataKept
<1>6. Types' /\ Unparsed'
  BY <1>1, <1>2 DEF Inv, Types, Unparsed
<1>7. Course' /\ Complete' /\ Closing'
  BY <1>1, <1>2, <1>4 DEF Course, Complete, Closing
<1>8. Closed'
  BY <1>1 DEF Inv, Closed
<1> QED
  BY <1>5, <1>6, <1>7, <1>8 DEF Inv

\* The exit after the clean-up keeps the invariant.
LEMMA ExitInv ==
  ASSUME Inv, Exit
  PROVE  Inv'
<1>1. /\ phase = "cleanup" /\ todo = <<>> /\ phase' = "exited" /\ status' = "ok" /\ todo' = <<>>
      /\ UNCHANGED <<config, up>> /\ UNCHANGED data /\ UNCHANGED <<device, mapped, pools, dists, mr, refused>>
  BY DEF Exit, Ends, data
<1>2. config # None /\ SetUp(config) \subseteq up
  BY <1>1 DEF Inv, Complete
<1>3. ToSet(todo) = {}
  BY <1>1 DEF ToSet
<1>4. ~refused => Covers(todo)
  BY <1>1 DEF Inv, Closing
<1>5. ~refused => DOMAIN mapped = {} /\ dists = {} /\ \A m \in DOMAIN mr : mr[m] = None
  BY <1>3, <1>4 DEF Covers
<1>6. Closed'
  BY <1>1, <1>5 DEF Closed, Released
<1>7. Effects'
  BY <1>1, DataKept
<1>8. todo' \in Seq(StepSet)
  BY <1>1
<1>9. Types' /\ Unparsed'
  BY <1>1, <1>2, <1>8 DEF Inv, Types, Unparsed
<1>10. Course' /\ Complete' /\ Closing'
  BY <1>1, <1>2 DEF Course, Complete, Closing
<1> QED
  BY <1>6, <1>7, <1>9, <1>10 DEF Inv

---------------------------------------------------------------------------
\* The steps of the clean-up.

\* The first step of a tidy list.
LEMMA TidyHead ==
  ASSUME NEW c, NEW regs, NEW s \in Seq(StepSet), s # <<>>, Tidy(c, s, regs)
  PROVE  /\ CleanStep(c, Head(s))
         /\ Head(s).op = "munmap" => \A m \in {"tx_mr", "rx_mr"} : regs[m] # None => regs[m] # Head(s).a
         /\ Head(s).op = "munmap" /\ Head(s).b = 0 => Tail(s) = <<>>
<1>1. /\ Len(s) \in Nat \ {0} /\ DOMAIN s = 1 .. Len(s) /\ s[1] = Head(s)
      /\ Tail(s) \in Seq(StepSet) /\ Len(Tail(s)) = Len(s) - 1
  BY TailSteps
<1>2. 1 \in DOMAIN s /\ 1 .. 1 - 1 = {}
  BY <1>1
<1>3. CleanStep(c, Head(s))
  BY <1>1, <1>2 DEF Tidy
<1>4. Head(s).op = "munmap" => \A m \in {"tx_mr", "rx_mr"} : regs[m] # None => regs[m] # Head(s).a
  BY <1>1, <1>2 DEF Tidy
<1>5. Head(s).op = "munmap" /\ Head(s).b = 0 => Len(Tail(s)) = 0
  BY <1>1, <1>2 DEF Tidy
<1>6. Len(Tail(s)) = 0 => Tail(s) = <<>>
  BY <1>1, EmptySeq
<1> QED
  BY <1>3, <1>4, <1>5, <1>6

\* The rest of it is tidy once the first step is taken.
LEMMA TidyTail ==
  ASSUME NEW c, NEW regs, NEW later, NEW s \in Seq(StepSet), s # <<>>, Tidy(c, s, regs),
         \A m \in {"tx_mr", "rx_mr"} : later[m] \in {None, regs[m]} /\ (Head(s) = Deregister(m) => later[m] = None)
  PROVE  Tidy(c, Tail(s), later)
<1>1. /\ Len(s) \in Nat \ {0} /\ DOMAIN s = 1 .. Len(s) /\ s[1] = Head(s)
      /\ Tail(s) \in Seq(StepSet) /\ Len(Tail(s)) = Len(s) - 1 /\ DOMAIN Tail(s) = 1 .. Len(s) - 1
      /\ \A i \in 1 .. Len(s) - 1 : Tail(s)[i] = s[i + 1]
  BY TailSteps
<1>2. PICK t : t = Tail(s)
  OBVIOUS
<1>3. PICK n : n = Len(s) - 1 /\ n \in Nat
  <2>1. Len(s) \in Nat \ {0}
    BY <1>1
  <2> QED
    BY <2>1
<1>4. /\ DOMAIN t = 1 .. n /\ Len(t) = n /\ \A i \in 1 .. n : t[i] = s[i + 1] /\ i + 1 \in DOMAIN s
  BY <1>1, <1>2, <1>3
<1>5. \A i \in DOMAIN t : CleanStep(c, t[i])
  BY <1>4 DEF Tidy
<1>6. ASSUME NEW i \in DOMAIN t, NEW m \in {"tx_mr", "rx_mr"}, later[m] # None, t[i].op = "munmap",
             t[i].a = later[m]
      PROVE  \E j \in 1 .. i - 1 : t[j] = Deregister(m)
  <2>1. regs[m] = later[m]
    BY <1>6
  <2>2. PICK k \in DOMAIN s : k = i + 1 /\ s[k] = t[i]
    BY <1>4, <1>6
  <2>3. PICK j \in 1 .. k - 1 : s[j] = Deregister(m)
    BY <1>6, <2>1, <2>2 DEF Tidy
  <2>4. j # 1
    BY <1>1, <1>6, <2>3
  <2>5. PICK h \in 1 .. i - 1 : h + 1 = j
    BY <1>4, <1>6, <2>2, <2>3, <2>4
  <2>6. t[h] = Deregister(m)
    BY <1>4, <1>6, <2>3, <2>5
  <2> QED
    BY <2>6
<1>7. \A i \in DOMAIN t : t[i].op = "munmap" /\ t[i].b = 0 => i = Len(t)
  BY <1>1, <1>3, <1>4 DEF Tidy
<1> QED
  BY <1>2, <1>5, <1>6, <1>7 DEF Tidy

\* What is left has a step in the rest.
LEMMA CoversTail ==
  ASSUME Inv, phase = "cleanup", todo # <<>>, Covers(todo), todo' = Tail(todo), config' = config,
         \A r \in DOMAIN mapped' : r \in DOMAIN mapped /\ Unmap(config, r) # Head(todo),
         DOMAIN mr' = DOMAIN mr,
         \A m \in DOMAIN mr : mr'[m] # None => mr[m] # None /\ Deregister(m) # Head(todo),
         \A d \in dists' : d \in dists /\ Step("free_latency_dist", d, None) # Head(todo)
  PROVE  Covers(todo)'
<1>1. todo \in Seq(StepSet)
  BY DEF Inv, Types
<1>2. ToSet(todo) = {Head(todo)} \cup ToSet(todo')
  BY <1>1, TailSteps
<1>3. \A r \in DOMAIN mapped' : Unmap(config, r) \in ToSet(todo')
  BY <1>2 DEF Covers
<1>4. \A m \in DOMAIN mr : mr'[m] # None => Deregister(m) \in ToSet(todo')
  BY <1>2 DEF Covers
<1>5. \A d \in dists' : Step("free_latency_dist", d, None) \in ToSet(todo')
  BY <1>2 DEF Covers
<1> QED
  BY <1>3, <1>4, <1>5 DEF Covers

\* The first step of the clean-up and what is known when it is taken.
LEMMA CleanupHead ==
  ASSUME Inv, phase = "cleanup", todo # <<>>
  PROVE  /\ config # None /\ config \in Configs /\ SetUp(config) \subseteq up /\ status # "ok"
         /\ todo \in Seq(StepSet) /\ Tail(todo) \in Seq(StepSet) /\ DOMAIN mr = {"tx_mr", "rx_mr"}
         /\ Tidy(config, todo, mr) /\ CleanStep(config, Head(todo)) /\ Sizes /\ Backed
         /\ ~refused => Covers(todo)
<1>1. /\ config # None /\ config \in Configs /\ SetUp(config) \subseteq up /\ status # "ok"
      /\ todo \in Seq(StepSet) /\ DOMAIN mr = {"tx_mr", "rx_mr"}
      /\ Tidy(config, todo, mr) /\ (~refused => Covers(todo))
  BY DEF Inv, Complete, Types, Closing, Closed
<1>2. Sizes /\ Backed
  BY <1>1 DEF Inv, Effects
<1>3. Tail(todo) \in Seq(StepSet)
  BY <1>1, TailSteps
<1>4. CleanStep(config, Head(todo))
  BY <1>1, TidyHead
<1> QED
  BY <1>1, <1>2, <1>3, <1>4

\* No two kinds of steps are the same.
LEMMA CleanOps ==
  ASSUME NEW c \in Configs
  PROVE  /\ \A r : Unmap(c, r).op = "munmap"
         /\ \A m : Deregister(m).op = "memory_deregistration"
         /\ \A d : Step("free_latency_dist", d, None).op = "free_latency_dist"
  BY UnmapFields, DeregisterFields, StepFields

\* A step for a timer.
LEMMA TimerStepInv ==
  ASSUME Inv, phase = "cleanup", todo # <<>>, phase' = "cleanup", todo' = Tail(todo),
         Head(todo).op \in {"dump_debug_latencies", "free_latency_dist"},
         UNCHANGED <<config, up, device, mapped, pools, mr, refused, status>>, dists' \subseteq dists,
         \A d \in dists' : Step("free_latency_dist", d, None) # Head(todo)
  PROVE  Inv'
<1>1. /\ config # None /\ config \in Configs /\ SetUp(config) \subseteq up /\ status # "ok"
      /\ todo \in Seq(StepSet) /\ Tail(todo) \in Seq(StepSet) /\ DOMAIN mr = {"tx_mr", "rx_mr"}
      /\ Tidy(config, todo, mr) /\ Sizes /\ Backed /\ (~refused => Covers(todo))
  BY CleanupHead
<1>2. \A r : Unmap(config, r) # Head(todo)
  BY <1>1, CleanOps
<1>3. \A m : Deregister(m) # Head(todo)
  BY <1>1, CleanOps
<1>4. Tidy(config, Tail(todo), mr)
  BY <1>1, <1>3, TidyTail
<1>5. ~refused => Covers(todo)'
  BY <1>1, <1>2, <1>3, CoversTail
<1>6. Closing'
  BY <1>4, <1>5 DEF Closing
<1>7. Sizes' /\ Backed'
  BY <1>1 DEF Sizes, Backed
<1> QED
  BY <1>1, <1>6, <1>7, CleanupKeeps

\* dump_debug_latencies and free_latency_dist keep the invariant.
LEMMA TimersInv ==
  ASSUME Inv, DumpDebugLatencies \/ FreeLatencyDist
  PROVE  Inv'
<1>1. CASE FreeLatencyDist
  <2>1. /\ phase = "cleanup" /\ todo # <<>> /\ phase' = "cleanup" /\ todo' = Tail(todo)
        /\ Head(todo).op = "free_latency_dist" /\ dists' = dists \ {Head(todo).a}
        /\ UNCHANGED <<config, up, device, mapped, pools, mr, refused, status>>
    BY <1>1 DEF FreeLatencyDist, InCleanup, Advance
  <2>2. \A d : Step("free_latency_dist", d, None).a = d
    BY StepFields
  <2>3. \A d \in dists' : Step("free_latency_dist", d, None) # Head(todo)
    BY <2>1, <2>2
  <2> QED
    BY <2>1, <2>3, TimerStepInv
<1>2. CASE DumpDebugLatencies
  <2>1. /\ phase = "cleanup" /\ todo # <<>> /\ Head(todo).op = "dump_debug_latencies"
        /\ UNCHANGED <<config, up, device, mapped, pools, dists, mr, refused>>
    BY <1>2 DEF DumpDebugLatencies, InCleanup
  <2>2. CASE todo' = Tail(todo) /\ UNCHANGED <<phase, status>>
    <3>1. \A d : Step("free_latency_dist", d, None).op = "free_latency_dist"
      BY StepFields
    <3> QED
      BY <2>1, <2>2, <3>1, TimerStepInv
  <2>3. CASE Ends("exited", "error")
    <3>1. Stops /\ UNCHANGED data
      BY <2>1, <2>3 DEF Ends, Stops, data
    <3> QED
      BY <3>1, QuietStops
  <2> QED
    BY <1>2, <2>2, <2>3 DEF DumpDebugLatencies, Advance
<1> QED
  BY <1>1, <1>2

\* The clean-up gives up when the system refuses a call: what is left in the
\* list does not matter any more.
LEMMA RefusedInv ==
  ASSUME Inv, phase = "cleanup", todo # <<>>, phase' = "cleanup", todo' = <<>>, refused' = TRUE,
         UNCHANGED <<config, up, device, mapped, pools, dists, mr, status>>
  PROVE  Inv'
<1>1. /\ config # None /\ config \in Configs /\ SetUp(config) \subseteq up /\ status # "ok"
      /\ Sizes /\ Backed
  BY CleanupHead
<1>2. todo' \in Seq(StepSet) /\ DOMAIN todo' = {}
  OBVIOUS
<1>3. Tidy(config, todo, mr)'
  BY <1>2 DEF Tidy
<1>4. Closing'
  BY <1>3 DEF Closing
<1>5. Sizes' /\ Backed'
  BY <1>1 DEF Sizes, Backed
<1> QED
  BY <1>1, <1>2, <1>4, <1>5, CleanupKeeps

\* memory_deregistration keeps the invariant.
LEMMA MemoryDeregistrationInv ==
  ASSUME Inv, MemoryDeregistration
  PROVE  Inv'
<1>1. /\ phase = "cleanup" /\ todo # <<>> /\ phase' = "cleanup" /\ Head(todo).op = "memory_deregistration"
      /\ UNCHANGED <<config, up, device, mapped, pools, dists, status>>
  BY DEF MemoryDeregistration, InCleanup
<1>2. CASE SkipRest(TRUE) /\ UNCHANGED mr
  BY <1>1, <1>2, RefusedInv DEF SkipRest
<1>3. CASE Advance /\ mr' = [mr EXCEPT ![Head(todo).a] = None] /\ UNCHANGED refused
  <2>1. /\ config # None /\ config \in Configs /\ SetUp(config) \subseteq up /\ status # "ok"
        /\ todo \in Seq(StepSet) /\ Tail(todo) \in Seq(StepSet) /\ DOMAIN mr = {"tx_mr", "rx_mr"}
        /\ Tidy(config, todo, mr) /\ CleanStep(config, Head(todo)) /\ Sizes /\ Backed
        /\ (~refused => Covers(todo))
    BY <1>1, CleanupHead
  <2>2. /\ \A r : Unmap(config, r).op = "munmap"
        /\ \A d : Step("free_latency_dist", d, None).op = "free_latency_dist"
    BY <2>1, CleanOps
  <2>3. PICK m \in {"tx_mr", "rx_mr"} : Head(todo) = Deregister(m)
    BY <1>1, <2>1, <2>2 DEF CleanStep
  <2>4. \A k : Deregister(k).a = k
    BY DeregisterFields
  <2>5. /\ todo' = Tail(todo) /\ refused' = refused /\ DOMAIN mr' = DOMAIN mr /\ mr'[m] = None
        /\ \A k \in DOMAIN mr : k # m => mr'[k] = mr[k]
    BY <1>3, <2>1, <2>3, <2>4 DEF Advance
  <2>6. Tidy(config, Tail(todo), mr')
    <3>1. \A k \in {"tx_mr", "rx_mr"} : mr'[k] \in {None, mr[k]} /\ (Head(todo) = Deregister(k) => mr'[k] = None)
      BY <2>1, <2>3, <2>4, <2>5
    <3> QED
      BY <1>1, <2>1, <3>1, TidyTail
  <2>7. ~refused => Covers(todo)'
    <3>1. \A k \in DOMAIN mr : mr'[k] # None => mr[k] # None /\ Deregister(k) # Head(todo)
      BY <2>3, <2>4, <2>5
    <3>2. \A r \in DOMAIN mapped' : r \in DOMAIN mapped /\ Unmap(config, r) # Head(todo)
      BY <1>1, <2>2
    <3>3. \A d \in dists' : d \in dists /\ Step("free_latency_dist", d, None) # Head(todo)
      BY <1>1, <2>2
    <3> QED
      BY <1>1, <2>1, <2>5, <3>1, <3>2, <3>3, CoversTail
  <2>8. Closing'
    BY <1>1, <2>5, <2>6, <2>7 DEF Closing
  <2>9. Sizes'
    BY <1>1, <2>1 DEF Sizes
  <2>10. Backed'
    BY <1>1, <2>1, <2>5 DEF Backed
  <2>11. \A k \in DOMAIN mr : mr'[k] \in {None, mr[k]}
    BY <2>5
  <2>12. todo' \in Seq(StepSet) /\ dists' \subseteq dists
    BY <1>1, <2>1, <2>5
  <2> QED
    BY <1>1, <2>1, <2>5, <2>8, <2>9, <2>10, <2>11, <2>12, CleanupKeeps
<1> QED
  BY <1>2, <1>3 DEF MemoryDeregistration

\* munmap keeps the invariant: it takes a region away whole, and one that is
\* no longer registered; or, of an empty working set, it ends the clean-up
\* when nothing is left.
LEMMA MunmapInv ==
  ASSUME Inv, Munmap
  PROVE  Inv'
<1>1. /\ phase = "cleanup" /\ todo # <<>> /\ phase' = "cleanup" /\ Head(todo).op = "munmap"
      /\ UNCHANGED <<config, up, device, pools, dists, mr, status>>
  BY DEF Munmap, InCleanup
<1>2. /\ config # None /\ config \in Configs /\ SetUp(config) \subseteq up /\ status # "ok"
      /\ todo \in Seq(StepSet) /\ Tail(todo) \in Seq(StepSet) /\ DOMAIN mr = {"tx_mr", "rx_mr"}
      /\ Tidy(config, todo, mr) /\ CleanStep(config, Head(todo)) /\ Sizes /\ Backed
      /\ (~refused => Covers(todo))
  BY <1>1, CleanupHead
<1>3. /\ \A m : Deregister(m) # Head(todo)
      /\ \A d : Step("free_latency_dist", d, None) # Head(todo)
  BY <1>1, <1>2, CleanOps
<1>4. PICK r \in Regions(config) : Head(todo) = Unmap(config, r)
  BY <1>1, <1>2, <1>3 DEF CleanStep
<1>5. PICK len : len = Head(todo).b
  OBVIOUS
<1>6. Head(todo).a = r /\ len = align_up(LenOf(config, r)) /\ len \in Nat /\ len % Pgsize = 0
  BY <1>2, <1>4, <1>5, UnmapFields
<1>7. /\ \A m \in {"tx_mr", "rx_mr"} : mr[m] # None => mr[m] # r
      /\ len = 0 => Tail(todo) = <<>>
  BY <1>1, <1>2, <1>5, <1>6, TidyHead
<1>8. Tidy(config, Tail(todo), mr)
  BY <1>1, <1>2, <1>3, TidyTail
<1>9. CASE len > 0 /\ SkipRest(TRUE) /\ UNCHANGED mapped
  BY <1>1, <1>9, RefusedInv DEF SkipRest
<1>10. CASE len = 0 /\ SkipRest(FALSE) /\ UNCHANGED mapped
  <2>1. todo' = Tail(todo) /\ (refused' => refused) /\ (~refused' => ~refused)
    BY <1>7, <1>10 DEF SkipRest
  <2>2. ASSUME NEW q \in DOMAIN mapped' PROVE q \in DOMAIN mapped /\ Unmap(config, q) # Head(todo)
    <3>1. q \in DOMAIN mapped /\ LenOf(config, q) > 0
      BY <1>2, <1>10, <2>2 DEF Sizes
    <3>2. /\ Unmap(config, q).b = align_up(LenOf(config, q)) /\ LenOf(config, q) \in Nat
          /\ align_up(LenOf(config, q)) \in Nat /\ align_up(LenOf(config, q)) >= LenOf(config, q)
      BY <1>2, UnmapFields
    <3>3. Unmap(config, q).b # 0
      BY <3>1, <3>2
    <3> QED
      BY <1>5, <1>10, <3>1, <3>3
  <2>3. ~refused => Covers(todo)'
    BY <1>1, <1>2, <1>3, <2>1, <2>2, CoversTail
  <2>4. Closing'
    BY <1>1, <1>8, <2>1, <2>3 DEF Closing
  <2>5. Sizes' /\ Backed'
    BY <1>1, <1>2, <1>10 DEF Sizes, Backed
  <2> QED
    BY <1>1, <1>2, <2>1, <2>4, <2>5, CleanupKeeps
<1>11. CASE /\ len > 0 /\ Advance /\ UNCHANGED refused
            /\ mapped' = [s \in {t \in DOMAIN mapped : t # r \/ mapped[t] > len} |->
                             IF s = r THEN mapped[s] - len ELSE mapped[s]]
  <2>1. r \in DOMAIN mapped => ~(mapped[r] > len)
    BY <1>2, <1>6 DEF Sizes
  <2>2. {t \in DOMAIN mapped : t # r \/ mapped[t] > len} = DOMAIN mapped \ {r}
    BY <2>1
  <2>3. DOMAIN mapped' = DOMAIN mapped \ {r} /\ \A q \in DOMAIN mapped' : mapped'[q] = mapped[q]
    BY <1>11, <2>2
  <2>4. todo' = Tail(todo)
    BY <1>11 DEF Advance
  <2>5. ASSUME NEW q \in DOMAIN mapped' PROVE q \in DOMAIN mapped /\ Unmap(config, q) # Head(todo)
    <3>1. Unmap(config, q).a = q
      BY <1>2, UnmapFields
    <3> QED
      BY <1>6, <2>3, <2>5, <3>1
  <2>6. ~refused => Covers(todo)'
    BY <1>1, <1>2, <1>3, <2>4, <2>5, CoversTail
  <2>7. Closing'
    BY <1>1, <1>8, <1>11, <2>4, <2>6 DEF Closing
  <2>8. Sizes'
    BY <1>1, <1>2, <2>3 DEF Sizes
  <2>9. Backed'
    BY <1>1, <1>2, <1>7, <2>3 DEF Backed
  <2> QED
    BY <1>1, <1>2, <2>4, <2>7, <2>8, <2>9, CleanupKeeps
<1>12. \/ /\ len > 0 /\ Advance /\ UNCHANGED refused
          /\ mapped' = [s \in {t \in DOMAIN mapped : t # r \/ mapped[t] > len} |->
                           IF s = r THEN mapped[s] - len ELSE mapped[s]]
       \/ SkipRest(len > 0 /\ len % Pgsize = 0) /\ UNCHANGED mapped
  BY <1>5, <1>6 DEF Munmap
<1>13. ASSUME SkipRest(len > 0 /\ len % Pgsize = 0) /\ UNCHANGED mapped PROVE Inv'
  <2>1. CASE len > 0
    <3>1. SkipRest(TRUE)
      BY <1>6, <1>13, <2>1 DEF SkipRest
    <3> QED
      BY <1>9, <1>13, <2>1, <3>1
  <2>2. CASE len = 0
    <3>1. SkipRest(FALSE)
      BY <1>13, <2>2 DEF SkipRest
    <3> QED
      BY <1>10, <1>13, <2>2, <3>1
  <2> QED
    BY <1>6, <2>1, <2>2
<1> QED
  BY <1>11, <1>12, <1>13

---------------------------------------------------------------------------
\* The theorems.

\* The process starts in the invariant.
LEMMA InitInv ==
  ASSUME Init
  PROVE  Inv
<1>1. /\ config = None /\ phase = "main" /\ todo = <<Call("time_init"), Call("parse_args")>>
      /\ up = {} /\ mapped = <<>> /\ pools = {} /\ dists = {} /\ status = None
      /\ DOMAIN mr = {"tx_mr", "rx_mr"} /\ \A m \in DOMAIN mr : mr[m] = None
  BY DEF Init
<1>2. "time_init" \in Ops /\ "parse_args" \in Ops
  BY DEF Ops
<1>3. Call("time_init") \in StepSet /\ Call("parse_args") \in StepSet
  BY <1>2, CallFields
<1>4. Types
  BY <1>1, <1>3 DEF Types
<1>5. status # "ok"
  BY <1>1, LifecycleAssumption
<1>6. Unparsed
  BY <1>1, <1>5 DEF Unparsed
<1>7. Course /\ Complete /\ Effects /\ Closing /\ Closed
  BY <1>1, <1>5 DEF Course, Complete, HandlerSet, Effects, Closing, Closed
<1> QED
  BY <1>4, <1>6, <1>7 DEF Inv

\* Every step keeps it.
LEMMA NextInv ==
  ASSUME Inv, [Next]_vars
  PROVE  Inv'
<1>1. CASE UNCHANGED vars
  BY <1>1 DEF vars, Inv, Types, Unparsed, Course, Complete, HandlerSet, Effects, Sizes, Registered, Timers,
              Handler, Opened, Pooled, Present, Backed, Closing, Covers, Closed, Released
<1>2. CASE \E c \in Configs : ParseArgs(c)
  BY <1>2, ParseArgsInv
<1>3. CASE TimeInit \/ Create \/ InitWorkload \/ InstallHandler \/ WriteReady \/ LoopFails \/ AddLatencyCrash
  BY <1>3, QuietInv
<1>4. CASE InitIbvContext
  BY <1>4, InitIbvContextInv
<1>5. CASE MapCrash \/ ServerMemoryInit \/ MempoolMemoryInit
  BY <1>5, MemoryInv
<1>6. CASE MemoryRegistration
  BY <1>6, MemoryRegistrationInv
<1>7. CASE AllocLatencyDist
  BY <1>7, AllocLatencyDistInv
<1>8. CASE Run
  BY <1>8, RunInv
<1>9. CASE ClientEnds
  BY <1>9, ClientEndsInv
<1>10. CASE Sigint
  BY <1>10, SigintInv
<1>11. CASE DumpDebugLatencies \/ FreeLatencyDist
  BY <1>11, TimersInv
<1>12. CASE MemoryDeregistration
  BY <1>12, MemoryDeregistrationInv
<1>13. CASE Munmap
  BY <1>13, MunmapInv
<1>14. CASE Exit
  BY <1>14, ExitInv
<1> QED
  BY <1>1, <1>2, <1>3, <1>4, <1>5, <1>6, <1>7, <1>8, <1>9, <1>10, <1>11, <1>12, <1>13, <1>14 DEF Next

\* The invariant holds of every run of the process, whatever fails and
\* whenever SIGINT comes.
THEOREM Invariance == Spec => []Inv
<1>1. Init => Inv
  BY InitInv
<1>2. Inv /\ [Next]_vars => Inv'
  BY NextInv
<1> QED
  BY <1>1, <1>2, PTL DEF Spec

\* RegisteredIsMapped: memory_deregistration precedes munmap for every region
\* that tx_mr and rx_mr name, and what was mapped is at least what was asked
\* for, so the NIC never has access to memory the process has given back.
THEOREM RegisteredHolds == Spec => []RegisteredIsMapped
<1>1. Inv => RegisteredIsMapped
  <2> SUFFICES ASSUME Inv, NEW m \in DOMAIN mr, mr[m] # None, RegionLen(mr[m]) > 0
               PROVE  mr[m] \in DOMAIN mapped /\ mapped[mr[m]] >= RegionLen(mr[m])
    BY DEF RegisteredIsMapped
  <2>1. config # None /\ config \in Configs
    BY DEF Inv, Types, Unparsed
  <2>2. Sizes /\ Backed
    BY <2>1 DEF Inv, Effects
  <2>3. RegionLen(mr[m]) = LenOf(config, mr[m])
    BY DEF RegionLen, LenOf
  <2>4. mr[m] \in DOMAIN mapped
    BY <2>2, <2>3 DEF Backed
  <2>5. mapped[mr[m]] = align_up(LenOf(config, mr[m]))
    BY <2>2, <2>4 DEF Sizes
  <2>6. align_up(LenOf(config, mr[m])) >= LenOf(config, mr[m])
    BY <2>1, UnmapFields
  <2> QED
    BY <2>3, <2>4, <2>5, <2>6
<1> QED
  BY <1>1, Invariance, PTL

\* What the process has done and has still to do is main's, and nothing else.
Taken ==
    config # None =>
        /\ up \subseteq ToSet(Main(config)) \cup {Call("time_init")}
        /\ phase = "main" => ToSet(todo) \subseteq ToSet(Main(config))

\* A step of main is one of init_mlx5 or one of the few after it.
LEMMA MainSteps ==
  ASSUME NEW c \in Configs
  PROVE  /\ ToSet(init_mlx5(c)) \subseteq ToSet(Main(c))
         /\ \A s \in ToSet(Main(c)) :
              \/ s \in ToSet(init_mlx5(c))
              \/ s.op \in {"init_workload", "alloc_latency_dist", "signal", "ready_file"}
<1>1. PICK p0 : p0 = init_mlx5(c)
  OBVIOUS
<1>2. PICK w : w = <<Call("init_workload")>>
  OBVIOUS
<1>3. PICK al : al = IF ~c.client /\ c.timers THEN ForDists("alloc_latency_dist") ELSE <<>>
  OBVIOUS
<1>4. PICK sg : sg = Optional(~c.client, Call("signal"))
  OBVIOUS
<1>5. PICK rd : rd = Optional(~c.client /\ c.ready_file, Call("ready_file"))
  OBVIOUS
<1>6. PICK p1 : p1 = p0 \o w
  OBVIOUS
<1>7. PICK p2 : p2 = p1 \o al
  OBVIOUS
<1>8. PICK p3 : p3 = p2 \o sg
  OBVIOUS
<1>9. Main(c) = p3 \o rd
  BY <1>1, <1>2, <1>3, <1>4, <1>5, <1>6, <1>7, <1>8, Zenon DEF Main
<1>10. p0 \in Seq(StepSet)
  BY <1>1, InitPart DEF Part
<1>11. w \in Seq(StepSet) /\ \A s \in ToSet(w) : s.op = "init_workload"
  <2>1. PICK x \in StepSet : x = Call("init_workload") /\ x.op = "init_workload"
    <3>1. Call("init_workload") \in StepSet
      BY CallFacts
    <3> QED
      BY <3>1, CallFields
  <2>2. w = <<x>>
    BY <1>2, <2>1
  <2>3. ToSet(w) = {x}
    BY <2>2 DEF ToSet
  <2> QED
    BY <2>1, <2>2, <2>3
<1>12. al \in Seq(StepSet) /\ \A s \in ToSet(al) : s.op = "alloc_latency_dist"
  <2>1. CASE ~c.client /\ c.timers
    <3>1. al = ForDists("alloc_latency_dist") /\ "alloc_latency_dist" \in Ops
      BY <1>3, <2>1 DEF Ops
    <3>2. al \in Seq(StepSet) /\ \A i \in DOMAIN al : al[i].op = "alloc_latency_dist"
      BY <3>1, DistSteps
    <3> QED
      BY <3>2 DEF ToSet
  <2>2. CASE ~(~c.client /\ c.timers)
    BY <1>3, <2>2 DEF ToSet
  <2> QED
    BY <2>1, <2>2
<1>13. /\ sg \in Seq(StepSet) /\ \A s \in ToSet(sg) : s.op = "signal"
       /\ rd \in Seq(StepSet) /\ \A s \in ToSet(rd) : s.op = "ready_file"
  <2>1. PICK x : x = Call("signal") /\ x.op = "signal"
    BY CallFields
  <2>2. PICK y : y = Call("ready_file") /\ y.op = "ready_file"
    BY CallFields
  <2>3. x \in StepSet /\ y \in StepSet
    BY <2>1, <2>2, LastFacts
  <2>4. (sg = <<x>> \/ sg = <<>>) /\ (rd = <<y>> \/ rd = <<>>)
    BY <1>4, <1>5, <2>1, <2>2 DEF Optional
  <2>5. ToSet(<<x>>) = {x} /\ ToSet(<<y>>) = {y} /\ ToSet(<<>>) = {}
    <3>1. DOMAIN <<x>> = {1} /\ DOMAIN <<y>> = {1} /\ DOMAIN <<>> = {}
      OBVIOUS
    <3> QED
      BY <3>1 DEF ToSet
  <2>6. sg \in Seq(StepSet) /\ rd \in Seq(StepSet)
    <3>1. <<x>> \in Seq(StepSet) /\ <<y>> \in Seq(StepSet) /\ <<>> \in Seq(StepSet)
      BY <2>3
    <3> QED
      BY <2>4, <3>1, Zenon
  <2>7. (ToSet(sg) = {x} \/ ToSet(sg) = {}) /\ (ToSet(rd) = {y} \/ ToSet(rd) = {})
    BY <2>4, <2>5, Zenon
  <2> QED
    BY <2>1, <2>2, <2>6, <2>7
<1>14. p1 \in Seq(StepSet) /\ ToSet(p1) = ToSet(p0) \cup ToSet(w)
  BY <1>6, <1>10, <1>11, ToSetConcat, ConcatProperties
<1>15. p2 \in Seq(StepSet) /\ ToSet(p2) = ToSet(p1) \cup ToSet(al)
  BY <1>7, <1>12, <1>14, ToSetConcat, ConcatProperties
<1>16. p3 \in Seq(StepSet) /\ ToSet(p3) = ToSet(p2) \cup ToSet(sg)
  BY <1>8, <1>13, <1>15, ToSetConcat, ConcatProperties
<1>17. ToSet(Main(c)) = ToSet(p3) \cup ToSet(rd)
  BY <1>9, <1>13, <1>16, ToSetConcat
<1> QED
  BY <1>1, <1>11, <1>12, <1>13, <1>14, <1>15, <1>16, <1>17

\* The objects that stay are those of init_mlx5, and all of its steps that
\* create one belong to the set-up.
LEMMA KeptSteps ==
  ASSUME NEW c \in Configs, NEW steps, SetUp(c) \subseteq steps,
         steps \subseteq ToSet(Main(c)) \cup {Call("time_init")}
  PROVE  Kept(steps) = Kept(ToSet(init_mlx5(c)))
<1>1. PICK ops : ops = Creates \cup {"init_ibv_context", "mempool_memory_init"}
  OBVIOUS
<1>2. ops \cap {"init_workload", "alloc_latency_dist", "signal", "ready_file", "time_init"} = {}
  BY <1>1 DEF Creates
<1>3. ASSUME NEW s \in ToSet(init_mlx5(c)), s.op \in ops PROVE s \in SetUp(c)
  <2>1. s \in ToSet(Main(c))
    BY <1>3, MainSteps
  <2>2. s # Call("signal") /\ s # Call("ready_file")
    <3>1. Call("signal").op = "signal" /\ Call("ready_file").op = "ready_file"
      BY CallFields
    <3> QED
      BY <1>2, <1>3, <3>1
  <2>3. ASSUME s \in ToSet(ForDists("alloc_latency_dist")) PROVE FALSE
    <3>1. PICK v : v = ForDists("alloc_latency_dist")
      OBVIOUS
    <3>2. "alloc_latency_dist" \in Ops
      BY DEF Ops
    <3>3. \A i \in DOMAIN v : v[i].op = "alloc_latency_dist"
      BY <3>1, <3>2, DistSteps
    <3>4. s.op = "alloc_latency_dist"
      BY <2>3, <3>1, <3>3 DEF ToSet
    <3> QED
      BY <1>2, <1>3, <3>4
  <2> QED
    BY <2>1, <2>2, <2>3 DEF SetUp
<1>4. ASSUME NEW s \in steps, s.op \in ops PROVE s \in ToSet(init_mlx5(c))
  <2>1. Call("time_init").op = "time_init"
    BY CallFields
  <2>2. s \in ToSet(Main(c))
    BY <1>2, <1>4, <2>1
  <2> QED
    BY <1>2, <1>4, <2>2, MainSteps
<1>5. \A s : s \in Kept(steps) <=> s \in Kept(ToSet(init_mlx5(c)))
  BY <1>1, <1>3, <1>4 DEF Kept
<1> QED
  BY <1>5 DEF Kept

\* A step after the arguments are parsed does main's next step, if any.
LEMMA StepsOfMain ==
  ASSUME Inv, Taken, config' = config,
         \/ up' = up
         \/ up' = up \cup {Head(todo)} /\ phase = "main" /\ todo # <<>>,
         \/ phase' # "main"
         \/ phase = "main" /\ (todo' = todo \/ (todo' = Tail(todo) /\ todo # <<>>))
  PROVE  Taken'
<1>1. CASE config = None
  BY <1>1 DEF Taken
<1>2. CASE config # None
  <2>1. todo \in Seq(StepSet) /\ up \subseteq ToSet(Main(config)) \cup {Call("time_init")}
        /\ (phase = "main" => ToSet(todo) \subseteq ToSet(Main(config)))
    BY <1>2 DEF Inv, Types, Taken
  <2>2. ASSUME todo # <<>> PROVE ToSet(todo) = {Head(todo)} \cup ToSet(Tail(todo))
    BY <2>1, <2>2, TailSteps
  <2>3. up' \subseteq ToSet(Main(config)) \cup {Call("time_init")}
    BY <2>1, <2>2
  <2>4. phase' = "main" => ToSet(todo') \subseteq ToSet(Main(config))
    BY <2>1, <2>2
  <2> QED
    BY <2>3, <2>4 DEF Taken
<1> QED
  BY <1>1, <1>2

\* Every step keeps to main's.
LEMMA TakenInv ==
  ASSUME Inv, Taken, [Next]_vars
  PROVE  Taken'
<1>1. CASE \E c \in Configs : ParseArgs(c)
  <2>1. PICK c \in Configs : ParseArgs(c)
    BY <1>1
  <2>2. phase = "main" /\ todo # <<>> /\ Head(todo).op = "parse_args" /\ up' = up
    BY <2>1 DEF ParseArgs, At, Fails
  <2>3. CASE config' = config
    <3>1. phase' # "main" \/ config' = c
      BY <2>1 DEF ParseArgs, Fails, Ends
    <3>2. CASE phase' # "main"
      BY <2>2, <2>3, <3>2, StepsOfMain
    <3>3. CASE config' = c
      <4>1. config # None
        BY <2>3, <3>3, LifecycleAssumption
      <4> QED
        BY <2>2, <4>1, ParsedOnce
    <3> QED
      BY <3>1, <3>2, <3>3
  <2>4. CASE config' # config
    <3>1. config' = c /\ (phase' # "main" \/ todo' = Main(c))
      BY <2>1, <2>2, <2>4 DEF ParseArgs, Ends
    <3>2. config = None
      BY <2>2, ParsedOnce
    <3>3. up \subseteq {Call("time_init")}
      BY <3>2 DEF Inv, Unparsed
    <3> QED
      BY <2>2, <3>1, <3>3 DEF Taken
  <2> QED
    BY <2>3, <2>4
<1>2. CASE UNCHANGED vars
  BY <1>2, StepsOfMain DEF vars
<1>3. CASE TimeInit \/ InitIbvContext \/ MapCrash \/ ServerMemoryInit \/ MempoolMemoryInit \/ MemoryRegistration
  <2>1. /\ config' = config
        /\ up' = up \/ (up' = up \cup {Head(todo)} /\ phase = "main" /\ todo # <<>>)
        /\ phase' # "main" \/ (phase = "main" /\ todo # <<>> /\ todo' = Tail(todo))
    BY <1>3 DEF TimeInit, InitIbvContext, MapCrash, ServerMemoryInit, MempoolMemoryInit, MemoryRegistration,
                At, Done, Advance, Fails, Ends
  <2> QED
    BY <2>1, StepsOfMain
<1>4. CASE Create \/ InitWorkload \/ AllocLatencyDist \/ InstallHandler \/ WriteReady
  <2>1. /\ config' = config
        /\ up' = up \/ (up' = up \cup {Head(todo)} /\ phase = "main" /\ todo # <<>>)
        /\ phase' # "main" \/ (phase = "main" /\ todo # <<>> /\ todo' = Tail(todo))
    BY <1>4 DEF Create, InitWorkload, AllocLatencyDist, InstallHandler, WriteReady, At, Done, Advance, Fails, Ends
  <2> QED
    BY <2>1, StepsOfMain
<1>5. CASE Run \/ ClientEnds \/ LoopFails \/ AddLatencyCrash \/ Sigint
  <2>1. config' = config /\ up' = up /\ phase' # "main"
    BY <1>5 DEF Run, ClientEnds, LoopFails, AddLatencyCrash, Sigint, Fails, Ends
  <2> QED
    BY <2>1, StepsOfMain
<1>6. CASE DumpDebugLatencies \/ FreeLatencyDist \/ MemoryDeregistration \/ Munmap \/ Exit
  <2>1. config' = config /\ up' = up /\ phase' # "main"
    BY <1>6 DEF DumpDebugLatencies, FreeLatencyDist, MemoryDeregistration, Munmap, Exit, InCleanup, Ends, Advance
  <2> QED
    BY <2>1, StepsOfMain
<1> QED
  BY <1>1, <1>2, <1>3, <1>4, <1>5, <1>6 DEF Next

\* CleanupMatchesSetup: when the system refuses no call of cleanup_mlx5, the
\* process exits with nothing mapped, registered or allocated for a timer,
\* and of the objects that nothing gives back (the context, the free lists,
\* the reference counts, queues and flows) exactly those that init_mlx5
\* created in this configuration are left.
THEOREM CleanupHolds == Spec => []CleanupMatchesSetup
<1>1. Init => Taken
  BY DEF Init, Taken
<1>2. Inv /\ Taken /\ [Next]_vars => Taken'
  BY TakenInv
<1>3. Inv /\ Taken => CleanupMatchesSetup
  <2> SUFFICES ASSUME Inv, Taken, status = "ok", ~refused
               PROVE  Released /\ Kept(up) = Kept(ToSet(init_mlx5(config)))
    BY DEF CleanupMatchesSetup
  <2>1. Released
    BY DEF Inv, Closed
  <2>2. config # None /\ SetUp(config) \subseteq up /\ config \in Configs
    BY DEF Inv, Complete, Types
  <2>3. up \subseteq ToSet(Main(config)) \cup {Call("time_init")}
    BY <2>2 DEF Taken
  <2> QED
    BY <2>1, <2>2, <2>3, KeptSteps
<1> QED
  BY <1>1, <1>2, <1>3, Invariance, PTL DEF Spec

\* RunsOnlyWhenUp: the loops, the clean-up and the ready file come after
\* every step of init_mlx5 and init_workload, on a device at the address
\* asked for or one whose address is not known.
THEOREM RunsHolds == Spec => []RunsOnlyWhenUp
<1>1. Inv => RunsOnlyWhenUp
  <2> SUFFICES ASSUME Inv, phase \in {"run", "cleanup"} \/ status = "ok" \/ Call("ready_file") \in up
               PROVE  SetUp(config) \subseteq up /\ device.addr \in {"wanted", "none"}
    BY DEF RunsOnlyWhenUp
  <2>1. config # None /\ SetUp(config) \subseteq up
    BY DEF Inv, Complete
  <2>2. config \in Configs /\ Opened
    BY <2>1 DEF Inv, Types, Effects
  <2>3. PICK u : u = Main(config)
    OBVIOUS
  <2>4. Call("init_ibv_context") \in SetUp(config)
    BY <2>2, <2>3, MainPart
  <2> QED
    BY <2>1, <2>2, <2>4 DEF Opened
<1> QED
  BY <1>1, Invariance, PTL
=============================================================================
