# A TLA+ model of mooring

mooring gives pods NAT'ed egress: it hands each pod blocks of ports on the external IPs of a
NATConfig, records them in a NATPortRange (NPR), and translates packets in eBPF on every node.
This directory models the parts of it that are hard to test: the operator's three controllers
around one shared allocator, a daemon whose controllers keep requests, BPF maps and routes in step
with the API server across failures and restarts, the loading of the datapath, and the connection
tables that packets on several CPUs and a garbage collector share.
TLC checks the models on small instances. TLAPS proves the central invariants for all instances.

Paths below are relative to the repository's root; `operator/` and `daemon/` stand for
`internal/controller/operator/` and `internal/controller/daemon/`.

## 1. Inventory

| Part | Code | State | Operations | Module |
|---|---|---|---|---|
| Block allocator | `internal/allocator` | free block indices per external IP, reserved blocks | EnsureIP, RemoveIP, SetReservedPorts, MarkUsed, AllocateForPod, AllocateForIP, Free | `BlockAllocator`, `PortSpace` |
| Registry, reconstruction | `operator/registry.go`, `reconstruction.go` | one allocator per NATConfig, in memory | EnsureAllocator, Remove, replay at start | `Operator` |
| Request controller | `operator/natportrangerequest_controller.go` | NPRs on the API server | create, grow, shrink, mark stale | `Operator` |
| NPR controller | `operator/natportrange_controller.go` | finalizer, staleSince | stamp, wait, delete, release, finalize | `Operator` |
| NATConfig controller | `operator/natconfig_controller.go` | NPRs, registered IPs | follow the pool, apply reservations, drop the allocator | `Operator` |
| NPR sync | `daemon/natportrange_controller.go`, `internal/maps` | in-memory cache; pinned maps port_range_lookup, pod_nat_ports, nat_config, dst_kind | syncAlive, syncStale | `DaemonSync` |
| Datapath | `bpf/snat_egress.c`, `revnat_core.h`, `headers/maps.h` | nat_map_tcp, nat_map_any | allocate a port, write and refresh entries, track closing | `NatTable` |
| NAT GC | `bpf/nat_gc.c`, `internal/gc` | the same tables | two sweeps | `NatTable` |
| Pod and request controllers, startup syncer | `daemon/pod_controller.go`, `nprr_controller.go` | requests, grace periods | create, give notice, renew, recount, delete | `RequestLifecycle`, `RequestLease` |
| Daemon NATConfig controller, BGP speaker | `daemon/natconfig_controller.go`, `internal/routing` | target_cidrs, dst_kind, routes, tracking | add, track, remove; start of the speaker | `RouteSync` |
| Loader, moorctl | `internal/loader`, `cmd/moorctl` | bpffs pins and links | Load, EnsureLoaded, Unload | `Loader` |
| Metrics, generated bindings, packet parsing | `internal/metrics`, `internal/bpf`, `bpf/headers/l4.h`, `tc.h`, `ctx/` | nothing that a decision reads | | not modelled |

How the parts interact: the daemons create and delete requests; the operator answers a request
with an NPR that lists blocks; every daemon writes the NPRs into its maps; the datapath of the
pod's node takes ports out of the blocks, and the datapath of any node uses port_range_lookup to
send a reply on to the pod's node. When a pod goes, its request goes, the operator marks the NPR
stale, the daemons remove it from their maps within a cleanup window, and only then are the blocks
free again.

What is hard about it: three controllers interleave at every API and allocator call and read
caches that lag; API calls fail, or take effect and report an error; the allocator is memory only
and is rebuilt from NPRs after a restart; blocks change hands while nodes are at different points;
a sync can fail after any map write; packets on two CPUs and a sweep interleave at every map
operation; ports are `uint16`.

`PROJECT.json` lists the hazards by line with the properties that watch them.

## 2. Modules

**BlockAllocator** is the allocator as a value: `[reg, free, reserved]`, registered IPs, free
slots (a slot is an IP and a block index) and withheld blocks, with one operator per method. Go
iterates maps in random order, so an allocation is any choice of blocks the method could make
(`PicksForPod`, `PicksForIP`). Each method holds the allocator's mutex, hence one step.

**Operator** has the API server's NPRs (`npr`), the informer cache (`cache`) with the watch events
between them (`pending`), allocator objects (`heap`, and `cur`, the one in the registry), the work
queues, and for each controller the reconcile it is in (`rq`, `rl`, `cc`). A reconcile is cut at
every API call and every allocator call:

| Controller | Steps | Code |
|---|---|---|
| request | `RqStart`, `RqStartGone`, `RqEnsure`, `RqAllocatePod`, `RqResize`, `RqGrow`, `RqCreate`, `RqUpdate`, `RqFree` | Reconcile, createNPR, increaseCount, decreaseCount, markNPRStale |
| NPR | `RlStart`, `RlStamp`, `RlDelete`, `RlRelease`, `RlFinalize` | Reconcile, releaseAndFinalize |
| NATConfig | `CcStart`, `CcRemove`, `CcEnsure`, `CcList`, `CcScan`, `CcExtend`, `CcUpdate`, `CcAbort`, `CcDrop` | Reconcile, reconcileNPRAllocations |
| process | `Restart` | start, leader election, ReconstructionRunnable |

`Deliver` moves an event into the cache and queues the keys its handlers queue. `EditRequest`,
`EditConfig`, `DeleteNPR` and `Resync` are the environment. The constant `Env` says which of its
events may happen, so a property can be stated for the environment in which it holds, and the
others can be switched on one at a time (section 5). An Update made from an outdated copy is
refused, as the API server's resource versions do; the model tracks this with a `fresh` mark per
copy.

**BlockLease** is what the operator promises, in five lines: leases on slots are granted, adjusted,
drained and ended, and no two overlap. `Operator!LeaseSpec` instantiates it with the mapping
"an NPR that is not both stale and terminating is a lease on its allocations".

**OperatorInv** holds the inductive invariants. **OperatorProof** proves what holds in every
environment, and then what holds in a calm one: facts about one part of the invariant first, then one
lemma per action. **OperatorRestProof** adds what holds while the pool stays as it is: `Accounted`, and
the counting behind `Served`. **MCOperator** has the constants for TLC.

**PortSpace** is the `uint16` arithmetic of blocks and ports, with every sum and product taken
modulo M, and the loop with which `internal/maps` walks the ports of a block (`Body`, `BodyFails`
where the map refuses a port, `Exit`). **PortSpaceProof** proves its theorems.

**DaemonSync** is one node's NPR sync. A reconcile is a list of map operations computed from the
NPR and the cache (`SyncAlive`, `SyncStale`), done one at a time by `Write`. A nat_config entry has
room for `MaxAllocs` external IPs; `Refused` is the operation that finds it full, `WriteFails` one
that happens to fail, and both end the reconcile and queue the name again. `Stop` and `Start` lose
the cache and keep the maps. The NPRs are the environment, constrained to what the operator
guarantees: no two hold a slot, and unless `Env` has "ranges" an NPR has one block on each IP, all of
different indices. An operation on a block is one step, for all its ports and all three protocols, and
works or fails as a whole. **DaemonSyncProof** has the proofs.

**RouteSync** is the daemon's NATConfig controller. `Begin` derives what a NATConfig wants, and each
of the three phases (target_cidrs, the external IPs of dst_kind, routes) is `AddOne` for each CIDR,
`Track`, `RemoveOne` for each that was dropped and that no other NATConfig tracks, `Advance`. CIDRs
are strings; `Keys` gives the keys each stands for, so a dst_kind CIDR is written address by address
and `Fails` may stop in the middle of one. `Refused` is a string that is no IPv4 CIDR, and a route
before `SpeakerStart`: there the code dereferences the nil server, and the controller runtime turns
the panic into an error. `Stop` loses tracking and routes and keeps the maps. **MCRouteSync** has
the constants for TLC, **RouteSyncProof** the proofs.

**RequestLifecycle** is the requests of one pod name on one node. `PodBegin`, `CreateRequest`,
`Expire`, `Renew`, `Recount`, `Pass` and `PodEnd` are PodReconciler; `RqBegin`, `RqDelete` and
`Ring` are NPRRReconciler and its timer; `SyncLook` and `SyncMark` are the startup syncer, beside
both. Writes carry resource versions, reads come from `seen`, the cache, and `Deliver` brings it up
to date. A grace period is a numbered stamp and `Elapse` passes them in order, which is all that is
compared. **RequestLease** is what this promises the operator: a request keeps its address, and ends
only through a grace period that has run out. **RequestProof** has the proofs.

**Loader** is the bpffs pins and the processes that make and remove them: the daemon, which loads
at every start unless revnat's link is pinned, and `moorctl load` and `unload`. `MakeDirs`,
`CheckOther`, `PinOne`, `NextObjects`, `Attach` and `PinLink` are Load, with the deferred `RollBack`
behind every failure; `List`, `RemovePin` and `RemoveDirs` are the RemoveAll of Unload, whose order
is open. A pin holds the generation of the Load that made it: programs and maps work together only
within one. `Crash` is the death of a process at any point; the history variable `torn` remembers
one in the middle of a removal. **LoaderProof** has the proofs.

**NatTable** is one node's connection tables. Packet programs run on the CPUs in `CPU` and are cut
where another CPU can get in: `Egress` looks up or allocates, `WriteSnat` and `WriteRevnat` write
the pair, `Ingress` refreshes, `Confirm`, `Drop` and `Reap` are the second half of close tracking. A
sweep visits every entry that is there from beginning to end, and any subset of those that come and
go (`SweepBegin`, `Visit`, `KillPeer`, `Kill`, `SweepNext`). The pod's entry of nat_config is the
variable `allocs`; `Rewrite` is the daemon replacing it at any moment by another of the `Lists` it may
be given, an empty one included. The history variable `lost` remembers the blocks that were taken
away, because the tables keep their translations. Kernel hash-map iteration and the order in which CPUs
interleave are external, modelled from how the programs use them. **NatTableProof** has the proofs.


## 3. Runs

| Run | Shows | Instance |
|---|---|---|
| `operator_any` | `TypeOK`; `PodRangesDisjoint`: a pod's blocks have distinct indices over all its IPs and avoid its container ports; `CleanEverywhere`: so does every cached, queued or half-edited copy | all environment events, 2 pods, 2 IPs, 2 blocks, counts 1 and 2, 3 environment steps |
| `operator_calm` | `Exclusive`: no two pods hold one block; `Ownership`: the inductive invariant behind it; `LeaseSpec`: refinement of BlockLease | calm environment (below), growing pool, two undelivered events, 4 environment steps |
| `operator_rest` | `Served`: at rest every request has a complete NPR; `Accounted`: at rest every block is free or listed | one or two IPs, 3 blocks: on one IP a pod's count grows to 2 and shrinks again, on two it cannot, and requests compete and fail; resize, delete, edit, restart, failing calls |
| `operator_live` | `RequestIsServed`: a request for which there is room (`Room`: after all who claim blocks, enough remain that are not reserved) gets its NPR, although it was refused while the block was taken or reserved; `StaleIsRemoved` | one block that two pods want and that can be reserved, 4 environment steps, restarts |
| `port_blocks` | `BlocksDisjoint`, `IndexRoundTrip`, `ContainingIsExact`, `AllPortsWritten`, `LoopEnds` | M = 16, every block size, lower bounds 0, 1, 4, 5, 12 |
| `nat_serial` | `InBlock`: every translation uses a block the pod has, or had until the daemon took it away; `Paired`: the two entries of a connection point at each other; `HealthyKept`: no TCP entry goes before its own direction has closed | 1 CPU, a pod whose nat_config entry changes between blocks on two IPs, another block on one of them, and none; TCP, UDP and ICMP, no sweep |
| `nat_reclaim` | `AnyReclaimed`, `ClosingReclaimed`: once packets stop, sweeps empty the UDP/ICMP table and remove closing TCP entries | 1 CPU, sweeps, TCP and UDP, a pod that loses its block and gets it back |
| `sync_calm` | `LiveMapped`: at rest the maps hold every live NPR; `KeptMapped`: what an update of an NPR keeps is in the maps throughout; `NoStrays`: and nothing else; `NeverMisrouted`: no slot ever leads to a pod that does not hold it; `PodKindKept`; `MappedInTheEnd`: an NPR that fits into nat_config is mapped for good once map operations stop failing | a daemon that keeps up, map operations failing anywhere, 3 NPRs of 2 pods that compete for one slot, 2 CIDRs, room for 2 external IPs where a pod's NPRs can have 3 |
| `sync_down` | `LiveMapped` | a daemon that is stopped at any point and misses what the API does until it runs again, map operations failing anywhere, 3 NPRs of 2 pods, 6 edits |
| `route_sync` | `Ledger`: what is tracked is in place, whatever fails, and complete where the daemon is done; `SettledServed`: a NATConfig the daemon is done with is in the maps and advertised; `NoStrays`: without a failure nothing is left over; `Converges`: every NATConfig of valid CIDRs is served in the end; `TypeOK` | 2 NATConfigs that share CIDRs, one CIDR of two addresses, one that is refused, 3 edits, 1 failure or restart |
| `requests` | `Reconciled`: at rest a running pod has current requests and all others have a grace period and a timer; `IsLease`: refinement of RequestLease; `Settles`: requests of a pod that is gone go, those of a running pod stay | 1 NATConfig, 2 addresses, an annotation that parses and one that does not, 6 edits, 1 failed call or restart |
| `loader` | `Exclusive`: revnat runs at most once; `Complete`: a pinned revnat link comes with everything else of its Load; `FilledAttached`: the maps a daemon fills are those of the attached programs; `DaemonKeeps`: no start of the daemon takes down a working installation; `Recovers`: a restarted daemon ends up serving, unless the other mode is installed | daemon and moorctl one at a time, 3 commands, 3 failures or deaths |

The type invariants of NatTable, DaemonSync, RequestLifecycle and Loader hold on the same instances (add
`INVARIANT TypeOK`) and are no part of the runs.

**Bounds.** Two pods suffice for every conflict over a slot, which is between two holders; two IPs
for the rule that one pod's indices differ across IPs; two or three blocks make allocation fail
some of the time. `MaxLag` bounds undelivered watch events (writers wait when it is reached);
`MaxOps` and `MaxEdits` bound what the environment does. The counterexamples of section 5 need two
to five environment steps, those to `Exclusive` as many as five, where `operator_calm` takes four:
what lies beyond is covered by the theorems of section 4, for all three properties of that run.
Those of DaemonSync need at most five edits, where `sync_calm` takes four and `sync_down` six; the
theorems remove both bounds for the safety properties. In `sync_calm` the second pod's NPR can have
one slot only, to keep the state graph small enough for `MappedInTheEnd`; four edits are enough for a
name to be refused, for another to give up the room it needs, and for one more change. In `sync_down`
the second pod can have both slots. Those of RouteSync need two edits, where `route_sync` takes three; two NATConfigs are
enough for sharing, and the theorems remove both bounds for what they prove. Those of RequestLifecycle need at most six
edits, the bound of `requests`. The controllers treat NATConfigs one by one, hence one of them;
with two of them (`NC = {"p", "q"}`, `MaxEdits = 4`, without `recreate` and `annotate`) it passes
as well, in six minutes. The loader's counterexamples need at
most two commands and two deaths, where `loader` takes three of each; two maps of a kind stand for
five, since the loops over them do not tell them apart. M = 16 has block sizes that divide the space, that do
not, and lower bounds on and off a block boundary; the theorems remove the bound. In NatTable the
clock stops at `MaxClock` and packets at `LastPacket`; the blocks of one and two ports in a space of
eight make probing wrap and run out. In `operator_live` one block is enough: every wait for a block
is a wait for the last one. In the runs without deadlock checking the bounded
environment lets the system stop.

**Symmetry** over pods is used in `operator_calm` and `operator_rest` only, whose constants treat
pods alike; `LeaseSpec` has no liveness part, for which symmetry would be unsound.

**Fairness.** `operator_live` assumes weak fairness of watch delivery and of each controller's
next step, and strong fairness of starting each queued key. The first holds because a reconcile is
straight-line code with API calls that return; the second because work queues are first-in
first-out, so a key that is queued again and again cannot be passed over for ever. Environment
steps are not fair. The bounded environment eventually leaves the operator alone; failing API calls
are left out here, because an API server that fails for ever serves nobody. `nat_reclaim` assumes
that a started packet program finishes, that the sweep timer fires and the clock moves.
`sync_calm` and `route_sync` assume that a reconcile runs on, that a stopped daemon is started again
and, strongly, that the work queue passes no name over, for the reasons given above. Neither
assumes that operations succeed: `MappedInTheEnd` has "from some point on no map operation fails by
chance" as its hypothesis, and RouteSync bounds the number of chance failures; what has to fail (no
room, no IPv4 CIDR) fails for ever and is retried for ever. `requests` assumes weak fairness of each
controller, of watch delivery and of time; `loader` that processes run on and that the kubelet
restarts a daemon that has exited, strongly, since moorctl keeps it from starting now and then.

**Environment.** `requests` is without three events that break its properties, each
with a configuration in section 5: a cache that has not yet got the daemon's own last write (`lag`),
something that happens between a check and its write (`race`), a request of another node under the
same name (`clash`). `loader` is without two processes at once (`overlap`); Complete, FilledAttached
and Recovers make an exception for a removal that was cut short, Exclusive makes none.

## 4. Proofs

TLAPS checks every proof. What is proved holds for every value of the constants that satisfies the
named assumptions of the modules: any number of pods, IPs, blocks, NATConfigs, maps, CPUs, any lag
and any number of environment steps. Where a theorem has a hypothesis on the environment, a run of
section 3 that checks the same property satisfies it; what section 5 shows is why it is there.

### Operator

* `OperatorProof!TypeCorrect`, `Spec => []TypeOK`. Besides types, `TypeOK` says which locals of
  a reconcile are set at which point.
* `OperatorProof!RangesDisjoint`, `Spec => []PodRangesDisjoint`, **in every environment**. The
  property is not inductive: an NPR is overwritten by a copy that was read earlier and edited. The
  invariant is `CleanEverywhere` (`CleanAlways`), which says the same of every copy: stored, cached,
  on its way, in the hands of a reconcile.
* `OperatorProof!ExclusiveHolds`, `Exclusive` **in a calm environment**, from the assumption
  `Env \subseteq CalmEvents`. `Ownership` (`OwnershipHolds`) strengthens it with six parts: there is
  one allocator and it only gains IPs (`OneAllocator`); the cache ends up where the API server is and
  nothing follows a deletion (`Coherent`); from the stale mark on nobody but the NPR controller
  writes an NPR (`Dying`); what the releasing reconcile holds is what the API server has (`Release`);
  a copy that can still be written differs from the stored NPR by what this reconcile took or will
  give back (`FreshCopies`); and every slot has one owner: free, listed in one NPR, or in the hands of
  one reconcile (`SingleOwner`). The last needs all the others: a slot is handed on at an API call,
  and only if the copy is current is what the call removes what the reconcile will return.
* `OperatorProof!LeaseHolds`, the refinement `LeaseSpec` of BlockLease in a calm environment.
  Every action maps to a grant, an adjustment, a drain, an end or a stutter. That a grant or an
  adjustment takes no leased slot is `SingleOwner`; that a draining lease does not change is `Dying`.
* `OperatorRestProof!AccountedHolds`, `Accounted` in a calm environment whose pool stays as it is.
  `Ownership` says that no slot has two owners, `Account` that none has no owner (`Lossless`), for
  which a write must keep or return all that the overwritten NPR lists (`RqKeeps`, `CcKeeps`). That
  fails when the pool grows: case `PoolGrowLost`.
* `OperatorRestProof!ServedHolds`, `Served` under the same assumptions. The invariant is `Provided`,
  on top of `Ownership` and `Account`. Its first part, `EvenEverywhere`, says of every copy of an NPR
  that it lists `count` blocks on each IP of the pool and none elsewhere, and of the copy increaseCount
  is working on that it is `delta` blocks short on the IPs still to be visited. Three facts about
  cardinalities carry it: AllocateForPod picks the same number on every IP; AllocateForIP adds blocks
  the NPR does not have; and decreaseCount, which keeps the blocks with fewer than n before them, keeps
  n of at least n (`CountLowest`: the number of blocks before it tells the blocks of an IP apart and
  takes every value from 0 up). It follows that the NATConfig reconcile never has anything to add. The
  second part, `NoneForgotten`, says that a request without an NPR is queued or on its way to the
  Create; `Dying` gives that an NPR on its way out has no request.

### Port space and connection tables

* `PortSpaceProof!DisjointAlways`, `RoundTripAlways`, `ContainingAlways`: the three arithmetic
  properties for every modulus, block size and lower bound that `New` accepts. The key lemma is
  that no intermediate result reaches M. `WrittenAlways` (`AllPortsWritten`): a map writer's loop
  that ends without an error has visited the ports of its block; the invariant is where in the block
  the loop is.
* `NatTableProof!TranslationsInBlock`, `Spec => []InBlock`, for any number of CPUs, pods, blocks,
  seeds and table sizes, with sweeps and rewrites of nat_config at any moment. The blocks `InBlock`
  speaks of are those the pod has or had (`Held`): the reuse of an entry does not look at nat_config,
  and nothing purges the tables, so with the blocks it has now the property fails (case `NatMoved`).
  `InBlock` is not inductive, because a CPU writes a port it chose some steps earlier, from a list that
  may have gone since; `InHand` adds that what each CPU holds between its choice and its second write
  lies in `Held`, which only grows (`HeldGrows`). Underneath are lemmas about the projection
  of a hash onto a block and the walk from there, which never leave it.
* `NatTableProof!PairedHolds`, `Serial => (Spec /\ []Room => []Paired)`. `Serial` is one CPU and no
  sweep, `Room` that neither table is full; cases `NatRace`, `NatSweepTcp` and `NatFull` show that
  `Paired` fails without each. `Paired` speaks of the moments between packets. `Phase` says what holds
  within one: which of the connection's two entries are there at each point, that the revnat key just
  chosen is free, that all other entries are in pairs. Closing removes a pair because the key of the
  peer, computed from one entry, is the key that leads back to it (`MateMate`).
  `PairedInAmpleTables` replaces `[]Room` by a condition on the constants: tables with room for every
  key never fill up. (The 16 entries of `nat_serial` are fewer than
  the keys of its second table, but a pod that sends from two ports has at most four entries for a
  protocol, and `Room` holds in all states of the run.)
* `NatTableProof!HealthyKeptHolds`, `Serial => (Spec => HealthyKept)`, full tables included. `Doom`
  adds what a program knows between its steps: before it looks at the peer, its own entry is closing;
  after that, the snat entry it is about to delete is.

### Daemon

* `DaemonSyncProof!SyncTypeCorrect`, `Spec => []TypeOK`, in every environment.
* `DaemonSyncProof!NeverMisroutedHolds`, `LiveMappedHolds`, `KeptMappedHolds`, `NoStraysHolds`, for a daemon that keeps up
  while it runs (`KeepsUp`: no "lag"), with map operations failing anywhere. `LiveMapped` and
  `KeptMapped` hold with restarts, the other two without (`Calm`; cases `SyncRestarted` and
  `SyncReusedDown` of section 5). All but `NeverMisrouted` also need `BlocksApart`: an NPR has at most one block on an IP, and the
  local NPRs of a pod have different IPs and block indices, since otherwise entries of nat_config and
  pod_nat_ports belong to two NPRs (cases `SyncTwoRanges`, `SyncSharedBlock`). None of them is inductive, for a reconcile
  that fails leaves the maps anywhere between two states. The invariant `SyncInv` looks at the maps as
  a set of entries and gives each NPR three sets: what it is to have (`Goal`), what it had when it was
  last done (`Past`), and what is in both and must not be touched in between (`Kept`, which is `KeptMapped`). Every entry
  belongs to the `Goal` or `Past` of some NPR (`Covered`, which a restart ends, and with it what
  follows from it), every `Kept` is there, no two NPRs claim a slot, and the operations still to be done write what is missing, remove what is left over, and never
  take away a wanted entry that no later one writes again (`Working`). The order of operations enters
  here: an NPR whose block moves within an IP loses its nat_config entry before it is written anew.
* `DaemonSyncProof!PodKindKeptHolds`, under `Calm` and `BlocksApart`. dst_kind is reference-counted by a
  look at the cache, which says who was done last, not who is complete in the maps. `Kinds` says that
  the pod IP is there while an NPR of the cache needs it, or will be written by the reconcile in
  progress; `Finals` that an NPR new to the cache becomes complete in the maps only by the last write
  to nat_config in its reconcile, which comes after the one to dst_kind.
* `RouteSyncProof!RouteTypeCorrect`, `LedgerHolds` and `SettledServedHolds`: `TypeOK`, and, under
  `KeysApart` (different CIDR strings have no key in common), `Ledger` and `SettledServed`.
  `SettledServed` is not inductive: it says nothing of a NATConfig that is being worked on, nor of
  why a removal spares another one's keys. `Ledger` adds that what is tracked is present
  (`TrackedPresent`), how far the reconcile in progress has got (`Progress`: phases behind it are
  tracked as wanted, what it has still to remove is tracked by nobody), and that a settled NATConfig
  is tracked as it wants to be. The removal step needs `KeysApart`: without it the keys of a CIDR
  nobody tracks may be keys of one that somebody does, and case `RouteNested` is the counterexample.
* `RouteSyncProof!NoStraysHolds`, `NoStrays` under `KeysApart`. `Traced` adds the other direction to
  `Ledger`: until something fails, every key present is a key of a CIDR that is tracked or in the
  hands of the reconcile in progress. The bound `MaxFaults` must not be 0, or the failures that the
  hypothesis of `NoStrays` speaks of would go uncounted.
* `RequestProof!LeaseImplemented`, the refinement `IsLease` of RequestLease, when neither "race" nor
  "lag" happens. `LeaseInv` relates every copy in the controllers' hands to the stored request: the
  same resource version means the same content, and a request about to be deleted has a grace period
  that is over and is not renewed before the Delete.
* `RequestProof!ReconciledHolds`, `Reconciled` when "clash" does not happen either. `RestInv` says who
  will still see to a request that is not as it should be: the queue, the reconcile in progress
  (`Pending`, request by request), the syncer (`Swept`), the timer or the watch (`Alarmed`).
* `LoaderProof!ExclusiveRevnat`, `CompleteHolds`, `FilledAttachedHolds`, `DaemonKeepsHolds`, when
  processes do not overlap, whatever fails and wherever a process dies. `LoaderInv` says for each point
  of a Load which pins are its own and that the other mode's link is missing (`LoadStage`), for each
  point of a removal that whatever is pinned is still to be visited (`UnloadStage`), that a revnat link
  is whole unless a removal is under way or was cut short (`WholeUnlessTorn`), and that a daemon only
  loads, hence only rolls back, where no link of its mode is pinned (`DaemonStage`).

### Assumptions

*Calm*, for the operator, means: the NATConfig is not deleted, its pool only grows, and not between a NATConfig
reconcile's read and its look at the registered IPs; nobody else deletes NPRs; a request is not
created again before its predecessor's NPR is gone; the operator does not restart while an NPR
terminates; removing the finalizer does not fail; no reply is lost; and a key is not queued again
for no reason, by a resync or by a requeue timer that outlives the wait it was set for. Section 5
has a counterexample to `Exclusive` for each of these except a shrinking pool: TLC finds none there
in five environment steps, and the proof assumes it away.

The modules' own assumptions (`ConstantsAssumption`, `SyncAssumption`, `RequestAssumption`,
`LoaderAssumption`, `NatAssumption` and so on) say that numbers are numbers, that pools and the set of
blocks are finite (`BlockAssumption`),
that the names of maps, programs and links differ, and that `None` is none of the values it stands
beside. TLC evaluates them in every run.

### Only model-checked

The liveness properties (`RequestIsServed`, `StaleIsRemoved`, `LoopEnds`, `AnyReclaimed`,
`ClosingReclaimed`, `MappedInTheEnd`, `Converges`, `Settles`, `Recovers`) rest on fairness, which is
beyond the prover. Every other property of a run is stated by a theorem.


## 5. Where the code and what it says of itself differ

TLC reproduces each case and stops with the trace: `tlc -config <case>.cfg <module>`, where the
module is MCOperator, PortSpace, MCNatTable, MCDaemonSync, MCRouteSync, RequestLifecycle or Loader.
Cases with a star are another case's configuration with one or two lines changed, listed below.

| Case | Property | Event | What happens |
|---|---|---|---|
| `ReleaseRetried` | `Exclusive` | removing the finalizer fails | the retry of releaseAndFinalize frees blocks that meanwhile are another pod's |
| `PortLoopTop` | `OnlyOwnPorts` | block ends at port 65535 | `port <= portEnd` is always true, the loop wraps and writes every port |
| `CrashWhileReleasing`* | `Exclusive` | restart while an NPR terminates | reconstruction skips it, its block is given away, then the release frees it under the new holder |
| `ResyncReleasing`* | `Exclusive` | key queued again after the release | the cache still shows the NPR terminating, and it is released a second time |
| `DeletedBehind` | `Exclusive` | NPR deleted by someone else, request resized | the resize makes the finalizer's Update conflict; the retry frees again |
| `RecreatedReleasing`* | `Exclusive` | request recreated during the release, with another count | the same |
| `ConfigRecreated`* | `Exclusive` | NATConfig deleted and recreated | the new allocator knows none of the old NPRs |
| `LostReply`* | `Exclusive` | Create takes effect and reports an error | the rollback frees the blocks of an existing NPR |
| `PoolRace` | `Exclusive` | pool grows under a NATConfig reconcile | an IP registered in between is dropped with its taken blocks |
| `PoolShrink`* | `Accounted` | pool shrinks | a request reconcile with the old pool registers the IP again; its block is lost |
| `PoolGrowLost`* | `Accounted` | pool grows under a NATConfig reconcile, after its look at the registered IPs | it strikes the new IP's block from an NPR created meanwhile; the block is not freed and the IP stays |
| `PoolGrowMissed`* | `Served` | pool grows | an NPR created from the old pool behind the reconcile's List gets nothing on the new IP |
| `Recreated`* | `Served` | request recreated | the old, dying NPR is taken for its own |
| `ResizeMissed` | `CountFollows` | resize before the cache has the NPR | AlreadyExists is not retried |
| `Orphan`* | `NoOrphan` | request deleted while its NPR is created | nothing marks the NPR stale; it has no owner reference |
| `ReservationUndone` | `ReservationInForce` | reservedPorts edited | a reconcile with the older NATConfig restores the old reservation |
| `NatRace` | `Paired` | two CPUs open connections | both find the port free, one revnat entry is overwritten |
| `NatFull` | `Paired` | table full | the first entry fits, the second does not, the packet leaves |
| `NatSweepTcp` | `Paired` | TCP sweep | the peer's key is computed with the pod port in place of the NAT port |
| `NatSweepAny` | `NoSharedPort` | UDP sweep | a send-only flow loses its revnat entry, its port is given out again |
| `NatMoved` | `InBlockNow` | nat_config entry replaced | a connection goes on with the port of a block the pod no longer has |
| `NatClockWrap` | `OnlyStaleSwept` | entry marked during a sweep | its negative age wraps and it is deleted at once |
| `SyncCoalesced` | `NoStrays` | daemon misses the stale phase | NotFound leaves the maps as they are |
| `SyncRestarted` | `NoStrays` | daemon down while an NPR goes | its entries stay in the pinned maps |
| `SyncPodKind` | `PodKindKept` | restart | the cache used for reference counting is empty |
| `SyncHalfDone` | `LiveMapped` | sync fails half way, NPR returns to the cached allocations | the difference to the cache is empty, the maps stay wrong |
| `SyncPassedOver`* | `LiveMapped` | a slot goes to another pod and comes back while its first holder's reconcile waits | the difference to the cache is empty, the slot stays unmapped; with a first-in first-out queue the wait is that of a retry |
| `SyncTwoRanges` | `LiveMapped` | several blocks on one IP | nat_config is keyed by IP and keeps the last |
| `SyncSharedBlock` | `LiveMapped` | two NATConfigs give a pod one index | removing one NPR removes the ports of both |
| `SyncReused` | `NeverMisrouted` | NPR shrinks | its block has a new holder before this node forgets the old one |
| `SyncReusedDown`* | `NeverMisrouted` | slot changes hands while the daemon is down | its entry leads to the former holder until the daemon has started and come to it |
| `RouteNested` | `SettledServed` | pools of two NATConfigs overlap | CIDRs are compared as strings; dropping one removes addresses of the other from dst_kind |
| `RouteStray`* | `Exact` | a removal fails, or the daemon restarts | tracking is recorded first, so nothing removes the CIDR later |
| `RequestLag`* | `Settles` | reconcile before the cache has the last write | the update conflicts, the conflict is dropped, and nothing queues the pod again |
| `RequestRace`* | `IsLease` | request renewed between check and Delete | it is deleted without a precondition |
| `RequestClash`* | `Reconciled` | request of the same name from another node or pod | AlreadyExists is taken for success |
| `RequestReused` | `RightAddress` | pod recreated within the grace period | the request is renewed with the former pod's address |
| `LoaderTorn` | `RecoversTorn` | unload dies after removing some pins | EnsureLoaded takes the remaining link for an installation; the daemon never finds its maps |
| `LoaderOverlap` | `Exclusive` | two Loads in different modes at once | each looks before the other has pinned its link |
| `LoaderUnder`* | `FilledAttached` | `moorctl unload` under a running daemon | the daemon goes on with maps of no program |

| Starred case | Configuration | `Env` | Checks |
|---|---|---|---|
| `ConfigRecreated` | `ReleaseRetried.cfg` | `{"delete_config"}` | `Exclusive` |
| `CrashWhileReleasing` | `ReleaseRetried.cfg` | `{"delete", "crash_releasing"}` | `Exclusive` |
| `LostReply` | `ReleaseRetried.cfg` | `{"lost_reply"}` | `Exclusive` |
| `ResyncReleasing` | `ReleaseRetried.cfg` | `{"delete", "resync"}` | `Exclusive` |
| `Orphan` | `ReleaseRetried.cfg` | `{"delete"}` | `NoOrphan` |
| `Recreated` | `ReleaseRetried.cfg` | `{"delete", "recreate"}` | `Served` |
| `RecreatedReleasing` | `DeletedBehind.cfg` | `{"delete", "recreate", "resize"}` | `Exclusive` |
| `PoolShrink` | `PoolRace.cfg` | `{"shrink"}` | `Accounted` |
| `PoolGrowLost` | `PoolRace.cfg` | `{"grow"}` | `Accounted` |
| `PoolGrowMissed` | `PoolRace.cfg` | `{"grow"}` | `Served` |
| `SyncPassedOver` | `SyncHalfDone.cfg` with `MaxEdits = 5` | `{"lag"}` | `LiveMapped` |
| `SyncReusedDown` | `SyncReused.cfg` | `{"restart"}` | `NeverMisrouted` |
| `RouteStray` | `RouteSync.cfg` | | `Exact` only |
| `RequestLag` | `RequestReused.cfg` | `{"relabel", "lag"}` | `PROPERTY Settles` |
| `RequestRace` | `RequestReused.cfg` | `{"relabel", "race"}` | `PROPERTY IsLease` |
| `RequestClash` | `RequestReused.cfg` | `{"clash"}` | `Reconciled` |
| `LoaderUnder` | `LoaderOverlap.cfg` | `{"overlap", "unload"}` | `FilledAttached` |

Two observations about Load. As long as no process dies, `Exclusive` holds without its look at the
other mode's link too: the pins of the maps, which both modes share, make a second Load fail. What
the look does then is to keep the rollback of that failure from taking down the other mode's working
installation: without it `DaemonKeeps` fails. And
`moorctl load` on a node that is loaded in the same mode fails on those pins too, whereupon its
rollback unloads the datapath that was working; `DaemonKeeps` speaks of daemon starts only, which
EnsureLoaded protects from this.

The properties that fail at rest (`Served`, `CountFollows`) may be repaired by the informers'
resync, which is hours away; the model's `resync` event is off in these configurations.

## 6. Not modelled

* Wall-clock time. The cleanup window, grace periods and requeue delays are "at any later time". A
  reconcile that only waits is no step; a timer it leaves behind is covered by the `resync` event.
  So is the schedule of sweeps (`internal/gc/runnable.go`): its period, signal and debounce window
  only choose when a sweep begins, and in NatTable it may begin at any time.
* The conversion of a request's count to 16 bits. RequestLifecycle parses the annotation; Operator
  starts from the converted count.
* Several NATConfigs in Operator: their allocators share nothing. DaemonSync and RouteSync have two,
  since there they do share map entries.
* A composition of Operator with the daemons: it would multiply state spaces that are large each by
  itself, and has not been tried. The interfaces are assumptions instead. DaemonSync's environment
  gives no slot to two NPRs, which is `Exclusive`, proved for Operator in a calm environment.
  Operator lets requests come, change count and go at any time, but a calm environment does not
  create one again before its predecessor's NPR is gone, and RequestLifecycle does not promise that.
* Two operators at once: leader election is trusted.
* Packet contents, checksums, encapsulation and the forwarding decision of stage 1
  (`bpf/headers/l4.h`, `tc.h`, `ctx/`, the two revnat entry points): functions of one packet and of
  maps that others write, with no state of their own.
* The BGP protocol, which is gobgp's; a route is advertised or not. Reading the speaker's settings
  from the environment.
* Malformed configuration. A target CIDR that does not parse makes every sync of its NPR fail, a
  `nodeSelector` that does not parse every reconcile of its NATConfig, a pool that does not parse every
  reconcile of its requests; `MappedInTheEnd`, `Converges` and `RequestIsServed` do not hold for such
  objects, and the models have none (RouteSync has CIDRs that are refused). Errors before the first
  state change (in Load: the mode, the interface, MkdirAll) are left out; so is a RemoveAll that fails
  without the death of its process, which `Crash` stands for.
* A failing List in an event handler. `nodeToNATConfigs` and `natConfigToPods` then return nothing, and
  the event is lost; they read the informer cache, and the models let them succeed.
* A block whose writes stop in the middle, for some ports or protocols: PortSpace has it (`BodyFails`),
  DaemonSync takes the writes of a block as one.
* Objects that come back under their name with other fixed fields: in Operator the container ports of a
  request, in DaemonSync the pod IP of an NPR. RequestLifecycle has it for the pod's address.
* Maps of different generations beside each other while a daemon fills them: `Loader!Fill` waits until
  all are of one, whereas `openMap` opens each by its path.
* `moorctl map`, which writes single entries of nat_config, target_cidrs, dst_kind, port_range_lookup
  and pod_nat_ports by hand, past the cache of a running daemon. Its writes are the functions of
  `internal/maps` that DaemonSync and RouteSync model.
* `moorctl diag`, which only reads; metrics, which no decision reads; flags, health probes, logging,
  generated code.
