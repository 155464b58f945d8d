----------------------------- MODULE DaemonSync -----------------------------
(***************************************************************************)
(* The NATPortRange sync controller of one node's daemon                   *)
(* (internal/controller/daemon/natportrange_controller.go) and the BPF     *)
(* maps it writes through internal/maps.  The maps are pinned and outlive  *)
(* the daemon; the cache of what was last written does not.                *)
(*                                                                         *)
(* A reconcile is a list of map operations, done one at a time and in the  *)
(* order of the slices of the spec, here a fixed one.  An operation may    *)
(* fail, which ends the reconcile and queues the name again.  Ports are    *)
(* blocks here (PortSpace has the loops over ports), and one lookup map    *)
(* stands for the three per-protocol ones: an operation on a block works   *)
(* or fails as a whole, whereas the code may fail in the middle of one,    *)
(* with some protocols or ports of that block done.  The next attempt does *)
(* the whole block again.  CIDRs are well-formed: a string net.ParseCIDR   *)
(* refuses is an error of every attempt, and not modelled.                 *)
(*                                                                         *)
(* The API objects are the environment: NATPortRanges as module Operator   *)
(* produces them, never holding a slot that another one holds.  Env names  *)
(* what else may happen:                                                   *)
(*   fail     a map operation fails                                        *)
(*   lag      the API moves on, or a slot changes hands, before the daemon *)
(*            has caught up                                                *)
(*   restart  the daemon stops and starts again                            *)
(*   ranges   a NATPortRange has several blocks on one external IP         *)
(***************************************************************************)
EXTENDS Naturals, Sequences, FiniteSets, Functions

CONSTANTS Name,       \* NATPortRange names
          PodOf,      \* [Name -> pod IPs]; a name keeps its pod IP, also when
                      \* the NATPortRange is deleted and created again
          Local,      \* the names whose nodeName is this node
          PoolOf,     \* [Name -> sets of slots <<ip, block>>]: their NATConfig's pool
          CIDR,       \* target CIDRs
          MaxAllocs,  \* room of a nat_config entry, in external IPs
          None,
          Env,        \* what may happen, see above
          MaxEdits    \* bound: number of API changes

Pod  == {PodOf[n] : n \in Name}
Slot == UNION {PoolOf[n] : n \in Name}
IPsOf(S) == {s[1] : s \in S}

Object == [allocs : SUBSET Slot, cidrs : SUBSET CIDR, stale : BOOLEAN]
Cached == [allocs : SUBSET Slot, cidrs : SUBSET CIDR]

ASSUME SyncAssumption ==
    /\ Local \subseteq Name
    /\ \A n \in Name : IsFiniteSet(PoolOf[n]) /\ \A s \in PoolOf[n] : s = <<s[1], s[2]>>
    /\ IsFiniteSet(CIDR)
    /\ None \notin Pod /\ None \notin Name /\ None \notin Object /\ None \notin Cached
    /\ Env \subseteq {"fail", "lag", "restart", "ranges"}
    /\ MaxEdits \in Nat /\ MaxAllocs \in Nat

VARIABLES npr,      \* the API objects, None when absent
          edits,    \* how many API changes there were
          queue,    \* the names waiting for a reconcile
          up,       \* is the daemon running
          synced,   \* its cache of what was last written
          work,     \* the reconcile in progress
          lookup,   \* port_range_lookup: slot -> pod
          ports,    \* pod_nat_ports: <<pod, block>>
          kind,     \* dst_kind: the pod IPs in it
          cfg       \* nat_config: <<pod, cidr, ip, block>>

api  == <<npr, edits>>
maps == <<lookup, ports, kind, cfg>>
vars == <<npr, edits, queue, up, synced, work, lookup, ports, kind, cfg>>

NoWork == [name |-> None]

Init ==
    /\ npr = [n \in Name |-> None] /\ edits = 0
    /\ queue = {} /\ up = TRUE
    /\ synced = [n \in Name |-> None] /\ work = NoWork
    /\ lookup = [s \in Slot |-> None] /\ ports = {} /\ kind = {} /\ cfg = {}

-----------------------------------------------------------------------------
\* What a reconcile compares with: nothing for a name not in the cache.
OldAllocs(n) == IF synced[n] = None THEN {} ELSE synced[n].allocs
OldCIDRs(n)  == IF synced[n] = None THEN {} ELSE synced[n].cidrs

\* A loop over S takes its elements once each, in an order that is the same
\* every time.  (SetToSeq of SequencesExt: that module is left out because
\* everything it extends would be in the context of each proof obligation.)
SetToSeq(S) == CHOOSE f \in [1 .. Cardinality(S) -> S] : IsInjective(f)

OnSlots(op, S)   == SetToSeq({[op |-> op, slot |-> s] : s \in S})
OnConfig(C, ips) == SetToSeq({[op |-> "cfgRemove", cidr |-> c, ips |-> ips] : c \in C})
Upserts(C, S)    == SetToSeq({[op |-> "cfgUpsert", cidr |-> c, slot |-> s] :
                                c \in C, s \in S})

\* Faulty syncAlive: what is kept is torn down and built up again as well.
SyncAliveRebuilding(n) ==
    LET new  == npr[n].allocs
        old  == OldAllocs(n)
    IN  OnSlots("lookupRemove", old) \o OnSlots("lookupAdd", new)
        \o IF n \notin Local THEN << >> ELSE
              OnSlots("portsRemove", old) \o OnSlots("portsAdd", new)
           \o << [op |-> "kindAdd"] >>
           \o OnConfig(OldCIDRs(n), IPsOf(old))
           \o Upserts(npr[n].cidrs, new)

\* syncAlive: the differences to the cache.
SyncAlive(n) ==
    LET new  == npr[n].allocs
        rem  == OldAllocs(n) \ new
        add  == new \ OldAllocs(n)
        same == npr[n].cidrs \cap OldCIDRs(n)
    IN  OnSlots("lookupRemove", rem) \o OnSlots("lookupAdd", add)
        \o IF n \notin Local THEN << >> ELSE
              OnSlots("portsRemove", rem) \o OnSlots("portsAdd", add)
           \o << [op |-> "kindAdd"] >>
           \o OnConfig(OldCIDRs(n) \ same, IPsOf(OldAllocs(n)))
           \o (IF rem = {} THEN << >> ELSE OnConfig(same, IPsOf(rem)))
           \o Upserts(npr[n].cidrs \ same, new)
           \o Upserts(same, add)

\* Faulty maybeRemovePodIPKind: the other NATPortRanges are not considered.
StillUsedNever(n) == FALSE

\* maybeRemovePodIPKind: another local entry of the cache keeps the pod IP.
\* Only the reconcile in progress writes the cache, so its beginning is as
\* good a moment to read it as any.
StillUsed(n) ==
    \E m \in Local \ {n} : synced[m] # None /\ PodOf[m] = PodOf[n]

\* Faulty syncStale: pod_nat_ports is forgotten.
SyncStaleKeepingPorts(n) ==
    OnSlots("lookupRemove", npr[n].allocs)
    \o IF n \notin Local THEN << >> ELSE
          OnConfig(npr[n].cidrs, IPsOf(npr[n].allocs))
       \o IF StillUsed(n) THEN << >> ELSE << [op |-> "kindRemove"] >>

\* syncStale: everything the spec lists, whatever the cache says.
SyncStale(n) ==
    OnSlots("lookupRemove", npr[n].allocs)
    \o IF n \notin Local THEN << >> ELSE
          OnSlots("portsRemove", npr[n].allocs)
       \o OnConfig(npr[n].cidrs, IPsOf(npr[n].allocs))
       \o IF StillUsed(n) THEN << >> ELSE << [op |-> "kindRemove"] >>

\* Reconcile, up to the first map operation.  A name that is gone only leaves
\* the cache.
Begin(n) ==
    /\ up /\ work = NoWork /\ n \in queue
    /\ queue' = queue \ {n}
    /\ IF npr[n] = None
       THEN synced' = [synced EXCEPT ![n] = None] /\ UNCHANGED work
       ELSE /\ work' = IF npr[n].stale
                       THEN [name |-> n, todo |-> SyncStale(n), then |-> None]
                       ELSE [name |-> n, todo |-> SyncAlive(n),
                             then |-> [allocs |-> npr[n].allocs, cidrs |-> npr[n].cidrs]]
            /\ UNCHANGED synced
    /\ UNCHANGED <<api, up, maps>>

\* Faulty RemovePortRange: it leaves the entry.
LookupRemoveNothing(p, s) == lookup

\* RemovePortRange: only where the entry still names the pod.
LookupRemove(p, s) == IF lookup[s] = p THEN [lookup EXCEPT ![s] = None] ELSE lookup

\* UpsertNatConfigEntry: one range for each external IP of the entry.
CfgUpsert(p, c, s) ==
    {e \in cfg : ~(e[1] = p /\ e[2] = c /\ e[3] = s[1])} \cup {<<p, c, s[1], s[2]>>}

\* UpsertNatConfigEntry refuses an external IP that is new to a full entry.
Accepts(p, o) ==
    LET E == {e \in cfg : e[1] = p /\ e[2] = o.cidr} IN
    o.op = "cfgUpsert" =>
        (\E e \in E : e[3] = o.slot[1]) \/ Cardinality(E) < MaxAllocs

CfgRemove(p, c, ips) == {e \in cfg : ~(e[1] = p /\ e[2] = c /\ e[3] \in ips)}

LookupAdd(p, s)   == [lookup EXCEPT ![s] = p]
PortsAdd(p, s)    == ports \cup {<<p, s[2]>>}
PortsRemove(p, s) == ports \ {<<p, s[2]>>}
KindAdd(p)        == kind \cup {p}
KindRemove(p)     == kind \ {p}

Apply(p, o) ==
    /\ lookup' = CASE o.op = "lookupRemove" -> LookupRemove(p, o.slot)
                   [] o.op = "lookupAdd"    -> LookupAdd(p, o.slot)
                   [] OTHER -> lookup
    /\ ports' = CASE o.op = "portsRemove" -> PortsRemove(p, o.slot)
                  [] o.op = "portsAdd"    -> PortsAdd(p, o.slot)
                  [] OTHER -> ports
    /\ kind' = CASE o.op = "kindRemove" -> KindRemove(p)
                 [] o.op = "kindAdd"    -> KindAdd(p)
                 [] OTHER -> kind
    /\ cfg' = CASE o.op = "cfgRemove" -> CfgRemove(p, o.cidr, o.ips)
                [] o.op = "cfgUpsert" -> CfgUpsert(p, o.cidr, o.slot)
                [] OTHER -> cfg

\* The next map operation.
Write ==
    /\ work # NoWork /\ work.todo # << >>
    /\ Accepts(PodOf[work.name], Head(work.todo))
    /\ Apply(PodOf[work.name], Head(work.todo))
    /\ work' = [work EXCEPT !.todo = Tail(@)]
    /\ UNCHANGED <<api, queue, up, synced>>

\* Faulty error path: the error is swallowed, and the name is not retried.
AbortForgotten ==
    /\ queue' = queue
    /\ work' = NoWork
    /\ UNCHANGED <<api, up, synced, maps>>

\* An error: the cache stays as it was and the name is retried.
Abort ==
    /\ queue' = queue \cup {work.name}
    /\ work' = NoWork
    /\ UNCHANGED <<api, up, synced, maps>>

\* The operation has to fail, or happens to.
Refused ==
    /\ work # NoWork /\ work.todo # << >>
    /\ ~Accepts(PodOf[work.name], Head(work.todo))
    /\ Abort

WriteFails ==
    /\ "fail" \in Env
    /\ work # NoWork /\ work.todo # << >>
    /\ Accepts(PodOf[work.name], Head(work.todo))
    /\ Abort

\* The cache is written last.
Finish ==
    /\ work # NoWork /\ work.todo = << >>
    /\ synced' = [synced EXCEPT ![work.name] = work.then]
    /\ work' = NoWork
    /\ UNCHANGED <<api, queue, up, maps>>

\* The daemon's process ends: the maps stay, the memory does not.
Stop ==
    /\ "restart" \in Env /\ up
    /\ up' = FALSE /\ queue' = {} /\ work' = NoWork
    /\ synced' = [n \in Name |-> None]
    /\ UNCHANGED <<api, maps>>

\* Faulty start: what exists already is not listed.
StartUnlisted ==
    /\ ~up
    /\ up' = TRUE /\ queue' = {}
    /\ UNCHANGED <<api, synced, work, maps>>

\* The informer lists what exists; what is gone by now is never seen.
Start ==
    /\ ~up
    /\ up' = TRUE /\ queue' = {n \in Name : npr[n] # None}
    /\ UNCHANGED <<api, synced, work, maps>>

-----------------------------------------------------------------------------
(* The API objects.                                                        *)

\* The slots that the operator does not give to someone else.  Without lag
\* the daemon forgets a slot before its next holder appears.
Held(n) ==
    UNION ({npr[m].allocs : m \in {x \in Name \ {n} : npr[x] # None}}
             \cup IF "lag" \in Env THEN {} ELSE {OldAllocs(m) : m \in Name \ {n}})

\* The daemon has dealt with the last change of n.
CaughtUp(n) == up /\ n \notin queue /\ work.name # n

Change(n, v) ==
    /\ edits < MaxEdits /\ edits' = edits + 1
    /\ CaughtUp(n) \/ "lag" \in Env \/ ~up
    /\ npr' = [npr EXCEPT ![n] = v]
    /\ queue' = IF up THEN queue \cup {n} ELSE queue
    /\ UNCHANGED <<up, synced, work, maps>>

\* The operator gives a NATPortRange no block index twice (PodRangesDisjoint
\* of module Operator) and, unless Env says so, one block on each IP.
Allowed(S) ==
    \A s, t \in S : /\ s[2] = t[2] => s = t
                    /\ s[1] = t[1] => s = t \/ "ranges" \in Env

Create(n) ==
    /\ npr[n] = None
    /\ \E S \in SUBSET (PoolOf[n] \ Held(n)) : \E C \in (SUBSET CIDR) \ {{}} :
          /\ S # {} /\ Allowed(S)
          /\ Change(n, [allocs |-> S, cidrs |-> C, stale |-> FALSE])

\* The operator resizes a NATPortRange or follows its pool.
Update(n) ==
    /\ npr[n] # None /\ ~npr[n].stale
    /\ \E S \in SUBSET (PoolOf[n] \ Held(n)) : \E C \in (SUBSET CIDR) \ {{}} :
          /\ Allowed(S) /\ (S # npr[n].allocs \/ C # npr[n].cidrs)
          /\ Change(n, [npr[n] EXCEPT !.allocs = S, !.cidrs = C])

MarkStale(n) ==
    /\ npr[n] # None /\ ~npr[n].stale
    /\ Change(n, [npr[n] EXCEPT !.stale = TRUE])

Delete(n) ==
    /\ npr[n] # None /\ npr[n].stale
    /\ Change(n, None)

EnvStep == \E n \in Name : Create(n) \/ Update(n) \/ MarkStale(n) \/ Delete(n)

Step == Write \/ Refused \/ Finish

Next ==
    \/ \E n \in Name : Begin(n)
    \/ Step \/ WriteFails
    \/ Stop \/ Start
    \/ EnvStep

\* A reconcile runs on, a stopped daemon is started again, and the work queue
\* passes no name over for ever.
Fairness ==
    /\ WF_vars(Step) /\ WF_vars(Start)
    /\ \A n \in Name : SF_vars(Begin(n))

Spec     == Init /\ [][Next]_vars
FairSpec == Spec /\ Fairness

-----------------------------------------------------------------------------
\* The type of the state.
TypeOK ==
    /\ \A n \in Name : npr[n] \in Object \cup {None} /\ synced[n] \in Cached \cup {None}
    /\ queue \subseteq Name /\ up \in BOOLEAN /\ work.name \in Name \cup {None}
    /\ lookup \in [Slot -> Pod \cup {None}]
    /\ ports \subseteq Pod \X {s[2] : s \in Slot} /\ kind \subseteq Pod
    /\ cfg \subseteq {<<p, c, s[1], s[2]>> : p \in Pod, c \in CIDR, s \in Slot}

Alive(n) == npr[n] # None /\ ~npr[n].stale
AtRest   == up /\ queue = {} /\ work = NoWork

Wanted(n) == {<<PodOf[n], c, s[1], s[2]>> : c \in npr[n].cidrs, s \in npr[n].allocs}

\* The slots of n lead to its pod on every node and, on the pod's own node,
\* its ports, its pod IP and its nat_config ranges are in the maps.
Mapped(n) ==
    /\ \A s \in npr[n].allocs : lookup[s] = PodOf[n]
    /\ n \in Local =>
          /\ PodOf[n] \in kind
          /\ \A s \in npr[n].allocs : <<PodOf[n], s[2]>> \in ports
          /\ Wanted(n) \subseteq cfg

\* When the daemon has nothing left to do, every NATPortRange that is alive
\* is in the maps, as syncAlive is to leave them.
LiveMapped == AtRest => \A n \in Name : Alive(n) => Mapped(n)

\* "A minimal diff rather than a full teardown/rebuild on every update": what an
\* alive NATPortRange had when it was last reconciled and still lists is in the
\* maps at every moment, between two map operations of an update, after an
\* update that has failed halfway, and whatever other NATPortRanges of the pod
\* are doing.
KeptMapped ==
    \A n \in Name : Alive(n) =>
        \A s \in npr[n].allocs \cap OldAllocs(n) :
            /\ lookup[s] = PodOf[n]
            /\ n \in Local =>
                  /\ <<PodOf[n], s[2]>> \in ports
                  /\ \A c \in npr[n].cidrs \cap OldCIDRs(n) : <<PodOf[n], c, s[1], s[2]>> \in cfg

\* When the daemon has nothing left to do, nothing else is in the maps.
NoStrays ==
    LET L == {n \in Local : Alive(n)} IN
    AtRest =>
        /\ \A s \in Slot : lookup[s] # None =>
              \E n \in Name : Alive(n) /\ s \in npr[n].allocs
        /\ kind \subseteq {PodOf[n] : n \in L}
        /\ ports \subseteq UNION {{<<PodOf[n], s[2]>> : s \in npr[n].allocs} : n \in L}
        /\ cfg \subseteq UNION {Wanted(n) : n \in L}

\* At no moment does a slot that an alive NATPortRange holds lead to another
\* pod: the slot's former holder was unmapped before the slot changed hands.
NeverMisrouted ==
    \A n \in Name : Alive(n) =>
        \A s \in npr[n].allocs : lookup[s] \in {None, PodOf[n]}

\* A pod IP does not leave dst_kind while an alive NATPortRange of the pod,
\* with slots of its own, is in the maps (maybeRemovePodIPKind).
PodKindKept ==
    [][\A n \in Local : Alive(n) /\ npr[n].allocs # {} /\ Mapped(n)
                           => PodOf[n] \in kind']_vars

\* The nat_config entries of n's pod have room for all its NATPortRanges.
Fits(n) ==
    \A c \in npr[n].cidrs :
        LET M == {m \in Local : npr[m] # None /\ PodOf[m] = PodOf[n] /\ c \in npr[m].cidrs}
        IN  Cardinality(UNION {IPsOf(npr[m].allocs) : m \in M}) <= MaxAllocs

\* Once the map operations stop failing, every alive NATPortRange that fits
\* gets into the maps and stays there: also when its sync was refused for
\* want of room that another NATPortRange of the pod has given up since, and
\* although names that do not fit are retried beside it for ever.
MappedInTheEnd ==
    <>[][~WriteFails]_vars => <>[](\A n \in Name : Alive(n) /\ Fits(n) => Mapped(n))
=============================================================================
