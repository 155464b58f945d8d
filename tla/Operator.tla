------------------------------ MODULE Operator ------------------------------
(***************************************************************************)
(* The mooring operator: three controllers that share one registry of      *)
(* block allocators and write NATPortRange (NPR) objects.                  *)
(*                                                                         *)
(*   rq   NATPortRangeRequestReconciler   internal/controller/operator/    *)
(*   rl   NATPortRangeReconciler            natportrange*_controller.go    *)
(*   cc   NATConfigReconciler               natconfig_controller.go        *)
(*                                                                         *)
(* A controller handles one key at a time (MaxConcurrentReconciles is 1)   *)
(* and the three run concurrently.  A reconcile is a sequence of steps,    *)
(* cut wherever another controller can get in between: at every API call   *)
(* and at every allocator call, each of which holds a mutex on its own.    *)
(* The calls that prepare the allocator (EnsureAllocator, EnsureIP and     *)
(* ListIPs) are one step: they only add IPs, so they commute with what     *)
(* others do.                                                              *)
(*                                                                         *)
(* NPRs are read from the informer cache, which follows the API server at  *)
(* a distance of at most MaxLag watch events, and are written to the API   *)
(* server, which rejects an Update made from an outdated copy.  NATConfigs *)
(* and NPRRs are only ever read by the operator, through the cache; nc and *)
(* nprr are what the cache holds.  There is one NATConfig: allocators of   *)
(* different NATConfigs share nothing.  Time is not modelled: a reconcile  *)
(* that merely waits for the cleanup window changes nothing, and the model *)
(* starts the one that finds the window over.                              *)
(***************************************************************************)
EXTENDS BlockAllocator, Sequences

CONSTANTS
    Pod,       \* names of NPRRs; an NPR has the name of its NPRR
    Counts,    \* the portRangeCounts an NPRR may ask for, a set of positive numbers
    Configs,   \* the specs the NATConfig may be given
    Targets,   \* values of NATConfig.spec.targetCIDRs
    Exclude,   \* Exclude[p]: block indices that hold p's own container ports,
               \* the same for every request of that name
    Gen,       \* identities of allocator objects
    None,      \* no object
    MaxLag,    \* bound on undelivered watch events
    MaxOps,    \* bound on environment steps
    Env        \* what the environment may do, a subset of EnvEvents

EnvEvents ==
    { "delete",          \* delete an NPRR
      "recreate",        \* create an NPRR although an NPR of that name remains
      "resize",          \* change the count of an NPRR
      "edit",            \* change the NATConfig, but not its pool
      "grow",            \* add IPs to the pool while no reconcile of the NATConfig
                         \* is between its read and its look at the registered IPs
      "grow_racing",     \* add IPs to the pool at any time
      "shrink",          \* take IPs out of the pool
      "delete_config",   \* delete the NATConfig (and create it again)
      "delete_npr",      \* delete an NPR behind the operator's back
      "resync",          \* reconcile a key although nothing happened to it
      "crash",           \* restart while no NPR is terminating
      "crash_releasing", \* restart at any time
      "api_error",       \* an API call fails and has no effect
      "release_error",   \* ... the call that removes the finalizer included
      "lost_reply" }     \* an API call takes effect and reports an error

Config == [pool : SUBSET IP, reserved : SUBSET Block, target : Targets]

NPR == [allocs : SUBSET Slot, count : Counts, target : Targets,
        stale : BOOLEAN, deleting : BOOLEAN]

ASSUME ConstantsAssumption ==
    /\ Counts \subseteq Nat \ {0}
    /\ Configs \subseteq Config
    /\ Exclude \in [Pod -> SUBSET Block]
    /\ Env \subseteq EnvEvents
    /\ MaxLag \in Nat \ {0} /\ MaxOps \in Nat
    /\ None \notin NPR \cup Config \cup Pod \cup Gen \cup Nat
    /\ None \notin [slots : SUBSET Slot, draining : BOOLEAN]
    /\ Gen # {} /\ \A x, y \in Gen : \E g \in Gen : g # x /\ g # y

VARIABLES
    nc,        \* the NATConfig, or None
    nprr,      \* nprr[p]: the count p's NPRR asks for, or None
    npr,       \* npr[p]: p's NPR on the API server, or None
    cache,     \* cache[p]: p's NPR in the informer cache, or None
    pending,   \* watch events on the way to the cache
    heap,      \* heap[g]: the allocator object g
    cur,       \* the allocator in the registry, or None
    rqQ, rlQ,  \* work queues: sets of pods
    ccQ,       \* work queue of the NATConfig controller: nonempty?
    rq, rl, cc,\* the reconcile each controller is in the middle of
    ops        \* environment steps taken

user  == <<nc, nprr, ops>>
api   == <<npr, pending>>
alloc == <<heap, cur>>
queues == <<rqQ, rlQ, ccQ>>
vars  == <<user, api, cache, alloc, queues, rq, rl, cc>>

(***************************************************************************)
(* The reconciles.  Each controller's record holds the local variables of  *)
(* the reconcile it is in: pc, the key, the copy it read and will write    *)
(* (new), whether that copy is still what the API server has (fresh), the  *)
(* allocator it got from the registry (gen), the IPs it has yet to         *)
(* allocate on (todo), what it took from the allocator (add) and what it   *)
(* will return (give).                                                     *)
(***************************************************************************)
RqIdle == [pc |-> "idle", pod |-> None, new |-> None, fresh |-> FALSE, gen |-> None,
           conf |-> None, want |-> None, todo |-> {}, delta |-> None, add |-> {}, give |-> {}]
RlIdle == [pc |-> "idle", pod |-> None, new |-> None, fresh |-> FALSE]
NoList == [p \in Pod |-> None]
CcIdle == [pc |-> "idle", pod |-> None, new |-> None, fresh |-> {}, gen |-> None,
           conf |-> None, todo |-> {}, add |-> {}, list |-> NoList, gone |-> {}]

Init ==
    /\ nc \in Configs
    /\ nprr = [p \in Pod |-> None]
    /\ npr = [p \in Pod |-> None]
    /\ cache = npr
    /\ pending = <<>>
    /\ heap = [g \in Gen |-> NewAllocator]
    /\ cur = None
    /\ rqQ = {} /\ rlQ = {} /\ ccQ = TRUE
    /\ rq = RqIdle /\ rl = RlIdle /\ cc = CcIdle
    /\ ops = 0

(***************************************************************************)
(* API server.                                                             *)
(***************************************************************************)
Store(p, obj) ==
    /\ Len(pending) < MaxLag
    /\ npr' = [npr EXCEPT ![p] = obj]
    /\ pending' = Append(pending, [pod |-> p, obj |-> obj])

\* The client reports an error other than the API server's own refusal: the
\* write did not happen, or it did and the reply was lost.
Fails(applies, p, obj, errors) ==
    \/ errors \in Env /\ UNCHANGED api
    \/ "lost_reply" \in Env /\ applies /\ Store(p, obj)

\* A controller's write of obj.  applies says whether the API server accepts
\* it, ok what the client reports.
Call(applies, p, obj, errors, ok) ==
    IF ok THEN applies /\ Store(p, obj)
          ELSE (~applies /\ UNCHANGED api) \/ Fails(applies, p, obj, errors)

\* After a write to p, copies of p held elsewhere are outdated.
Spoil(r, p)   == IF npr'[p] # npr[p] /\ r.pod = p THEN [r EXCEPT !.fresh = FALSE] ELSE r
SpoilList(p)  == IF npr'[p] # npr[p] THEN [cc EXCEPT !.fresh = @ \ {p}] ELSE cc

CacheIsFresh(p) == \A i \in 1..Len(pending) : pending[i].pod # p

\* Faulty Deliver: the key of a changed object is not queued.
DeliverQuietly ==
    /\ pending # <<>>
    /\ cache' = [cache EXCEPT ![Head(pending).pod] = Head(pending).obj]
    /\ pending' = Tail(pending)
    /\ UNCHANGED <<user, npr, alloc, queues, rq, rl, cc>>

\* A watch event reaches the cache and queues its key for the NPR controller.
Deliver ==
    /\ pending # <<>>
    /\ LET e == Head(pending) IN
        /\ cache' = [cache EXCEPT ![e.pod] = e.obj]
        /\ rlQ' = rlQ \cup {e.pod}
    /\ pending' = Tail(pending)
    /\ UNCHANGED <<user, npr, alloc, rqQ, ccQ, rq, rl, cc>>

(***************************************************************************)
(* Registry.                                                               *)
(***************************************************************************)
\* The registry creates an allocator with no blocks used, whatever NPRs exist.
FreshGen == CHOOSE g \in Gen : g \notin {rq.gen, cc.gen}
EnsuredGen == IF cur = None THEN FreshGen ELSE cur

\* EnsureAllocator and the EnsureIP calls that follow it.
EnsureAllocator(conf) ==
    LET known == IF cur = None THEN NewAllocator ELSE heap[cur] IN
    /\ cur' = EnsuredGen
    /\ heap' = [heap EXCEPT ![EnsuredGen] = EnsureIPs(SetReserved(known, conf.reserved), conf.pool)]

(***************************************************************************)
(* NATPortRangeRequest controller.                                         *)
(***************************************************************************)
\* The NPRR is gone: markNPRStale.
RqStartGone(p) ==
    /\ rq.pc = "idle" /\ p \in rqQ /\ nprr[p] = None
    /\ rqQ' = rqQ \ {p}
    /\ rq' = IF cache[p] = None \/ cache[p].stale THEN RqIdle
             ELSE [RqIdle EXCEPT !.pc = "update", !.pod = p, !.fresh = CacheIsFresh(p),
                                 !.new = [cache[p] EXCEPT !.stale = TRUE]]
    /\ UNCHANGED <<user, api, cache, alloc, rlQ, ccQ, rl, cc>>

\* The NPRR exists.  Without a NATConfig the reconcile only requeues itself.
RqStart(p) ==
    /\ rq.pc = "idle" /\ p \in rqQ /\ nprr[p] # None /\ nc # None
    /\ rqQ' = rqQ \ {p}
    /\ rq' = [RqIdle EXCEPT !.pc = "ensure", !.pod = p, !.want = nprr[p], !.conf = nc]
    /\ UNCHANGED <<user, api, cache, alloc, rlQ, ccQ, rl, cc>>

RqEnsure ==
    /\ rq.pc = "ensure"
    /\ EnsureAllocator(rq.conf)
    /\ rq' = [rq EXCEPT !.pc = "decide", !.gen = EnsuredGen]
    /\ UNCHANGED <<user, api, cache, queues, rl, cc>>

\* Faulty createNPR: exhaustion is logged, and not an error that brings the
\* request back.
RqAllocatePodGivingUp ==
    LET p == rq.pod
        ex == Exclude[p]
    IN
    /\ rq.pc = "decide" /\ cache[p] = None
    /\ \/ \E S \in PicksForPod(heap[rq.gen], rq.conf.pool, rq.want, ex) :
              /\ heap' = [heap EXCEPT ![rq.gen] = Allocate(@, S)]
              /\ rq' = [rq EXCEPT !.pc = "create", !.add = S,
                          !.new = [allocs |-> S, count |-> rq.want, target |-> rq.conf.target,
                                   stale |-> FALSE, deleting |-> FALSE]]
       \/ /\ PodPickFails(heap[rq.gen], rq.conf.pool, rq.want, ex)
          /\ rq' = RqIdle /\ heap' = heap
    /\ UNCHANGED <<user, api, cache, cur, queues, rl, cc>>

\* The Get of the NPR, and createNPR up to the Create call.  Only this
\* controller creates NPRs, so that the cache may learn of one between Get and
\* AllocateForPod makes no difference: Create is refused in either case.  The
\* errors of the pure calls before it (EnsureAllocator and expandCIDRs on a
\* malformed spec, blockIndexOf) end the reconcile before it has done anything
\* and are left out.
RqAllocatePod ==
    LET p == rq.pod
        ex == Exclude[p]
    IN
    /\ rq.pc = "decide" /\ cache[p] = None
    /\ \/ /\ \E S \in PicksForPod(heap[rq.gen], rq.conf.pool, rq.want, ex) :
              /\ heap' = [heap EXCEPT ![rq.gen] = Allocate(@, S)]
              /\ rq' = [rq EXCEPT !.pc = "create", !.add = S,
                          !.new = [allocs |-> S, count |-> rq.want, target |-> rq.conf.target,
                                   stale |-> FALSE, deleting |-> FALSE]]
          /\ rqQ' = rqQ
       \/ /\ PodPickFails(heap[rq.gen], rq.conf.pool, rq.want, ex)
          /\ rq' = RqIdle /\ rqQ' = rqQ \cup {p}
          /\ heap' = heap
    /\ UNCHANGED <<user, api, cache, cur, rlQ, ccQ, rl, cc>>

\* The slots decreaseCount keeps: on each pool IP the n with the lowest ports.
Lowest(S, n) == {s \in S : Cardinality({t \in S : t[1] = s[1] /\ t[2] < s[2]}) < n}

\* The NPR exists: increaseCount and decreaseCount, up to their first call.
RqResize ==
    LET p == rq.pod
        o == cache[p]
        inPool == {s \in o.allocs : s[1] \in rq.conf.pool}
        keep == Lowest(inPool, rq.want)
    IN
    /\ rq.pc = "decide" /\ o # None
    /\ \/ o.count = rq.want /\ rq' = RqIdle
       \/ /\ o.count < rq.want
          /\ rq' = [rq EXCEPT !.pc = IF rq.conf.pool = {} THEN "update" ELSE "grow",
                              !.fresh = CacheIsFresh(p), !.new = [o EXCEPT !.count = rq.want],
                              !.todo = rq.conf.pool, !.delta = rq.want - o.count]
       \/ /\ o.count > rq.want
          /\ rq' = [rq EXCEPT !.pc = "update", !.fresh = CacheIsFresh(p),
                              !.new = [o EXCEPT !.count = rq.want, !.allocs = keep],
                              !.give = inPool \ keep]
    /\ UNCHANGED <<user, api, cache, alloc, queues, rl, cc>>

\* Faulty exclusion: the pod's blocks on other IPs are forgotten.
UnusableOwnPortsOnly(p, S) == Exclude[p]

\* What a pod that holds S must not get on a further IP.
Unusable(p, S) == Exclude[p] \cup BlocksOf(S)

\* One AllocateForIP call of increaseCount.
RqGrow(ip) ==
    LET ex == Unusable(rq.pod, rq.new.allocs) IN
    /\ rq.pc = "grow" /\ ip \in rq.todo
    /\ \/ \E S \in PicksForIP(heap[rq.gen], ip, rq.delta, ex) :
          /\ heap' = [heap EXCEPT ![rq.gen] = Allocate(@, S)]
          /\ rq' = [rq EXCEPT !.pc = IF rq.todo = {ip} THEN "update" ELSE "grow",
                              !.todo = rq.todo \ {ip}, !.add = rq.add \cup S,
                              !.new = [rq.new EXCEPT !.allocs = @ \cup S]]
          /\ rqQ' = rqQ
       \/ /\ PickFails(heap[rq.gen], ip, rq.delta, ex)
          /\ rq' = [rq EXCEPT !.pc = "free", !.give = rq.add]
          /\ rqQ' = rqQ \cup {rq.pod}
          /\ heap' = heap
    /\ UNCHANGED <<user, api, cache, cur, rlQ, ccQ, rl, cc>>

\* Faulty ends of a reconcile: the allocation is rolled back after success too,
\* and a failure is not retried.
RqAfterCallRollingBack(ok, retry) ==
    /\ rq' = LET give == rq.give \cup rq.add IN
             IF give = {} THEN RqIdle ELSE [rq EXCEPT !.pc = "free", !.give = give]
    /\ rqQ' = IF retry THEN rqQ \cup {rq.pod} ELSE rqQ
    /\ rl' = Spoil(rl, rq.pod) /\ cc' = SpoilList(rq.pod)
    /\ UNCHANGED <<user, cache, alloc, rlQ, ccQ>>
RqAfterCallGivingUp(ok, retry) ==
    /\ rq' = LET give == IF ok THEN rq.give ELSE rq.add IN
             IF give = {} THEN RqIdle ELSE [rq EXCEPT !.pc = "free", !.give = give]
    /\ rqQ' = rqQ
    /\ rl' = Spoil(rl, rq.pod) /\ cc' = SpoilList(rq.pod)
    /\ UNCHANGED <<user, cache, alloc, rlQ, ccQ>>

\* What follows an API call: success returns decreaseCount's surplus, failure
\* rolls the allocation back.
RqAfterCall(ok, retry) ==
    /\ rq' = LET give == IF ok THEN rq.give ELSE rq.add IN
             IF give = {} THEN RqIdle ELSE [rq EXCEPT !.pc = "free", !.give = give]
    /\ rqQ' = IF retry THEN rqQ \cup {rq.pod} ELSE rqQ
    /\ rl' = Spoil(rl, rq.pod) /\ cc' = SpoilList(rq.pod)
    /\ UNCHANGED <<user, cache, alloc, rlQ, ccQ>>

\* createNPR's Create; AlreadyExists is not retried.
RqCreate ==
    LET p == rq.pod IN
    /\ rq.pc = "create"
    /\ \/ npr[p] = None /\ Store(p, rq.new) /\ RqAfterCall(TRUE, FALSE)
       \/ npr[p] # None /\ UNCHANGED api /\ RqAfterCall(FALSE, FALSE)
       \/ Fails(npr[p] = None, p, rq.new, "api_error") /\ RqAfterCall(FALSE, TRUE)

\* The Update of increaseCount, decreaseCount and markNPRStale.
RqUpdate ==
    /\ rq.pc = "update"
    /\ \E ok \in BOOLEAN : /\ Call(rq.fresh, rq.pod, rq.new, "api_error", ok)
                           /\ RqAfterCall(ok, ~ok)

\* The Free that ends createNPR, increaseCount or decreaseCount.
RqFree ==
    /\ rq.pc = "free"
    /\ heap' = [heap EXCEPT ![rq.gen] = Free(@, rq.give)]
    /\ rq' = RqIdle
    /\ UNCHANGED <<user, api, cache, cur, queues, rl, cc>>

(***************************************************************************)
(* NATPortRange controller.                                                *)
(***************************************************************************)
\* What Reconcile does next for the cached object o; the wait for the cleanup
\* window is over.
RlVerdict(o) == IF o = None THEN "idle"
             ELSE CASE o.deleting /\ ~o.stale   -> "stamp"
                    [] o.deleting /\ o.stale    -> "release"
                    [] ~o.deleting /\ o.stale   -> "delete"
                    [] ~o.deleting /\ ~o.stale  -> "idle"

RlStart(p) ==
    /\ rl.pc = "idle" /\ p \in rlQ
    /\ rlQ' = rlQ \ {p}
    /\ rl' = IF RlVerdict(cache[p]) = "idle" THEN RlIdle
             ELSE [pc |-> RlVerdict(cache[p]), pod |-> p, new |-> cache[p], fresh |-> CacheIsFresh(p)]
    /\ UNCHANGED <<user, api, cache, alloc, rqQ, ccQ, rq, cc>>

RlAfterCall(retry) ==
    /\ rl' = RlIdle
    /\ rlQ' = IF retry THEN rlQ \cup {rl.pod} ELSE rlQ
    /\ rq' = Spoil(rq, rl.pod) /\ cc' = SpoilList(rl.pod)
    /\ UNCHANGED <<user, cache, alloc, rqQ, ccQ>>

\* Terminating without staleSince: stamp it and come back after the window.
RlStamp ==
    /\ rl.pc = "stamp"
    /\ \E ok \in BOOLEAN :
          Call(rl.fresh, rl.pod, [rl.new EXCEPT !.stale = TRUE], "api_error", ok)
    /\ RlAfterCall(TRUE)

\* Stale and not terminating: Delete goes by name, whatever the copy says.  The
\* finalizer keeps the object; deleting it again changes nothing.
RlDelete ==
    LET p == rl.pod IN
    /\ rl.pc = "delete"
    /\ \/ /\ npr[p] # None /\ ~npr[p].deleting
          /\ \E ok \in BOOLEAN : /\ Call(TRUE, p, [npr[p] EXCEPT !.deleting = TRUE], "api_error", ok)
                                 /\ RlAfterCall(~ok)
       \/ /\ npr[p] = None \/ npr[p].deleting
          /\ UNCHANGED api /\ RlAfterCall(FALSE)

\* releaseAndFinalize: Free into the registry's allocator, if there is one ...
RlRelease ==
    /\ rl.pc = "release"
    /\ heap' = IF cur = None THEN heap
               ELSE [heap EXCEPT ![cur] = Free(@, rl.new.allocs)]
    /\ rl' = [rl EXCEPT !.pc = "finalize"]
    /\ UNCHANGED <<user, api, cache, cur, queues, rq, cc>>

\* ... then the Update that removes the finalizer, and with it the object.
RlFinalize ==
    /\ rl.pc = "finalize"
    /\ \E ok \in BOOLEAN : /\ Call(rl.fresh, rl.pod, None, "release_error", ok)
                           /\ RlAfterCall(~ok)

(***************************************************************************)
(* NATConfig controller.                                                   *)
(***************************************************************************)
\* Faulty read: an error of the Get is ignored, so a NATConfig that has gone is
\* reconciled as if it were there.
CcStartUnchecked ==
    /\ cc.pc = "idle" /\ ccQ
    /\ ccQ' = FALSE
    /\ cc' = [CcIdle EXCEPT !.pc = "ensure", !.conf = nc]
    /\ UNCHANGED <<user, api, cache, alloc, rqQ, rlQ, rq, rl>>

CcStart ==
    /\ cc.pc = "idle" /\ ccQ
    /\ ccQ' = FALSE
    /\ cc' = IF nc = None THEN [CcIdle EXCEPT !.pc = "remove"]
             ELSE [CcIdle EXCEPT !.pc = "ensure", !.conf = nc]
    /\ UNCHANGED <<user, api, cache, alloc, rqQ, rlQ, rq, rl>>

\* Registry.Remove
CcRemove ==
    /\ cc.pc = "remove"
    /\ cur' = None /\ cc' = CcIdle
    /\ UNCHANGED <<user, api, cache, heap, queues, rq, rl>>

\* EnsureAllocator, EnsureIP, and the IPs that are to go in the end.
CcEnsure ==
    /\ cc.pc = "ensure"
    /\ EnsureAllocator(cc.conf)
    /\ cc' = [cc EXCEPT !.pc = "list", !.gen = EnsuredGen,
                        !.gone = heap'[EnsuredGen].reg \ cc.conf.pool]
    /\ UNCHANGED <<user, api, cache, queues, rq, rl>>

\* Faulty listing: NPRs on their way out are not skipped.
CcListAll ==
    /\ cc.pc = "list"
    /\ cc' = [cc EXCEPT !.pc = "scan", !.list = cache, !.fresh = {p \in Pod : CacheIsFresh(p)}]
    /\ UNCHANGED <<user, api, cache, alloc, queues, rq, rl>>

\* The NPRs to reconcile: neither stale nor terminating.
CcList ==
    /\ cc.pc = "list"
    /\ LET listed == {p \in Pod : cache[p] # None /\ ~cache[p].deleting /\ ~cache[p].stale} IN
       cc' = [cc EXCEPT !.pc = "scan",
                        !.list = [p \in Pod |-> IF p \in listed THEN cache[p] ELSE None],
                        !.fresh = {p \in listed : CacheIsFresh(p)}]
    /\ UNCHANGED <<user, api, cache, alloc, queues, rq, rl>>

\* reconcileNPRAllocations on the next NPR of the list, up to its first call.
CcScan(p) ==
    LET o == cc.list[p] IN
    /\ cc.pc = "scan" /\ o # None
    /\ cc' = IF IPsOf(o.allocs) = cc.conf.pool THEN [cc EXCEPT !.list = [cc.list EXCEPT ![p] = None]]
             ELSE [cc EXCEPT !.pc = "extend", !.pod = p, !.todo = cc.conf.pool \ IPsOf(o.allocs),
                     !.new = [o EXCEPT !.allocs = {s \in @ : s[1] \in cc.conf.pool}]]
    /\ UNCHANGED <<user, api, cache, alloc, queues, rq, rl>>

\* One AllocateForIP call of reconcileNPRAllocations.
CcExtend(ip) ==
    LET ex == Unusable(cc.pod, cc.new.allocs) IN
    /\ cc.pc = "extend" /\ ip \in cc.todo
    /\ \/ \E S \in PicksForIP(heap[cc.gen], ip, cc.new.count, ex) :
          /\ heap' = [heap EXCEPT ![cc.gen] = Allocate(@, S)]
          /\ cc' = [cc EXCEPT !.todo = cc.todo \ {ip}, !.add = cc.add \cup S,
                             !.new = [cc.new EXCEPT !.allocs = @ \cup S]]
       \/ /\ PickFails(heap[cc.gen], ip, cc.new.count, ex)
          /\ cc' = [cc EXCEPT !.pc = "abort"]
          /\ heap' = heap
    /\ UNCHANGED <<user, api, cache, cur, queues, rq, rl>>

CcUpdate ==
    LET p == cc.pod IN
    /\ cc.pc = "extend" /\ cc.todo = {}
    /\ \E ok \in BOOLEAN :
          /\ Call(p \in cc.fresh, p, cc.new, "api_error", ok)
          /\ cc' = IF ok THEN [cc EXCEPT !.pc = "scan", !.pod = None, !.new = None,
                                         !.add = {}, !.list = [cc.list EXCEPT ![p] = None],
                                         !.fresh = @ \ {p}]
                   ELSE [cc EXCEPT !.pc = "abort"]
    /\ rq' = Spoil(rq, p) /\ rl' = Spoil(rl, p)
    /\ UNCHANGED <<user, cache, alloc, queues>>

\* An error ends the reconcile: roll back this NPR's allocation and retry.
CcAbort ==
    /\ cc.pc = "abort"
    /\ heap' = [heap EXCEPT ![cc.gen] = Free(@, cc.add)]
    /\ cc' = CcIdle /\ ccQ' = TRUE
    /\ UNCHANGED <<user, api, cache, cur, rqQ, rlQ, rq, rl>>

\* Every listed NPR is done: drop the IPs that left the pool, one at a time.
CcDrop ==
    /\ cc.pc = "scan" /\ cc.list = NoList
    /\ \/ /\ cc.gone = {} /\ cc' = CcIdle
          /\ heap' = heap
       \/ \E ip \in cc.gone : /\ heap' = [heap EXCEPT ![cc.gen] = RemoveIP(@, ip)]
                              /\ cc' = [cc EXCEPT !.gone = @ \ {ip}]
    /\ UNCHANGED <<user, api, cache, cur, queues, rq, rl>>

(***************************************************************************)
(* A restart: the operator loses its memory, the caches are filled anew,   *)
(* every existing object is queued, and ReconstructionRunnable.Start       *)
(* rebuilds the allocator before any controller passes its gate.           *)
(***************************************************************************)
\* Faulty reconstruction: existing NPRs are not replayed.
ReconstructedEmpty == EnsureIPs(SetReserved(NewAllocator, nc.reserved), nc.pool)

\* A fresh allocator on which the blocks of every NPR that does not terminate
\* are marked used.
Reconstructed ==
    LET held == UNION {npr[p].allocs : p \in {q \in Pod : npr[q] # None /\ ~npr[q].deleting}}
    IN  MarkUsed(EnsureIPs(SetReserved(NewAllocator, nc.reserved), nc.pool), held)

Restart ==
    /\ \/ "crash" \in Env /\ \A p \in Pod : npr[p] # None => ~npr[p].deleting
       \/ "crash_releasing" \in Env
    /\ ops < MaxOps /\ ops' = ops + 1
    /\ cache' = npr /\ pending' = <<>>
    /\ rq' = RqIdle /\ rl' = RlIdle /\ cc' = CcIdle
    /\ rqQ' = {p \in Pod : nprr[p] # None}
    /\ rlQ' = {p \in Pod : npr[p] # None}
    /\ ccQ' = (nc # None)
    /\ LET g == CHOOSE h \in Gen : TRUE IN
        /\ cur' = IF nc = None THEN None ELSE g
        /\ heap' = [h \in Gen |-> IF nc # None /\ h = g THEN Reconstructed ELSE NewAllocator]
    /\ UNCHANGED <<nc, nprr, npr>>

(***************************************************************************)
(* The environment: the daemons, which own the NPRRs, and the people who   *)
(* edit the NATConfig.                                                     *)
(***************************************************************************)
EnvStep == ops < MaxOps /\ ops' = ops + 1 /\ UNCHANGED <<cache, alloc>>

EditRequest(p) ==
    /\ EnvStep
    /\ \/ /\ nprr[p] = None
          /\ "recreate" \in Env \/ (npr[p] = None /\ cache[p] = None)
          /\ \E n \in Counts : nprr' = [nprr EXCEPT ![p] = n]
       \/ /\ nprr[p] # None /\ "resize" \in Env
          /\ \E n \in Counts \ {nprr[p]} : nprr' = [nprr EXCEPT ![p] = n]
       \/ /\ nprr[p] # None /\ "delete" \in Env
          /\ nprr' = [nprr EXCEPT ![p] = None]
    /\ rqQ' = rqQ \cup {p}
    /\ UNCHANGED <<nc, api, rlQ, ccQ, rq, rl, cc>>

MayBecome(conf) ==
    \/ conf.pool = nc.pool /\ "edit" \in Env
    \/ nc.pool \subseteq conf.pool /\ "grow" \in Env /\ cc.pc # "ensure"
    \/ nc.pool \subseteq conf.pool /\ "grow_racing" \in Env
    \/ ~(nc.pool \subseteq conf.pool) /\ "shrink" \in Env

EditConfig ==
    /\ EnvStep
    /\ \/ /\ nc # None
          /\ \E conf \in Configs \ {nc} : MayBecome(conf) /\ nc' = conf
       \/ nc # None /\ "delete_config" \in Env /\ nc' = None
       \/ nc = None /\ nc' \in Configs
    /\ ccQ' = TRUE
    /\ UNCHANGED <<nprr, api, rqQ, rlQ, rq, rl, cc>>

\* Someone else deletes an NPR; its finalizer keeps it until the operator
\* has released its blocks.
DeleteNPR(p) ==
    /\ "delete_npr" \in Env /\ EnvStep
    /\ npr[p] # None /\ ~npr[p].deleting
    /\ Store(p, [npr[p] EXCEPT !.deleting = TRUE])
    /\ rq' = Spoil(rq, p) /\ rl' = Spoil(rl, p) /\ cc' = SpoilList(p)
    /\ UNCHANGED <<nc, nprr, queues>>

\* The informers' periodic resync queues every object again.
Resync ==
    /\ "resync" \in Env /\ EnvStep
    /\ rqQ' = rqQ \cup {p \in Pod : nprr[p] # None}
    /\ rlQ' = rlQ \cup {p \in Pod : cache[p] # None}
    /\ ccQ' = (ccQ \/ nc # None)
    /\ UNCHANGED <<nc, nprr, api, rq, rl, cc>>

RqStep == \/ RqEnsure \/ RqAllocatePod \/ RqResize \/ (\E ip \in IP : RqGrow(ip))
          \/ RqCreate \/ RqUpdate \/ RqFree
RlStep == RlStamp \/ RlDelete \/ RlRelease \/ RlFinalize
CcStep == \/ CcStart \/ CcRemove \/ CcEnsure \/ CcList \/ (\E p \in Pod : CcScan(p))
          \/ (\E ip \in IP : CcExtend(ip)) \/ CcUpdate \/ CcAbort \/ CcDrop

Next ==
    \/ RqStep \/ RlStep \/ CcStep \/ Deliver
    \/ \E p \in Pod : RqStart(p) \/ RqStartGone(p) \/ RlStart(p)
    \/ \E p \in Pod : EditRequest(p) \/ DeleteNPR(p)
    \/ EditConfig \/ Resync \/ Restart

Spec == Init /\ [][Next]_vars

\* Watch events arrive, a reconcile that has begun goes on, and the work
\* queues are first-in first-out, so every queued key has its turn.  The
\* environment owes nothing.
Fairness ==
    /\ WF_vars(Deliver) /\ WF_vars(RqStep) /\ WF_vars(RlStep) /\ WF_vars(CcStep)
    /\ \A p \in Pod : SF_vars(RqStart(p) \/ RqStartGone(p)) /\ SF_vars(RlStart(p))

FairSpec == Spec /\ Fairness
-----------------------------------------------------------------------------
(***************************************************************************)
(* Properties.                                                             *)
(***************************************************************************)
RqState ==
    [pc : {"idle", "ensure", "decide", "create", "grow", "update", "free"},
     pod : Pod \cup {None}, new : NPR \cup {None}, fresh : BOOLEAN, gen : Gen \cup {None},
     conf : Configs \cup {None}, want : Counts \cup {None}, todo : SUBSET IP,
     delta : Nat \cup {None}, add : SUBSET Slot, give : SUBSET Slot]

RlState ==
    [pc : {"idle", "stamp", "delete", "release", "finalize"},
     pod : Pod \cup {None}, new : NPR \cup {None}, fresh : BOOLEAN]

CcState ==
    [pc : {"idle", "remove", "ensure", "list", "scan", "extend", "abort"},
     pod : Pod \cup {None}, new : NPR \cup {None}, fresh : SUBSET Pod, gen : Gen \cup {None},
     conf : Configs \cup {None}, todo : SUBSET IP, add : SUBSET Slot,
     list : [Pod -> NPR \cup {None}], gone : SUBSET IP]

\* The type of every variable, and which locals a reconcile has set where.
TypeOK ==
    /\ nc \in Configs \cup {None}
    /\ nprr \in [Pod -> Counts \cup {None}]
    /\ npr \in [Pod -> NPR \cup {None}]
    /\ cache \in [Pod -> NPR \cup {None}]
    /\ pending \in Seq([pod : Pod, obj : NPR \cup {None}])
    /\ heap \in [Gen -> Allocator]
    /\ cur \in Gen \cup {None}
    /\ rqQ \subseteq Pod /\ rlQ \subseteq Pod /\ ccQ \in BOOLEAN
    /\ rq \in RqState /\ rl \in RlState /\ cc \in CcState
    /\ ops \in Nat
    /\ rq.pc # "idle" => rq.pod # None
    /\ rq.pc \in {"ensure", "decide", "create", "grow"} => rq.conf # None /\ rq.want # None
    /\ rq.pc \in {"create", "grow", "update"} => rq.new # None
    /\ rq.pc = "grow" => rq.delta # None
    /\ rq.pc \in {"decide", "create", "grow", "free"} \/ rq.add # {} \/ rq.give # {}
          => rq.gen # None
    /\ rl.pc # "idle" => rl.pod # None /\ rl.new # None
    /\ cc.pc \notin {"idle", "remove"} => cc.conf # None
    /\ cc.pc \in {"list", "scan", "extend", "abort"} => cc.gen # None
    /\ cc.pc = "extend" => cc.pod # None /\ cc.new # None

Exists(p) == npr[p] # None

\* Allocator.go:31: the blocks of one pod have different indices on different
\* IPs, so the pod's port ranges never overlap; nor do they cover a port the
\* pod itself listens on.
PodRangesDisjoint ==
    \A p \in Pod : Exists(p) =>
        IndicesDistinct(npr[p].allocs) /\ BlocksOf(npr[p].allocs) \cap Exclude[p] = {}

\* An NPR holds its blocks until the cleanup window after its deletion is over.
Holds(p) == Exists(p) /\ ~(npr[p].deleting /\ npr[p].stale)

\* Allocator.go:30: a block is held by at most one pod on each IP.
Exclusive ==
    \A p, q \in Pod : p # q /\ Holds(p) /\ Holds(q) => npr[p].allocs \cap npr[q].allocs = {}

\* Nothing is queued, on its way or in progress.
Quiescent == /\ rqQ = {} /\ rlQ = {} /\ ~ccQ /\ pending = <<>>
             /\ rq = RqIdle /\ rl = RlIdle /\ cc = CcIdle

\* When the operator has come to rest, every request has an NPR that is not
\* on its way out and lists as many blocks as it says on every pool IP.
Served ==
    Quiescent /\ nc # None =>
        \A p \in Pod : nprr[p] # None =>
            /\ Exists(p) /\ ~npr[p].stale /\ ~npr[p].deleting
            /\ IPsOf(npr[p].allocs) = nc.pool
            /\ \A ip \in nc.pool : Cardinality(OnIP(npr[p].allocs, ip)) = npr[p].count

\* When the operator has come to rest, an NPR has the count its request asks for.
CountFollows ==
    Quiescent => \A p \in Pod : Exists(p) /\ nprr[p] # None => npr[p].count = nprr[p]

\* When the operator has come to rest, no NPR is left without its request.
NoOrphan == Quiescent => \A p \in Pod : Exists(p) => nprr[p] # None

\* When the operator has come to rest, a block of a registered IP is either
\* free or listed in an NPR: none is lost, none is both.
Accounted ==
    Quiescent /\ cur # None =>
        \A s \in heap[cur].reg \X Block :
            s \in heap[cur].free <=> ~ \E p \in Pod : Exists(p) /\ s \in npr[p].allocs

\* An edit of reservedPorts takes effect: when the operator has come to rest,
\* the allocator withholds the blocks the NATConfig reserves.
ReservationInForce == Quiescent /\ nc # None /\ cur # None => heap[cur].reserved = nc.reserved

\* Until its blocks may be reclaimed, an NPR is a lease on them.
Lease == INSTANCE BlockLease WITH
    lease <- [p \in Pod |-> IF Holds(p) THEN [slots |-> npr[p].allocs, draining |-> npr[p].stale]
                            ELSE None]

\* The operator implements the block leases of module BlockLease: blocks go
\* from one pod to another only through a drained and ended lease, and a
\* stale NPR keeps the allocations the daemons are cleaning up.
LeaseSpec == Lease!Spec

\* Who has a claim on blocks: the requests, and the NPRs not marked stale.  An
\* NPR whose request went unnoticed (NoOrphan) is one of them for good.
Claimant == {q \in Pod : nprr[q] # None \/ (Exists(q) /\ ~npr[q].stale)}
Claims(q) == {nprr[q]} \cup (IF Exists(q) THEN {npr[q].count} ELSE {})

\* There is room for p: if every claimant took as much as the largest, enough
\* blocks would be left on each IP that are not p's on another IP, that the
\* NATConfig does not reserve and that p does not listen on.
Room(p) ==
    /\ nc # None
    /\ \E n \in Counts :
          /\ \A q \in Claimant : \A m \in Claims(q) \ {None} : m <= n
          /\ (Cardinality(Claimant \ {p}) + Cardinality(nc.pool)) * n
                <= Cardinality(Block \ (nc.reserved \cup Exclude[p]))

\* A request for which there is room eventually gets its NPR, unless it is
\* withdrawn or the room is taken away again: also when it was refused because
\* the blocks were exhausted, or reserved, and another request's NPR has yet to
\* be deleted and released, or the reservation to be lifted.
RequestIsServed ==
    \A p \in Pod : (nprr[p] # None /\ Room(p)) ~> (Exists(p) \/ nprr[p] = None \/ ~Room(p))

\* An NPR marked stale eventually goes away, and its name can be used again.
StaleIsRemoved == \A p \in Pod : (Exists(p) /\ npr[p].stale) ~> ~Exists(p)
=============================================================================
