--------------------------- MODULE OperatorProof ----------------------------
(***************************************************************************)
(* The operator, for every set of pods, IPs, blocks, counts and            *)
(* configurations, every lag of the cache and every number of environment  *)
(* steps.  In any environment: types, and the disjoint port ranges of a    *)
(* pod.  In a calm environment (CalmEvents): a block has one holder        *)
(* (Ownership is an inductive invariant and implies Exclusive), and the    *)
(* blocks are leased as BlockLease says.                                   *)
(***************************************************************************)
EXTENDS OperatorInv, TLAPS

\* Zenon first: it needs no translation of the definitions, which is what costs here.
USE ZenonT(10), SMTT(30)

LEMMA NoneFacts ==
    /\ None \notin NPR /\ None \notin Configs /\ None \notin Pod /\ None \notin Gen
    /\ None \notin Nat /\ None \notin Counts
    /\ Counts \subseteq Nat \ {0}
    /\ \A c \in Configs : /\ c.pool \subseteq IP /\ c.reserved \subseteq Block
                          /\ c.target \in Targets
BY ConstantsAssumption DEF Config

\* Every allocator method returns an allocator.
LEMMA AllocatorTypes ==
    ASSUME NEW a \in Allocator, NEW S \in SUBSET Slot, NEW P \in SUBSET IP, NEW ip,
           NEW R \in SUBSET Block
    PROVE  /\ SetReserved(a, R) \in Allocator
           /\ EnsureIPs(a, P) \in Allocator
           /\ RemoveIP(a, ip) \in Allocator
           /\ MarkUsed(a, S) \in Allocator
           /\ Free(a, S) \in Allocator
           /\ Allocate(a, S) \in Allocator
BY DEF Allocator, SetReserved, EnsureIPs, RemoveIP, MarkUsed, Free, Allocate, Slot

LEMMA NewAllocatorType == NewAllocator \in Allocator
BY DEF NewAllocator, Allocator

\* What AllocateForIP hands out: free slots of the IP that are not excluded.
LEMMA IPPicks ==
    ASSUME NEW a \in Allocator, NEW ip, NEW n, NEW ex, NEW S \in PicksForIP(a, ip, n, ex)
    PROVE  /\ S \subseteq a.free /\ S \in SUBSET Slot
           /\ \A s \in S : s[1] = ip /\ s[2] \notin ex
BY DEF PicksForIP, Available, Allocator

\* What AllocateForPod hands out: free slots that are not excluded, no index twice.
LEMMA PodPicks ==
    ASSUME NEW a \in Allocator, NEW ips, NEW n, NEW ex, NEW S \in PicksForPod(a, ips, n, ex)
    PROVE  /\ S \subseteq a.free /\ S \in SUBSET Slot /\ IndicesDistinct(S)
           /\ \A s \in S : s[2] \notin ex
<1>1. \A s \in S : \E ip \in ips : s \in Available(a, ip, ex)
  BY DEF PicksForPod
<1>2. IndicesDistinct(S)
  BY DEF PicksForPod
<1>3. \A s \in S : s \in a.free /\ s[2] \notin ex
  BY <1>1 DEF Available
<1> QED BY <1>2, <1>3 DEF Allocator

LEMMA NPRUpdates ==
    ASSUME NEW o \in NPR
    PROVE  /\ [o EXCEPT !.deleting = TRUE] \in NPR /\ [o EXCEPT !.stale = TRUE] \in NPR
           /\ \A S \in SUBSET Slot : [o EXCEPT !.allocs = S] \in NPR
BY DEF NPR

LEMMA LessThanCounts == \A m, n \in Counts : m < n => n - m \in Nat
<1>1. \A m, n \in Nat : m < n => n - m \in Nat
  BY SMTT(30)
<1> QED BY <1>1, NoneFacts

LEMMA IdleFields ==
    /\ RqIdle.pc = "idle" /\ RqIdle.add = {} /\ RqIdle.give = {} /\ RqIdle.pod = None
    /\ RlIdle.pc = "idle" /\ RlIdle.pod = None
    /\ CcIdle.pc = "idle" /\ CcIdle.pod = None /\ CcIdle.add = {}
BY DEF RqIdle, RlIdle, CcIdle

LEMMA IdleTypes == RqIdle \in RqState /\ RlIdle \in RlState /\ CcIdle \in CcState
BY DEF RqIdle, RlIdle, CcIdle, RqState, RlState, CcState, NoList

-----------------------------------------------------------------------------
(***************************************************************************)
(* Type correctness.                                                       *)
(***************************************************************************)
LEMMA StoreTypes ==
    ASSUME TypeOK, NEW p \in Pod, NEW obj \in NPR \cup {None}, Store(p, obj)
    PROVE  /\ npr' \in [Pod -> NPR \cup {None}]
           /\ pending' \in Seq([pod : Pod, obj : NPR \cup {None}])
BY SMTT(30) DEF TypeOK, Store

LEMMA CallTypes ==
    ASSUME TypeOK, NEW p \in Pod, NEW obj \in NPR \cup {None}, NEW applies, NEW errors, NEW ok,
           Call(applies, p, obj, errors, ok) \/ Fails(applies, p, obj, errors)
    PROVE  /\ npr' \in [Pod -> NPR \cup {None}]
           /\ pending' \in Seq([pod : Pod, obj : NPR \cup {None}])
<1>1. Store(p, obj) \/ UNCHANGED api
  BY DEF Call, Fails
<1> QED BY <1>1, StoreTypes DEF TypeOK, api

\* Outdating a copy changes nothing but the note that it is current.
LEMMA SpoilTypes ==
    ASSUME TypeOK, NEW p \in Pod
    PROVE  /\ Spoil(rq, p) \in RqState /\ Spoil(rl, p) \in RlState /\ SpoilList(p) \in CcState
           /\ \E f \in BOOLEAN : Spoil(rq, p) = [rq EXCEPT !.fresh = f]
           /\ \E f \in BOOLEAN : Spoil(rl, p) = [rl EXCEPT !.fresh = f]
           /\ \E f \in SUBSET Pod : SpoilList(p) = [cc EXCEPT !.fresh = f]
<1> USE DEF TypeOK
<1>1. \E f \in BOOLEAN : Spoil(rq, p) = [rq EXCEPT !.fresh = f]
  BY DEF Spoil, RqState
<1>2. \E f \in BOOLEAN : Spoil(rl, p) = [rl EXCEPT !.fresh = f]
  BY DEF Spoil, RlState
<1>3. \E f \in SUBSET Pod : SpoilList(p) = [cc EXCEPT !.fresh = f]
  BY DEF SpoilList, CcState
<1>4. Spoil(rq, p) \in RqState /\ Spoil(rl, p) \in RlState /\ SpoilList(p) \in CcState
  <2>1. rq \in RqState /\ rl \in RlState /\ cc \in CcState
    OBVIOUS
  <2> HIDE DEF TypeOK
  <2>2. Spoil(rq, p) \in RqState
    BY SMTT(30), <1>1, <2>1 DEF RqState
  <2>3. Spoil(rl, p) \in RlState
    BY SMTT(30), <1>2, <2>1 DEF RlState
  <2>4. SpoilList(p) \in CcState
    BY SMTT(30), <1>3, <2>1 DEF CcState
  <2> QED BY <2>2, <2>3, <2>4
<1> QED BY <1>1, <1>2, <1>3, <1>4

LEMMA EnsureTypes ==
    ASSUME TypeOK, NEW conf \in Configs, EnsureAllocator(conf)
    PROVE  /\ EnsuredGen \in Gen /\ cur' = EnsuredGen
           /\ heap' \in [Gen -> Allocator]
<1>1. \E g \in Gen : g \notin {rq.gen, cc.gen}
  <2>1. rq.gen \in Gen \cup {None} /\ cc.gen \in Gen \cup {None}
    BY DEF TypeOK, RqState, CcState
  <2>2. PICK g0 \in Gen : TRUE
    BY ConstantsAssumption
  <2>3. \A x, y \in Gen : \E g \in Gen : g # x /\ g # y
    BY ConstantsAssumption
  <2>4. \A g \in Gen : g # None
    BY NoneFacts
  <2>5. \E x, y \in Gen : \A g \in Gen : g # x /\ g # y => g # rq.gen /\ g # cc.gen
    BY <2>1, <2>2, <2>4
  <2> QED BY <2>3, <2>5
<1>2. FreshGen \in Gen
  BY <1>1 DEF FreshGen
<1>3. EnsuredGen \in Gen
  BY <1>2 DEF EnsuredGen, TypeOK
<1>4. \A a \in Allocator : EnsureIPs(SetReserved(a, conf.reserved), conf.pool) \in Allocator
  BY NoneFacts, AllocatorTypes
<1>5. (IF cur = None THEN NewAllocator ELSE heap[cur]) \in Allocator
  BY NewAllocatorType DEF TypeOK
<1> QED BY <1>3, <1>4, <1>5 DEF EnsureAllocator, TypeOK

LEMMA TypeInit == Init => TypeOK
<1> SUFFICES ASSUME Init PROVE TypeOK
  OBVIOUS
<1>1. pending = <<>> /\ pending \in Seq([pod : Pod, obj : NPR \cup {None}])
  BY SMTT(30) DEF Init
<1> QED BY <1>1, IdleTypes, NewAllocatorType DEF Init, TypeOK, RqIdle, RlIdle, CcIdle

LEMMA TypeNext == TypeOK /\ [Next]_vars => TypeOK'
<1> SUFFICES ASSUME TypeOK, [Next]_vars PROVE TypeOK'
  OBVIOUS
<1> USE NoneFacts, IdleTypes
<1>1. CASE Deliver
  <2> DEFINE Event == [pod : Pod, obj : NPR \cup {None}]
  <2>0. pending \in Seq(Event) /\ pending # <<>>
    BY <1>1 DEF Deliver, TypeOK
  <2>1. Head(pending) \in Event /\ Tail(pending) \in Seq(Event)
    <3> HIDE DEF Event
    <3> QED BY SMTT(30), <2>0
  <2>2. Head(pending).pod \in Pod /\ Head(pending).obj \in NPR \cup {None}
    BY <2>1
  <2> QED BY SMTT(30), <1>1, <2>1, <2>2 DEF Deliver, TypeOK, user, alloc
<1>2. ASSUME NEW p \in Pod, RqStartGone(p) PROVE TypeOK'
  <2>0. rqQ' = rqQ \ {p} /\ UNCHANGED <<user, api, cache, alloc, rlQ, ccQ, rl, cc>>
    BY <1>2 DEF RqStartGone
  <2>1. CASE rq' = RqIdle
    BY <2>0, <2>1, IdleFields DEF TypeOK, user, api, alloc
  <2>2. CASE rq' # RqIdle
    <3>1. cache[p] \in NPR /\ CacheIsFresh(p) \in BOOLEAN
      BY <1>2, <2>2 DEF RqStartGone, TypeOK, CacheIsFresh
    <3>2. [cache[p] EXCEPT !.stale = TRUE] \in NPR
      BY <3>1 DEF NPR
    <3>3. rq' = [RqIdle EXCEPT !.pc = "update", !.pod = p, !.fresh = CacheIsFresh(p),
                               !.new = [cache[p] EXCEPT !.stale = TRUE]]
      BY <1>2, <2>2 DEF RqStartGone
    <3>4. rq' \in RqState /\ rq'.add = {} /\ rq'.give = {} /\ rq'.pc = "update"
          /\ rq'.pod = p /\ rq'.new \in NPR
      BY <3>1, <3>2, <3>3 DEF RqIdle, RqState
    <3> QED BY <1>2, <3>4 DEF RqStartGone, TypeOK, user, api, alloc
  <2> QED BY <2>1, <2>2
<1>3. ASSUME NEW p \in Pod, RqStart(p) PROVE TypeOK'
  <2>1. rq' \in RqState /\ rq'.add = {} /\ rq'.give = {} /\ rq'.pc = "ensure"
        /\ rq'.pod # None /\ rq'.conf # None /\ rq'.want # None
    BY <1>3 DEF RqStart, TypeOK, RqIdle, RqState
  <2> QED BY <1>3, <2>1 DEF RqStart, TypeOK, user, api, alloc
<1>4. CASE RqEnsure
  <2>1. rq.conf \in Configs
    BY <1>4 DEF RqEnsure, TypeOK, RqState
  <2>2. heap' \in [Gen -> Allocator] /\ EnsuredGen \in Gen /\ cur' = EnsuredGen
    BY <1>4, <2>1, EnsureTypes DEF RqEnsure
  <2>3. rq' \in RqState /\ rq'.pc = "decide" /\ rq'.gen \in Gen
        /\ rq'.pod = rq.pod /\ rq'.conf = rq.conf /\ rq'.want = rq.want
    BY <1>4, <2>2 DEF RqEnsure, TypeOK, RqState
  <2> QED BY <1>4, <2>2, <2>3 DEF RqEnsure, TypeOK, user, api, queues
<1>5. CASE RqAllocatePod
  <2>1. rq.gen \in Gen /\ rq.pod \in Pod /\ rq.want \in Counts /\ rq.conf \in Configs
    BY <1>5 DEF RqAllocatePod, TypeOK, RqState
  <2>2. heap[rq.gen] \in Allocator
    BY <2>1 DEF TypeOK
  <2>3. CASE rq' = RqIdle /\ rqQ' = rqQ \cup {rq.pod} /\ heap' = heap
    BY <1>5, <2>1, <2>3 DEF RqAllocatePod, TypeOK, user, api, RqIdle
  <2>4. ASSUME NEW S \in PicksForPod(heap[rq.gen], rq.conf.pool, rq.want, Exclude[rq.pod]),
               heap' = [heap EXCEPT ![rq.gen] = Allocate(@, S)], rqQ' = rqQ,
               rq' = [rq EXCEPT !.pc = "create", !.add = S,
                          !.new = [allocs |-> S, count |-> rq.want, target |-> rq.conf.target,
                                   stale |-> FALSE, deleting |-> FALSE]]
        PROVE  TypeOK'
    <3>1. S \in SUBSET Slot
      BY SMTT(30), <2>2, PodPicks
    <3>2. heap' \in [Gen -> Allocator]
      BY <2>1, <2>2, <2>4, <3>1, AllocatorTypes DEF TypeOK
    <3>3. [allocs |-> S, count |-> rq.want, target |-> rq.conf.target,
           stale |-> FALSE, deleting |-> FALSE] \in NPR
      BY <2>1, <3>1 DEF NPR
    <3>4. rq' \in RqState /\ rq'.pc = "create" /\ rq'.new \in NPR /\ rq'.gen = rq.gen
          /\ rq'.pod = rq.pod /\ rq'.conf = rq.conf /\ rq'.want = rq.want
      BY <2>4, <3>1, <3>3 DEF TypeOK, RqState
    <3> QED BY <1>5, <2>1, <2>4, <3>2, <3>4 DEF RqAllocatePod, TypeOK, user, api
  <2> QED BY <1>5, <2>3, <2>4 DEF RqAllocatePod
<1>6. CASE RqResize
  <2> DEFINE o == cache[rq.pod]
             inPool == {s \in o.allocs : s[1] \in rq.conf.pool}
             keep == Lowest(inPool, rq.want)
  <2>1. rq.gen \in Gen /\ rq.pod \in Pod /\ rq.want \in Counts /\ rq.conf \in Configs
    BY <1>6 DEF RqResize, TypeOK, RqState
  <2>2. o \in NPR /\ o.allocs \subseteq Slot /\ o.count \in Counts
    BY <1>6, <2>1 DEF RqResize, TypeOK, NPR
  <2>3. inPool \subseteq Slot /\ keep \subseteq Slot
    BY <2>2 DEF Lowest
  <2>4. CacheIsFresh(rq.pod) \in BOOLEAN
    BY DEF CacheIsFresh
  <2>5. [o EXCEPT !.count = rq.want] \in NPR /\ [o EXCEPT !.count = rq.want, !.allocs = keep] \in NPR
    BY <2>1, <2>2, <2>3 DEF NPR
  <2>7. CASE rq' = RqIdle
    BY <1>6, <2>7 DEF RqResize, TypeOK, RqIdle, user, api, alloc, queues
  <2>8. CASE /\ o.count < rq.want
             /\ rq' = [rq EXCEPT !.pc = IF rq.conf.pool = {} THEN "update" ELSE "grow",
                              !.fresh = CacheIsFresh(rq.pod), !.new = [o EXCEPT !.count = rq.want],
                              !.todo = rq.conf.pool, !.delta = rq.want - o.count]
    <3>1. rq.want - o.count \in Nat
      BY <2>1, <2>2, <2>8, LessThanCounts
    <3> HIDE DEF o
    <3>2. rq' \in RqState /\ rq'.pc \in {"update", "grow"} /\ rq'.new \in NPR /\ rq'.gen \in Gen
          /\ rq'.pod \in Pod /\ rq'.conf = rq.conf /\ rq'.want = rq.want /\ rq'.delta \in Nat
      BY ZenonT(60), <2>1, <2>4, <2>5, <2>8, <3>1 DEF RqState, TypeOK
    <3> QED BY <1>6, <2>1, <3>2 DEF RqResize, TypeOK, user, api, alloc, queues
  <2>9. CASE rq' = [rq EXCEPT !.pc = "update", !.fresh = CacheIsFresh(rq.pod),
                              !.new = [o EXCEPT !.count = rq.want, !.allocs = keep],
                              !.give = inPool \ keep]
    <3> HIDE DEF o, keep, inPool
    <3>2. rq' \in RqState /\ rq'.pc = "update" /\ rq'.new \in NPR /\ rq'.gen \in Gen
          /\ rq'.pod \in Pod
      BY <2>1, <2>3, <2>4, <2>5, <2>9 DEF RqState, TypeOK
    <3> QED BY <1>6, <2>1, <3>2 DEF RqResize, TypeOK, user, api, alloc, queues
  <2> QED BY <1>6, <2>7, <2>8, <2>9 DEF RqResize
<1>7. ASSUME NEW ip \in IP, RqGrow(ip) PROVE TypeOK'
  <2> DEFINE ex == Unusable(rq.pod, rq.new.allocs)
  <2>1. rq.gen \in Gen /\ rq.pod \in Pod /\ rq.new \in NPR
    BY <1>7 DEF RqGrow, TypeOK, RqState
  <2>2. heap[rq.gen] \in Allocator
    BY <2>1 DEF TypeOK
  <2>3. CASE rq' = [rq EXCEPT !.pc = "free", !.give = rq.add] /\ rqQ' = rqQ \cup {rq.pod} /\ heap' = heap
    <3>1. rq' \in RqState /\ rq'.pc = "free" /\ rq'.gen = rq.gen /\ rq'.pod = rq.pod
      BY <2>3 DEF TypeOK, RqState
    <3> QED BY <1>7, <2>1, <2>3, <3>1 DEF RqGrow, TypeOK, user, api
  <2>4. ASSUME NEW S \in PicksForIP(heap[rq.gen], ip, rq.delta, ex),
               heap' = [heap EXCEPT ![rq.gen] = Allocate(@, S)], rqQ' = rqQ,
               rq' = [rq EXCEPT !.pc = IF rq.todo = {ip} THEN "update" ELSE "grow",
                              !.todo = rq.todo \ {ip}, !.add = rq.add \cup S,
                              !.new = [rq.new EXCEPT !.allocs = @ \cup S]]
        PROVE  TypeOK'
    <3> HIDE DEF ex
    <3>1. S \in SUBSET Slot
      BY SMTT(30), <2>2, IPPicks
    <3>2. heap' \in [Gen -> Allocator]
      BY <2>1, <2>2, <2>4, <3>1, AllocatorTypes DEF TypeOK
    <3> DEFINE new == [rq.new EXCEPT !.allocs = @ \cup S]
    <3>3. new \in NPR
      BY <2>1, <3>1 DEF NPR
    <3>6. rq' = [rq EXCEPT !.pc = IF rq.todo = {ip} THEN "update" ELSE "grow",
                           !.todo = rq.todo \ {ip}, !.add = rq.add \cup S, !.new = new]
      BY <2>4
    <3> HIDE DEF new
    <3>4. rq' \in RqState /\ rq'.pc \in {"update", "grow"} /\ rq'.new \in NPR /\ rq'.gen = rq.gen
          /\ rq'.pod = rq.pod /\ rq'.conf = rq.conf /\ rq'.want = rq.want /\ rq'.delta = rq.delta
      BY <3>1, <3>3, <3>6 DEF TypeOK, RqState
    <3>5. UNCHANGED <<user, api, cache, cur, rlQ, ccQ, rl, cc>> /\ rq.pc = "grow"
      BY <1>7 DEF RqGrow
    <3> QED BY <2>1, <2>4, <3>2, <3>4, <3>5 DEF TypeOK, user, api
  <2> QED BY <1>7, <2>3, <2>4 DEF RqGrow
<1>8. ASSUME NEW ok \in BOOLEAN, NEW retry \in BOOLEAN, rq.pc \in {"create", "update"},
             RqAfterCall(ok, retry),
             npr' \in [Pod -> NPR \cup {None}],
             pending' \in Seq([pod : Pod, obj : NPR \cup {None}])
      PROVE  TypeOK'
  <2>1. rq.pod \in Pod
    BY <1>8 DEF TypeOK, RqState
  <2>2. rl' \in RlState /\ rl'.pc = rl.pc /\ rl'.pod = rl.pod /\ rl'.new = rl.new
    BY SMTT(30), <1>8, <2>1, SpoilTypes DEF RqAfterCall, TypeOK, RlState
  <2>3. cc' \in CcState /\ cc'.pc = cc.pc /\ cc'.conf = cc.conf /\ cc'.gen = cc.gen
        /\ cc'.pod = cc.pod /\ cc'.new = cc.new
    BY SMTT(30), <1>8, <2>1, SpoilTypes DEF RqAfterCall, TypeOK, CcState
  <2>4. rq' = RqIdle \/ \E give \in {rq.give, rq.add} :
                           give # {} /\ rq' = [rq EXCEPT !.pc = "free", !.give = give]
    BY <1>8 DEF RqAfterCall
  <2>5. rq' \in RqState /\ (rq' = RqIdle \/ (rq'.pc = "free" /\ rq'.gen # None /\ rq'.pod = rq.pod))
    <3>1. CASE rq' = RqIdle
      BY <3>1
    <3>2. ASSUME NEW give \in {rq.give, rq.add},
                 give # {}, rq' = [rq EXCEPT !.pc = "free", !.give = give]
          PROVE  rq' \in RqState /\ rq'.pc = "free" /\ rq'.gen # None /\ rq'.pod = rq.pod
      <4>1. give \in SUBSET Slot /\ rq.gen # None /\ rq \in RqState
        BY <3>2 DEF TypeOK, RqState
      <4> QED BY <3>2, <4>1 DEF RqState
    <3> QED BY <2>4, <3>1, <3>2
  <2>6. rqQ' \subseteq Pod /\ UNCHANGED <<user, cache, alloc, rlQ, ccQ>>
    BY <1>8, <2>1 DEF RqAfterCall, TypeOK
  <2> QED BY <1>8, <2>1, <2>2, <2>3, <2>5, <2>6, IdleFields DEF TypeOK, user, alloc
<1>9. CASE RqCreate
  <2>1. rq.pod \in Pod /\ rq.new \in NPR /\ rq.pc = "create"
    BY <1>9 DEF RqCreate, TypeOK, RqState
  <2>2. npr' \in [Pod -> NPR \cup {None}] /\ pending' \in Seq([pod : Pod, obj : NPR \cup {None}])
    BY <1>9, <2>1, CallTypes, StoreTypes DEF RqCreate, TypeOK, api
  <2> QED BY <1>8, <1>9, <2>1, <2>2 DEF RqCreate
<1>10. CASE RqUpdate
  <2>1. rq.pod \in Pod /\ rq.new \in NPR /\ rq.pc = "update"
    BY <1>10 DEF RqUpdate, TypeOK, RqState
  <2>2. npr' \in [Pod -> NPR \cup {None}] /\ pending' \in Seq([pod : Pod, obj : NPR \cup {None}])
    BY <1>10, <2>1, CallTypes DEF RqUpdate
  <2> QED BY <1>8, <1>10, <2>1, <2>2 DEF RqUpdate
<1>11. CASE RqFree
  <2>1. rq.gen \in Gen /\ rq.give \in SUBSET Slot
    BY <1>11 DEF RqFree, TypeOK, RqState
  <2>2. heap' \in [Gen -> Allocator]
    BY <1>11, <2>1, AllocatorTypes DEF RqFree, TypeOK
  <2> QED BY <1>11, <2>2, IdleFields DEF RqFree, TypeOK, user, api, queues
<1>12. ASSUME NEW p \in Pod, RlStart(p) PROVE TypeOK'
  <2>0. rlQ' = rlQ \ {p} /\ UNCHANGED <<user, api, cache, alloc, rqQ, ccQ, rq, cc>>
    BY <1>12 DEF RlStart
  <2>1. CASE rl' = RlIdle
    BY ZenonT(60), <2>0, <2>1, IdleFields DEF TypeOK, user, api, alloc
  <2>2. CASE rl' # RlIdle
    <3>1. cache[p] \in NPR /\ RlVerdict(cache[p]) \in {"stamp", "release", "delete"}
      BY <1>12, <2>2 DEF RlStart, TypeOK, RlVerdict, NPR
    <3>2. CacheIsFresh(p) \in BOOLEAN
      BY DEF CacheIsFresh
    <3>3. rl' = [pc |-> RlVerdict(cache[p]), pod |-> p, new |-> cache[p], fresh |-> CacheIsFresh(p)]
      BY <1>12, <2>2 DEF RlStart
    <3>4. rl' \in RlState /\ rl'.pod = p /\ rl'.new \in NPR
      BY <3>1, <3>2, <3>3 DEF RlState
    <3> QED BY ZenonT(60), <2>0, <3>4 DEF TypeOK, user, api, alloc
  <2> QED BY <2>1, <2>2
<1>13. ASSUME NEW retry \in BOOLEAN, rl.pc # "idle", RlAfterCall(retry),
              npr' \in [Pod -> NPR \cup {None}],
              pending' \in Seq([pod : Pod, obj : NPR \cup {None}])
       PROVE  TypeOK'
  <2>1. rl.pod \in Pod
    BY <1>13 DEF TypeOK, RlState
  <2>2. rq' \in RqState /\ \E f \in BOOLEAN : rq' = [rq EXCEPT !.fresh = f]
    BY <1>13, <2>1, SpoilTypes DEF RlAfterCall
  <2>3. /\ rq'.pc = rq.pc /\ rq'.pod = rq.pod /\ rq'.new = rq.new /\ rq'.conf = rq.conf
        /\ rq'.want = rq.want /\ rq'.delta = rq.delta /\ rq'.add = rq.add /\ rq'.give = rq.give
        /\ rq'.gen = rq.gen
    BY SMTT(30), <2>2 DEF TypeOK, RqState
  <2>4. cc' \in CcState /\ cc'.pc = cc.pc /\ cc'.conf = cc.conf /\ cc'.gen = cc.gen
        /\ cc'.pod = cc.pod /\ cc'.new = cc.new
    BY SMTT(30), <1>13, <2>1, SpoilTypes DEF RlAfterCall, TypeOK, CcState
  <2>5. rlQ' \subseteq Pod /\ rl' = RlIdle /\ UNCHANGED <<user, cache, alloc, rqQ, ccQ>>
    BY <1>13, <2>1 DEF RlAfterCall, TypeOK
  <2> QED BY ZenonT(60), <1>13, <2>2, <2>3, <2>4, <2>5, IdleFields DEF TypeOK, user, alloc
<1>14. CASE RlStamp
  <2>1. rl.pod \in Pod /\ rl.new \in NPR /\ rl.pc = "stamp"
    BY <1>14 DEF RlStamp, TypeOK, RlState
  <2>2. [rl.new EXCEPT !.stale = TRUE] \in NPR
    BY <2>1 DEF NPR
  <2>3. npr' \in [Pod -> NPR \cup {None}] /\ pending' \in Seq([pod : Pod, obj : NPR \cup {None}])
    BY <1>14, <2>1, <2>2, CallTypes DEF RlStamp
  <2> QED BY <1>13, <1>14, <2>1, <2>3 DEF RlStamp
<1>15. CASE RlDelete
  <2>1. rl.pod \in Pod /\ rl.pc = "delete"
    BY <1>15 DEF RlDelete, TypeOK, RlState
  <2>2. npr[rl.pod] # None => [npr[rl.pod] EXCEPT !.deleting = TRUE] \in NPR
    BY <2>1, NPRUpdates DEF TypeOK
  <2>3. npr' \in [Pod -> NPR \cup {None}] /\ pending' \in Seq([pod : Pod, obj : NPR \cup {None}])
    BY <1>15, <2>1, <2>2, CallTypes DEF RlDelete, api, TypeOK
  <2> QED BY <1>13, <1>15, <2>1, <2>3 DEF RlDelete
<1>16. CASE RlRelease
  <2>1. rl.new.allocs \in SUBSET Slot /\ rl.new \in NPR /\ rl.pc = "release"
    BY <1>16 DEF RlRelease, TypeOK, RlState, NPR
  <2>2. heap' \in [Gen -> Allocator]
    BY <1>16, <2>1, AllocatorTypes DEF RlRelease, TypeOK
  <2>3. rl' \in RlState /\ rl'.pod = rl.pod /\ rl'.new = rl.new
    BY <1>16 DEF RlRelease, TypeOK, RlState
  <2> QED BY ZenonT(60), <1>16, <2>1, <2>2, <2>3 DEF RlRelease, TypeOK, user, api, queues
<1>17. CASE RlFinalize
  <2>1. rl.pod \in Pod /\ rl.pc = "finalize"
    BY <1>17 DEF RlFinalize, TypeOK, RlState
  <2>3. npr' \in [Pod -> NPR \cup {None}] /\ pending' \in Seq([pod : Pod, obj : NPR \cup {None}])
    BY <1>17, <2>1, CallTypes DEF RlFinalize
  <2> QED BY <1>13, <1>17, <2>1, <2>3 DEF RlFinalize
<1>18. CASE CcStart
  <2>1. cc' \in CcState /\ (cc'.pc = "remove" \/ (cc'.pc = "ensure" /\ cc'.conf # None))
    BY <1>18 DEF CcStart, TypeOK, CcIdle, CcState
  <2> QED BY <1>18, <2>1 DEF CcStart, TypeOK, user, api, alloc
<1>19. CASE CcRemove
  BY <1>19, IdleFields DEF CcRemove, TypeOK, user, api, queues
<1>20. CASE CcEnsure
  <2>1. cc.conf \in Configs
    BY <1>20 DEF CcEnsure, TypeOK, CcState
  <2>2. heap' \in [Gen -> Allocator] /\ EnsuredGen \in Gen /\ cur' = EnsuredGen
    BY <1>20, <2>1, EnsureTypes DEF CcEnsure
  <2>3. heap'[EnsuredGen].reg \ cc.conf.pool \in SUBSET IP
    BY <2>2 DEF Allocator
  <2>4. cc' \in CcState /\ cc'.pc = "list" /\ cc'.gen \in Gen /\ cc'.conf = cc.conf
    BY <1>20, <2>2, <2>3 DEF CcEnsure, TypeOK, CcState
  <2> QED BY <1>20, <2>1, <2>2, <2>4 DEF CcEnsure, TypeOK, user, api, queues
<1>21. CASE CcList
  <2> DEFINE listed == {p \in Pod : cache[p] # None /\ ~cache[p].deleting /\ ~cache[p].stale}
             list == [p \in Pod |-> IF p \in listed THEN cache[p] ELSE None]
             fresh == {p \in listed : CacheIsFresh(p)}
  <2>1. list \in [Pod -> NPR \cup {None}] /\ fresh \in SUBSET Pod
    BY DEF TypeOK
  <2>2. cc' = [cc EXCEPT !.pc = "scan", !.list = list, !.fresh = fresh] /\ cc.pc = "list"
    BY <1>21 DEF CcList
  <2> HIDE DEF list, fresh
  <2>3. cc' \in CcState /\ cc'.pc = "scan" /\ cc'.gen = cc.gen /\ cc'.conf = cc.conf
    BY <2>1, <2>2 DEF TypeOK, CcState
  <2> QED BY <1>21, <2>2, <2>3 DEF CcList, TypeOK, user, api, alloc, queues
<1>22. ASSUME NEW p \in Pod, CcScan(p) PROVE TypeOK'
  <2> DEFINE o == cc.list[p]
             list == [cc.list EXCEPT ![p] = None]
             kept == {s \in o.allocs : s[1] \in cc.conf.pool}
             new == [o EXCEPT !.allocs = kept]
             todo == cc.conf.pool \ IPsOf(o.allocs)
  <2>1. cc.pc = "scan" /\ o \in NPR /\ cc.conf \in Configs
    BY <1>22 DEF CcScan, TypeOK, CcState
  <2>2. list \in [Pod -> NPR \cup {None}] /\ todo \in SUBSET IP
    BY <2>1 DEF TypeOK, CcState
  <2>3. new \in NPR
    <3>1. kept \in SUBSET Slot
      BY <2>1 DEF NPR
    <3> HIDE DEF kept
    <3> QED BY <2>1, <3>1, NPRUpdates
  <2>4. \/ cc' = [cc EXCEPT !.list = list]
        \/ cc' = [cc EXCEPT !.pc = "extend", !.pod = p, !.todo = todo, !.new = new]
    BY <1>22 DEF CcScan
  <2> HIDE DEF list, todo, new
  <2>5. cc' \in CcState /\ cc'.gen = cc.gen /\ cc'.conf = cc.conf
        /\ (cc'.pc = "scan" \/ (cc'.pc = "extend" /\ cc'.pod = p /\ cc'.new \in NPR))
    <3>1. CASE cc' = [cc EXCEPT !.list = list]
      BY <2>1, <2>2, <3>1 DEF TypeOK, CcState
    <3>2. CASE cc' = [cc EXCEPT !.pc = "extend", !.pod = p, !.todo = todo, !.new = new]
      BY <2>2, <2>3, <3>2 DEF TypeOK, CcState
    <3> QED BY <2>4, <3>1, <3>2
  <2> QED BY ZenonT(60), <1>22, <2>1, <2>5 DEF CcScan, TypeOK, user, api, alloc, queues
<1>23. ASSUME NEW ip \in IP, CcExtend(ip) PROVE TypeOK'
  <2> DEFINE ex == Unusable(cc.pod, cc.new.allocs)
  <2>1. cc.gen \in Gen /\ cc.new \in NPR /\ cc.pc = "extend"
    BY <1>23 DEF CcExtend, TypeOK, CcState
  <2>2. heap[cc.gen] \in Allocator
    BY <2>1 DEF TypeOK
  <2>3. CASE cc' = [cc EXCEPT !.pc = "abort"] /\ heap' = heap
    <3>1. cc' \in CcState /\ cc'.pc = "abort" /\ cc'.gen = cc.gen /\ cc'.conf = cc.conf
      BY <2>3 DEF TypeOK, CcState
    <3> QED BY <1>23, <2>1, <2>3, <3>1 DEF CcExtend, TypeOK, user, api, queues
  <2>4. ASSUME NEW S \in PicksForIP(heap[cc.gen], ip, cc.new.count, ex),
               heap' = [heap EXCEPT ![cc.gen] = Allocate(@, S)],
               cc' = [cc EXCEPT !.todo = cc.todo \ {ip}, !.add = cc.add \cup S,
                                !.new = [cc.new EXCEPT !.allocs = @ \cup S]]
        PROVE  TypeOK'
    <3> HIDE DEF ex
    <3>1. S \in SUBSET Slot
      BY SMTT(30), <2>2, IPPicks
    <3>2. heap' \in [Gen -> Allocator]
      BY <2>1, <2>2, <2>4, <3>1, AllocatorTypes DEF TypeOK
    <3> DEFINE new == [cc.new EXCEPT !.allocs = @ \cup S]
    <3>3. new \in NPR
      BY <2>1, <3>1 DEF NPR
    <3>4. cc' = [cc EXCEPT !.todo = cc.todo \ {ip}, !.add = cc.add \cup S, !.new = new]
      BY <2>4
    <3> HIDE DEF new
    <3>5. cc' \in CcState /\ cc'.pc = "extend" /\ cc'.new \in NPR /\ cc'.gen = cc.gen
          /\ cc'.pod = cc.pod /\ cc'.conf = cc.conf
      BY <2>1, <3>1, <3>3, <3>4 DEF TypeOK, CcState
    <3>6. UNCHANGED <<user, api, cache, cur, queues, rq, rl>>
      BY <1>23 DEF CcExtend
    <3> QED BY <2>1, <3>2, <3>5, <3>6 DEF TypeOK, user, api, queues
  <2> QED BY <1>23, <2>3, <2>4 DEF CcExtend
<1>24. CASE CcUpdate
  <2>1. cc.pod \in Pod /\ cc.new \in NPR /\ cc.pc = "extend" /\ cc.gen # None /\ cc.conf # None
    BY <1>24 DEF CcUpdate, TypeOK, CcState
  <2>2. npr' \in [Pod -> NPR \cup {None}] /\ pending' \in Seq([pod : Pod, obj : NPR \cup {None}])
    BY <1>24, <2>1, CallTypes DEF CcUpdate
  <2>3. rq' \in RqState /\ \E f \in BOOLEAN : rq' = [rq EXCEPT !.fresh = f]
    BY <1>24, <2>1, SpoilTypes DEF CcUpdate
  <2>4. /\ rq'.pc = rq.pc /\ rq'.pod = rq.pod /\ rq'.new = rq.new /\ rq'.conf = rq.conf
        /\ rq'.want = rq.want /\ rq'.delta = rq.delta /\ rq'.add = rq.add /\ rq'.give = rq.give
        /\ rq'.gen = rq.gen
    BY SMTT(30), <2>3 DEF TypeOK, RqState
  <2>5. rl' \in RlState /\ rl'.pc = rl.pc /\ rl'.pod = rl.pod /\ rl'.new = rl.new
    BY SMTT(30), <1>24, <2>1, SpoilTypes DEF CcUpdate, TypeOK, RlState
  <2> DEFINE list == [cc.list EXCEPT ![cc.pod] = None]
  <2>6. list \in [Pod -> NPR \cup {None}]
    BY DEF TypeOK, CcState
  <2>7. \/ cc' = [cc EXCEPT !.pc = "scan", !.pod = None, !.new = None, !.add = {},
                            !.list = list, !.fresh = @ \ {cc.pod}]
        \/ cc' = [cc EXCEPT !.pc = "abort"]
    BY <1>24 DEF CcUpdate
  <2> HIDE DEF list
  <2>8. cc' \in CcState /\ cc'.pc \in {"scan", "abort"} /\ cc'.gen = cc.gen /\ cc'.conf = cc.conf
    <3>1. CASE cc' = [cc EXCEPT !.pc = "abort"]
      BY <3>1 DEF TypeOK, CcState
    <3>2. CASE cc' = [cc EXCEPT !.pc = "scan", !.pod = None, !.new = None, !.add = {},
                                !.list = list, !.fresh = @ \ {cc.pod}]
      BY <2>6, <3>2 DEF TypeOK, CcState
    <3> QED BY <2>7, <3>1, <3>2
  <2>9. UNCHANGED <<user, cache, alloc, queues>>
    BY <1>24 DEF CcUpdate
  <2> QED BY ZenonT(60), <2>1, <2>2, <2>3, <2>4, <2>5, <2>8, <2>9 DEF TypeOK, user, alloc, queues
<1>25. CASE CcAbort
  <2>1. cc.gen \in Gen /\ cc.add \in SUBSET Slot
    BY <1>25 DEF CcAbort, TypeOK, CcState
  <2>2. heap' \in [Gen -> Allocator]
    BY <1>25, <2>1, AllocatorTypes DEF CcAbort, TypeOK
  <2> QED BY <1>25, <2>2, IdleFields DEF CcAbort, TypeOK, user, api
<1>26. CASE CcDrop
  <2>1. cc.gen \in Gen /\ cc.conf # None /\ cc.pc = "scan"
    BY <1>26 DEF CcDrop, TypeOK, CcState
  <2>2. CASE cc' = CcIdle /\ heap' = heap
    BY <1>26, <2>2, IdleFields DEF CcDrop, TypeOK, user, api, queues
  <2>3. ASSUME NEW ip \in cc.gone, heap' = [heap EXCEPT ![cc.gen] = RemoveIP(@, ip)],
               cc' = [cc EXCEPT !.gone = @ \ {ip}]
        PROVE  TypeOK'
    <3>1. heap' \in [Gen -> Allocator]
      BY <2>1, <2>3, AllocatorTypes DEF TypeOK
    <3>2. cc' \in CcState /\ cc'.pc = "scan" /\ cc'.gen = cc.gen /\ cc'.conf = cc.conf
      BY <2>1, <2>3 DEF TypeOK, CcState
    <3> QED BY <1>26, <2>1, <3>1, <3>2 DEF CcDrop, TypeOK, user, api, queues
  <2> QED BY <1>26, <2>2, <2>3 DEF CcDrop
<1>27. ASSUME NEW p \in Pod, EditRequest(p) PROVE TypeOK'
  <2>1. nprr' \in [Pod -> Counts \cup {None}]
    BY SMTT(30), <1>27 DEF EditRequest, TypeOK
  <2>2. ops' \in Nat /\ rqQ' \subseteq Pod /\ UNCHANGED <<cache, alloc, nc, api, rlQ, ccQ, rq, rl, cc>>
    BY SMTT(30), <1>27 DEF EditRequest, EnvStep, TypeOK
  <2> QED BY SMTT(30), <2>1, <2>2 DEF TypeOK, alloc, api
<1>28. ASSUME NEW p \in Pod, DeleteNPR(p) PROVE TypeOK'
  <2>1. [npr[p] EXCEPT !.deleting = TRUE] \in NPR
    BY <1>28, NPRUpdates DEF DeleteNPR, TypeOK
  <2>2. npr' \in [Pod -> NPR \cup {None}] /\ pending' \in Seq([pod : Pod, obj : NPR \cup {None}])
    BY <1>28, <2>1, StoreTypes DEF DeleteNPR
  <2>3. rq' \in RqState /\ \E f \in BOOLEAN : rq' = [rq EXCEPT !.fresh = f]
    BY <1>28, SpoilTypes DEF DeleteNPR
  <2>4. /\ rq'.pc = rq.pc /\ rq'.pod = rq.pod /\ rq'.new = rq.new /\ rq'.conf = rq.conf
        /\ rq'.want = rq.want /\ rq'.delta = rq.delta /\ rq'.add = rq.add /\ rq'.give = rq.give
        /\ rq'.gen = rq.gen
    BY SMTT(30), <2>3 DEF TypeOK, RqState
  <2>5. rl' \in RlState /\ rl'.pc = rl.pc /\ rl'.pod = rl.pod /\ rl'.new = rl.new
    BY SMTT(30), <1>28, SpoilTypes DEF DeleteNPR, TypeOK, RlState
  <2>6. cc' \in CcState /\ cc'.pc = cc.pc /\ cc'.conf = cc.conf /\ cc'.gen = cc.gen
        /\ cc'.pod = cc.pod /\ cc'.new = cc.new
    BY SMTT(30), <1>28, SpoilTypes DEF DeleteNPR, TypeOK, CcState
  <2>7. ops' \in Nat /\ UNCHANGED <<cache, alloc, nc, nprr, queues>>
    BY SMTT(30), <1>28 DEF DeleteNPR, EnvStep, TypeOK
  <2> QED BY SMTT(30), <2>2, <2>3, <2>4, <2>5, <2>6, <2>7 DEF TypeOK, alloc, queues
<1>29. CASE EditConfig
  <2>1. nc' \in Configs \cup {None} /\ ops' \in Nat
    BY SMTT(30), <1>29 DEF EditConfig, EnvStep, TypeOK
  <2>2. ccQ' = TRUE /\ UNCHANGED <<cache, alloc, nprr, api, rqQ, rlQ, rq, rl, cc>>
    BY <1>29 DEF EditConfig, EnvStep
  <2> QED BY <2>1, <2>2 DEF TypeOK, alloc, api
<1>30. CASE Resync
  <2>1. rqQ' \subseteq Pod /\ rlQ' \subseteq Pod /\ ccQ' \in BOOLEAN /\ ops' \in Nat
    BY SMTT(30), <1>30 DEF Resync, EnvStep, TypeOK
  <2>2. UNCHANGED <<cache, alloc, nc, nprr, api, rq, rl, cc>>
    BY <1>30 DEF Resync, EnvStep
  <2> QED BY ZenonT(60), <2>1, <2>2 DEF TypeOK, alloc, api
<1>31. CASE Restart
  <2> DEFINE g == CHOOSE h \in Gen : TRUE
             held == UNION {npr[p].allocs : p \in {q \in Pod : npr[q] # None /\ ~npr[q].deleting}}
  <2>1. g \in Gen
    BY ConstantsAssumption
  <2>2. held \in SUBSET Slot
    BY SMTT(30) DEF TypeOK, NPR
  <2>3. nc # None => Reconstructed \in Allocator
    <3> HIDE DEF held
    <3>1. Reconstructed = MarkUsed(EnsureIPs(SetReserved(NewAllocator, nc.reserved), nc.pool), held)
      BY DEF Reconstructed, held
    <3> SUFFICES ASSUME nc # None PROVE Reconstructed \in Allocator
      OBVIOUS
    <3>2. nc \in Configs /\ nc.reserved \in SUBSET Block /\ nc.pool \in SUBSET IP
      BY DEF TypeOK
    <3>3. SetReserved(NewAllocator, nc.reserved) \in Allocator
      BY <3>2, NewAllocatorType, AllocatorTypes
    <3>4. EnsureIPs(SetReserved(NewAllocator, nc.reserved), nc.pool) \in Allocator
      BY <3>2, <3>3, AllocatorTypes
    <3> QED BY <2>2, <3>1, <3>4, AllocatorTypes
  <2>4. heap' = [h \in Gen |-> IF nc # None /\ h = g THEN Reconstructed ELSE NewAllocator]
        /\ cur' = IF nc = None THEN None ELSE g
    BY <1>31 DEF Restart
  <2> HIDE DEF g
  <2>5. heap' \in [Gen -> Allocator] /\ cur' \in Gen \cup {None}
    BY <2>1, <2>3, <2>4, NewAllocatorType
  <2>6. /\ ops' \in Nat /\ cache' = npr /\ pending' = <<>>
        /\ rq' = RqIdle /\ rl' = RlIdle /\ cc' = CcIdle
        /\ rqQ' \subseteq Pod /\ rlQ' \subseteq Pod /\ ccQ' \in BOOLEAN
        /\ UNCHANGED <<nc, nprr, npr>>
    BY SMTT(30), <1>31 DEF Restart, TypeOK
  <2> QED BY SMTT(30), <2>5, <2>6, IdleFields DEF TypeOK
<1>32. CASE UNCHANGED vars
  BY SMTT(30), <1>32 DEF vars, user, api, alloc, queues, TypeOK
<1> QED
  BY <1>1, <1>2, <1>3, <1>4, <1>5, <1>6, <1>7, <1>9, <1>10, <1>11, <1>12, <1>14, <1>15, <1>16,
     <1>17, <1>18, <1>19, <1>20, <1>21, <1>22, <1>23, <1>24, <1>25, <1>26, <1>27, <1>28, <1>29,
     <1>30, <1>31, <1>32 DEF Next, RqStep, RlStep, CcStep

\* Type correctness, in every environment: the reconciles of the three
\* controllers never use a local variable they have not set.
THEOREM TypeCorrect == Spec => []TypeOK
BY TypeInit, TypeNext, PTL DEF Spec

-----------------------------------------------------------------------------
(***************************************************************************)
(* The port ranges of a pod are disjoint, whatever the environment does.   *)
(***************************************************************************)

\* Dropping allocations keeps an NPR clean, and the other fields do not matter.
LEMMA CleanSubset ==
    ASSUME NEW p, NEW o, NEW o2, Clean(p, o), o # None, o2.allocs \subseteq o.allocs
    PROVE  Clean(p, o2)
BY DEF Clean, IndicesDistinct, BlocksOf

\* Blocks picked on one IP that avoid the pod's other blocks and its own ports
\* keep an NPR clean.
LEMMA CleanGrow ==
    ASSUME NEW p, NEW o, NEW o2, NEW S, NEW ip, Clean(p, o), o # None,
           o.allocs \subseteq Slot, S \subseteq Slot, o2.allocs = o.allocs \cup S,
           \A s \in S : s[1] = ip /\ s[2] \notin Unusable(p, o.allocs)
    PROVE  Clean(p, o2)
<1>1. \A s \in S, t \in o.allocs : s[2] # t[2]
  BY DEF Unusable, BlocksOf
<1>2. \A s, t \in S : s[2] = t[2] => s = t
  BY SMTT(30) DEF Slot
<1>3. IndicesDistinct(o2.allocs)
  BY <1>1, <1>2 DEF Clean, IndicesDistinct
<1>4. \A s \in o2.allocs : s[2] \notin Exclude[p]
  BY DEF Clean, Unusable, BlocksOf
<1> QED BY <1>3, <1>4 DEF Clean, BlocksOf

\* A write of a clean object keeps the API server and the events clean.
LEMMA CleanCall ==
    ASSUME TypeOK, CleanEverywhere, NEW p \in Pod, NEW obj \in NPR \cup {None}, Clean(p, obj),
           Store(p, obj) \/ UNCHANGED api
    PROVE  /\ \A q \in Pod : Clean(q, npr'[q])
           /\ \A i \in 1..Len(pending') : Clean(pending'[i].pod, pending'[i].obj)
<1>1. CASE UNCHANGED api
  BY <1>1 DEF api, CleanEverywhere
<1>2. CASE Store(p, obj)
  <2>1. \A q \in Pod : npr'[q] = IF q = p THEN obj ELSE npr[q]
    BY <1>2 DEF Store, TypeOK
  <2>2. \A i \in 1..Len(pending') : \/ i \in 1..Len(pending) /\ pending'[i] = pending[i]
                                    \/ pending'[i] = [pod |-> p, obj |-> obj]
    BY SMTT(30), <1>2 DEF Store, TypeOK
  <2> QED BY SMTT(30), <2>1, <2>2 DEF CleanEverywhere
<1> QED BY <1>1, <1>2

\* Outdating a copy does not change it.
LEMMA SpoilKeeps ==
    ASSUME TypeOK, NEW p \in Pod
    PROVE  /\ Spoil(rq, p).pc = rq.pc /\ Spoil(rq, p).pod = rq.pod /\ Spoil(rq, p).new = rq.new
           /\ Spoil(rl, p).pc = rl.pc /\ Spoil(rl, p).pod = rl.pod /\ Spoil(rl, p).new = rl.new
           /\ SpoilList(p).pc = cc.pc /\ SpoilList(p).pod = cc.pod /\ SpoilList(p).new = cc.new
           /\ SpoilList(p).list = cc.list
BY SMTT(30), SpoilTypes DEF TypeOK, RqState, RlState, CcState

LEMMA CleanInit == Init => CleanEverywhere
<1> SUFFICES ASSUME Init PROVE CleanEverywhere
  OBVIOUS
<1>1. \A p \in Pod : npr[p] = None /\ cache[p] = None /\ cc.list[p] = None
  BY DEF Init, CcIdle, NoList
<1>2. rq.pc = "idle" /\ rl.pc = "idle" /\ cc.pc = "idle" /\ Len(pending) = 0
  BY IdleFields DEF Init
<1> QED BY SMTT(30), <1>1, <1>2 DEF CleanEverywhere, Clean

LEMMA CleanNext == TypeOK /\ CleanEverywhere /\ [Next]_vars => CleanEverywhere'
<1> SUFFICES ASSUME TypeOK, CleanEverywhere, [Next]_vars PROVE CleanEverywhere'
  OBVIOUS
<1>0. Clean(rq.pod, RqIdle.new) /\ \A p \in Pod : Clean(p, CcIdle.list[p]) /\ Clean(p, None)
  BY DEF Clean, RqIdle, CcIdle, NoList
<1>1. CASE Deliver
  <2>1. pending # <<>> /\ pending' = Tail(pending) /\ cache' = [cache EXCEPT ![Head(pending).pod] = Head(pending).obj]
        /\ UNCHANGED <<npr, rq, rl, cc>>
    BY <1>1 DEF Deliver
  <2>2. Head(pending) = pending[1] /\ 1 \in 1..Len(pending)
        /\ \A i \in 1..Len(pending') : i + 1 \in 1..Len(pending) /\ pending'[i] = pending[i + 1]
    BY SMTT(30), <2>1 DEF TypeOK
  <2> QED BY <2>1, <2>2 DEF CleanEverywhere, TypeOK
<1>2. ASSUME NEW p \in Pod, RqStartGone(p) PROVE CleanEverywhere'
  <2>1. UNCHANGED <<npr, pending, cache, rl, cc>>
    BY <1>2 DEF RqStartGone, api
  <2>2. rq' = RqIdle \/ (cache[p] # None /\ rq' = [RqIdle EXCEPT !.pc = "update", !.pod = p,
                            !.fresh = CacheIsFresh(p), !.new = [cache[p] EXCEPT !.stale = TRUE]])
    BY <1>2 DEF RqStartGone
  <2>3. rq'.pc # "idle" => Clean(rq'.pod, rq'.new)
    <3>1. CASE rq' = RqIdle
      BY <3>1, IdleFields
    <3>2. CASE cache[p] # None /\ rq' = [RqIdle EXCEPT !.pc = "update", !.pod = p,
                            !.fresh = CacheIsFresh(p), !.new = [cache[p] EXCEPT !.stale = TRUE]]
      <4>1. rq'.pod = p /\ rq'.new = [cache[p] EXCEPT !.stale = TRUE]
        BY <3>2 DEF RqIdle
      <4>2. rq'.new.allocs = cache[p].allocs
        BY <3>2, <4>1 DEF TypeOK, NPR
      <4>3. Clean(p, cache[p])
        BY DEF CleanEverywhere
      <4> QED BY <3>2, <4>1, <4>2, <4>3, CleanSubset
    <3> QED BY <2>2, <3>1, <3>2
  <2> QED BY <2>1, <2>3 DEF CleanEverywhere
<1>3. ASSUME NEW p \in Pod, RqStart(p) PROVE CleanEverywhere'
  <2>1. UNCHANGED <<npr, pending, cache, rl, cc>> /\ rq'.new = None
    BY <1>3 DEF RqStart, api, RqIdle
  <2> QED BY <2>1 DEF CleanEverywhere, Clean
<1>4. CASE RqEnsure
  <2>1. UNCHANGED <<npr, pending, cache, rl, cc>> /\ rq'.new = rq.new /\ rq'.pod = rq.pod /\ rq.pc # "idle"
    BY <1>4 DEF RqEnsure, api, TypeOK, RqState
  <2> QED BY <2>1 DEF CleanEverywhere, Clean
<1>5. CASE RqAllocatePod
  <2>1. UNCHANGED <<npr, pending, cache, rl, cc>>
    BY <1>5 DEF RqAllocatePod, api
  <2>2. rq.gen \in Gen /\ rq.pod \in Pod /\ heap[rq.gen] \in Allocator
    BY <1>5 DEF RqAllocatePod, TypeOK, RqState
  <2>3. ASSUME NEW S \in PicksForPod(heap[rq.gen], rq.conf.pool, rq.want, Exclude[rq.pod]),
               rq' = [rq EXCEPT !.pc = "create", !.add = S,
                          !.new = [allocs |-> S, count |-> rq.want, target |-> rq.conf.target,
                                   stale |-> FALSE, deleting |-> FALSE]]
        PROVE  Clean(rq'.pod, rq'.new)
    <3>1. rq'.pod = rq.pod /\ rq'.new.allocs = S
      BY <2>3 DEF TypeOK, RqState
    <3> QED BY SMTT(30), <2>2, <3>1, PodPicks DEF Clean, BlocksOf
  <2>4. rq'.pc # "idle" => Clean(rq'.pod, rq'.new)
    BY <1>5, <2>3, IdleFields DEF RqAllocatePod
  <2> QED BY <2>1, <2>4 DEF CleanEverywhere
<1>6. CASE RqResize
  <2>1. UNCHANGED <<npr, pending, cache, rl, cc>>
    BY <1>6 DEF RqResize, api
  <2>2. rq.pod \in Pod /\ cache[rq.pod] \in NPR /\ rq \in RqState
    BY SMTT(30), <1>6 DEF RqResize, TypeOK, RqState
  <2>3. rq' = RqIdle \/ (/\ rq'.pod = rq.pod
                          /\ rq'.new.allocs \subseteq cache[rq.pod].allocs)
    <3> DEFINE o == cache[rq.pod]
               inPool == {s \in o.allocs : s[1] \in rq.conf.pool}
               keep == Lowest(inPool, rq.want)
               more == [o EXCEPT !.count = rq.want]
               less == [o EXCEPT !.count = rq.want, !.allocs = keep]
    <3>1. keep \subseteq o.allocs
      BY DEF Lowest
    <3>2. more.allocs = o.allocs /\ less.allocs = keep
      BY <2>2 DEF NPR
    <3>3. \/ rq' = RqIdle
          \/ rq' = [rq EXCEPT !.pc = IF rq.conf.pool = {} THEN "update" ELSE "grow",
                              !.fresh = CacheIsFresh(rq.pod), !.new = more,
                              !.todo = rq.conf.pool, !.delta = rq.want - o.count]
          \/ rq' = [rq EXCEPT !.pc = "update", !.fresh = CacheIsFresh(rq.pod),
                              !.new = less, !.give = inPool \ keep]
      BY <1>6 DEF RqResize
    <3> HIDE DEF more, less
    <3>4. rq' = RqIdle \/ (rq'.pod = rq.pod /\ rq'.new \in {more, less})
      BY <2>2, <3>3 DEF RqState
    <3> QED BY <3>1, <3>2, <3>4
  <2>4. rq'.pc # "idle" => Clean(rq'.pod, rq'.new)
    <3>1. Clean(rq.pod, cache[rq.pod]) /\ cache[rq.pod] # None
      BY <2>2, NoneFacts DEF CleanEverywhere
    <3> QED BY <2>3, <3>1, CleanSubset, IdleFields
  <2> QED BY <2>1, <2>4 DEF CleanEverywhere
<1>7. ASSUME NEW ip \in IP, RqGrow(ip) PROVE CleanEverywhere'
  <2>1. UNCHANGED <<npr, pending, cache, rl, cc>>
    BY <1>7 DEF RqGrow, api
  <2>2. rq.gen \in Gen /\ heap[rq.gen] \in Allocator /\ rq.new \in NPR /\ rq \in RqState
        /\ Clean(rq.pod, rq.new)
    BY <1>7 DEF RqGrow, TypeOK, RqState, CleanEverywhere
  <2>3. ASSUME NEW S \in PicksForIP(heap[rq.gen], ip, rq.delta, Unusable(rq.pod, rq.new.allocs)),
               rq' = [rq EXCEPT !.pc = IF rq.todo = {ip} THEN "update" ELSE "grow",
                              !.todo = rq.todo \ {ip}, !.add = rq.add \cup S,
                              !.new = [rq.new EXCEPT !.allocs = @ \cup S]]
        PROVE  Clean(rq'.pod, rq'.new)
    <3> DEFINE new == [rq.new EXCEPT !.allocs = @ \cup S]
    <3>1. new.allocs = rq.new.allocs \cup S
      BY <2>2 DEF NPR
    <3>2. rq' = [rq EXCEPT !.pc = IF rq.todo = {ip} THEN "update" ELSE "grow",
                           !.todo = rq.todo \ {ip}, !.add = rq.add \cup S, !.new = new]
      BY <2>3
    <3> HIDE DEF new
    <3>3. rq'.pod = rq.pod /\ rq'.new = new
      BY <2>2, <3>2 DEF RqState
    <3>4. S \subseteq Slot /\ \A s \in S : s[1] = ip /\ s[2] \notin Unusable(rq.pod, rq.new.allocs)
      BY SMTT(30), <2>2, IPPicks
    <3>5. rq.new.allocs \subseteq Slot /\ rq.new # None
      BY <2>2, NoneFacts DEF NPR
    <3> QED BY <2>2, <3>1, <3>3, <3>4, <3>5, CleanGrow
  <2>4. rq' = [rq EXCEPT !.pc = "free", !.give = rq.add] => rq'.pod = rq.pod /\ rq'.new = rq.new
    BY <2>2 DEF RqState
  <2>5. Clean(rq'.pod, rq'.new)
    BY <1>7, <2>2, <2>3, <2>4 DEF RqGrow
  <2> QED BY <2>1, <2>5 DEF CleanEverywhere
<1>8. ASSUME NEW ok, NEW retry, rq.pc \in {"create", "update"}, RqAfterCall(ok, retry),
             Store(rq.pod, rq.new) \/ UNCHANGED api
      PROVE  CleanEverywhere'
  <2>1. rq.pod \in Pod /\ rq.new \in NPR /\ Clean(rq.pod, rq.new) /\ rq \in RqState
    BY <1>8 DEF TypeOK, RqState, CleanEverywhere
  <2>2. \A q \in Pod : Clean(q, npr'[q])
    BY <1>8, <2>1, CleanCall
  <2>3. \A i \in 1..Len(pending') : Clean(pending'[i].pod, pending'[i].obj)
    BY <1>8, <2>1, CleanCall
  <2>4. rq' = RqIdle \/ \E give : rq' = [rq EXCEPT !.pc = "free", !.give = give]
    BY <1>8 DEF RqAfterCall
  <2>5. rq' = RqIdle \/ (rq'.pod = rq.pod /\ rq'.new = rq.new)
    BY <2>1, <2>4 DEF RqState
  <2>6. rl'.pc = rl.pc /\ rl'.pod = rl.pod /\ rl'.new = rl.new
        /\ cc'.pc = cc.pc /\ cc'.pod = cc.pod /\ cc'.new = cc.new /\ cc'.list = cc.list
        /\ cache' = cache
    BY <1>8, <2>1, SpoilKeeps DEF RqAfterCall
  <2> QED BY <2>1, <2>2, <2>3, <2>5, <2>6, IdleFields DEF CleanEverywhere
<1>9. CASE RqCreate
  <2>1. rq.pc = "create" /\ (Store(rq.pod, rq.new) \/ UNCHANGED api)
    BY <1>9 DEF RqCreate, Fails
  <2>2. \E ok, retry : RqAfterCall(ok, retry)
    BY <1>9 DEF RqCreate
  <2> QED BY SMTT(30), <1>8, <2>1, <2>2
<1>10. CASE RqUpdate
  BY SMTT(30), <1>8, <1>10 DEF RqUpdate, Call, Fails
<1>11. CASE RqFree
  BY <1>11, IdleFields DEF RqFree, CleanEverywhere, api
<1>12. ASSUME NEW p \in Pod, RlStart(p) PROVE CleanEverywhere'
  <2>1. UNCHANGED <<npr, pending, cache, rq, cc>>
    BY <1>12 DEF RlStart, api
  <2>2. rl'.pc # "idle" => rl'.pod = p /\ rl'.new = cache[p]
    BY <1>12, IdleFields DEF RlStart
  <2> QED BY <2>1, <2>2 DEF CleanEverywhere
<1>13. ASSUME NEW retry, NEW obj \in NPR \cup {None}, rl.pc # "idle", RlAfterCall(retry),
              Clean(rl.pod, obj), Store(rl.pod, obj) \/ UNCHANGED api
       PROVE  CleanEverywhere'
  <2>1. rl.pod \in Pod
    BY <1>13 DEF TypeOK, RlState
  <2>2. \A q \in Pod : Clean(q, npr'[q])
    BY <1>13, <2>1, CleanCall
  <2>3. \A i \in 1..Len(pending') : Clean(pending'[i].pod, pending'[i].obj)
    BY <1>13, <2>1, CleanCall
  <2>4. rq'.pc = rq.pc /\ rq'.pod = rq.pod /\ rq'.new = rq.new
        /\ cc'.pc = cc.pc /\ cc'.pod = cc.pod /\ cc'.new = cc.new /\ cc'.list = cc.list
        /\ cache' = cache /\ rl'.pc = "idle"
    BY <1>13, <2>1, SpoilKeeps, IdleFields DEF RlAfterCall
  <2> QED BY <2>2, <2>3, <2>4 DEF CleanEverywhere
<1>14. CASE RlStamp
  <2> DEFINE obj == [rl.new EXCEPT !.stale = TRUE]
  <2>1. rl.new \in NPR /\ rl.pc # "idle" /\ Clean(rl.pod, rl.new) /\ rl.new # None
    BY <1>14, NoneFacts DEF RlStamp, TypeOK, RlState, CleanEverywhere
  <2>2. obj \in NPR /\ obj.allocs = rl.new.allocs
    BY <2>1 DEF NPR
  <2>3. Clean(rl.pod, obj)
    BY <2>1, <2>2, CleanSubset
  <2>4. RlAfterCall(TRUE) /\ (Store(rl.pod, obj) \/ UNCHANGED api)
    BY <1>14 DEF RlStamp, Call, Fails
  <2> QED BY <1>13, <2>1, <2>2, <2>3, <2>4
<1>15. CASE RlDelete
  <2> DEFINE obj == [npr[rl.pod] EXCEPT !.deleting = TRUE]
  <2>1. rl.pod \in Pod /\ rl.pc # "idle" /\ Clean(rl.pod, npr[rl.pod]) /\ Clean(rl.pod, None)
    BY <1>0, <1>15 DEF RlDelete, TypeOK, RlState, CleanEverywhere
  <2>2. npr[rl.pod] # None => obj \in NPR /\ obj.allocs = npr[rl.pod].allocs
    BY <2>1 DEF NPR, TypeOK
  <2>3. npr[rl.pod] # None => Clean(rl.pod, obj)
    BY <2>1, <2>2, CleanSubset
  <2>4. PICK retry : RlAfterCall(retry)
    BY <1>15 DEF RlDelete
  <2>7. (npr[rl.pod] # None /\ Store(rl.pod, obj)) \/ UNCHANGED api
    BY <1>15 DEF RlDelete, Call, Fails
  <2> HIDE DEF obj
  <2>5. CASE npr[rl.pod] # None /\ Store(rl.pod, obj)
    BY <1>13, <2>1, <2>2, <2>3, <2>4, <2>5
  <2>6. CASE UNCHANGED api
    BY <1>13, <2>1, <2>4, <2>6
  <2> QED BY <2>7, <2>5, <2>6
<1>16. CASE RlRelease
  <2>1. rl'.pod = rl.pod /\ rl'.new = rl.new /\ rl.pc # "idle"
    BY <1>16 DEF RlRelease, TypeOK, RlState
  <2> QED BY <1>16, <2>1 DEF RlRelease, CleanEverywhere, api
<1>17. CASE RlFinalize
  <2>1. rl.pod \in Pod /\ rl.pc # "idle" /\ Clean(rl.pod, None)
    BY <1>0, <1>17 DEF RlFinalize, TypeOK, RlState
  <2>2. \E retry : RlAfterCall(retry) /\ (Store(rl.pod, None) \/ UNCHANGED api)
    BY <1>17 DEF RlFinalize, Call, Fails
  <2> QED BY <1>13, <2>1, <2>2
<1>18. CASE CcStart
  <2>1. cc'.pc # "extend" /\ cc'.list = CcIdle.list
    BY <1>18 DEF CcStart, CcIdle
  <2> QED BY <1>0, <1>18, <2>1 DEF CcStart, CleanEverywhere, api
<1>19. CASE CcRemove
  BY <1>0, <1>19, IdleFields DEF CcRemove, CleanEverywhere, api
<1>20. CASE CcEnsure
  <2>1. cc'.pc # "extend" /\ cc'.list = cc.list
    BY <1>20 DEF CcEnsure, TypeOK, CcState
  <2> QED BY <1>20, <2>1 DEF CcEnsure, CleanEverywhere, api
<1>21. CASE CcList
  <2> DEFINE listed == {p \in Pod : cache[p] # None /\ ~cache[p].deleting /\ ~cache[p].stale}
             list == [p \in Pod |-> IF p \in listed THEN cache[p] ELSE None]
  <2>1. \A p \in Pod : Clean(p, list[p])
    BY <1>0 DEF CleanEverywhere
  <2>2. cc'.pc = "scan" /\ cc'.list = list
    BY <1>21 DEF CcList, TypeOK, CcState
  <2> QED BY <1>21, <2>1, <2>2 DEF CcList, CleanEverywhere, api
<1>22. ASSUME NEW p \in Pod, CcScan(p) PROVE CleanEverywhere'
  <2> DEFINE o == cc.list[p]
             list == [cc.list EXCEPT ![p] = None]
             kept == {s \in o.allocs : s[1] \in cc.conf.pool}
             new == [o EXCEPT !.allocs = kept]
             todo == cc.conf.pool \ IPsOf(o.allocs)
  <2>1. o \in NPR /\ cc \in CcState /\ Clean(p, o) /\ o # None /\ cc.pc = "scan"
    BY <1>22, NoneFacts DEF CcScan, TypeOK, CcState, CleanEverywhere
  <2>2. \A q \in Pod : list[q] = IF q = p THEN None ELSE cc.list[q]
    BY <2>1 DEF CcState
  <2>3. new.allocs \subseteq o.allocs
    BY <2>1 DEF NPR
  <2>4. Clean(p, new)
    <3> HIDE DEF new
    <3> QED BY <2>1, <2>3, CleanSubset
  <2>5. \/ cc' = [cc EXCEPT !.list = list]
        \/ cc' = [cc EXCEPT !.pc = "extend", !.pod = p, !.todo = todo, !.new = new]
    BY <1>22 DEF CcScan
  <2>6. UNCHANGED <<npr, pending, cache, rq, rl>>
    BY <1>22 DEF CcScan, api
  <2>7. CASE cc' = [cc EXCEPT !.list = list]
    <3> HIDE DEF list
    <3>1. cc'.list = list /\ cc'.pc = "scan"
      BY <2>1, <2>7 DEF CcState
    <3> QED BY <1>0, <2>2, <2>6, <3>1 DEF CleanEverywhere
  <2>8. CASE cc' = [cc EXCEPT !.pc = "extend", !.pod = p, !.todo = todo, !.new = new]
    <3> HIDE DEF new, todo
    <3>1. cc'.list = cc.list /\ cc'.new = new /\ cc'.pod = p
      BY <2>1, <2>8 DEF CcState
    <3> QED BY <2>4, <2>6, <3>1 DEF CleanEverywhere
  <2> QED BY <2>5, <2>7, <2>8
<1>23. ASSUME NEW ip \in IP, CcExtend(ip) PROVE CleanEverywhere'
  <2>1. UNCHANGED <<npr, pending, cache, rq, rl>>
    BY <1>23 DEF CcExtend, api
  <2>2. cc.gen \in Gen /\ heap[cc.gen] \in Allocator /\ cc.new \in NPR /\ cc \in CcState
        /\ Clean(cc.pod, cc.new)
    BY <1>23 DEF CcExtend, TypeOK, CcState, CleanEverywhere
  <2>3. ASSUME NEW S \in PicksForIP(heap[cc.gen], ip, cc.new.count, Unusable(cc.pod, cc.new.allocs)),
               cc' = [cc EXCEPT !.todo = cc.todo \ {ip}, !.add = cc.add \cup S,
                                !.new = [cc.new EXCEPT !.allocs = @ \cup S]]
        PROVE  Clean(cc'.pod, cc'.new) /\ cc'.list = cc.list
    <3> DEFINE new == [cc.new EXCEPT !.allocs = @ \cup S]
    <3>1. new.allocs = cc.new.allocs \cup S
      BY <2>2 DEF NPR
    <3>2. cc' = [cc EXCEPT !.todo = cc.todo \ {ip}, !.add = cc.add \cup S, !.new = new]
      BY <2>3
    <3> HIDE DEF new
    <3>3. cc'.pod = cc.pod /\ cc'.new = new /\ cc'.list = cc.list
      BY <2>2, <3>2 DEF CcState
    <3>4. S \subseteq Slot /\ \A s \in S : s[1] = ip /\ s[2] \notin Unusable(cc.pod, cc.new.allocs)
      BY SMTT(30), <2>2, IPPicks
    <3>5. cc.new.allocs \subseteq Slot /\ cc.new # None
      BY <2>2, NoneFacts DEF NPR
    <3> QED BY <2>2, <3>1, <3>3, <3>4, <3>5, CleanGrow
  <2>4. cc' = [cc EXCEPT !.pc = "abort"] => cc'.pc = "abort" /\ cc'.list = cc.list
    BY <2>2 DEF CcState
  <2>5. cc'.list = cc.list /\ (cc'.pc = "extend" => Clean(cc'.pod, cc'.new))
    BY <1>23, <2>2, <2>3, <2>4 DEF CcExtend
  <2> QED BY <2>1, <2>5 DEF CleanEverywhere
<1>24. CASE CcUpdate
  <2>1. cc.pod \in Pod /\ cc.new \in NPR /\ Clean(cc.pod, cc.new) /\ cc \in CcState
    BY <1>24 DEF CcUpdate, TypeOK, CcState, CleanEverywhere
  <2>2. Store(cc.pod, cc.new) \/ UNCHANGED api
    BY <1>24 DEF CcUpdate, Call, Fails
  <2>3. \A q \in Pod : Clean(q, npr'[q])
    BY <2>1, <2>2, CleanCall
  <2>4. \A i \in 1..Len(pending') : Clean(pending'[i].pod, pending'[i].obj)
    BY <2>1, <2>2, CleanCall
  <2> DEFINE list == [cc.list EXCEPT ![cc.pod] = None]
  <2>5. \A q \in Pod : list[q] = IF q = cc.pod THEN None ELSE cc.list[q]
    BY <2>1 DEF CcState
  <2>6. \/ cc' = [cc EXCEPT !.pc = "scan", !.pod = None, !.new = None, !.add = {},
                            !.list = list, !.fresh = @ \ {cc.pod}]
        \/ cc' = [cc EXCEPT !.pc = "abort"]
    BY <1>24 DEF CcUpdate
  <2>7. cc'.pc \in {"scan", "abort"} /\ (cc'.list = list \/ cc'.list = cc.list)
    <3> HIDE DEF list
    <3>1. CASE cc' = [cc EXCEPT !.pc = "abort"]
      BY <2>1, <3>1 DEF CcState
    <3>2. CASE cc' = [cc EXCEPT !.pc = "scan", !.pod = None, !.new = None, !.add = {},
                                !.list = list, !.fresh = @ \ {cc.pod}]
      BY <2>1, <3>2 DEF CcState
    <3> QED BY <2>6, <3>1, <3>2
  <2>8. \A q \in Pod : Clean(q, cc'.list[q])
    BY <1>0, <2>5, <2>7 DEF CleanEverywhere
  <2>9. rq'.pc = rq.pc /\ rq'.pod = rq.pod /\ rq'.new = rq.new
        /\ rl'.pc = rl.pc /\ rl'.pod = rl.pod /\ rl'.new = rl.new /\ cache' = cache
    BY <1>24, <2>1, SpoilKeeps DEF CcUpdate
  <2> QED BY <2>3, <2>4, <2>7, <2>8, <2>9 DEF CleanEverywhere
<1>25. CASE CcAbort
  BY <1>0, <1>25, IdleFields DEF CcAbort, CleanEverywhere, api
<1>26. CASE CcDrop
  <2>1. cc' = CcIdle \/ (cc'.pc = "scan" /\ cc'.list = cc.list)
    BY <1>26 DEF CcDrop, TypeOK, CcState
  <2> QED BY <1>0, <1>26, <2>1, IdleFields DEF CcDrop, CleanEverywhere, api
<1>27. ASSUME NEW p \in Pod, EditRequest(p) PROVE CleanEverywhere'
  BY <1>27 DEF EditRequest, EnvStep, CleanEverywhere, api
<1>28. ASSUME NEW p \in Pod, DeleteNPR(p) PROVE CleanEverywhere'
  <2> DEFINE obj == [npr[p] EXCEPT !.deleting = TRUE]
  <2>1. npr[p] \in NPR /\ npr[p] # None /\ Clean(p, npr[p])
    BY <1>28, NoneFacts DEF DeleteNPR, TypeOK, CleanEverywhere
  <2>2. obj \in NPR /\ obj.allocs = npr[p].allocs
    BY <2>1 DEF NPR
  <2>3. Clean(p, obj)
    BY <2>1, <2>2, CleanSubset
  <2>4. Store(p, obj)
    BY <1>28 DEF DeleteNPR
  <2> HIDE DEF obj
  <2>5. \A q \in Pod : Clean(q, npr'[q])
    BY <2>2, <2>3, <2>4, CleanCall
  <2>6. \A i \in 1..Len(pending') : Clean(pending'[i].pod, pending'[i].obj)
    BY <2>2, <2>3, <2>4, CleanCall
  <2>7. rq'.pc = rq.pc /\ rq'.pod = rq.pod /\ rq'.new = rq.new
        /\ rl'.pc = rl.pc /\ rl'.pod = rl.pod /\ rl'.new = rl.new
        /\ cc'.pc = cc.pc /\ cc'.pod = cc.pod /\ cc'.new = cc.new /\ cc'.list = cc.list
        /\ cache' = cache
    BY <1>28, SpoilKeeps DEF DeleteNPR, EnvStep
  <2> QED BY <2>5, <2>6, <2>7 DEF CleanEverywhere
<1>29. CASE EditConfig
  BY <1>29 DEF EditConfig, EnvStep, CleanEverywhere, api
<1>30. CASE Resync
  BY <1>30 DEF Resync, EnvStep, CleanEverywhere, api
<1>31. CASE Restart
  <2>1. cache' = npr /\ npr' = npr /\ Len(pending') = 0 /\ rq' = RqIdle /\ rl' = RlIdle /\ cc' = CcIdle
    BY <1>31 DEF Restart
  <2> QED BY SMTT(30), <1>0, <2>1, IdleFields DEF CleanEverywhere
<1>32. CASE UNCHANGED vars
  BY <1>32 DEF vars, api, CleanEverywhere
<1> QED
  BY <1>1, <1>2, <1>3, <1>4, <1>5, <1>6, <1>7, <1>9, <1>10, <1>11, <1>12, <1>14, <1>15, <1>16,
     <1>17, <1>18, <1>19, <1>20, <1>21, <1>22, <1>23, <1>24, <1>25, <1>26, <1>27, <1>28, <1>29,
     <1>30, <1>31, <1>32 DEF Next, RqStep, RlStep, CcStep

\* In every environment, every copy of an NPR anywhere in the system lists
\* blocks of different indices, none of which covers one of the pod's ports.
THEOREM CleanAlways == Spec => []CleanEverywhere
BY CleanInit, CleanNext, TypeInit, TypeNext, PTL DEF Spec

\* In every environment, the port ranges AllocateForPod, increaseCount and
\* reconcileNPRAllocations give a pod on its external IPs never overlap and
\* never cover a port the pod listens on.
THEOREM RangesDisjoint == Spec => []PodRangesDisjoint
<1>1. CleanEverywhere => PodRangesDisjoint
  BY DEF CleanEverywhere, Clean, PodRangesDisjoint, Exists
<1> QED BY <1>1, CleanAlways, PTL

-----------------------------------------------------------------------------
(***************************************************************************)
(* The calm environment.                                                   *)
(***************************************************************************)
Calm == Env \subseteq CalmEvents

LEMMA CalmFacts ==
    Calm => {"recreate", "grow_racing", "shrink", "delete_config", "delete_npr", "resync",
             "crash_releasing", "release_error", "lost_reply"} \cap Env = {}
BY DEF Calm, CalmEvents

\* In a calm environment a call that reports success has been applied, and one
\* that reports an error has not.
LEMMA CalmCall ==
    ASSUME Calm, NEW applies, NEW p, NEW obj, NEW errors, NEW ok,
           Call(applies, p, obj, errors, ok)
    PROVE  /\ ok => applies /\ Store(p, obj)
           /\ ~ok => UNCHANGED api
           /\ ~ok /\ errors = "release_error" => ~applies
BY CalmFacts DEF Call, Fails

LEMMA CalmFails ==
    ASSUME Calm, NEW applies, NEW p, NEW obj, NEW errors, Fails(applies, p, obj, errors)
    PROVE  UNCHANGED api
BY CalmFacts DEF Fails

-----------------------------------------------------------------------------
(***************************************************************************)
(* The API server and the cache.                                           *)
(***************************************************************************)
LEMMA SeqElement ==
    ASSUME NEW S, NEW s \in Seq(S), NEW i \in 1..Len(s)
    PROVE  s[i] \in S
BY SMTT(30)

LEMMA EventTypes ==
    ASSUME TypeOK
    PROVE  /\ Len(pending) \in Nat
           /\ \A i \in 1..Len(pending) : pending[i].pod \in Pod /\ pending[i].obj \in NPR \cup {None}
<1> DEFINE Event == [pod : Pod, obj : NPR \cup {None}]
<1>1. pending \in Seq(Event)
  BY DEF TypeOK
<1>2. \A i \in 1..Len(pending) : pending[i] \in Event
  <2> HIDE DEF Event
  <2> QED BY <1>1, SeqElement
<1>3. Len(pending) \in Nat
  <2> HIDE DEF Event
  <2> QED BY SMTT(30), <1>1
<1> QED BY <1>2, <1>3

\* No event on the way to a living NPR says that it terminates or is gone.
LEMMA LiveEvents ==
    ASSUME TypeOK, Coherent, NEW p \in Pod, npr[p] # None, ~Deleting(npr[p])
    PROVE  \A i \in 1..Len(pending) : pending[i].pod = p =>
              pending[i].obj # None /\ ~Deleting(pending[i].obj)
<1> SUFFICES ASSUME NEW i \in 1..Len(pending), pending[i].pod = p
             PROVE  pending[i].obj # None /\ ~Deleting(pending[i].obj)
  OBVIOUS
<1>1. pending[i].obj # None
  BY SMTT(30) DEF Coherent
<1>2. ~Deleting(pending[i].obj)
  BY DEF Coherent
<1> QED BY <1>1, <1>2

\* What a write does to the sequence of events.
LEMMA StoreEvents ==
    ASSUME TypeOK, NEW p \in Pod, NEW obj \in NPR \cup {None}, Store(p, obj)
    PROVE  /\ Len(pending) \in Nat /\ Len(pending') = Len(pending) + 1
           /\ \A i \in 1..Len(pending) : pending'[i] = pending[i]
           /\ pending'[Len(pending')] = [pod |-> p, obj |-> obj]
           /\ \A q \in Pod : npr'[q] = IF q = p THEN obj ELSE npr[q]
BY SMTT(30) DEF TypeOK, Store

\* A write keeps the cache coherent.
LEMMA StoreCoherent ==
    ASSUME TypeOK, Coherent, NEW p \in Pod, NEW obj \in NPR \cup {None}, Store(p, obj),
           cache' = cache,
           \A i \in 1..Len(pending) : pending[i].pod = p =>
              /\ pending[i].obj # None /\ ~Deleting(pending[i].obj)
              /\ Stale(pending[i].obj) => Stale(obj),
           obj = None => CacheIsFresh(p) /\ Stale(cache[p])
    PROVE  Coherent'
<1> DEFINE n == Len(pending)
<1>0. /\ n \in Nat /\ Len(pending') = n + 1
      /\ \A i \in 1..n : pending'[i] = pending[i]
      /\ pending'[n + 1] = [pod |-> p, obj |-> obj]
      /\ \A q \in Pod : npr'[q] = IF q = p THEN obj ELSE npr[q]
  BY StoreEvents
<1>00. \A i \in 1..n : pending[i].pod \in Pod
  BY EventTypes
<1> HIDE DEF n
<1>1. \A q \in Pod : CacheIsFresh(q)' => cache'[q] = npr'[q]
  <2> SUFFICES ASSUME NEW q \in Pod, CacheIsFresh(q)' PROVE cache'[q] = npr'[q]
    OBVIOUS
  <2>1. q # p
    BY SMTT(30), <1>0 DEF CacheIsFresh
  <2>2. CacheIsFresh(q)
    BY SMTT(30), <1>0 DEF CacheIsFresh, n
  <2> QED BY <1>0, <2>1, <2>2 DEF Coherent
<1>2. ASSUME NEW i \in 1..Len(pending')
      PROVE  LET q == pending'[i].pod o == pending'[i].obj IN
        /\ (\A j \in 1..Len(pending') : j > i => pending'[j].pod # q) => o = npr'[q]
        /\ Deleting(o) => \A j \in 1..Len(pending') : j > i => pending'[j].pod # q
        /\ o = None => /\ \A j \in 1..Len(pending') : j # i => pending'[j].pod # q
                       /\ Stale(cache'[q])
        /\ npr'[q] = None => o = None
        /\ Stale(o) => Stale(npr'[q])
  <2>1. CASE i = n + 1
    <3>1. pending'[i].pod = p /\ pending'[i].obj = obj /\ npr'[p] = obj
      BY SMTT(30), <1>0, <2>1
    <3>2. \A j \in 1..Len(pending') : ~(j > i)
      BY SMTT(30), <1>0, <2>1
    <3>3. obj = None => \A j \in 1..Len(pending') : j # i => pending'[j].pod # p
      BY SMTT(30), <1>0, <2>1 DEF CacheIsFresh, n
    <3> QED BY <3>1, <3>2, <3>3
  <2>2. CASE i \in 1..n
    <3> DEFINE q == pending[i].pod
               o == pending[i].obj
    <3>1. pending'[i].pod = q /\ pending'[i].obj = o /\ q \in Pod
      BY <1>0, <1>00, <2>2
    <3>2. CASE q = p
      <4>1. o # None /\ ~Deleting(o) /\ (Stale(o) => Stale(obj))
        BY <2>2, <3>2 DEF n
      <4>2. n + 1 \in 1..Len(pending') /\ n + 1 > i /\ pending'[n + 1].pod = q
        BY SMTT(30), <1>0, <2>2, <3>2
      <4>3. npr'[q] = obj /\ npr'[q] # None
        <5>1. obj # None
          BY <2>2, <3>2 DEF CacheIsFresh, n
        <5> QED BY <1>0, <3>1, <3>2, <5>1
      <4> HIDE DEF q, o
      <4> QED BY <3>1, <4>1, <4>2, <4>3
    <3>3. CASE q # p
      <4>1. npr'[q] = npr[q] /\ cache'[q] = cache[q]
        BY <1>0, <3>1, <3>3
      <4>2. \A j \in 1..n : pending'[j] = pending[j]
        BY <1>0
      <4>3. pending'[n + 1].pod # q
        BY SMTT(30), <1>0, <3>3
      <4>4. /\ (\A j \in 1..n : j > i => pending[j].pod # q) => o = npr[q]
            /\ Deleting(o) => \A j \in 1..n : j > i => pending[j].pod # q
            /\ o = None => (\A j \in 1..n : j # i => pending[j].pod # q) /\ Stale(cache[q])
            /\ npr[q] = None => o = None
            /\ Stale(o) => Stale(npr[q])
        BY <2>2 DEF Coherent, n
      <4>5. \A j \in 1..Len(pending') : j \in 1..n \/ j = n + 1
        BY SMTT(30), <1>0
      <4>6. \A j \in 1..n : j \in 1..Len(pending')
        BY SMTT(30), <1>0
      <4> HIDE DEF q, o
      <4> QED BY <3>1, <4>1, <4>2, <4>3, <4>4, <4>5, <4>6
    <3> QED BY <3>2, <3>3
  <2> QED BY SMTT(30), <1>0, <2>1, <2>2
<1> QED BY <1>1, <1>2 DEF Coherent

\* A write to p does not make another pod's cached NPR older.
LEMMA StoreFresh ==
    ASSUME TypeOK, NEW p \in Pod, NEW obj \in NPR \cup {None}, Store(p, obj),
           NEW q \in Pod, q # p, CacheIsFresh(q)
    PROVE  \A i \in 1..Len(pending') : pending'[i].pod # q
<1>1. /\ Len(pending) \in Nat /\ Len(pending') = Len(pending) + 1
      /\ \A i \in 1..Len(pending) : pending'[i] = pending[i]
      /\ pending'[Len(pending')] = [pod |-> p, obj |-> obj]
  BY StoreEvents
<1>2. \A i \in 1..Len(pending') : i \in 1..Len(pending) \/ i = Len(pending')
  BY SMTT(30), <1>1
<1> QED BY SMTT(30), <1>1, <1>2 DEF CacheIsFresh

\* Dying after a write to p: for the other pods nothing changes.
LEMMA StoreDying ==
    ASSUME TypeOK, Dying, NEW p \in Pod, NEW obj \in NPR \cup {None}, Store(p, obj),
           UNCHANGED <<nprr, cache>>, rlQ' \subseteq rlQ \cup {p}, rl'.pod \in {None, p, rl.pod},
           rq'.pod \in {None, rq.pod},
           rq'.pod = rq.pod /\ rq.pod # p =>
              \/ rq'.pc = rq.pc /\ (rq'.fresh => rq.fresh) /\ rq'.add = rq.add /\ rq'.give = rq.give
              \/ ~Stale(npr[rq.pod]) /\ ~Stale(cache[rq.pod]),
           /\ Deleting(obj) => Stale(obj)
           /\ Stale(cache[p]) => obj = None \/ Stale(obj)
           /\ Deleting(cache[p]) => obj = None
           /\ obj = None /\ cache[p] # None => Stale(cache[p]) /\ p \notin rlQ' /\ rl'.pod # p
           /\ Stale(obj) \/ Stale(cache[p]) =>
                 /\ nprr[p] = None
                 /\ rq'.pod = p => rq'.pc = "update" /\ ~rq'.fresh /\ rq'.add = {} /\ rq'.give = {}
    PROVE  Dying'
<1> DEFINE Fr(q) == \A i \in 1..Len(pending') : pending'[i].pod # q
<1>1. npr'[p] = obj /\ \A q \in Pod : q # p => npr'[q] = npr[q]
  <2>1. \A q \in Pod : npr'[q] = IF q = p THEN obj ELSE npr[q]
    BY DEF Store, TypeOK
  <2> QED BY <2>1
<1>2. \A q \in Pod : q # p /\ CacheIsFresh(q) => Fr(q)
  BY StoreFresh
<1>3. ASSUME NEW q \in Pod, q # p
      PROVE  /\ Deleting(npr[q]) => Stale(npr[q])
             /\ Stale(cache[q]) => npr[q] = None \/ Stale(npr[q])
             /\ Deleting(cache[q]) => npr[q] = None \/ Fr(q)
             /\ npr[q] = None /\ cache[q] # None => Stale(cache[q]) /\ q \notin rlQ' /\ rl'.pod # q
             /\ Stale(npr[q]) \/ Stale(cache[q]) =>
                   /\ nprr[q] = None
                   /\ rq'.pod = q => rq'.pc = "update" /\ ~rq'.fresh /\ rq'.add = {} /\ rq'.give = {}
  <2> HIDE DEF Fr
  <2> QED BY SMTT(30), <1>2, <1>3, NoneFacts DEF Dying
<1> HIDE DEF Fr
<1>4. ASSUME NEW q \in Pod
      PROVE  /\ Deleting(npr'[q]) => Stale(npr'[q])
             /\ Stale(cache'[q]) => npr'[q] = None \/ Stale(npr'[q])
             /\ Deleting(cache'[q]) => npr'[q] = None \/ Fr(q)
             /\ npr'[q] = None /\ cache'[q] # None => Stale(cache'[q]) /\ q \notin rlQ' /\ rl'.pod # q
             /\ Stale(npr'[q]) \/ Stale(cache'[q]) =>
                   /\ nprr'[q] = None
                   /\ rq'.pod = q => rq'.pc = "update" /\ ~rq'.fresh /\ rq'.add = {} /\ rq'.give = {}
  <2>1. CASE q = p
    BY <1>1, <2>1
  <2>2. CASE q # p
    BY <1>1, <1>3, <2>2
  <2> QED BY <2>1, <2>2
<1> QED BY <1>4 DEF Dying, CacheIsFresh, Fr

\* A cached NPR that terminates is stale.
LEMMA CachedDeletingIsStale ==
    ASSUME Coherent, Dying, NEW p \in Pod, Deleting(cache[p])
    PROVE  Stale(cache[p])
BY DEF Coherent, Dying, Deleting

-----------------------------------------------------------------------------
(***************************************************************************)
(* Steps that leave the API server and the cache alone.                    *)
(***************************************************************************)
LEMMA QuietApi ==
    ASSUME Coherent, UNCHANGED <<npr, pending, cache>>
    PROVE  Coherent'
BY DEF Coherent, CacheIsFresh

\* A step that leaves the reconciles, the NPRs and the allocator alone.
LEMMA QuietOwners ==
    ASSUME OneAllocator, FreshCopies, SingleOwner,
           UNCHANGED <<nc, nprr, npr, heap, cur, rq, rl, cc>>
    PROVE  OneAllocator' /\ FreshCopies' /\ SingleOwner'
<1>1. OneAllocator'
  BY DEF OneAllocator
<1>2. FreshCopies'
  BY DEF FreshCopies
<1>3. InRq' = InRq /\ InCc' = InCc /\ FreeNow' = FreeNow /\ RegNow' = RegNow
  BY DEF InRq, InCc, FreeNow, RegNow
<1>4. \A p \in Pod : OwnedBy(p)' = OwnedBy(p)
  BY DEF OwnedBy
<1>5. SingleOwner'
  BY <1>3, <1>4 DEF SingleOwner
<1> QED BY <1>1, <1>2, <1>5

LEMMA QuietRelease ==
    ASSUME Release, UNCHANGED <<npr, pending, rlQ, rl>>
    PROVE  Release'
BY DEF Release, CacheIsFresh

LEMMA QuietDying ==
    ASSUME Dying, UNCHANGED <<npr, pending, cache, rlQ, nprr>>, rl'.pod = rl.pod,
           \A p \in Pod : (Stale(npr[p]) \/ Stale(cache[p])) /\ rq'.pod = p =>
              rq'.pc = "update" /\ ~rq'.fresh /\ rq'.add = {} /\ rq'.give = {}
    PROVE  Dying'
BY DEF Dying, CacheIsFresh

-----------------------------------------------------------------------------
(***************************************************************************)
(* Steps on the allocator.                                                 *)
(***************************************************************************)
LEMMA FreeIsRegistered == TypeOK => FreeNow \subseteq RegNow \X Block
BY NoneFacts DEF TypeOK, FreeNow, RegNow, Allocator

LEMMA EnsureOwner ==
    ASSUME TypeOK, NEW conf \in Configs, EnsureAllocator(conf)
    PROVE  /\ cur' \in Gen /\ cur' = EnsuredGen /\ (cur # None => cur' = cur)
           /\ RegNow' = RegNow \cup conf.pool
           /\ FreeNow' = FreeNow \cup ((conf.pool \ RegNow) \X Block)
           /\ heap'[cur'].reg = RegNow \cup conf.pool
<1>1. EnsuredGen \in Gen /\ cur' = EnsuredGen
  BY EnsureTypes
<1>2. conf.pool \subseteq IP /\ conf.reserved \subseteq Block
  BY NoneFacts
<1>3. cur' # None /\ heap \in [Gen -> Allocator] /\ cur \in Gen \cup {None}
  BY <1>1, NoneFacts DEF TypeOK
<1>4. CASE cur = None
  <2>1. heap'[cur'] = EnsureIPs(SetReserved(NewAllocator, conf.reserved), conf.pool)
    BY <1>1, <1>3, <1>4 DEF EnsureAllocator
  <2>2. heap'[cur'].reg = conf.pool /\ heap'[cur'].free = conf.pool \X Block
    BY SMTT(30), <2>1 DEF EnsureIPs, SetReserved, NewAllocator
  <2> QED BY <1>1, <1>3, <1>4, <2>2 DEF RegNow, FreeNow
<1>5. CASE cur # None
  <2>1. heap[cur] \in Allocator /\ cur' = cur
    BY <1>1, <1>3, <1>5 DEF EnsuredGen
  <2>2. heap'[cur'] = EnsureIPs(SetReserved(heap[cur], conf.reserved), conf.pool)
    BY <1>1, <1>3, <1>5 DEF EnsureAllocator
  <2>3. /\ heap'[cur'].reg = heap[cur].reg \cup conf.pool
        /\ heap'[cur'].free = heap[cur].free \cup ((conf.pool \ heap[cur].reg) \X Block)
    BY <2>1, <2>2 DEF EnsureIPs, SetReserved, Allocator
  <2> QED BY <1>1, <1>3, <1>5, <2>1, <2>3 DEF RegNow, FreeNow
<1> QED BY <1>4, <1>5

LEMMA AllocateOwner ==
    ASSUME TypeOK, cur \in Gen, cur' = cur, NEW S \in SUBSET FreeNow,
           heap' = [heap EXCEPT ![cur] = Allocate(@, S)]
    PROVE  FreeNow' = FreeNow \ S /\ RegNow' = RegNow
BY NoneFacts DEF TypeOK, FreeNow, RegNow, Allocate, Allocator

LEMMA FreeOwner ==
    ASSUME TypeOK, cur \in Gen, cur' = cur, NEW S \in SUBSET (RegNow \X Block),
           heap' = [heap EXCEPT ![cur] = Free(@, S)]
    PROVE  FreeNow' = FreeNow \cup S /\ RegNow' = RegNow
<1>1. cur # None /\ heap[cur] \in Allocator
  BY NoneFacts DEF TypeOK
<1>2. heap'[cur] = Free(heap[cur], S)
  BY DEF TypeOK
<1>3. {s \in S : s[1] \in heap[cur].reg} = S
  BY <1>1 DEF RegNow
<1>4. heap'[cur].free = heap[cur].free \cup S /\ heap'[cur].reg = heap[cur].reg
  BY <1>1, <1>2, <1>3 DEF Free, Allocator
<1> QED BY <1>1, <1>4 DEF FreeNow, RegNow

\* New IPs come with slots nobody owns.
LEMMA OwnersAfterEnsure ==
    ASSUME SingleOwner, UNCHANGED <<npr, rl>>, InRq' = InRq, InCc' = InCc, NEW P,
           RegNow' = RegNow \cup P, FreeNow' = FreeNow \cup ((P \ RegNow) \X Block)
    PROVE  SingleOwner'
<1>1. \A s \in (P \ RegNow) \X Block : s \notin RegNow \X Block
  OBVIOUS
<1>2. RegNow \X Block \subseteq RegNow' \X Block
  OBVIOUS
<1>3. ASSUME NEW p \in Pod
      PROVE  OwnedBy(p) \cap (InRq \cup InCc \cup FreeNow') = {} /\ OwnedBy(p) \subseteq RegNow' \X Block
  BY <1>1, <1>2 DEF SingleOwner
<1>4. (InRq \cup InCc) \cap FreeNow' = {} /\ InRq \cup InCc \subseteq RegNow' \X Block /\ InRq \cap InCc = {}
  BY <1>1, <1>2 DEF SingleOwner
<1>5. \A p, q \in Pod : p # q => OwnedBy(p) \cap OwnedBy(q) = {}
  BY DEF SingleOwner
<1> QED BY <1>3, <1>4, <1>5 DEF SingleOwner, OwnedBy

\* Slots move from the free set to a reconcile.
LEMMA OwnersAfterTake ==
    ASSUME TypeOK, SingleOwner, UNCHANGED <<npr, rl>>, NEW S \in SUBSET FreeNow,
           RegNow' = RegNow, FreeNow' = FreeNow \ S,
           \/ InRq' = InRq \cup S /\ InCc' = InCc
           \/ InRq' = InRq /\ InCc' = InCc \cup S
    PROVE  SingleOwner'
BY FreeIsRegistered DEF SingleOwner, OwnedBy

\* Slots move from a reconcile to the free set.
LEMMA OwnersAfterGive ==
    ASSUME SingleOwner, UNCHANGED <<npr, rl>>, RegNow' = RegNow,
           \/ InRq' = {} /\ InCc' = InCc /\ FreeNow' = FreeNow \cup InRq
           \/ InRq' = InRq /\ InCc' = {} /\ FreeNow' = FreeNow \cup InCc
    PROVE  SingleOwner'
BY DEF SingleOwner, OwnedBy

-----------------------------------------------------------------------------
(***************************************************************************)
(* Steps that write an NPR.                                                *)
(***************************************************************************)
\* Outdating a copy changes nothing but the note that it is current.
LEMMA SpoilRq ==
    ASSUME TypeOK, NEW p \in Pod, rq' = Spoil(rq, p)
    PROVE  /\ rq'.pc = rq.pc /\ rq'.pod = rq.pod /\ rq'.new = rq.new /\ rq'.gen = rq.gen
           /\ rq'.conf = rq.conf /\ rq'.add = rq.add /\ rq'.give = rq.give
           /\ rq'.fresh => rq.fresh /\ (rq.pod # p \/ npr'[p] = npr[p])
           /\ rq = RqIdle => rq' = RqIdle
<1>1. rq = RqIdle => rq' = RqIdle
  BY NoneFacts, IdleFields DEF Spoil
<1> QED BY <1>1 DEF Spoil, TypeOK, RqState

LEMMA SpoilRl ==
    ASSUME TypeOK, NEW p, rl' = Spoil(rl, p)
    PROVE  /\ rl'.pc = rl.pc /\ rl'.pod = rl.pod /\ rl'.new = rl.new
           /\ rl'.fresh \in BOOLEAN
           /\ rl.pod # p => rl' = rl
           /\ rl'.fresh => rl.fresh /\ (rl.pod # p \/ npr'[p] = npr[p])
BY DEF Spoil, TypeOK, RlState

LEMMA SpoilCc ==
    ASSUME TypeOK, NEW p, cc' = SpoilList(p)
    PROVE  /\ cc'.pc = cc.pc /\ cc'.pod = cc.pod /\ cc'.new = cc.new /\ cc'.gen = cc.gen
           /\ cc'.conf = cc.conf /\ cc'.add = cc.add /\ cc'.list = cc.list /\ cc'.gone = cc.gone
           /\ cc'.fresh \subseteq cc.fresh
           /\ npr'[p] # npr[p] => p \notin cc'.fresh
BY DEF SpoilList, TypeOK, CcState

\* An NPR is written: its new allocations and what the reconciles keep were its
\* own or the reconciles' before.
LEMMA OwnersAfterWrite ==
    ASSUME SingleOwner, NEW p \in Pod, NEW A, NEW R, NEW C,
           FreeNow' = FreeNow, RegNow' = RegNow, InRq' = R, InCc' = C,
           A \cup R \cup C \subseteq OwnedBy(p) \cup InRq \cup InCc,
           A \cap R = {}, A \cap C = {}, R \cap C = {},
           \A q \in Pod : (IF npr'[q] = None \/ (rl'.pc = "finalize" /\ rl'.pod = q)
                           THEN {} ELSE npr'[q].allocs) = IF q = p THEN A ELSE OwnedBy(q)
    PROVE  SingleOwner'
<1> DEFINE Own(q) == IF q = p THEN A ELSE OwnedBy(q)
<1>1. \A q \in Pod : Own(q) \cap (R \cup C \cup FreeNow) = {}
  BY DEF SingleOwner
<1>2. \A q, r \in Pod : q # r => Own(q) \cap Own(r) = {}
  BY DEF SingleOwner
<1>3. \A q \in Pod : Own(q) \subseteq RegNow \X Block
  BY DEF SingleOwner
<1>4. R \cup C \subseteq RegNow \X Block /\ R \cap FreeNow = {} /\ C \cap FreeNow = {}
  BY DEF SingleOwner
<1> HIDE DEF Own
<1>5. \A q \in Pod : (IF npr'[q] = None \/ (rl'.pc = "finalize" /\ rl'.pod = q)
                      THEN {} ELSE npr'[q].allocs) = Own(q)
  BY DEF Own
<1> QED BY SMTT(30), <1>1, <1>2, <1>3, <1>4, <1>5 DEF SingleOwner, OwnedBy

\* A write to an NPR that is not stale.
LEMMA LiveWrite ==
    ASSUME TypeOK, Ownership, NEW p \in Pod, npr[p] # None, ~Stale(npr[p]),
           NEW o \in NPR, ~o.deleting, Store(p, o),
           UNCHANGED <<cache, rlQ>>, rl' = Spoil(rl, p)
    PROVE  /\ ~Stale(cache[p]) /\ ~Deleting(cache[p]) /\ ~Deleting(npr[p])
           /\ npr'[p] = o /\ \A q \in Pod : q # p => npr'[q] = npr[q]
           /\ rl' = rl /\ rl.pod # p
           /\ Coherent' /\ Release'
<1>1. Coherent /\ Dying /\ Release
  BY DEF Ownership
<1>2. ~Stale(cache[p]) /\ ~Deleting(cache[p]) /\ ~Deleting(npr[p])
  BY <1>1, CachedDeletingIsStale DEF Dying
<1>3. npr'[p] = o /\ \A q \in Pod : q # p => npr'[q] = npr[q]
  <2>1. \A q \in Pod : npr'[q] = IF q = p THEN o ELSE npr[q]
    BY StoreEvents
  <2> QED BY <2>1
<1>4. rl' = rl /\ rl.pod # p
  <2>1. rl.pod # p
    BY <1>1, <1>2, NoneFacts DEF Release, TypeOK, RlState
  <2> QED BY <2>1, SpoilRl
<1>5. Coherent'
  <2>1. \A i \in 1..Len(pending) : pending[i].pod = p =>
            pending[i].obj # None /\ ~Deleting(pending[i].obj)
    BY <1>1, <1>2, LiveEvents
  <2>2. \A i \in 1..Len(pending) : pending[i].pod = p => ~Stale(pending[i].obj)
    BY <1>1 DEF Coherent
  <2>3. o # None
    BY NoneFacts
  <2> QED BY <1>1, <2>1, <2>2, <2>3, StoreCoherent
<1>6. Release'
  <2>1. rl.pc \in {"release", "finalize"} =>
            rl.pod \in Pod /\ \A i \in 1..Len(pending') : pending'[i].pod # rl.pod
    <3>1. rl.pc \in {"release", "finalize"} => rl.pod \in Pod /\ CacheIsFresh(rl.pod)
      BY <1>1 DEF Release, TypeOK, RlState
    <3> QED BY <1>4, <3>1, StoreFresh
  <2>2. rl.pc = "delete" => rl.pod \in Pod
    BY DEF TypeOK, RlState
  <2> QED BY <1>1, <1>3, <1>4, <2>1, <2>2 DEF Release, CacheIsFresh
<1> QED BY <1>2, <1>3, <1>4, <1>5, <1>6

-----------------------------------------------------------------------------
(***************************************************************************)
(* Reading and deciding.                                                   *)
(***************************************************************************)
LEMMA RqStartGoneStep ==
    ASSUME TypeOK, Ownership, NEW p \in Pod, RqStartGone(p)
    PROVE  Ownership'
<1>1. UNCHANGED <<nc, nprr, npr, pending, cache, heap, cur, rlQ, rl, cc>> /\ rq.pc = "idle" /\ nprr[p] = None
  BY DEF RqStartGone, user, api, alloc
<1>2. Coherent /\ Dying /\ Release /\ FreshCopies /\ OneAllocator /\ SingleOwner
  BY DEF Ownership
<1>3. \/ rq' = RqIdle
      \/ cache[p] # None /\ ~cache[p].stale
         /\ rq' = [RqIdle EXCEPT !.pc = "update", !.pod = p, !.fresh = CacheIsFresh(p),
                                 !.new = [cache[p] EXCEPT !.stale = TRUE]]
  BY DEF RqStartGone
<1>4. CASE rq' = RqIdle
  <2>1. rq = RqIdle
    BY <1>1, <1>2 DEF FreshCopies
  <2>2. OneAllocator' /\ FreshCopies' /\ SingleOwner'
    BY <1>1, <1>2, <1>4, <2>1, QuietOwners
  <2>3. rq'.pod = None
    BY <1>4, IdleFields
  <2>4. Dying'
    BY <1>1, <1>2, <2>3, QuietDying, NoneFacts
  <2> QED BY <1>1, <1>2, <2>2, <2>4, QuietApi, QuietRelease DEF Ownership
<1>5. CASE cache[p] # None /\ ~cache[p].stale
           /\ rq' = [RqIdle EXCEPT !.pc = "update", !.pod = p, !.fresh = CacheIsFresh(p),
                                   !.new = [cache[p] EXCEPT !.stale = TRUE]]
  <2>1. /\ rq'.pc = "update" /\ rq'.pod = p /\ rq'.fresh = CacheIsFresh(p) /\ rq'.gen = None
        /\ rq'.conf = None /\ rq'.add = {} /\ rq'.give = {}
        /\ rq'.new = [cache[p] EXCEPT !.stale = TRUE]
    BY <1>5 DEF RqIdle
  <2>2. cache[p] \in NPR
    BY <1>5 DEF TypeOK
  <2>3. rq'.new.stale /\ rq'.new.deleting = cache[p].deleting /\ rq'.new.allocs = cache[p].allocs
    BY <2>1, <2>2 DEF NPR
  <2>4. ~Deleting(cache[p])
    BY <1>2, <1>5, CachedDeletingIsStale DEF Stale
  <2>5. CacheIsFresh(p) => npr[p] = cache[p]
    BY <1>2 DEF Coherent
  <2>6. Dying'
    <3>1. Stale(npr[p]) => ~CacheIsFresh(p)
      BY <1>5, <2>5 DEF Stale
    <3>2. ~Stale(cache[p])
      BY <1>5 DEF Stale
    <3> QED BY <1>1, <1>2, <2>1, <3>1, <3>2, QuietDying
  <2>7. FreshCopies'
    <3>1. rq'.fresh => npr[p] # None /\ ~Stale(npr[p]) /\ rq'.new.allocs = npr[p].allocs
      BY <1>5, <2>1, <2>3, <2>5 DEF Stale
    <3> QED BY <1>1, <1>2, <1>5, <2>1, <2>3, <2>4, <3>1 DEF FreshCopies, Deleting
  <2>8. OneAllocator'
    BY <1>1, <1>2, <2>1 DEF OneAllocator
  <2>9. SingleOwner'
    <3>1. InRq = {} /\ InRq' = {}
      BY SMTT(30), <1>1, <1>2, <2>1 DEF InRq, FreshCopies, RqIdle
    <3> QED BY <1>1, <1>2, <3>1 DEF SingleOwner, OwnedBy, InCc, FreeNow, RegNow
  <2> QED BY <1>1, <1>2, <2>6, <2>7, <2>8, <2>9, QuietApi, QuietRelease DEF Ownership
<1> QED BY <1>3, <1>4, <1>5

LEMMA RqStartStep ==
    ASSUME TypeOK, Ownership, NEW p \in Pod, RqStart(p)
    PROVE  Ownership'
<1>1. UNCHANGED <<nc, nprr, npr, pending, cache, heap, cur, rlQ, rl, cc>> /\ rq.pc = "idle" /\ nprr[p] # None
  BY DEF RqStart, user, api, alloc
<1>2. Coherent /\ Dying /\ Release /\ FreshCopies /\ OneAllocator /\ SingleOwner
  BY DEF Ownership
<1>3. /\ rq'.pc = "ensure" /\ rq'.pod = p /\ ~rq'.fresh /\ rq'.gen = None
      /\ rq'.conf = nc /\ rq'.add = {} /\ rq'.give = {}
  BY DEF RqStart, RqIdle
<1>4. Dying'
  <2>1. ~Stale(npr[p]) /\ ~Stale(cache[p])
    BY <1>1, <1>2 DEF Dying
  <2> QED BY <1>1, <1>2, <1>3, <2>1, QuietDying
<1>5. FreshCopies'
  BY <1>1, <1>2, <1>3 DEF FreshCopies
<1>6. OneAllocator'
  BY <1>1, <1>2, <1>3 DEF OneAllocator
<1>7. SingleOwner'
  <2>1. InRq = {} /\ InRq' = {}
    <3>1. rq = RqIdle
      BY <1>1, <1>2 DEF FreshCopies
    <3>2. rq.add = {}
      BY <3>1, IdleFields
    <3> QED BY <1>1, <1>3, <3>2 DEF InRq
  <2> QED BY <1>1, <1>2, <2>1 DEF SingleOwner, OwnedBy, InCc, FreeNow, RegNow
<1> QED BY <1>1, <1>2, <1>4, <1>5, <1>6, <1>7, QuietApi, QuietRelease DEF Ownership

LEMMA RqResizeStep ==
    ASSUME TypeOK, Ownership, RqResize
    PROVE  Ownership'
<1> DEFINE p == rq.pod
           o == cache[p]
           inPool == {s \in o.allocs : s[1] \in rq.conf.pool}
           keep == Lowest(inPool, rq.want)
<1>1. UNCHANGED <<nc, nprr, npr, pending, cache, rlQ, rl, cc, heap, cur>> /\ rq.pc = "decide" /\ o # None
  BY DEF RqResize, user, api, alloc, queues
<1>2. Coherent /\ Dying /\ Release /\ FreshCopies /\ OneAllocator /\ SingleOwner
  BY DEF Ownership
<1>3. ~rq.fresh /\ rq.add = {} /\ rq.give = {} /\ p \in Pod /\ o \in NPR
  BY <1>1, <1>2, NoneFacts DEF TypeOK, RqState, FreshCopies
<1>4. ~Stale(npr[p]) /\ ~Stale(cache[p]) /\ ~Deleting(cache[p])
  BY <1>1, <1>2, <1>3, CachedDeletingIsStale DEF Dying
<1>5. CacheIsFresh(p) => npr[p] = o
  BY <1>2, <1>3 DEF Coherent
<1>6. ASSUME InRq' = {}, OneAllocator', FreshCopies',
             rq'.pod \in {None, p}
      PROVE  Ownership'
  <2>1. Dying'
    BY <1>1, <1>2, <1>4, <1>6, QuietDying, NoneFacts
  <2>2. InRq = {}
    BY <1>1, <1>3 DEF InRq
  <2>3. SingleOwner'
    BY <1>1, <1>2, <1>6, <2>2 DEF SingleOwner, OwnedBy, InCc, FreeNow, RegNow
  <2> QED BY <1>1, <1>2, <1>6, <2>1, <2>3, QuietApi, QuietRelease DEF Ownership
<1>7. CASE rq' = RqIdle
  <2>1. InRq' = {} /\ OneAllocator' /\ FreshCopies' /\ rq'.pod = None
    BY <1>1, <1>2, <1>7 DEF InRq, OneAllocator, FreshCopies, RqIdle
  <2> QED BY <1>6, <2>1
<1>8. CASE rq' = [rq EXCEPT !.pc = IF rq.conf.pool = {} THEN "update" ELSE "grow",
                            !.fresh = CacheIsFresh(p), !.new = [o EXCEPT !.count = rq.want],
                            !.todo = rq.conf.pool, !.delta = rq.want - o.count]
  <2>1. /\ rq'.pc \in {"update", "grow"} /\ rq'.pod = p /\ rq'.fresh = CacheIsFresh(p)
        /\ rq'.gen = rq.gen /\ rq'.conf = rq.conf /\ rq'.add = {} /\ rq'.give = {}
        /\ rq'.new = [o EXCEPT !.count = rq.want]
    BY <1>3, <1>8 DEF TypeOK, RqState
  <2>2. rq'.new.allocs = o.allocs /\ rq'.new.stale = o.stale /\ rq'.new.deleting = o.deleting
    BY <1>3, <2>1 DEF NPR
  <2>3. ~o.stale /\ ~o.deleting
    BY <1>1, <1>4 DEF Stale, Deleting
  <2>4. FreshCopies'
    BY <1>1, <1>2, <1>4, <1>5, <2>1, <2>2, <2>3 DEF FreshCopies
  <2>5. InRq' = {} /\ OneAllocator'
    BY <1>1, <1>2, <2>1 DEF InRq, OneAllocator
  <2> QED BY <1>6, <2>1, <2>4, <2>5
<1>9. CASE rq' = [rq EXCEPT !.pc = "update", !.fresh = CacheIsFresh(p),
                            !.new = [o EXCEPT !.count = rq.want, !.allocs = keep],
                            !.give = inPool \ keep]
  <2>1. /\ rq'.pc = "update" /\ rq'.pod = p /\ rq'.fresh = CacheIsFresh(p)
        /\ rq'.gen = rq.gen /\ rq'.conf = rq.conf /\ rq'.add = {} /\ rq'.give = inPool \ keep
        /\ rq'.new = [o EXCEPT !.count = rq.want, !.allocs = keep]
    BY <1>3, <1>9 DEF TypeOK, RqState
  <2>2. rq'.new.allocs = keep /\ rq'.new.stale = o.stale /\ rq'.new.deleting = o.deleting
    BY <1>3, <2>1 DEF NPR
  <2>3. ~o.stale /\ ~o.deleting
    BY <1>1, <1>4 DEF Stale, Deleting
  <2>4. keep \subseteq o.allocs /\ inPool \ keep \subseteq o.allocs \ keep
    BY DEF Lowest
  <2>5. FreshCopies'
    <3> HIDE DEF keep, inPool
    <3> QED BY <1>1, <1>2, <1>4, <1>5, <2>1, <2>2, <2>3, <2>4 DEF FreshCopies
  <2>6. InRq' = {} /\ OneAllocator'
    BY <1>1, <1>2, <2>1 DEF InRq, OneAllocator
  <2> QED BY <1>6, <2>1, <2>5, <2>6
<1> QED BY <1>7, <1>8, <1>9 DEF RqResize

-----------------------------------------------------------------------------
(***************************************************************************)
(* Allocator calls.                                                        *)
(***************************************************************************)
LEMMA RqEnsureStep ==
    ASSUME TypeOK, Ownership, RqEnsure
    PROVE  Ownership'
<1>1. UNCHANGED <<nc, nprr, npr, pending, cache, rlQ, rl, cc>> /\ rq.pc = "ensure" /\ EnsureAllocator(rq.conf)
  BY DEF RqEnsure, user, api, queues
<1>2. Coherent /\ Dying /\ Release /\ FreshCopies /\ OneAllocator /\ SingleOwner
  BY DEF Ownership
<1>3. /\ rq'.pc = "decide" /\ rq'.pod = rq.pod /\ rq'.fresh = rq.fresh /\ rq'.gen = EnsuredGen
      /\ rq'.conf = rq.conf /\ rq'.add = rq.add /\ rq'.give = rq.give /\ rq.conf \in Configs
  BY <1>1 DEF RqEnsure, TypeOK, RqState
<1>4. /\ cur' \in Gen /\ cur' = EnsuredGen /\ (cur # None => cur' = cur)
      /\ RegNow' = RegNow \cup rq.conf.pool
      /\ FreeNow' = FreeNow \cup ((rq.conf.pool \ RegNow) \X Block)
      /\ heap'[cur'].reg = RegNow \cup rq.conf.pool
  BY <1>1, <1>3, EnsureOwner
<1>5. Dying'
  BY <1>1, <1>2, <1>3, QuietDying DEF Dying
<1>6. FreshCopies'
  BY <1>1, <1>2, <1>3 DEF FreshCopies
<1>7. OneAllocator'
  <2>1. RegNow \subseteq nc.pool /\ rq.conf.pool \subseteq nc.pool
    BY <1>2, <1>3, NoneFacts DEF OneAllocator, RegNow
  <2> QED BY <1>1, <1>2, <1>3, <1>4, <2>1 DEF OneAllocator
<1>8. SingleOwner'
  <2>1. InRq' = InRq /\ InCc' = InCc
    BY <1>1, <1>3 DEF InRq, InCc
  <2> QED BY <1>1, <1>2, <1>4, <2>1, OwnersAfterEnsure
<1> QED BY <1>1, <1>2, <1>5, <1>6, <1>7, <1>8, QuietApi, QuietRelease DEF Ownership

LEMMA RqAllocatePodStep ==
    ASSUME TypeOK, Ownership, RqAllocatePod
    PROVE  Ownership'
<1>1. UNCHANGED <<nc, nprr, npr, pending, cache, rlQ, rl, cc, cur>> /\ rq.pc = "decide"
  BY DEF RqAllocatePod, user, api
<1>2. Coherent /\ Dying /\ Release /\ FreshCopies /\ OneAllocator /\ SingleOwner
  BY DEF Ownership
<1>3. rq.gen = cur /\ cur \in Gen /\ cur # None /\ ~rq.fresh /\ rq.add = {} /\ rq.give = {} /\ rq.pod \in Pod
  BY <1>1, <1>2, NoneFacts DEF TypeOK, RqState, OneAllocator, FreshCopies
<1>4. ~Stale(npr[rq.pod]) /\ ~Stale(cache[rq.pod])
  BY <1>1, <1>2, <1>3 DEF Dying
<1>5. CASE rq' = RqIdle /\ heap' = heap
  <2>1. Dying'
    BY <1>1, <1>2, <1>5, QuietDying, IdleFields, NoneFacts
  <2>2. FreshCopies' /\ OneAllocator'
    BY <1>1, <1>2, <1>5 DEF FreshCopies, OneAllocator, RqIdle
  <2>3. SingleOwner'
    <3>1. InRq' = InRq
      BY <1>1, <1>3, <1>5 DEF InRq, RqIdle
    <3> QED BY <1>1, <1>2, <1>5, <3>1 DEF SingleOwner, OwnedBy, InCc, FreeNow, RegNow
  <2> QED BY <1>1, <1>2, <2>1, <2>2, <2>3, QuietApi, QuietRelease DEF Ownership
<1>6. ASSUME NEW S \in PicksForPod(heap[rq.gen], rq.conf.pool, rq.want, Exclude[rq.pod]),
             heap' = [heap EXCEPT ![rq.gen] = Allocate(@, S)],
             rq' = [rq EXCEPT !.pc = "create", !.add = S,
                        !.new = [allocs |-> S, count |-> rq.want, target |-> rq.conf.target,
                                 stale |-> FALSE, deleting |-> FALSE]]
      PROVE  Ownership'
  <2>1. S \subseteq FreeNow
    <3>1. heap[rq.gen] \in Allocator
      BY <1>3 DEF TypeOK
    <3>2. S \subseteq heap[rq.gen].free
      BY SMTT(30), <3>1, PodPicks
    <3> QED BY <1>3, <3>2 DEF FreeNow
  <2>2. FreeNow' = FreeNow \ S /\ RegNow' = RegNow
    BY <1>1, <1>3, <1>6, <2>1, AllocateOwner
  <2>3. /\ rq'.pc = "create" /\ rq'.pod = rq.pod /\ rq'.fresh = rq.fresh /\ rq'.gen = rq.gen
        /\ rq'.conf = rq.conf /\ rq'.add = S /\ rq'.give = rq.give
        /\ rq'.new.allocs = S /\ ~rq'.new.stale /\ ~rq'.new.deleting
    BY <1>6 DEF TypeOK, RqState
  <2>4. Dying'
    BY <1>1, <1>2, <1>4, <2>3, QuietDying
  <2>5. FreshCopies'
    BY <1>1, <1>2, <1>3, <2>3 DEF FreshCopies
  <2>6. OneAllocator'
    <3>1. heap'[cur].reg = heap[cur].reg
      BY <1>1, <1>3, <2>2 DEF RegNow
    <3> QED BY <1>1, <1>2, <2>3, <3>1 DEF OneAllocator
  <2>7. SingleOwner'
    <3>1. InRq' = InRq \cup S /\ InCc' = InCc
      BY <1>1, <1>3, <2>3 DEF InRq, InCc
    <3> QED BY <1>1, <1>2, <2>1, <2>2, <3>1, OwnersAfterTake
  <2> QED BY <1>1, <1>2, <2>4, <2>5, <2>6, <2>7, QuietApi, QuietRelease DEF Ownership
<1> QED BY <1>5, <1>6 DEF RqAllocatePod

LEMMA RqGrowStep ==
    ASSUME TypeOK, Ownership, NEW ip, RqGrow(ip)
    PROVE  Ownership'
<1>1. UNCHANGED <<nc, nprr, npr, pending, cache, rlQ, rl, cc, cur>> /\ rq.pc = "grow"
  BY DEF RqGrow, user, api
<1>2. Coherent /\ Dying /\ Release /\ FreshCopies /\ OneAllocator /\ SingleOwner
  BY DEF Ownership
<1>3. rq.gen = cur /\ cur \in Gen /\ cur # None /\ rq.give = {} /\ rq.pod \in Pod /\ rq.new \in NPR
  BY <1>1, <1>2, NoneFacts DEF TypeOK, RqState, OneAllocator, FreshCopies
<1>4. ~Stale(npr[rq.pod]) /\ ~Stale(cache[rq.pod])
  BY <1>1, <1>2, <1>3 DEF Dying
<1>5. CASE rq' = [rq EXCEPT !.pc = "free", !.give = rq.add] /\ heap' = heap
  <2>1. /\ rq'.pc = "free" /\ rq'.pod = rq.pod /\ rq'.fresh = rq.fresh /\ rq'.gen = rq.gen
        /\ rq'.conf = rq.conf /\ rq'.add = rq.add /\ rq'.give = rq.add
    BY <1>5 DEF TypeOK, RqState
  <2>2. Dying'
    BY <1>1, <1>2, <1>4, <2>1, QuietDying
  <2>3. FreshCopies' /\ OneAllocator'
    BY <1>1, <1>2, <1>5, <2>1 DEF FreshCopies, OneAllocator
  <2>4. SingleOwner'
    <3>1. InRq' = InRq
      BY <1>1, <2>1 DEF InRq
    <3> QED BY <1>1, <1>2, <1>5, <3>1 DEF SingleOwner, OwnedBy, InCc, FreeNow, RegNow
  <2> QED BY <1>1, <1>2, <2>2, <2>3, <2>4, QuietApi, QuietRelease DEF Ownership
<1>6. ASSUME NEW S \in PicksForIP(heap[rq.gen], ip, rq.delta, Unusable(rq.pod, rq.new.allocs)),
             heap' = [heap EXCEPT ![rq.gen] = Allocate(@, S)],
             rq' = [rq EXCEPT !.pc = IF rq.todo = {ip} THEN "update" ELSE "grow",
                              !.todo = rq.todo \ {ip}, !.add = rq.add \cup S,
                              !.new = [rq.new EXCEPT !.allocs = @ \cup S]]
      PROVE  Ownership'
  <2>1. S \subseteq FreeNow
    <3>1. heap[rq.gen] \in Allocator
      BY <1>3 DEF TypeOK
    <3>2. S \subseteq heap[rq.gen].free
      BY SMTT(30), <3>1, IPPicks
    <3> QED BY <1>3, <3>2 DEF FreeNow
  <2>2. FreeNow' = FreeNow \ S /\ RegNow' = RegNow
    BY <1>1, <1>3, <1>6, <2>1, AllocateOwner
  <2>3. /\ rq'.pc \in {"update", "grow"} /\ rq'.pod = rq.pod /\ rq'.fresh = rq.fresh
        /\ rq'.gen = rq.gen /\ rq'.conf = rq.conf /\ rq'.add = rq.add \cup S /\ rq'.give = rq.give
        /\ rq'.new = [rq.new EXCEPT !.allocs = @ \cup S]
    BY <1>6 DEF TypeOK, RqState
  <2>4. /\ rq'.new.allocs = rq.new.allocs \cup S
        /\ rq'.new.stale = rq.new.stale /\ rq'.new.deleting = rq.new.deleting
    BY <1>3, <2>3 DEF NPR
  <2>5. Dying'
    BY <1>1, <1>2, <1>4, <2>3, QuietDying
  <2>6. FreshCopies'
    BY <1>1, <1>2, <1>3, <2>3, <2>4 DEF FreshCopies
  <2>7. OneAllocator'
    <3>1. heap'[cur].reg = heap[cur].reg
      BY <1>1, <1>3, <2>2 DEF RegNow
    <3> QED BY <1>1, <1>2, <2>3, <3>1 DEF OneAllocator
  <2>8. SingleOwner'
    <3>1. InRq' = InRq \cup S /\ InCc' = InCc
      BY <1>1, <1>3, <2>3 DEF InRq, InCc
    <3> QED BY <1>1, <1>2, <2>1, <2>2, <3>1, OwnersAfterTake
  <2> QED BY <1>1, <1>2, <2>5, <2>6, <2>7, <2>8, QuietApi, QuietRelease DEF Ownership
<1> QED BY <1>5, <1>6 DEF RqGrow

LEMMA RqFreeStep ==
    ASSUME TypeOK, Ownership, RqFree
    PROVE  Ownership'
<1>1. /\ UNCHANGED <<nc, nprr, npr, pending, cache, rlQ, rl, cc, cur>> /\ rq.pc = "free"
      /\ rq' = RqIdle /\ heap' = [heap EXCEPT ![rq.gen] = Free(@, rq.give)]
  BY DEF RqFree, user, api, queues
<1>2. Coherent /\ Dying /\ Release /\ FreshCopies /\ OneAllocator /\ SingleOwner
  BY DEF Ownership
<1>3. rq.gen = cur /\ cur \in Gen /\ cur # None
  BY <1>1, <1>2, NoneFacts DEF TypeOK, RqState, OneAllocator
<1>4. InRq = rq.give /\ InRq' = {} /\ InCc' = InCc
  BY <1>1, IdleFields DEF InRq, InCc
<1>5. FreeNow' = FreeNow \cup InRq /\ RegNow' = RegNow
  <2>1. rq.give \subseteq RegNow \X Block
    BY <1>2, <1>4 DEF SingleOwner
  <2> QED BY <1>1, <1>3, <1>4, <2>1, FreeOwner
<1>6. SingleOwner'
  BY <1>1, <1>2, <1>4, <1>5, OwnersAfterGive
<1>7. Dying'
  BY <1>1, <1>2, QuietDying, IdleFields, NoneFacts
<1>8. FreshCopies'
  BY <1>1, <1>2 DEF FreshCopies, RqIdle
<1>9. OneAllocator'
  <2>1. heap'[cur].reg = heap[cur].reg
    BY <1>1, <1>3, <1>5 DEF RegNow
  <2> QED BY <1>1, <1>2, <2>1 DEF OneAllocator, RqIdle
<1> QED BY <1>1, <1>2, <1>6, <1>7, <1>8, <1>9, QuietApi, QuietRelease DEF Ownership

-----------------------------------------------------------------------------
(***************************************************************************)
(* API calls.                                                              *)
(***************************************************************************)
\* What RqAfterCall leaves behind.
LEMMA RqAfter ==
    ASSUME TypeOK, NEW ok, NEW retry, RqAfterCall(ok, retry), NEW give,
           give = IF ok THEN rq.give ELSE rq.add
    PROVE  /\ rq'.pc \in {"idle", "free"} /\ (rq'.pc = "idle" => rq' = RqIdle)
           /\ rq'.pod \in {None, rq.pod} /\ (give = {} => rq' = RqIdle)
           /\ rq'.gen \in {None, rq.gen} /\ rq'.conf \in {None, rq.conf}
           /\ InRq' = give /\ (rq'.fresh => rq'.pc = "free")
           /\ UNCHANGED <<nc, nprr, cache, heap, cur, rlQ>>
           /\ rl' = Spoil(rl, rq.pod) /\ cc' = SpoilList(rq.pod)
<1>1. CASE give = {}
  <2>1. rq' = RqIdle
    BY <1>1 DEF RqAfterCall
  <2> QED BY SMTT(30), <1>1, <2>1 DEF RqAfterCall, RqIdle, InRq, user, alloc
<1>2. CASE give # {}
  <2>1. rq' = [rq EXCEPT !.pc = "free", !.give = give]
    BY <1>2 DEF RqAfterCall
  <2>2. /\ rq'.pc = "free" /\ rq'.pod = rq.pod /\ rq'.gen = rq.gen /\ rq'.conf = rq.conf
        /\ rq'.give = give
    BY <2>1 DEF TypeOK, RqState
  <2> QED BY <1>2, <2>2 DEF RqAfterCall, InRq, user, alloc
<1> QED BY <1>1, <1>2

LEMMA RqFailedStep ==
    ASSUME TypeOK, Ownership, rq.pc \in {"create", "update"}, UNCHANGED api,
           NEW retry, RqAfterCall(FALSE, retry)
    PROVE  Ownership'
<1>1. Coherent /\ Dying /\ Release /\ FreshCopies /\ OneAllocator /\ SingleOwner
  BY DEF Ownership
<1>2. /\ rq'.pc \in {"idle", "free"} /\ (rq'.pc = "idle" => rq' = RqIdle)
      /\ rq'.pod \in {None, rq.pod} /\ (rq.add = {} => rq' = RqIdle)
      /\ rq'.gen \in {None, rq.gen} /\ rq'.conf \in {None, rq.conf}
      /\ InRq' = rq.add /\ (rq'.fresh => rq'.pc = "free")
      /\ UNCHANGED <<nc, nprr, cache, heap, cur, rlQ>>
      /\ rl' = Spoil(rl, rq.pod) /\ cc' = SpoilList(rq.pod)
  BY RqAfter
<1>3. UNCHANGED <<npr, pending, rl, cc>> /\ InRq' = InRq
  BY <1>2 DEF api, Spoil, SpoilList, InRq
<1>4. Dying'
  <2>1. \A p \in Pod : (Stale(npr[p]) \/ Stale(cache[p])) /\ rq.pod = p => rq' = RqIdle
    BY <1>1, <1>2 DEF Dying
  <2> QED BY <1>1, <1>2, <1>3, <2>1, QuietDying, IdleFields, NoneFacts
<1>5. FreshCopies' /\ OneAllocator'
  BY <1>1, <1>2, <1>3 DEF FreshCopies, OneAllocator
<1>6. SingleOwner'
  BY SMTT(30), <1>1, <1>2, <1>3 DEF SingleOwner, OwnedBy, InCc, FreeNow, RegNow
<1> QED BY <1>1, <1>2, <1>3, <1>4, <1>5, <1>6, QuietApi, QuietRelease DEF Ownership

LEMMA RqCreatedStep ==
    ASSUME TypeOK, Ownership, rq.pc = "create", npr[rq.pod] = None, Store(rq.pod, rq.new),
           RqAfterCall(TRUE, FALSE)
    PROVE  Ownership'
<1> DEFINE p == rq.pod
           o == rq.new
<1>1. Coherent /\ Dying /\ Release /\ FreshCopies /\ OneAllocator /\ SingleOwner
  BY DEF Ownership
<1>2. p \in Pod /\ o \in NPR /\ rq.give = {} /\ o.allocs = rq.add /\ ~Stale(o) /\ ~Deleting(o) /\ o # None
  BY <1>1, NoneFacts DEF TypeOK, RqState, FreshCopies, Stale, Deleting
<1>3. /\ rq' = RqIdle /\ InRq' = {}
      /\ UNCHANGED <<nc, nprr, cache, heap, cur, rlQ>>
      /\ rl' = Spoil(rl, p) /\ cc' = SpoilList(p)
  BY <1>2, RqAfter
<1>4. ~Stale(npr[p]) /\ ~Stale(cache[p]) /\ ~Deleting(cache[p])
  BY <1>1, <1>2, CachedDeletingIsStale DEF Dying
<1>5. CacheIsFresh(p)
  <2>1. ASSUME NEW i \in 1..Len(pending), pending[i].pod = p PROVE FALSE
    <3>1. pending[i].obj = None
      BY <1>1, <2>1 DEF Coherent
    <3>2. Stale(cache[p])
      BY <1>1, <2>1, <3>1 DEF Coherent
    <3> QED BY <1>4, <3>2
  <2> QED BY <2>1 DEF CacheIsFresh
<1>6. Coherent'
  <2>1. \A i \in 1..Len(pending) : pending[i].pod # p
    BY <1>5 DEF CacheIsFresh
  <2> QED BY <1>1, <1>2, <1>3, <2>1, StoreCoherent
<1>7. npr'[p] = o /\ \A q \in Pod : q # p => npr'[q] = npr[q]
  BY <1>2 DEF Store, TypeOK
<1>8. rl' = rl /\ rl.pod # p
  <2>1. rl.pod # p
    BY <1>1, <1>2, NoneFacts DEF Release, Stale, Deleting, TypeOK, RlState
  <2> QED BY <1>2, <1>3, <2>1, SpoilRl
<1>9. Dying'
  BY <1>1, <1>2, <1>3, <1>4, <1>8, StoreDying, IdleFields, NoneFacts
<1>10. Release'
  <2>1. rl.pc \in {"release", "finalize"} =>
            rl.pod \in Pod /\ \A i \in 1..Len(pending') : pending'[i].pod # rl.pod
    <3>1. rl.pc \in {"release", "finalize"} => rl.pod \in Pod /\ CacheIsFresh(rl.pod)
      BY <1>1 DEF Release, TypeOK, RlState
    <3> QED BY <1>2, <1>8, <3>1, StoreFresh
  <2>2. rl.pc = "delete" => rl.pod \in Pod
    BY DEF TypeOK, RlState
  <2> QED BY <1>1, <1>3, <1>7, <1>8, <2>1, <2>2 DEF Release, CacheIsFresh
<1>11. /\ cc'.pc = cc.pc /\ cc'.pod = cc.pod /\ cc'.new = cc.new /\ cc'.gen = cc.gen
       /\ cc'.conf = cc.conf /\ cc'.add = cc.add /\ cc'.list = cc.list /\ cc'.gone = cc.gone
       /\ cc'.fresh \subseteq cc.fresh /\ p \notin cc'.fresh /\ cc.fresh \subseteq Pod
  BY <1>2, <1>3, <1>7, SpoilCc DEF TypeOK, CcState
<1>12. OneAllocator'
  BY <1>1, <1>3, <1>11 DEF OneAllocator, RqIdle
<1>13. FreshCopies'
  BY <1>1, <1>3, <1>7, <1>11 DEF FreshCopies, RqIdle
<1>14. SingleOwner'
  <2>1. OwnedBy(p) = {} /\ InRq = rq.add /\ InCc' = InCc
    BY <1>11 DEF OwnedBy, InRq, InCc
  <2>2. FreeNow' = FreeNow /\ RegNow' = RegNow
    BY <1>3 DEF FreeNow, RegNow
  <2>3. \A q \in Pod : (IF npr'[q] = None \/ (rl'.pc = "finalize" /\ rl'.pod = q)
                        THEN {} ELSE npr'[q].allocs) = IF q = p THEN rq.add ELSE OwnedBy(q)
    BY <1>2, <1>7, <1>8 DEF OwnedBy
  <2>4. rq.add \cap InCc = {}
    BY <1>1, <2>1 DEF SingleOwner
  <2> HIDE DEF p
  <2> QED BY SMTT(30), <1>1, <1>2, <1>3, <2>1, <2>2, <2>3, <2>4, OwnersAfterWrite
<1> QED BY <1>6, <1>9, <1>10, <1>12, <1>13, <1>14 DEF Ownership

LEMMA RqCreateStep ==
    ASSUME Calm, TypeOK, Ownership, RqCreate
    PROVE  Ownership'
<1>1. CASE npr[rq.pod] = None /\ Store(rq.pod, rq.new) /\ RqAfterCall(TRUE, FALSE)
  BY <1>1, RqCreatedStep DEF RqCreate
<1>2. CASE npr[rq.pod] # None /\ UNCHANGED api /\ RqAfterCall(FALSE, FALSE)
  BY <1>2, RqFailedStep DEF RqCreate
<1>3. CASE Fails(npr[rq.pod] = None, rq.pod, rq.new, "api_error") /\ RqAfterCall(FALSE, TRUE)
  BY <1>3, CalmFails, RqFailedStep DEF RqCreate
<1> QED BY <1>1, <1>2, <1>3 DEF RqCreate

LEMMA RqUpdatedStep ==
    ASSUME TypeOK, Ownership, rq.pc = "update", rq.fresh, Store(rq.pod, rq.new),
           NEW retry, RqAfterCall(TRUE, retry)
    PROVE  Ownership'
<1> DEFINE p == rq.pod
           o == rq.new
<1>1. Coherent /\ Dying /\ Release /\ FreshCopies /\ OneAllocator /\ SingleOwner
  BY DEF Ownership
<1>2. /\ p \in Pod /\ o \in NPR /\ o # None /\ ~o.deleting
      /\ npr[p] # None /\ ~Stale(npr[p])
      /\ o.allocs \subseteq npr[p].allocs \cup rq.add
      /\ rq.give \subseteq npr[p].allocs \ o.allocs
      /\ o.stale => nprr[p] = None /\ rq.give = {}
      /\ rq.add = {} \/ rq.give = {}
  BY <1>1, NoneFacts DEF TypeOK, RqState, FreshCopies
<1>3. /\ rq'.pc \in {"idle", "free"} /\ (rq'.pc = "idle" => rq' = RqIdle)
      /\ rq'.pod \in {None, p} /\ (rq.give = {} => rq' = RqIdle)
      /\ rq'.gen \in {None, rq.gen} /\ rq'.conf \in {None, rq.conf}
      /\ InRq' = rq.give /\ (rq'.fresh => rq'.pc = "free")
      /\ UNCHANGED <<nc, nprr, cache, heap, cur, rlQ>>
      /\ rl' = Spoil(rl, p) /\ cc' = SpoilList(p)
  BY RqAfter
<1>4. /\ ~Stale(cache[p]) /\ ~Deleting(cache[p])
      /\ npr'[p] = o /\ (\A q \in Pod : q # p => npr'[q] = npr[q])
      /\ rl' = rl /\ rl.pod # p
      /\ Coherent' /\ Release'
  <2> HIDE DEF p, o
  <2> QED BY <1>2, <1>3, LiveWrite DEF p, o
<1>5. Dying'
  <2>1. Stale(o) => nprr[p] = None /\ rq' = RqIdle
    BY <1>2, <1>3 DEF Stale
  <2>2. ~Deleting(o) /\ RqIdle.pod = None
    BY <1>2, IdleFields DEF Deleting
  <2> QED BY <1>1, <1>2, <1>3, <1>4, <2>1, <2>2, StoreDying, NoneFacts
<1>6. /\ cc'.pc = cc.pc /\ cc'.pod = cc.pod /\ cc'.new = cc.new /\ cc'.gen = cc.gen
      /\ cc'.conf = cc.conf /\ cc'.add = cc.add /\ cc'.list = cc.list /\ cc'.gone = cc.gone
      /\ cc'.fresh \subseteq cc.fresh /\ (npr'[p] # npr[p] => p \notin cc'.fresh) /\ cc.fresh \subseteq Pod
  BY <1>2, <1>3, SpoilCc DEF TypeOK, CcState
<1>7. OneAllocator'
  BY <1>1, <1>3, <1>6 DEF OneAllocator
<1>8. FreshCopies'
  <2>1. \A q \in cc'.fresh : npr'[q] = npr[q] /\ q \in cc.fresh
    BY <1>4, <1>6
  <2>2. rq'.pc \in {"idle", "free"} /\ (rq'.pc = "idle" => rq' = RqIdle) /\ (rq'.fresh => rq'.pc = "free")
    BY <1>3
  <2> QED BY SMTT(30), <1>1, <1>6, <2>1, <2>2 DEF FreshCopies
<1>9. SingleOwner'
  <2>1. OwnedBy(p) = npr[p].allocs /\ InRq = rq.add /\ InCc' = InCc
    BY <1>2, <1>4, <1>6 DEF OwnedBy, InRq, InCc
  <2>2. FreeNow' = FreeNow /\ RegNow' = RegNow
    BY <1>3 DEF FreeNow, RegNow
  <2>3. \A q \in Pod : (IF npr'[q] = None \/ (rl'.pc = "finalize" /\ rl'.pod = q)
                        THEN {} ELSE npr'[q].allocs) = IF q = p THEN o.allocs ELSE OwnedBy(q)
    BY <1>2, <1>4 DEF OwnedBy
  <2>4. o.allocs \cap InCc = {} /\ rq.give \cap InCc = {} /\ o.allocs \cap rq.give = {}
    <3>1. npr[p].allocs \cap (rq.add \cup InCc) = {} /\ rq.add \cap InCc = {}
      BY <1>1, <1>2, <2>1 DEF SingleOwner
    <3> HIDE DEF p, o
    <3> QED BY <1>2, <3>1
  <2>5. o.allocs \cup rq.give \cup InCc \subseteq OwnedBy(p) \cup InRq \cup InCc
    BY <1>2, <2>1
  <2> HIDE DEF p, o
  <2>6. InRq' = rq.give /\ InCc' = InCc
    BY <1>3, <2>1
  <2> DEFINE A == o.allocs
             R == rq.give
             C == InCc
  <2>7. /\ SingleOwner /\ p \in Pod /\ InRq' = R /\ InCc' = C
        /\ A \cup R \cup C \subseteq OwnedBy(p) \cup InRq \cup InCc
        /\ A \cap R = {} /\ A \cap C = {} /\ R \cap C = {}
    BY <1>1, <1>2, <2>4, <2>5, <2>6
  <2> HIDE DEF A, R, C
  <2>8. \A q \in Pod : (IF npr'[q] = None \/ (rl'.pc = "finalize" /\ rl'.pod = q)
                        THEN {} ELSE npr'[q].allocs) = IF q = p THEN A ELSE OwnedBy(q)
    BY <2>3 DEF A
  <2> QED BY SMTT(30), <2>2, <2>7, <2>8, OwnersAfterWrite
<1> QED BY <1>4, <1>5, <1>7, <1>8, <1>9 DEF Ownership

LEMMA RqUpdateStep ==
    ASSUME Calm, TypeOK, Ownership, RqUpdate
    PROVE  Ownership'
<1>1. PICK ok \in BOOLEAN : /\ Call(rq.fresh, rq.pod, rq.new, "api_error", ok)
                            /\ RqAfterCall(ok, ~ok)
  BY DEF RqUpdate
<1>2. CASE ok = TRUE
  <2>1. rq.fresh /\ Store(rq.pod, rq.new)
    BY <1>1, <1>2, CalmCall
  <2>2. RqAfterCall(TRUE, ~ok)
    BY <1>1, <1>2
  <2> QED BY <2>1, <2>2, RqUpdatedStep DEF RqUpdate
<1>3. CASE ok = FALSE
  <2>1. UNCHANGED api /\ RqAfterCall(FALSE, ~ok)
    BY <1>1, <1>3, CalmCall
  <2> QED BY <2>1, RqFailedStep DEF RqUpdate
<1> QED BY <1>2, <1>3

-----------------------------------------------------------------------------
(***************************************************************************)
(* The NATPortRange controller.                                            *)
(***************************************************************************)
\* What RlAfterCall leaves behind.
LEMMA RlAfter ==
    ASSUME TypeOK, Ownership, NEW retry, RlAfterCall(retry), rl.pod \in Pod
    PROVE  /\ rl' = RlIdle /\ rl'.pc = "idle" /\ rl'.pod = None
           /\ rlQ' \subseteq rlQ \cup {rl.pod} /\ (~retry => rlQ' = rlQ)
           /\ UNCHANGED <<nc, nprr, cache, heap, cur>>
           /\ rq'.pc = rq.pc /\ rq'.pod = rq.pod /\ rq'.new = rq.new /\ rq'.gen = rq.gen
           /\ rq'.conf = rq.conf /\ rq'.add = rq.add /\ rq'.give = rq.give
           /\ rq'.fresh => rq.fresh /\ (rq.pod # rl.pod \/ npr'[rl.pod] = npr[rl.pod])
           /\ rq = RqIdle => rq' = RqIdle
           /\ cc'.pc = cc.pc /\ cc'.pod = cc.pod /\ cc'.new = cc.new /\ cc'.gen = cc.gen
           /\ cc'.conf = cc.conf /\ cc'.add = cc.add /\ cc'.list = cc.list /\ cc'.gone = cc.gone
           /\ cc'.fresh \subseteq cc.fresh /\ cc.fresh \subseteq Pod
           /\ npr'[rl.pod] # npr[rl.pod] => rl.pod \notin cc'.fresh
<1>1. rq' = Spoil(rq, rl.pod) /\ cc' = SpoilList(rl.pod)
  BY DEF RlAfterCall
<1>2. /\ rl' = RlIdle /\ rl'.pc = "idle" /\ rl'.pod = None
      /\ rlQ' \subseteq rlQ \cup {rl.pod} /\ (~retry => rlQ' = rlQ)
      /\ UNCHANGED <<nc, nprr, cache, heap, cur>>
  BY IdleFields DEF RlAfterCall, user, alloc
<1> QED BY <1>1, <1>2, SpoilRq, SpoilCc DEF TypeOK, CcState

\* The parts of Ownership that are about copies and the allocator survive a
\* write by the NPR controller to an NPR that no request reconcile has a
\* current copy of.
LEMMA RlAfterOwners ==
    ASSUME TypeOK, Ownership, NEW retry, RlAfterCall(retry), rl.pod \in Pod,
           \A q \in Pod : q # rl.pod => npr'[q] = npr[q],
           rq.pod = rl.pod => ~rq.fresh,
           IF npr'[rl.pod] = None THEN OwnedBy(rl.pod) = {}
                                  ELSE npr'[rl.pod].allocs = OwnedBy(rl.pod)
    PROVE  OneAllocator' /\ FreshCopies' /\ SingleOwner' /\ Release'
<1> DEFINE p == rl.pod
<1>0. FreshCopies /\ OneAllocator /\ SingleOwner
  BY DEF Ownership
<1>1. /\ rl' = RlIdle /\ rl'.pc = "idle" /\ rl'.pod = None
      /\ UNCHANGED <<nc, nprr, cache, heap, cur>>
      /\ rq'.pc = rq.pc /\ rq'.pod = rq.pod /\ rq'.new = rq.new /\ rq'.gen = rq.gen
      /\ rq'.conf = rq.conf /\ rq'.add = rq.add /\ rq'.give = rq.give
      /\ rq'.fresh => rq.fresh /\ (rq.pod # p \/ npr'[p] = npr[p])
      /\ rq = RqIdle => rq' = RqIdle
      /\ cc'.pc = cc.pc /\ cc'.pod = cc.pod /\ cc'.new = cc.new /\ cc'.gen = cc.gen
      /\ cc'.conf = cc.conf /\ cc'.add = cc.add /\ cc'.list = cc.list /\ cc'.gone = cc.gone
      /\ cc'.fresh \subseteq cc.fresh /\ cc.fresh \subseteq Pod
      /\ npr'[p] # npr[p] => p \notin cc'.fresh
  BY RlAfter
<1>2. OneAllocator'
  BY <1>0, <1>1 DEF OneAllocator
<1>3. FreshCopies'
  <2>1. \A q \in cc'.fresh : npr'[q] = npr[q] /\ q \in cc.fresh
    BY <1>1
  <2>2. rq'.fresh => npr'[rq.pod] = npr[rq.pod]
    <3>1. rq'.fresh => rq.pod \in Pod
      BY <1>0, <1>1 DEF FreshCopies, TypeOK, RqState
    <3> QED BY <1>1, <3>1
  <2> QED BY SMTT(30), <1>0, <1>1, <2>1, <2>2 DEF FreshCopies
<1>4. SingleOwner'
  <2>1. InRq' = InRq /\ InCc' = InCc /\ FreeNow' = FreeNow /\ RegNow' = RegNow
    BY <1>1 DEF InRq, InCc, FreeNow, RegNow
  <2>2. \A q \in Pod : (IF npr'[q] = None \/ (rl'.pc = "finalize" /\ rl'.pod = q)
                        THEN {} ELSE npr'[q].allocs) = OwnedBy(q)
    BY <1>1 DEF OwnedBy
  <2> QED BY SMTT(30), <1>0, <2>1, <2>2 DEF SingleOwner, OwnedBy
<1>5. Release'
  BY <1>1 DEF Release
<1> QED BY <1>2, <1>3, <1>4, <1>5

LEMMA RlStartStep ==
    ASSUME TypeOK, Ownership, NEW p \in Pod, RlStart(p)
    PROVE  Ownership'
<1>1. /\ UNCHANGED <<nc, nprr, npr, pending, cache, heap, cur, rq, cc>>
      /\ rl.pc = "idle" /\ p \in rlQ /\ rlQ' = rlQ \ {p}
  BY DEF RlStart, user, api, alloc
<1>2. Coherent /\ Dying /\ Release /\ FreshCopies /\ OneAllocator /\ SingleOwner
  BY DEF Ownership
<1>3. ~(npr[p] = None /\ cache[p] # None)
  BY <1>1, <1>2 DEF Dying
<1>4. rl'.pod \in {None, p} /\ rl'.pc # "finalize" /\ Release'
  <2>1. CASE rl' = RlIdle
    BY <2>1, IdleFields DEF Release
  <2>2. CASE RlVerdict(cache[p]) # "idle"
             /\ rl' = [pc |-> RlVerdict(cache[p]), pod |-> p, new |-> cache[p], fresh |-> CacheIsFresh(p)]
    <3>1. /\ rl'.pc = RlVerdict(cache[p]) /\ rl'.pod = p /\ rl'.new = cache[p]
          /\ rl'.fresh = CacheIsFresh(p)
      BY <2>2
    <3>2. cache[p] # None /\ cache[p] \in NPR
      BY <2>2 DEF RlVerdict, TypeOK
    <3>3. Deleting(cache[p]) => CacheIsFresh(p) /\ Stale(cache[p]) /\ cache[p] = npr[p]
      BY <1>2, <1>3, <3>2, CachedDeletingIsStale DEF Dying, Coherent
    <3>4. /\ RlVerdict(cache[p]) \in {"release", "delete"}
          /\ RlVerdict(cache[p]) = "release" => Deleting(cache[p])
          /\ RlVerdict(cache[p]) = "delete" => Stale(cache[p])
      <4>1. cache[p].deleting \in BOOLEAN /\ cache[p].stale \in BOOLEAN
        BY <3>2 DEF NPR
      <4>2. cache[p].deleting => cache[p].stale
        BY <3>2, <3>3 DEF Deleting, Stale
      <4>3. CASE cache[p].deleting
        BY <3>2, <4>1, <4>2, <4>3 DEF RlVerdict, Deleting, Stale
      <4>4. CASE ~cache[p].deleting
        BY <2>2, <3>2, <4>1, <4>4 DEF RlVerdict, Deleting, Stale
      <4> QED BY <4>3, <4>4
    <3>5. Stale(cache[p]) => Stale(npr[p])
      BY <1>2, <1>3, <3>2 DEF Dying
    <3> QED BY <1>1, <3>1, <3>3, <3>4, <3>5 DEF Release, CacheIsFresh
  <2> QED BY <2>1, <2>2 DEF RlStart
<1>5. Dying'
  BY <1>1, <1>2, <1>3, <1>4, NoneFacts DEF Dying, CacheIsFresh
<1>6. OneAllocator' /\ FreshCopies'
  BY SMTT(30), <1>1, <1>2 DEF OneAllocator, FreshCopies
<1>7. SingleOwner'
  BY <1>1, <1>2, <1>4 DEF SingleOwner, OwnedBy, InRq, InCc, FreeNow, RegNow
<1> QED BY <1>1, <1>2, <1>4, <1>5, <1>6, <1>7, QuietApi DEF Ownership

LEMMA RlDeleteStep ==
    ASSUME Calm, TypeOK, Ownership, RlDelete
    PROVE  Ownership'
<1> DEFINE p == rl.pod
<1>1. Coherent /\ Dying /\ Release /\ rl.pc = "delete"
  BY DEF Ownership, RlDelete
<1>2. p \in Pod /\ Stale(npr[p]) /\ npr[p] # None /\ npr[p] \in NPR
  BY <1>1, NoneFacts DEF TypeOK, RlState, Release, Stale
<1>3. /\ nprr[p] = None
      /\ rq.pod = p => rq.pc = "update" /\ ~rq.fresh /\ rq.add = {} /\ rq.give = {}
  BY <1>1, <1>2 DEF Dying
<1>4. OwnedBy(p) = npr[p].allocs
  BY <1>1, <1>2 DEF OwnedBy
<1>5. ASSUME UNCHANGED api, NEW retry, RlAfterCall(retry) PROVE Ownership'
  <2>1. UNCHANGED <<npr, pending, nc, nprr, cache, heap, cur>> /\ rq' = rq
        /\ rl'.pod = None /\ rlQ' \subseteq rlQ \cup {p}
    BY <1>2, <1>5, RlAfter DEF api, RlAfterCall, Spoil
  <2>2. Dying'
    BY <1>1, <1>2, <2>1, NoneFacts DEF Dying, CacheIsFresh
  <2> QED BY <1>1, <1>2, <1>3, <1>4, <1>5, <2>1, <2>2, RlAfterOwners, QuietApi DEF Ownership
<1>6. ASSUME ~npr[p].deleting, Store(p, [npr[p] EXCEPT !.deleting = TRUE]), NEW retry, RlAfterCall(retry)
      PROVE  Ownership'
  <2> DEFINE o == [npr[p] EXCEPT !.deleting = TRUE]
  <2>1. o \in NPR /\ o # None /\ o.deleting /\ o.stale /\ o.allocs = npr[p].allocs
    BY SMTT(30), <1>2, NPRUpdates, NoneFacts DEF NPR, Stale
  <2>2. npr'[p] = o /\ \A q \in Pod : q # p => npr'[q] = npr[q]
    BY <1>2, <1>6 DEF Store, TypeOK
  <2>3. Stale(o) /\ ~Deleting(npr[p]) /\ Store(p, o)
    BY <1>6, <2>1 DEF Stale, Deleting
  <2> HIDE DEF o
  <2>4. Coherent'
    <3>1. \A i \in 1..Len(pending) : pending[i].pod = p =>
            pending[i].obj # None /\ ~Deleting(pending[i].obj)
      BY <1>1, <1>2, <2>3, LiveEvents
    <3>2. cache' = cache
      BY <1>6 DEF RlAfterCall
    <3> QED BY <1>1, <1>2, <2>1, <2>3, <3>1, <3>2, StoreCoherent
  <2>5. Dying'
    <3>1. ~Deleting(cache[p])
      <4>1. CacheIsFresh(p) => cache[p] = npr[p]
        BY <1>1, <1>2 DEF Coherent
      <4> QED BY <1>1, <1>2, <2>3, <4>1 DEF Dying
    <3>2. /\ UNCHANGED <<nprr, cache>> /\ rlQ' \subseteq rlQ \cup {p} /\ rl'.pod = None
          /\ rq'.pc = rq.pc /\ rq'.pod = rq.pod /\ (rq'.fresh => rq.fresh)
          /\ rq'.add = rq.add /\ rq'.give = rq.give
      BY <1>2, <1>6, RlAfter
    <3> HIDE DEF p
    <3> QED BY <1>1, <1>2, <1>3, <2>1, <2>3, <3>1, <3>2, StoreDying
  <2> QED BY <1>2, <1>3, <1>4, <1>6, <2>1, <2>2, <2>4, <2>5, RlAfterOwners DEF Ownership
<1>7. CASE npr[p].deleting /\ UNCHANGED api /\ RlAfterCall(FALSE)
  BY <1>5, <1>7
<1>8. CASE ~npr[p].deleting /\ \E ok \in BOOLEAN :
              Call(TRUE, p, [npr[p] EXCEPT !.deleting = TRUE], "api_error", ok) /\ RlAfterCall(~ok)
  <2>1. PICK ok \in BOOLEAN :
              Call(TRUE, p, [npr[p] EXCEPT !.deleting = TRUE], "api_error", ok) /\ RlAfterCall(~ok)
    BY <1>8
  <2>2. CASE ok = TRUE
    <3>1. Store(p, [npr[p] EXCEPT !.deleting = TRUE])
      BY <2>1, <2>2, CalmCall
    <3> QED BY <1>6, <1>8, <2>1, <3>1
  <2>3. CASE ok = FALSE
    <3>1. UNCHANGED api
      BY <2>1, <2>3, CalmCall
    <3> QED BY <1>5, <2>1, <3>1
  <2> QED BY <2>2, <2>3
<1> QED BY <1>2, <1>7, <1>8 DEF RlDelete

LEMMA RlReleaseStep ==
    ASSUME TypeOK, Ownership, RlRelease
    PROVE  Ownership'
<1> DEFINE p == rl.pod
<1>1. UNCHANGED <<nc, nprr, npr, pending, cache, cur, rlQ, rq, cc>> /\ rl.pc = "release"
  BY DEF RlRelease, user, api, queues
<1>2. Coherent /\ Dying /\ Release /\ FreshCopies /\ OneAllocator /\ SingleOwner
  BY DEF Ownership
<1>3. rl'.pc = "finalize" /\ rl'.pod = p /\ rl'.new = rl.new /\ rl'.fresh = rl.fresh
  BY DEF RlRelease, TypeOK, RlState
<1>4. p \in Pod /\ rl.new = npr[p] /\ npr[p] # None
  BY <1>1, <1>2 DEF TypeOK, RlState, Release, Deleting
<1>5. OwnedBy(p) = npr[p].allocs /\ OwnedBy(p) \subseteq RegNow \X Block
  BY <1>1, <1>2, <1>4 DEF OwnedBy, SingleOwner
<1>6. FreeNow' = FreeNow \cup OwnedBy(p) /\ RegNow' = RegNow
  <2>1. CASE cur = None
    <3>1. OwnedBy(p) = {}
      BY <1>5, <2>1 DEF RegNow
    <3> QED BY <1>1, <2>1, <3>1 DEF FreeNow, RegNow
  <2>2. CASE cur # None
    <3>1. cur \in Gen /\ heap' = [heap EXCEPT ![cur] = Free(@, OwnedBy(p))]
      BY <1>4, <1>5, <2>2 DEF RlRelease, TypeOK
    <3> QED BY <1>1, <1>5, <3>1, FreeOwner
  <2> QED BY <2>1, <2>2
<1>7. SingleOwner'
  <2>1. \A q \in Pod : (IF npr'[q] = None \/ (rl'.pc = "finalize" /\ rl'.pod = q)
                        THEN {} ELSE npr'[q].allocs) = IF q = p THEN {} ELSE OwnedBy(q)
    BY <1>1, <1>3 DEF OwnedBy
  <2>2. InRq' = InRq /\ InCc' = InCc
    BY <1>1 DEF InRq, InCc
  <2> DEFINE Own(q) == IF q = p THEN {} ELSE OwnedBy(q)
  <2>3. \A q \in Pod : /\ Own(q) \cap (InRq \cup InCc \cup FreeNow') = {}
                       /\ \A r \in Pod : q # r => Own(q) \cap Own(r) = {}
                       /\ Own(q) \subseteq RegNow \X Block
    BY <1>2, <1>4, <1>6 DEF SingleOwner
  <2>4. /\ InRq \cap InCc = {} /\ InRq \cap FreeNow' = {} /\ InCc \cap FreeNow' = {}
        /\ InRq \cup InCc \subseteq RegNow \X Block
    BY <1>2, <1>4, <1>6 DEF SingleOwner
  <2>5. \A q \in Pod : (IF npr'[q] = None \/ (rl'.pc = "finalize" /\ rl'.pod = q)
                        THEN {} ELSE npr'[q].allocs) = Own(q)
    BY <2>1
  <2> HIDE DEF Own, p
  <2> QED BY <1>6, <2>2, <2>3, <2>4, <2>5 DEF SingleOwner, OwnedBy
<1>8. Dying'
  BY <1>1, <1>2, <1>3, QuietDying DEF Dying
<1>9. OneAllocator'
  <2>1. cur # None => heap'[cur].reg = heap[cur].reg
    BY <1>1, <1>6 DEF RegNow
  <2> QED BY <1>1, <1>2, <2>1 DEF OneAllocator
<1>10. FreshCopies'
  BY <1>1, <1>2 DEF FreshCopies
<1>11. Release'
  BY <1>1, <1>2, <1>3 DEF Release, CacheIsFresh
<1> QED BY <1>1, <1>2, <1>7, <1>8, <1>9, <1>10, <1>11, QuietApi DEF Ownership

LEMMA RlFinalizeStep ==
    ASSUME Calm, TypeOK, Ownership, RlFinalize
    PROVE  Ownership'
<1> DEFINE p == rl.pod
<1>1. Coherent /\ Dying /\ Release /\ rl.pc = "finalize"
  BY DEF Ownership, RlFinalize
<1>2. p \in Pod /\ rl.fresh /\ p \notin rlQ /\ CacheIsFresh(p) /\ Deleting(npr[p]) /\ npr[p] # None
  BY <1>1, NoneFacts DEF TypeOK, RlState, Release, Deleting
<1>3. Stale(npr[p]) /\ cache[p] = npr[p]
  BY <1>1, <1>2 DEF Dying, Coherent
<1>4. /\ nprr[p] = None
      /\ rq.pod = p => rq.pc = "update" /\ ~rq.fresh /\ rq.add = {} /\ rq.give = {}
  BY <1>1, <1>2, <1>3 DEF Dying
<1>5. PICK ok \in BOOLEAN : Call(rl.fresh, p, None, "release_error", ok) /\ RlAfterCall(~ok)
  BY DEF RlFinalize
<1>6. ok = TRUE
  <2>1. CASE ok = FALSE
    <3>1. ~rl.fresh
      BY <1>5, <2>1, CalmCall
    <3> QED BY <1>2, <3>1
  <2> QED BY <1>5, <2>1
<1>7. Store(p, None)
  BY <1>5, <1>6, CalmCall
<1>8. npr'[p] = None /\ \A q \in Pod : q # p => npr'[q] = npr[q]
  BY <1>2, <1>7 DEF Store, TypeOK
<1>9. /\ UNCHANGED <<nprr, cache>> /\ rlQ' = rlQ /\ rl'.pod = None
      /\ rq'.pc = rq.pc /\ rq'.pod = rq.pod /\ (rq'.fresh => rq.fresh)
      /\ rq'.add = rq.add /\ rq'.give = rq.give
  BY <1>2, <1>5, <1>6, RlAfter
<1>10. Coherent'
  <2>1. \A i \in 1..Len(pending) : pending[i].pod # p
    BY <1>2 DEF CacheIsFresh
  <2> QED BY <1>1, <1>2, <1>3, <1>7, <1>9, <2>1, StoreCoherent
<1>11. Dying'
  <2>1. ~Deleting(None) /\ ~Stale(None)
    BY DEF Deleting, Stale
  <2> HIDE DEF p
  <2> QED BY <1>1, <1>2, <1>3, <1>4, <1>7, <1>9, <2>1, StoreDying, NoneFacts
<1>12. OwnedBy(p) = {}
  BY <1>1 DEF OwnedBy
<1> QED BY <1>2, <1>4, <1>5, <1>8, <1>10, <1>11, <1>12, RlAfterOwners DEF Ownership

-----------------------------------------------------------------------------
(***************************************************************************)
(* The watch.                                                              *)
(***************************************************************************)
\* The delivery of an event keeps the cache coherent.
LEMMA DeliverEvents ==
    ASSUME TypeOK, Deliver
    PROVE  /\ Len(pending) \in Nat \ {0} /\ Len(pending') = Len(pending) - 1
           /\ \A i \in 1..Len(pending') : pending'[i] = pending[i + 1]
           /\ pending[1].pod \in Pod /\ pending[1].obj \in NPR \cup {None}
           /\ \A q \in Pod : cache'[q] = IF q = pending[1].pod THEN pending[1].obj ELSE cache[q]
           /\ rlQ' = rlQ \cup {pending[1].pod}
           /\ UNCHANGED <<nc, nprr, ops, npr, heap, cur, rqQ, ccQ, rq, rl, cc>>
<1>1. pending # <<>> /\ pending' = Tail(pending) /\ Head(pending) = pending[1]
  BY SMTT(30) DEF Deliver
<1>2. Len(pending) \in Nat \ {0} /\ Len(pending') = Len(pending) - 1
      /\ \A i \in 1..Len(pending') : pending'[i] = pending[i + 1]
  BY SMTT(30), <1>1 DEF TypeOK
<1>3. pending[1].pod \in Pod /\ pending[1].obj \in NPR \cup {None}
  BY SMTT(30), <1>2, EventTypes
<1> QED BY <1>1, <1>2, <1>3 DEF Deliver, TypeOK, user, alloc

LEMMA DeliverStep == TypeOK /\ Ownership /\ Deliver => Ownership'
<1> SUFFICES ASSUME TypeOK, Ownership, Deliver PROVE Ownership'
  OBVIOUS
<1> DEFINE p == pending[1].pod
           o == pending[1].obj
           n == Len(pending)
           Fr(q) == \A i \in 1..Len(pending') : pending'[i].pod # q
<1>0. /\ n \in Nat \ {0} /\ Len(pending') = n - 1
      /\ \A i \in 1..Len(pending') : pending'[i] = pending[i + 1]
      /\ p \in Pod /\ o \in NPR \cup {None}
      /\ \A q \in Pod : cache'[q] = IF q = p THEN o ELSE cache[q]
      /\ rlQ' = rlQ \cup {p}
      /\ UNCHANGED <<nc, nprr, ops, npr, heap, cur, rqQ, ccQ, rq, rl, cc>>
  BY DeliverEvents
<1>00. \A i \in 1..n : pending[i].pod \in Pod
  BY EventTypes
<1>1. \A i \in 1..n : LET q == pending[i].pod e == pending[i].obj IN
        /\ (\A j \in 1..n : j > i => pending[j].pod # q) => e = npr[q]
        /\ Deleting(e) => \A j \in 1..n : j > i => pending[j].pod # q
        /\ e = None => (\A j \in 1..n : j # i => pending[j].pod # q) /\ Stale(cache[q])
        /\ npr[q] = None => e = None
        /\ Stale(e) => Stale(npr[q])
  BY DEF Ownership, Coherent
<1>2. 1 \in 1..n /\ \A j \in 1..n : j # 1 => j > 1 /\ j - 1 \in 1..Len(pending') /\ j = (j - 1) + 1
  BY SMTT(30), <1>0
<1>3. \A i \in 1..Len(pending') : i + 1 \in 1..n /\ i + 1 # 1
  BY SMTT(30), <1>0
<1>4. \A q \in Pod : Fr(q) <=> \A j \in 1..n : j > 1 => pending[j].pod # q
  <2>1. ASSUME NEW q \in Pod, Fr(q), NEW j \in 1..n, j > 1 PROVE pending[j].pod # q
    <3>1. j - 1 \in 1..Len(pending') /\ pending'[j - 1] = pending[j]
      BY SMTT(30), <1>0, <2>1
    <3> QED BY <2>1, <3>1 DEF CacheIsFresh
  <2>2. ASSUME NEW q \in Pod, \A j \in 1..n : j > 1 => pending[j].pod # q PROVE Fr(q)
    <3>1. \A i \in 1..Len(pending') : i + 1 \in 1..n /\ i + 1 > 1
      BY SMTT(30), <1>0
    <3> QED BY <1>0, <2>2, <3>1 DEF CacheIsFresh
  <2> QED BY <2>1, <2>2
<1>5. \A q \in Pod : CacheIsFresh(q) => q # p /\ Fr(q)
  BY <1>2, <1>4 DEF CacheIsFresh
<1>6. \A q \in Pod : q # p /\ Fr(q) => CacheIsFresh(q)
  BY <1>2, <1>4 DEF CacheIsFresh
<1>7. Coherent'
  <2>1. \A q \in Pod : Fr(q) => cache'[q] = npr'[q]
    <3>1. Fr(p) => o = npr[p]
      <4> HIDE DEF Fr
      <4> QED BY <1>0, <1>1, <1>2, <1>4
    <3>2. \A q \in Pod : q # p /\ Fr(q) => cache[q] = npr[q]
      <4> HIDE DEF Fr
      <4> QED BY <1>6 DEF Ownership, Coherent
    <3> HIDE DEF Fr, o, p
    <3> QED BY <1>0, <3>1, <3>2
  <2>2. ASSUME NEW i \in 1..Len(pending')
        PROVE  LET q == pending'[i].pod e == pending'[i].obj IN
          /\ (\A j \in 1..Len(pending') : j > i => pending'[j].pod # q) => e = npr'[q]
          /\ Deleting(e) => \A j \in 1..Len(pending') : j > i => pending'[j].pod # q
          /\ e = None => /\ \A j \in 1..Len(pending') : j # i => pending'[j].pod # q
                         /\ Stale(cache'[q])
          /\ npr'[q] = None => e = None
          /\ Stale(e) => Stale(npr'[q])
    <3> DEFINE q == pending[i + 1].pod
               e == pending[i + 1].obj
    <3>1. i + 1 \in 1..n /\ pending'[i].pod = q /\ pending'[i].obj = e /\ q \in Pod
      BY <1>0, <1>00, <1>3
    <3>2. (\A j \in 1..Len(pending') : j > i => pending'[j].pod # q)
            <=> (\A j \in 1..n : j > i + 1 => pending[j].pod # q)
      <4>1. ASSUME \A j \in 1..Len(pending') : j > i => pending'[j].pod # q, NEW j \in 1..n, j > i + 1
            PROVE  pending[j].pod # q
        <5>1. j - 1 \in 1..Len(pending') /\ j - 1 > i /\ pending'[j - 1] = pending[j]
          BY SMTT(30), <1>0, <4>1
        <5> QED BY <4>1, <5>1
      <4>2. ASSUME \A j \in 1..n : j > i + 1 => pending[j].pod # q, NEW j \in 1..Len(pending'), j > i
            PROVE  pending'[j].pod # q
        <5>1. j + 1 \in 1..n /\ j + 1 > i + 1 /\ pending'[j] = pending[j + 1]
          BY SMTT(30), <1>0, <4>2
        <5> QED BY <4>2, <5>1
      <4> QED BY <4>1, <4>2
    <3>3. (\A j \in 1..n : j # i + 1 => pending[j].pod # q)
            => q # p /\ \A j \in 1..Len(pending') : j # i => pending'[j].pod # q
      <4> SUFFICES ASSUME \A j \in 1..n : j # i + 1 => pending[j].pod # q
                   PROVE  q # p /\ \A j \in 1..Len(pending') : j # i => pending'[j].pod # q
        OBVIOUS
      <4>1. q # p
        BY SMTT(30), <1>0
      <4>2. ASSUME NEW j \in 1..Len(pending'), j # i PROVE pending'[j].pod # q
        <5>1. j + 1 \in 1..n /\ j + 1 # i + 1 /\ pending'[j] = pending[j + 1]
          BY SMTT(30), <1>0, <4>2
        <5> QED BY <5>1
      <4> QED BY <4>1, <4>2
    <3>4. /\ (\A j \in 1..n : j > i + 1 => pending[j].pod # q) => e = npr[q]
          /\ Deleting(e) => \A j \in 1..n : j > i + 1 => pending[j].pod # q
          /\ e = None => (\A j \in 1..n : j # i + 1 => pending[j].pod # q) /\ Stale(cache[q])
          /\ npr[q] = None => e = None
          /\ Stale(e) => Stale(npr[q])
      BY <1>1, <3>1
    <3>5. npr' = npr /\ (q # p => cache'[q] = cache[q])
      BY <1>0, <3>1
    <3> HIDE DEF q, e
    <3> QED BY <3>1, <3>2, <3>3, <3>4, <3>5
  <2> QED BY <2>1, <2>2 DEF Coherent, CacheIsFresh
<1>8. Dying'
  <2>1. /\ Stale(o) => Stale(npr[p])
        /\ Deleting(o) => Fr(p)
        /\ npr[p] = None => o = None
    <3> HIDE DEF Fr
    <3> QED BY <1>0, <1>1, <1>2, <1>4
  <2>2. \A q \in Pod : /\ Stale(cache'[q]) => npr'[q] = None \/ Stale(npr'[q])
                       /\ Deleting(cache'[q]) => npr'[q] = None \/ Fr(q)
                       /\ npr'[q] = None /\ cache'[q] # None =>
                             Stale(cache'[q]) /\ q \notin rlQ' /\ rl'.pod # q
                       /\ Stale(npr'[q]) \/ Stale(cache'[q]) => Stale(npr[q]) \/ Stale(cache[q])
    <3>1. ASSUME NEW q \in Pod, q # p
          PROVE  /\ Stale(cache[q]) => npr[q] = None \/ Stale(npr[q])
                 /\ Deleting(cache[q]) => npr[q] = None \/ Fr(q)
                 /\ npr[q] = None /\ cache[q] # None => Stale(cache[q]) /\ q \notin rlQ /\ rl.pod # q
      <4> HIDE DEF Fr
      <4> QED BY <1>5, <3>1 DEF Ownership, Dying
    <3> HIDE DEF o, p, Fr
    <3> QED BY <1>0, <2>1, <3>1
  <2> QED BY <1>0, <2>2 DEF Ownership, Dying, CacheIsFresh
<1>9. Release'
  <2>1. rl.pc \in {"release", "finalize"} => rl.pod \in Pod /\ rl.pod # p /\ Fr(rl.pod)
    <3> HIDE DEF Fr
    <3>1. rl.pc \in {"release", "finalize"} => rl.pod \in Pod /\ CacheIsFresh(rl.pod)
      BY DEF Ownership, Release, TypeOK, RlState
    <3> QED BY <1>5, <3>1
  <2> QED BY <1>0, <2>1 DEF Ownership, Release, CacheIsFresh
<1>10. OneAllocator' /\ FreshCopies' /\ SingleOwner'
  BY <1>0, QuietOwners DEF Ownership
<1> QED BY <1>7, <1>8, <1>9, <1>10 DEF Ownership

-----------------------------------------------------------------------------
(***************************************************************************)
(* The environment.                                                        *)
(***************************************************************************)
LEMMA EditRequestStep ==
    ASSUME Calm, TypeOK, Ownership, NEW p \in Pod, EditRequest(p)
    PROVE  Ownership'
<1>1. UNCHANGED <<nc, npr, pending, cache, heap, cur, rlQ, rq, rl, cc>>
  BY DEF EditRequest, EnvStep, api, alloc
<1>2. Coherent /\ Dying /\ Release /\ FreshCopies /\ OneAllocator /\ SingleOwner
  BY DEF Ownership
<1>3. \/ nprr[p] = None /\ npr[p] = None /\ cache[p] = None
      \/ nprr[p] # None
      \/ nprr'[p] = None
  BY CalmFacts DEF EditRequest
<1>4. \A q \in Pod : q # p => nprr'[q] = nprr[q]
  BY DEF EditRequest, TypeOK
<1>5. Stale(npr[p]) \/ Stale(cache[p]) => nprr'[p] = None
  BY <1>2, <1>3 DEF Dying, Stale
<1>6. Dying'
  BY <1>1, <1>2, <1>4, <1>5 DEF Dying, CacheIsFresh
<1>7. FreshCopies'
  <2>1. rq.fresh /\ rq.pc \in {"grow", "update"} /\ rq.new.stale => nprr'[rq.pod] = None
    <3> SUFFICES ASSUME rq.fresh, rq.pc \in {"grow", "update"}, rq.new.stale
                 PROVE  nprr'[rq.pod] = None
      OBVIOUS
    <3>1. npr[rq.pod] # None /\ nprr[rq.pod] = None /\ rq.pod \in Pod
      BY <1>2 DEF FreshCopies, TypeOK, RqState
    <3> QED BY <1>3, <1>4, <3>1
  <2> QED BY <1>1, <1>2, <2>1 DEF FreshCopies
<1>8. OneAllocator' /\ SingleOwner'
  BY <1>1, <1>2 DEF OneAllocator, SingleOwner, OwnedBy, InRq, InCc, FreeNow, RegNow
<1> QED BY <1>1, <1>2, <1>6, <1>7, <1>8, QuietApi, QuietRelease DEF Ownership

\* What reconstruction yields: the pool, less the blocks of existing NPRs.
LEMMA ReconstructedFacts ==
    ASSUME TypeOK, nc # None
    PROVE  /\ Reconstructed.reg = nc.pool
           /\ Reconstructed.free =
                (nc.pool \X Block) \ UNION {npr[p].allocs : p \in {q \in Pod : npr[q] # None /\ ~npr[q].deleting}}
BY DEF Reconstructed, MarkUsed, EnsureIPs, SetReserved, NewAllocator

LEMMA RestartStep ==
    ASSUME Calm, TypeOK, Ownership, Restart
    PROVE  Ownership'
<1>1. /\ UNCHANGED <<nc, nprr, npr>> /\ cache' = npr /\ pending' = <<>>
      /\ rq' = RqIdle /\ rl' = RlIdle /\ cc' = CcIdle
      /\ \A p \in Pod : ~Deleting(npr[p])
  BY CalmFacts DEF Restart, Deleting
<1>2. Dying /\ OneAllocator /\ SingleOwner
  BY DEF Ownership
<1>3. nc # None
  BY <1>2 DEF OneAllocator
<1>4. cur' \in Gen /\ cur' # None /\ heap'[cur'] = Reconstructed
  <2> DEFINE g == CHOOSE h \in Gen : TRUE
  <2>1. g \in Gen
    BY ConstantsAssumption
  <2>2. cur' = g /\ heap' = [h \in Gen |-> IF nc # None /\ h = g THEN Reconstructed ELSE NewAllocator]
    BY <1>3 DEF Restart
  <2> HIDE DEF g
  <2> QED BY <1>3, <2>1, <2>2, NoneFacts
<1>5. /\ RegNow' = nc.pool
      /\ FreeNow' = (nc.pool \X Block) \ UNION {npr[p].allocs : p \in {q \in Pod : npr[q] # None /\ ~npr[q].deleting}}
  BY <1>3, <1>4, ReconstructedFacts DEF RegNow, FreeNow
<1>6. OneAllocator'
  BY <1>1, <1>2, <1>4, <1>5 DEF OneAllocator, RegNow, RqIdle, CcIdle
<1>7. Len(pending') = 0
  BY <1>1
<1>8. Coherent'
  <2>1. 1..Len(pending') = {}
    BY SMTT(30), <1>7
  <2>2. \A p \in Pod : cache'[p] = npr'[p]
    BY <1>1
  <2> QED BY <2>1, <2>2 DEF Coherent
<1>9. Dying'
  BY <1>1, <1>2, IdleFields, NoneFacts DEF Dying, Stale
<1>10. Release' /\ FreshCopies'
  BY <1>1 DEF Release, FreshCopies, RqIdle, RlIdle, CcIdle, NoList
<1>11. SingleOwner'
  <2> DEFINE Own(p) == IF npr[p] = None THEN {} ELSE npr[p].allocs
  <2>1. \A p \in Pod : Own(p) = OwnedBy(p)
    <3>1. \A p \in Pod : npr[p] # None => ~(rl.pc = "finalize" /\ rl.pod = p)
      BY <1>1 DEF Ownership, Release
    <3> QED BY <3>1 DEF OwnedBy
  <2>2. RegNow \X Block \subseteq nc.pool \X Block
    BY <1>2 DEF OneAllocator, RegNow
  <2>3. \A p \in Pod : Own(p) \cap FreeNow' = {}
    BY <1>1, <1>5 DEF Deleting
  <2> HIDE DEF Own
  <2>4. \A p \in Pod : /\ Own(p) \subseteq RegNow' \X Block
                       /\ \A q \in Pod : p # q => Own(p) \cap Own(q) = {}
    BY <1>2, <1>5, <2>1, <2>2 DEF SingleOwner
  <2>5. \A p \in Pod : (IF npr'[p] = None \/ (rl'.pc = "finalize" /\ rl'.pod = p)
                        THEN {} ELSE npr'[p].allocs) = Own(p)
    BY <1>1, IdleFields DEF Own
  <2>6. InRq' = {} /\ InCc' = {}
    BY <1>1 DEF InRq, InCc, RqIdle, CcIdle
  <2> QED BY <2>3, <2>4, <2>5, <2>6 DEF SingleOwner, OwnedBy
<1> QED BY <1>6, <1>8, <1>9, <1>10, <1>11 DEF Ownership

-----------------------------------------------------------------------------
(***************************************************************************)
(* The NATConfig controller.                                               *)
(***************************************************************************)
LEMMA CcFrame ==
    ASSUME Ownership, UNCHANGED <<nprr, npr, pending, cache, rlQ, rl, rq>>
    PROVE  Coherent' /\ Dying' /\ Release'
BY QuietApi, QuietDying, QuietRelease DEF Ownership, Dying

\* A step that changes nothing but the NATConfig controller's locals.
LEMMA CcLocal ==
    ASSUME Ownership, UNCHANGED <<nc, nprr, npr, pending, cache, rlQ, rl, rq, heap, cur>>,
           cc'.add = cc.add, cc'.gen \in {None, cc.gen}, cc'.gone = {}, cc'.pc # "remove",
           cc'.pc = "ensure" => cc'.conf.pool = nc.pool,
           FreshCopies'
    PROVE  Ownership'
<1>1. Coherent' /\ Dying' /\ Release'
  BY CcFrame
<1>2. OneAllocator'
  BY DEF Ownership, OneAllocator
<1>3. SingleOwner'
  BY ZenonT(60) DEF Ownership, SingleOwner, OwnedBy, InRq, InCc, FreeNow, RegNow
<1> QED BY <1>1, <1>2, <1>3 DEF Ownership

LEMMA CcStartStep ==
    ASSUME TypeOK, Ownership, CcStart
    PROVE  Ownership'
<1>1. FreshCopies /\ OneAllocator
  BY DEF Ownership
<1>2. UNCHANGED <<nc, nprr, npr, pending, cache, rlQ, rl, rq, heap, cur>> /\ cc.pc = "idle"
  BY DEF CcStart, user, api, alloc
<1>3. cc' = [CcIdle EXCEPT !.pc = "ensure", !.conf = nc]
  BY <1>1 DEF CcStart, OneAllocator
<1>4. /\ cc'.pc = "ensure" /\ cc'.conf = nc /\ cc'.add = {} /\ cc'.gen = None /\ cc'.gone = {}
      /\ cc'.list = NoList /\ cc'.fresh = {} /\ cc.add = {}
  BY <1>1, <1>2, <1>3 DEF CcIdle, FreshCopies
<1>5. FreshCopies'
  BY <1>1, <1>2, <1>4 DEF FreshCopies, NoList
<1> QED BY <1>2, <1>4, <1>5, CcLocal

LEMMA CcEnsureStep ==
    ASSUME TypeOK, Ownership, CcEnsure
    PROVE  Ownership'
<1>1. UNCHANGED <<nc, nprr, npr, pending, cache, rlQ, rl, rq>> /\ cc.pc = "ensure" /\ EnsureAllocator(cc.conf)
  BY DEF CcEnsure, user, api, queues
<1>2. FreshCopies /\ OneAllocator /\ SingleOwner
  BY DEF Ownership
<1>3. /\ cc'.pc = "list" /\ cc'.gen = EnsuredGen /\ cc'.gone = heap'[EnsuredGen].reg \ cc.conf.pool
      /\ cc'.conf = cc.conf /\ cc'.add = cc.add /\ cc'.list = cc.list /\ cc'.fresh = cc.fresh
      /\ cc.conf \in Configs
  BY <1>1 DEF CcEnsure, TypeOK, CcState
<1>4. /\ cur' \in Gen /\ cur' = EnsuredGen /\ (cur # None => cur' = cur)
      /\ RegNow' = RegNow \cup cc.conf.pool
      /\ FreeNow' = FreeNow \cup ((cc.conf.pool \ RegNow) \X Block)
      /\ heap'[cur'].reg = RegNow \cup cc.conf.pool
  BY <1>1, <1>3, EnsureOwner
<1>5. RegNow \subseteq nc.pool /\ cc.conf.pool = nc.pool
  BY <1>1, <1>2 DEF OneAllocator, RegNow
<1>6. FreshCopies'
  BY <1>1, <1>2, <1>3 DEF FreshCopies
<1>7. OneAllocator'
  <2>1. cc'.gone = {}
    BY <1>3, <1>4, <1>5
  <2> QED BY <1>1, <1>2, <1>3, <1>4, <1>5, <2>1 DEF OneAllocator
<1>8. SingleOwner'
  <2>1. InRq' = InRq /\ InCc' = InCc
    BY <1>1, <1>3 DEF InRq, InCc
  <2> QED BY <1>1, <1>2, <1>4, <2>1, OwnersAfterEnsure
<1> QED BY <1>1, <1>6, <1>7, <1>8, CcFrame DEF Ownership

LEMMA CcListStep ==
    ASSUME TypeOK, Ownership, CcList
    PROVE  Ownership'
<1> DEFINE listed == {p \in Pod : cache[p] # None /\ ~cache[p].deleting /\ ~cache[p].stale}
           list == [p \in Pod |-> IF p \in listed THEN cache[p] ELSE None]
           fresh == {p \in listed : CacheIsFresh(p)}
<1>1. FreshCopies /\ OneAllocator /\ Coherent
  BY DEF Ownership
<1>2. UNCHANGED <<nc, nprr, npr, pending, cache, rlQ, rl, rq, heap, cur>> /\ cc.pc = "list"
  BY DEF CcList, user, api, alloc, queues
<1>3. cc' = [cc EXCEPT !.pc = "scan", !.list = list, !.fresh = fresh]
  BY DEF CcList
<1>4. \A p \in fresh : list[p] = npr[p]
  BY <1>1 DEF Coherent
<1>5. \A p \in Pod : list[p] # None => ~list[p].stale /\ ~list[p].deleting
  OBVIOUS
<1> HIDE DEF list, fresh
<1>6. /\ cc'.pc = "scan" /\ cc'.conf = cc.conf /\ cc'.add = cc.add /\ cc'.gen = cc.gen
      /\ cc'.gone = cc.gone /\ cc'.list = list /\ cc'.fresh = fresh
  BY <1>3 DEF TypeOK, CcState
<1>7. FreshCopies'
  BY <1>1, <1>2, <1>4, <1>5, <1>6 DEF FreshCopies
<1>8. cc'.gone = {}
  BY <1>1, <1>6 DEF OneAllocator
<1> QED BY <1>2, <1>6, <1>7, <1>8, CcLocal

LEMMA CcScanStep ==
    ASSUME TypeOK, Ownership, NEW p \in Pod, CcScan(p)
    PROVE  Ownership'
<1> DEFINE o == cc.list[p]
           kept == {s \in o.allocs : s[1] \in cc.conf.pool}
<1>1. FreshCopies /\ OneAllocator
  BY DEF Ownership
<1>2. UNCHANGED <<nc, nprr, npr, pending, cache, rlQ, rl, rq, heap, cur>> /\ cc.pc = "scan" /\ o # None
  BY DEF CcScan, user, api, alloc, queues
<1>3. o \in NPR /\ cc.list \in [Pod -> NPR \cup {None}] /\ cc.add = {} /\ cc.gone = {} /\ cc.fresh \subseteq Pod
  BY <1>1, <1>2 DEF TypeOK, CcState, FreshCopies, OneAllocator
<1>4. CASE cc' = [cc EXCEPT !.list = [cc.list EXCEPT ![p] = None]]
  <2>1. /\ cc'.pc = "scan" /\ cc'.conf = cc.conf /\ cc'.add = cc.add /\ cc'.gen = cc.gen
        /\ cc'.gone = cc.gone /\ cc'.fresh = cc.fresh
        /\ cc'.list = [cc.list EXCEPT ![p] = None]
    BY <1>2, <1>4 DEF TypeOK, CcState
  <2>2. \A q \in Pod : cc'.list[q] \in {None, cc.list[q]}
    BY <1>3, <2>1
  <2>3. FreshCopies'
    BY <1>1, <1>2, <1>3, <2>1, <2>2 DEF FreshCopies
  <2> QED BY <1>2, <1>3, <2>1, <2>3, CcLocal
<1>5. CASE cc' = [cc EXCEPT !.pc = "extend", !.pod = p, !.todo = cc.conf.pool \ IPsOf(o.allocs),
                            !.new = [o EXCEPT !.allocs = {s \in @ : s[1] \in cc.conf.pool}]]
  <2>1. /\ cc'.pc = "extend" /\ cc'.conf = cc.conf /\ cc'.add = cc.add /\ cc'.gen = cc.gen
        /\ cc'.gone = cc.gone /\ cc'.fresh = cc.fresh /\ cc'.list = cc.list /\ cc'.pod = p
        /\ cc'.new = [o EXCEPT !.allocs = {s \in @ : s[1] \in cc.conf.pool}]
    BY <1>5 DEF TypeOK, CcState
  <2>2. cc'.new.allocs = kept /\ cc'.new.stale = o.stale /\ cc'.new.deleting = o.deleting
    BY <1>3, <2>1 DEF NPR
  <2>3. kept \subseteq o.allocs
    OBVIOUS
  <2>4. FreshCopies'
    <3> HIDE DEF kept
    <3> QED BY SMTT(30), <1>1, <1>2, <2>1, <2>2, <2>3 DEF FreshCopies
  <2> QED BY <1>2, <1>3, <2>1, <2>4, CcLocal
<1> QED BY <1>4, <1>5 DEF CcScan

LEMMA CcExtendStep ==
    ASSUME TypeOK, Ownership, NEW ip, CcExtend(ip)
    PROVE  Ownership'
<1>1. UNCHANGED <<nc, nprr, npr, pending, cache, rlQ, rl, rq, cur>> /\ cc.pc = "extend"
  BY DEF CcExtend, user, api, queues
<1>2. FreshCopies /\ OneAllocator /\ SingleOwner
  BY DEF Ownership
<1>3. cc.gen = cur /\ cur \in Gen /\ cur # None /\ cc.new \in NPR
  BY <1>1, <1>2, NoneFacts DEF TypeOK, CcState, OneAllocator
<1>4. CASE cc' = [cc EXCEPT !.pc = "abort"] /\ heap' = heap
  <2>1. /\ cc'.pc = "abort" /\ cc'.gen = cc.gen /\ cc'.conf = cc.conf /\ cc'.add = cc.add
        /\ cc'.list = cc.list /\ cc'.gone = cc.gone /\ cc'.fresh = cc.fresh
    BY <1>4 DEF TypeOK, CcState
  <2>2. FreshCopies' /\ cc'.gone = {}
    BY <1>1, <1>2, <2>1 DEF FreshCopies, OneAllocator
  <2> QED BY <1>1, <1>4, <2>1, <2>2, CcLocal
<1>5. ASSUME NEW S \in PicksForIP(heap[cc.gen], ip, cc.new.count, Unusable(cc.pod, cc.new.allocs)),
             heap' = [heap EXCEPT ![cc.gen] = Allocate(@, S)],
             cc' = [cc EXCEPT !.todo = cc.todo \ {ip}, !.add = cc.add \cup S,
                              !.new = [cc.new EXCEPT !.allocs = @ \cup S]]
      PROVE  Ownership'
  <2>1. S \subseteq FreeNow
    <3>1. heap[cc.gen] \in Allocator
      BY <1>3 DEF TypeOK
    <3>2. S \subseteq heap[cc.gen].free
      BY SMTT(30), <3>1, IPPicks
    <3> QED BY <1>3, <3>2 DEF FreeNow
  <2>2. FreeNow' = FreeNow \ S /\ RegNow' = RegNow
    BY <1>1, <1>3, <1>5, <2>1, AllocateOwner
  <2>3. /\ cc'.pc = cc.pc /\ cc'.gen = cc.gen /\ cc'.conf = cc.conf /\ cc'.add = cc.add \cup S
        /\ cc'.list = cc.list /\ cc'.gone = cc.gone /\ cc'.fresh = cc.fresh /\ cc'.pod = cc.pod
        /\ cc'.new = [cc.new EXCEPT !.allocs = @ \cup S]
    BY <1>5 DEF TypeOK, CcState
  <2>4. /\ cc'.new.allocs = cc.new.allocs \cup S
        /\ cc'.new.stale = cc.new.stale /\ cc'.new.deleting = cc.new.deleting
    BY <1>3, <2>3 DEF NPR
  <2>5. FreshCopies'
    BY SMTT(30), <1>1, <1>2, <2>3, <2>4 DEF FreshCopies
  <2>6. OneAllocator'
    <3>1. heap'[cur].reg = heap[cur].reg
      BY <1>1, <1>3, <2>2 DEF RegNow
    <3> QED BY <1>1, <1>2, <2>3, <3>1 DEF OneAllocator
  <2>7. SingleOwner'
    <3>1. InRq' = InRq /\ InCc' = InCc \cup S
      BY <1>1, <2>3 DEF InRq, InCc
    <3> QED BY <1>1, <1>2, <2>1, <2>2, <3>1, OwnersAfterTake
  <2> QED BY <1>1, <2>5, <2>6, <2>7, CcFrame DEF Ownership
<1> QED BY <1>4, <1>5 DEF CcExtend

LEMMA CcUpdatedStep ==
    ASSUME TypeOK, Ownership, cc.pc = "extend", cc.pod \in cc.fresh, Store(cc.pod, cc.new),
           cc' = [cc EXCEPT !.pc = "scan", !.pod = None, !.new = None, !.add = {},
                            !.list = [cc.list EXCEPT ![cc.pod] = None], !.fresh = @ \ {cc.pod}],
           rq' = Spoil(rq, cc.pod), rl' = Spoil(rl, cc.pod),
           UNCHANGED <<user, cache, alloc, queues>>
    PROVE  Ownership'
<1> DEFINE p == cc.pod
           o == cc.new
<1>1. Coherent /\ Dying /\ Release /\ FreshCopies /\ OneAllocator /\ SingleOwner
  BY DEF Ownership
<1>2. UNCHANGED <<nc, nprr, cache, heap, cur, rlQ>>
  BY DEF user, alloc, queues
<1>3. /\ p \in Pod /\ o \in NPR /\ o # None /\ ~o.deleting /\ ~o.stale
      /\ cc.list[p] = npr[p] /\ npr[p] # None /\ ~Stale(npr[p])
      /\ o.allocs \subseteq npr[p].allocs \cup cc.add
  BY <1>1, NoneFacts DEF TypeOK, CcState, FreshCopies, Stale
<1>4. /\ cc'.pc = "scan" /\ cc'.pod = None /\ cc'.gen = cc.gen /\ cc'.conf = cc.conf
      /\ cc'.add = {} /\ cc'.list = [cc.list EXCEPT ![p] = None] /\ cc'.gone = cc.gone
      /\ cc'.fresh = cc.fresh \ {p} /\ cc.fresh \subseteq Pod /\ cc.list \in [Pod -> NPR \cup {None}]
  BY DEF TypeOK, CcState
<1>5. /\ ~Stale(cache[p]) /\ ~Deleting(cache[p])
      /\ npr'[p] = o /\ (\A q \in Pod : q # p => npr'[q] = npr[q])
      /\ rl' = rl /\ rl.pod # p
      /\ Coherent' /\ Release'
  <2> HIDE DEF p, o
  <2> QED BY <1>2, <1>3, LiveWrite DEF p, o
<1>6. /\ rq'.pc = rq.pc /\ rq'.pod = rq.pod /\ rq'.new = rq.new /\ rq'.gen = rq.gen
      /\ rq'.conf = rq.conf /\ rq'.add = rq.add /\ rq'.give = rq.give
      /\ rq'.fresh => rq.fresh /\ (rq.pod # p \/ npr'[p] = npr[p])
      /\ rq = RqIdle => rq' = RqIdle
  BY <1>3, SpoilRq
<1>7. Dying'
  <2>1. ~Stale(o) /\ ~Deleting(o)
    BY <1>3 DEF Stale, Deleting
  <2> QED BY <1>1, <1>2, <1>3, <1>5, <1>6, <2>1, StoreDying
<1>8. OneAllocator'
  BY <1>1, <1>2, <1>4, <1>6 DEF OneAllocator
<1>9. FreshCopies'
  <2>1. \A q \in cc'.fresh : npr'[q] = npr[q] /\ q \in cc.fresh /\ cc'.list[q] = cc.list[q]
    BY SMTT(30), <1>4, <1>5
  <2>2. \A q \in Pod : cc'.list[q] \in {None, cc.list[q]}
    BY SMTT(30), <1>4
  <2>3. rq'.fresh => npr'[rq.pod] = npr[rq.pod]
    <3>1. rq'.fresh => rq.pod \in Pod
      BY <1>1, <1>6 DEF FreshCopies, TypeOK, RqState
    <3> QED BY <1>5, <1>6, <3>1
  <2> QED BY SMTT(30), <1>1, <1>2, <1>4, <1>6, <2>1, <2>2, <2>3 DEF FreshCopies
<1>10. SingleOwner'
  <2>1. OwnedBy(p) = npr[p].allocs /\ InRq' = InRq /\ InCc = cc.add /\ InCc' = {}
    BY <1>3, <1>4, <1>5, <1>6 DEF OwnedBy, InRq, InCc
  <2>2. FreeNow' = FreeNow /\ RegNow' = RegNow
    BY <1>2 DEF FreeNow, RegNow
  <2>3. \A q \in Pod : (IF npr'[q] = None \/ (rl'.pc = "finalize" /\ rl'.pod = q)
                        THEN {} ELSE npr'[q].allocs) = IF q = p THEN o.allocs ELSE OwnedBy(q)
    BY <1>3, <1>5 DEF OwnedBy
  <2>4. o.allocs \cap InRq = {}
    BY <1>1, <1>3, <2>1 DEF SingleOwner
  <2>5. o.allocs \cup InRq \cup {} \subseteq OwnedBy(p) \cup InRq \cup InCc
    BY <1>3, <2>1
  <2> HIDE DEF p, o
  <2> QED BY SMTT(30), <1>1, <1>3, <2>1, <2>2, <2>3, <2>4, <2>5, OwnersAfterWrite
<1> QED BY <1>5, <1>7, <1>8, <1>9, <1>10 DEF Ownership

LEMMA CcUpdateStep ==
    ASSUME Calm, TypeOK, Ownership, CcUpdate
    PROVE  Ownership'
<1> DEFINE p == cc.pod
<1>1. PICK ok \in BOOLEAN :
          /\ Call(p \in cc.fresh, p, cc.new, "api_error", ok)
          /\ cc' = IF ok THEN [cc EXCEPT !.pc = "scan", !.pod = None, !.new = None,
                                         !.add = {}, !.list = [cc.list EXCEPT ![p] = None],
                                         !.fresh = @ \ {p}]
                   ELSE [cc EXCEPT !.pc = "abort"]
  BY DEF CcUpdate
<1>2. CASE ok = TRUE
  <2>1. p \in cc.fresh /\ Store(p, cc.new)
    BY <1>1, <1>2, CalmCall
  <2>2. cc' = [cc EXCEPT !.pc = "scan", !.pod = None, !.new = None,
                         !.add = {}, !.list = [cc.list EXCEPT ![p] = None], !.fresh = @ \ {p}]
    BY <1>1, <1>2
  <2> QED BY <2>1, <2>2, CcUpdatedStep DEF CcUpdate
<1>3. CASE ok = FALSE
  <2>1. UNCHANGED <<npr, pending>>
    BY <1>1, <1>3, CalmCall DEF api
  <2>2. /\ cc' = [cc EXCEPT !.pc = "abort"] /\ cc.pc = "extend"
        /\ UNCHANGED <<nc, nprr, cache, heap, cur, rlQ, rq, rl>>
    BY <1>1, <1>3, <2>1 DEF CcUpdate, Spoil, user, alloc, queues
  <2>3. /\ cc'.pc = "abort" /\ cc'.gen = cc.gen /\ cc'.conf = cc.conf /\ cc'.add = cc.add
        /\ cc'.list = cc.list /\ cc'.gone = cc.gone /\ cc'.fresh = cc.fresh
    BY <2>2 DEF TypeOK, CcState
  <2>4. Coherent /\ Dying /\ Release /\ FreshCopies /\ OneAllocator /\ SingleOwner
    BY DEF Ownership
  <2>5. Dying'
    BY <2>1, <2>2, <2>4, QuietDying DEF Dying
  <2>6. OneAllocator' /\ FreshCopies'
    BY ZenonT(60), <2>1, <2>2, <2>3, <2>4 DEF OneAllocator, FreshCopies
  <2>7. SingleOwner'
    BY ZenonT(60), <2>1, <2>2, <2>3, <2>4 DEF SingleOwner, OwnedBy, InRq, InCc, FreeNow, RegNow
  <2> QED BY <2>1, <2>2, <2>4, <2>5, <2>6, <2>7, QuietApi, QuietRelease DEF Ownership
<1> QED BY <1>2, <1>3

LEMMA CcAbortStep ==
    ASSUME TypeOK, Ownership, CcAbort
    PROVE  Ownership'
<1>1. /\ UNCHANGED <<nc, nprr, npr, pending, cache, rlQ, rl, rq, cur>> /\ cc.pc = "abort"
      /\ cc' = CcIdle /\ heap' = [heap EXCEPT ![cc.gen] = Free(@, cc.add)]
  BY DEF CcAbort, user, api
<1>2. FreshCopies /\ OneAllocator /\ SingleOwner
  BY DEF Ownership
<1>3. cc.gen = cur /\ cur \in Gen /\ cur # None
  BY <1>1, <1>2, NoneFacts DEF TypeOK, CcState, OneAllocator
<1>4. InCc = cc.add /\ InCc' = {} /\ InRq' = InRq
  BY <1>1, IdleFields DEF InRq, InCc
<1>5. FreeNow' = FreeNow \cup InCc /\ RegNow' = RegNow
  <2>1. cc.add \subseteq RegNow \X Block
    BY <1>2, <1>4 DEF SingleOwner
  <2> QED BY <1>1, <1>3, <1>4, <2>1, FreeOwner
<1>6. SingleOwner'
  BY <1>1, <1>2, <1>4, <1>5, OwnersAfterGive
<1>7. FreshCopies'
  BY <1>1, <1>2 DEF FreshCopies, CcIdle, NoList
<1>8. OneAllocator'
  <2>1. heap'[cur].reg = heap[cur].reg
    BY <1>1, <1>3, <1>5 DEF RegNow
  <2> QED BY <1>1, <1>2, <2>1 DEF OneAllocator, CcIdle
<1> QED BY <1>1, <1>6, <1>7, <1>8, CcFrame DEF Ownership

LEMMA CcDropStep ==
    ASSUME TypeOK, Ownership, CcDrop
    PROVE  Ownership'
<1>1. FreshCopies /\ OneAllocator
  BY DEF Ownership
<1>2. /\ UNCHANGED <<nc, nprr, npr, pending, cache, rlQ, rl, rq, cur, heap>>
      /\ cc.pc = "scan" /\ cc' = CcIdle
  BY <1>1 DEF CcDrop, OneAllocator, user, api, queues
<1>3. cc.add = {} /\ cc'.add = {} /\ cc'.gen = None /\ cc'.gone = {} /\ cc'.pc = "idle"
  BY <1>1, <1>2 DEF FreshCopies, CcIdle
<1>4. FreshCopies'
  BY <1>1, <1>2 DEF FreshCopies, CcIdle, NoList
<1> QED BY <1>2, <1>3, <1>4, CcLocal

LEMMA EditConfigStep ==
    ASSUME Calm, TypeOK, Ownership, EditConfig
    PROVE  Ownership'
<1>1. UNCHANGED <<nprr, npr, pending, cache, heap, cur, rlQ, rq, rl, cc>>
  BY DEF EditConfig, EnvStep, api, alloc
<1>2. FreshCopies /\ OneAllocator /\ SingleOwner
  BY DEF Ownership
<1>3. /\ nc' # None /\ nc.pool \subseteq nc'.pool
      /\ cc.pc = "ensure" => nc'.pool = nc.pool
  BY <1>2, CalmFacts, NoneFacts DEF EditConfig, MayBecome, OneAllocator
<1>4. OneAllocator'
  BY <1>1, <1>2, <1>3 DEF OneAllocator
<1>5. FreshCopies' /\ SingleOwner'
  BY ZenonT(60), <1>1, <1>2 DEF FreshCopies, SingleOwner, OwnedBy, InRq, InCc, FreeNow, RegNow
<1> QED BY <1>1, <1>4, <1>5, CcFrame DEF Ownership

-----------------------------------------------------------------------------
(***************************************************************************)
(* The theorems.                                                           *)
(***************************************************************************)
LEMMA OwnershipInit == Init => Ownership
<1> SUFFICES ASSUME Init PROVE Ownership
  OBVIOUS
<1>1. Len(pending) = 0 /\ \A p \in Pod : npr[p] = None /\ cache[p] = None
  BY DEF Init
<1>2. nc # None /\ cur = None /\ rq = RqIdle /\ rl = RlIdle /\ cc = CcIdle
  BY NoneFacts DEF Init
<1>3. OneAllocator
  BY <1>2 DEF OneAllocator, RqIdle, CcIdle
<1>4. Coherent
  BY SMTT(30), <1>1 DEF Coherent
<1>5. Dying
  BY <1>1, <1>2 DEF Dying, Stale, Deleting
<1>6. Release /\ FreshCopies
  BY <1>2 DEF Release, FreshCopies, RqIdle, RlIdle, CcIdle, NoList
<1>7. SingleOwner
  BY <1>1, <1>2 DEF SingleOwner, OwnedBy, InRq, InCc, FreeNow, RegNow, RqIdle, CcIdle
<1> QED BY <1>3, <1>4, <1>5, <1>6, <1>7 DEF Ownership

LEMMA OwnershipNext ==
    ASSUME Calm, TypeOK, Ownership, [Next]_vars
    PROVE  Ownership'
<1>1. CASE RqStep
  BY <1>1, RqEnsureStep, RqAllocatePodStep, RqResizeStep, RqGrowStep, RqCreateStep, RqUpdateStep,
     RqFreeStep DEF RqStep
<1>2. CASE RlStep
  <2>1. ~RlStamp
    BY DEF RlStamp, Ownership, Release
  <2> QED BY <1>2, <2>1, RlDeleteStep, RlReleaseStep, RlFinalizeStep DEF RlStep
<1>3. CASE CcStep
  <2>1. ~CcRemove
    BY DEF CcRemove, Ownership, OneAllocator
  <2> QED BY <1>3, <2>1, CcStartStep, CcEnsureStep, CcListStep, CcScanStep, CcExtendStep,
             CcUpdateStep, CcAbortStep, CcDropStep DEF CcStep
<1>4. CASE Deliver
  BY <1>4, DeliverStep
<1>5. CASE \E p \in Pod : RqStart(p) \/ RqStartGone(p) \/ RlStart(p)
  BY <1>5, RqStartStep, RqStartGoneStep, RlStartStep
<1>6. CASE \E p \in Pod : EditRequest(p) \/ DeleteNPR(p)
  <2>1. \A p \in Pod : ~DeleteNPR(p)
    BY CalmFacts DEF DeleteNPR
  <2> QED BY <1>6, <2>1, EditRequestStep
<1>7. CASE EditConfig \/ Resync \/ Restart
  <2>1. ~Resync
    BY CalmFacts DEF Resync
  <2> QED BY <1>7, <2>1, EditConfigStep, RestartStep
<1>8. CASE UNCHANGED vars
  <2>1. UNCHANGED <<nc, nprr, npr, pending, cache, heap, cur, rlQ, rq, rl, cc>>
    BY <1>8 DEF vars, user, api, alloc, queues
  <2>2. FreshCopies' /\ OneAllocator' /\ SingleOwner'
    BY <2>1, QuietOwners DEF Ownership
  <2> QED BY <2>1, <2>2, CcFrame DEF Ownership
<1> QED BY <1>1, <1>2, <1>3, <1>4, <1>5, <1>6, <1>7, <1>8 DEF Next

\* In a calm environment every slot has one owner: the allocator's free set, the
\* reconcile that took it, or the NPR that lists it.  This is the inductive
\* invariant of the three operator controllers.
THEOREM OwnershipHolds == Calm /\ Spec => []Ownership
<1>1. Calm /\ TypeOK /\ Ownership /\ [Next]_vars => Ownership'
  BY OwnershipNext
<1>2. Calm => (Init /\ [][Next]_vars => []Ownership)
  <2> SUFFICES ASSUME Calm PROVE Init /\ [][Next]_vars => []Ownership
    OBVIOUS
  <2>1. TypeOK /\ Ownership /\ [Next]_vars => Ownership'
    BY <1>1
  <2> QED BY <2>1, OwnershipInit, TypeCorrect, PTL DEF Spec
<1> QED BY <1>2 DEF Spec

\* In a calm environment no block is held by two pods at once (allocator.go:30,
\* README.md: "each port range belongs to at most one pod"), for any number of
\* pods, IPs, blocks and allocator generations and any lag of the cache.
THEOREM ExclusiveHolds == Calm /\ Spec => []Exclusive
<1>1. Ownership => Exclusive
  <2> SUFFICES ASSUME Ownership, NEW p \in Pod, NEW q \in Pod, p # q, Holds(p), Holds(q)
               PROVE  npr[p].allocs \cap npr[q].allocs = {}
    BY DEF Exclusive
  <2>1. ASSUME NEW r \in Pod, Holds(r) PROVE OwnedBy(r) = npr[r].allocs
    <3>1. ~(rl.pc = "finalize" /\ rl.pod = r)
      BY <2>1 DEF Ownership, Release, Dying, Holds, Exists, Stale, Deleting
    <3> QED BY <2>1, <3>1 DEF OwnedBy, Holds, Exists
  <2> QED BY <2>1 DEF Ownership, SingleOwner
<1> QED BY <1>1, OwnershipHolds, PTL

-----------------------------------------------------------------------------
(***************************************************************************)
(* The operator implements BlockLease.                                     *)
(***************************************************************************)
\* The lease each NPR stands for.
Leases == [p \in Pod |-> IF Holds(p) THEN [slots |-> npr[p].allocs, draining |-> npr[p].stale]
                         ELSE None]

LEMMA HeldIsOwned ==
    ASSUME Ownership, NEW p \in Pod, Holds(p)
    PROVE  OwnedBy(p) = npr[p].allocs
<1>1. ~(rl.pc = "finalize" /\ rl.pod = p)
  BY DEF Ownership, Release, Dying, Holds, Exists, Stale, Deleting
<1> QED BY <1>1 DEF OwnedBy, Holds, Exists

\* What a pod or a reconcile owns is not leased to another pod.
LEMMA OwnedIsNotTaken ==
    ASSUME Ownership, NEW p \in Pod, NEW S \in SUBSET (OwnedBy(p) \cup InRq \cup InCc)
    PROVE  S \cap Lease!Taken(p) = {}
<1> SUFFICES ASSUME NEW s \in S, NEW q \in Pod \ {p}, Holds(q), s \in npr[q].allocs
             PROVE  FALSE
  BY NoneFacts DEF Lease!Taken
<1>1. s \in OwnedBy(q)
  BY HeldIsOwned
<1> QED BY <1>1 DEF Ownership, SingleOwner

LEMMA LeaseIs ==
    ASSUME NEW p \in Pod, \A q \in Pod : q # p => npr'[q] = npr[q], NEW l,
           l = IF Holds(p)' THEN [slots |-> npr'[p].allocs, draining |-> npr'[p].stale] ELSE None
    PROVE  Lease!Set(p, l)
<1>1. \A q \in Pod : q # p => (Holds(q)' <=> Holds(q))
  BY DEF Holds, Exists
<1> QED BY <1>1 DEF Lease!Set

LEMMA LeaseSome ==
    ASSUME NEW o \in NPR
    PROVE  [slots |-> o.allocs, draining |-> o.stale] # None
<1> DEFINE l == [slots |-> o.allocs, draining |-> o.stale]
<1>1. l \in [slots : SUBSET Slot, draining : BOOLEAN]
  BY DEF NPR
<1> HIDE DEF l
<1>2. l # None
  BY <1>1, ConstantsAssumption
<1> QED BY <1>2 DEF l

\* A live NPR is written by a request or NATConfig reconcile.
LEMMA LiveWriteLease ==
    ASSUME TypeOK, Ownership, NEW p \in Pod, npr[p] # None, ~Stale(npr[p]),
           NEW o \in NPR, ~o.deleting, npr'[p] = o, \A q \in Pod : q # p => npr'[q] = npr[q],
           o.allocs \subseteq npr[p].allocs \cup InRq \cup InCc,
           o.stale => o.allocs = npr[p].allocs
    PROVE  Lease!Next
<1>1. Holds(p) /\ Holds(p)' /\ ~npr[p].stale /\ npr[p].stale \in BOOLEAN
  BY NoneFacts DEF Holds, Exists, Ownership, Dying, Stale, Deleting, TypeOK, NPR
<1>2. Lease!Set(p, [slots |-> o.allocs, draining |-> o.stale])
  BY <1>1, LeaseIs
<1>3. o.allocs \in SUBSET Slot /\ o.stale \in BOOLEAN
  BY DEF NPR
<1>4. [slots |-> npr[p].allocs, draining |-> npr[p].stale] # None
  BY LeaseSome DEF TypeOK
<1>5. CASE o.stale = TRUE
  <2>1. o.allocs = npr[p].allocs
    BY <1>5
  <2>2. Lease!Drain(p)
    BY <1>1, <1>2, <1>4, <1>5, <2>1 DEF Lease!Drain, Lease!Set
  <2> QED BY <2>2 DEF Lease!Next
<1>6. CASE o.stale = FALSE
  <2>1. o.allocs \cap Lease!Taken(p) = {}
    BY <1>1, HeldIsOwned, OwnedIsNotTaken
  <2>2. Lease!Adjust(p, o.allocs)
    BY <1>1, <1>2, <1>4, <1>6, <2>1 DEF Lease!Adjust
  <2> QED BY <1>3, <2>2 DEF Lease!Next
<1> QED BY <1>3, <1>5, <1>6

\* An NPR is created with blocks its reconcile has just taken.
LEMMA CreateLease ==
    ASSUME TypeOK, Ownership, NEW p \in Pod, npr[p] = None, NEW o \in NPR, ~o.stale, ~o.deleting,
           npr'[p] = o, \A q \in Pod : q # p => npr'[q] = npr[q], o.allocs \subseteq InRq
    PROVE  Lease!Next
<1>1. o # None /\ o.stale = FALSE /\ o.allocs \in SUBSET Slot
  BY NoneFacts DEF NPR
<1>2. Holds(p)' /\ ~Holds(p)
  BY <1>1 DEF Holds, Exists
<1>3. Lease!Set(p, [slots |-> o.allocs, draining |-> FALSE])
  BY <1>1, <1>2, LeaseIs
<1>4. o.allocs \cap Lease!Taken(p) = {}
  BY OwnedIsNotTaken
<1>5. Lease!Grant(p, o.allocs)
  BY <1>2, <1>3, <1>4 DEF Lease!Grant
<1> QED BY <1>1, <1>5 DEF Lease!Next

\* A stale NPR is deleted.
LEMMA DeleteLease ==
    ASSUME TypeOK, NEW p \in Pod, npr[p] # None, ~npr[p].deleting, npr[p].stale,
           npr'[p] = [npr[p] EXCEPT !.deleting = TRUE], \A q \in Pod : q # p => npr'[q] = npr[q]
    PROVE  Lease!Next
<1>1. npr[p] \in NPR /\ Holds(p)
  BY DEF TypeOK, Holds, Exists
<1>2. npr'[p].deleting /\ npr'[p].stale
  BY <1>1 DEF NPR
<1>3. ~Holds(p)'
  BY <1>2 DEF Holds, Exists
<1>4. Lease!Set(p, None)
  BY <1>3, LeaseIs
<1>5. [slots |-> npr[p].allocs, draining |-> npr[p].stale] # None
  BY <1>1, LeaseSome
<1>6. Lease!End(p)
  BY <1>1, <1>4, <1>5 DEF Lease!End
<1> QED BY <1>6 DEF Lease!Next

\* Every write of an NPR, in a calm environment.
LEMMA LeaseStep ==
    ASSUME Calm, TypeOK, Ownership, [Next]_vars
    PROVE  Lease!Next \/ UNCHANGED Leases
<1>0. FreshCopies /\ Dying /\ Release
  BY DEF Ownership
<1>1. ASSUME npr' = npr PROVE UNCHANGED Leases
  BY <1>1 DEF Leases, Holds, Exists
<1>2. CASE RqCreate
  <2>1. CASE UNCHANGED api
    BY <1>1, <2>1 DEF api
  <2>2. CASE npr[rq.pod] = None /\ Store(rq.pod, rq.new)
    <3> DEFINE p == rq.pod
               o == rq.new
    <3>1. /\ p \in Pod /\ o \in NPR /\ o # None /\ o.allocs = rq.add /\ o.stale = FALSE /\ ~o.deleting
          /\ InRq = rq.add
      BY <1>0, <1>2, NoneFacts DEF RqCreate, TypeOK, RqState, FreshCopies, NPR, InRq
    <3>2. npr'[p] = o /\ \A q \in Pod : q # p => npr'[q] = npr[q]
      BY <2>2, <3>1 DEF Store, TypeOK
    <3> HIDE DEF p, o
    <3> QED BY <2>2, <3>1, <3>2, CreateLease DEF p
  <2> QED BY <1>2, <2>1, <2>2, CalmFails DEF RqCreate
<1>3. CASE RqUpdate
  <2>1. CASE UNCHANGED api
    BY <1>1, <2>1 DEF api
  <2>2. CASE rq.fresh /\ Store(rq.pod, rq.new)
    <3> DEFINE p == rq.pod
               o == rq.new
    <3>1. /\ p \in Pod /\ o \in NPR /\ npr[p] # None /\ ~Stale(npr[p]) /\ ~o.deleting
          /\ o.allocs \subseteq npr[p].allocs \cup rq.add /\ InRq = rq.add
          /\ o.stale => o.allocs = npr[p].allocs
      BY <1>0, <1>3, <2>2 DEF RqUpdate, TypeOK, RqState, FreshCopies, InRq
    <3>2. npr'[p] = o /\ \A q \in Pod : q # p => npr'[q] = npr[q]
      BY <2>2, <3>1 DEF Store, TypeOK
    <3> HIDE DEF p, o
    <3> QED BY <3>1, <3>2, LiveWriteLease
  <2> QED BY SMTT(30), <1>3, <2>1, <2>2, CalmCall DEF RqUpdate
<1>4. CASE CcUpdate
  <2>1. CASE UNCHANGED api
    BY <1>1, <2>1 DEF api
  <2>2. CASE cc.pod \in cc.fresh /\ Store(cc.pod, cc.new)
    <3> DEFINE p == cc.pod
               o == cc.new
    <3>1. /\ p \in Pod /\ o \in NPR /\ npr[p] # None /\ ~Stale(npr[p]) /\ ~o.deleting /\ ~o.stale
          /\ o.allocs \subseteq npr[p].allocs \cup cc.add /\ InCc = cc.add
      BY <1>0, <1>4, <2>2, NoneFacts DEF CcUpdate, TypeOK, CcState, FreshCopies, InCc, Stale
    <3>2. npr'[p] = o /\ \A q \in Pod : q # p => npr'[q] = npr[q]
      BY <2>2, <3>1 DEF Store, TypeOK
    <3> HIDE DEF p, o
    <3> QED BY <3>1, <3>2, LiveWriteLease
  <2> QED BY <1>4, <2>1, <2>2, CalmCall DEF CcUpdate
<1>5. CASE RlDelete
  <2>1. CASE UNCHANGED api
    BY <1>1, <2>1 DEF api
  <2>2. CASE /\ npr[rl.pod] # None /\ ~npr[rl.pod].deleting
             /\ Store(rl.pod, [npr[rl.pod] EXCEPT !.deleting = TRUE])
    <3> DEFINE p == rl.pod
    <3>1. p \in Pod /\ npr[p] \in NPR /\ npr[p].stale
      BY <1>0, <1>5, <2>2 DEF RlDelete, TypeOK, RlState, Release, Stale
    <3>2. npr'[p] = [npr[p] EXCEPT !.deleting = TRUE] /\ \A q \in Pod : q # p => npr'[q] = npr[q]
      BY <2>2, <3>1 DEF Store, TypeOK
    <3> HIDE DEF p
    <3> QED BY <2>2, <3>1, <3>2, DeleteLease DEF p
  <2> QED BY <1>5, <2>1, <2>2, CalmCall DEF RlDelete
<1>6. CASE RlFinalize
  <2>1. CASE UNCHANGED api
    BY <1>1, <2>1 DEF api
  <2>2. CASE Store(rl.pod, None)
    <3>1. PICK p \in Pod : p = rl.pod
      BY <1>6 DEF RlFinalize, TypeOK, RlState
    <3>2. ~Holds(p)
      BY <1>0, <1>6, <3>1 DEF RlFinalize, Release, Dying, Stale, Deleting, Holds, Exists
    <3>3. npr'[p] = None /\ \A q \in Pod : q # p => npr'[q] = npr[q]
      BY <2>2, <3>1 DEF Store, TypeOK
    <3>4. \A q \in Pod : Holds(q)' <=> Holds(q)
      BY <3>2, <3>3 DEF Holds, Exists
    <3>5. UNCHANGED Leases
      BY <3>2, <3>3, <3>4 DEF Leases
    <3> QED BY <3>5
  <2> QED BY <1>6, <2>1, <2>2, CalmCall DEF RlFinalize
<1>7. CASE RqEnsure \/ RqAllocatePod \/ RqResize \/ (\E ip \in IP : RqGrow(ip)) \/ RqFree
  BY <1>1, <1>7 DEF RqEnsure, RqAllocatePod, RqResize, RqGrow, RqFree, api
<1>8. CASE RlStamp \/ RlRelease
  BY <1>0, <1>1, <1>8 DEF RlStamp, RlRelease, Release, api
<1>9. CASE CcStart \/ CcRemove \/ CcEnsure \/ CcList \/ (\E p \in Pod : CcScan(p))
           \/ (\E ip \in IP : CcExtend(ip)) \/ CcAbort \/ CcDrop
  BY <1>1, <1>9 DEF CcStart, CcRemove, CcEnsure, CcList, CcScan, CcExtend, CcAbort, CcDrop, api
<1>10. CASE Deliver \/ \E p \in Pod : RqStart(p) \/ RqStartGone(p) \/ RlStart(p)
  BY <1>1, <1>10 DEF Deliver, RqStart, RqStartGone, RlStart, api
<1>11. CASE \E p \in Pod : EditRequest(p) \/ DeleteNPR(p)
  BY <1>1, <1>11, CalmFacts DEF EditRequest, DeleteNPR, api
<1>12. CASE EditConfig \/ Resync \/ Restart
  BY <1>1, <1>12 DEF EditConfig, Resync, Restart, api
<1>13. CASE UNCHANGED vars
  BY <1>1, <1>13 DEF vars, api
<1> QED BY <1>2, <1>3, <1>4, <1>5, <1>6, <1>7, <1>8, <1>9, <1>10, <1>11, <1>12, <1>13
        DEF Next, RqStep, RlStep, CcStep

\* In a calm environment the operator implements the block leases: blocks pass
\* from one pod to another only through a lease that has been drained and
\* ended, and a stale NPR keeps the allocations the daemons are cleaning up.
THEOREM LeaseHolds == Calm => (Spec => LeaseSpec)
<1> SUFFICES ASSUME Calm PROVE Spec => LeaseSpec
  OBVIOUS
<1>1. Init => Lease!Init
  BY DEF Init, Lease!Init, Holds, Exists
<1>2. TypeOK /\ Ownership /\ [Next]_vars => Lease!Next \/ UNCHANGED Leases
  BY LeaseStep
<1>3. Spec => []TypeOK
  BY TypeCorrect
<1>4. Spec => []Ownership
  BY OwnershipHolds
<1> QED BY <1>1, <1>2, <1>3, <1>4, PTL DEF Spec, LeaseSpec, Lease!Spec, Leases
=============================================================================
