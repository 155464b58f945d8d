------------------------- MODULE OperatorRestProof --------------------------
(***************************************************************************)
(* The operator while the pool stays as it is: no block is lost, and every *)
(* request is served.                                                      *)
(***************************************************************************)
EXTENDS OperatorProof, FiniteSetTheorems

\* Zenon first: it needs no translation of the definitions, which is what costs here.
USE ZenonT(10), SMTT(30)

-----------------------------------------------------------------------------
(***************************************************************************)
(* While the pool stays as it is, no block is lost.                        *)
(***************************************************************************)
Steady == Env \subseteq SteadyEvents

LEMMA SteadyIsCalm == Steady => Calm /\ "grow" \notin Env
BY DEF Steady, SteadyEvents, Calm

LEMMA OwnedSame ==
    ASSUME UNCHANGED <<npr, rl>>
    PROVE  \A p \in Pod : OwnedBy(p)' = OwnedBy(p)
BY DEF OwnedBy

\* Slots change hands but stay with someone.
LEMMA LosslessMove ==
    ASSUME Lossless, RegNow' = RegNow, UNCHANGED <<npr, rl>>,
           FreeNow \cup InRq \cup InCc \subseteq FreeNow' \cup InRq' \cup InCc'
    PROVE  Lossless'
BY OwnedSame DEF Lossless, Owned

LEMMA LosslessEnsure ==
    ASSUME Lossless, UNCHANGED <<npr, rl>>, NEW P, RegNow' = RegNow \cup P,
           FreeNow' = FreeNow \cup ((P \ RegNow) \X Block), InRq' = InRq, InCc' = InCc
    PROVE  Lossless'
<1> SUFFICES ASSUME NEW s \in (RegNow \cup P) \X Block PROVE Owned(s)'
  BY DEF Lossless
<1>1. s \in RegNow \X Block \/ s \in (P \ RegNow) \X Block
  OBVIOUS
<1> QED BY ZenonT(60), <1>1, OwnedSame DEF Lossless, Owned

\* One NPR is written.
LEMMA LosslessWrite ==
    ASSUME Lossless, RegNow' = RegNow, FreeNow' = FreeNow, NEW p \in Pod,
           \A q \in Pod \ {p} : OwnedBy(q) \subseteq OwnedBy(q)',
           OwnedBy(p) \cup InRq \cup InCc \subseteq OwnedBy(p)' \cup InRq' \cup InCc'
    PROVE  Lossless'
<1> SUFFICES ASSUME NEW s \in RegNow \X Block PROVE Owned(s)'
  BY DEF Lossless
<1>1. Owned(s)
  BY DEF Lossless
<1>2. CASE s \in FreeNow
  BY <1>2 DEF Owned
<1>3. CASE s \in OwnedBy(p) \cup InRq \cup InCc
  BY <1>3 DEF Owned
<1>4. ASSUME NEW q \in Pod \ {p}, s \in OwnedBy(q) PROVE Owned(s)'
  BY <1>4 DEF Owned
<1> QED BY <1>1, <1>2, <1>3, <1>4 DEF Owned

LEMMA PoolSlots ==
    ASSUME TypeOK, Ownership, NEW p \in Pod, npr[p] # None, ~Stale(npr[p])
    PROVE  \A s \in npr[p].allocs : s[1] \in nc.pool
<1>1. OwnedBy(p) = npr[p].allocs
  BY DEF Ownership, Release, Dying, OwnedBy, Stale, Deleting
<1>2. RegNow \subseteq nc.pool
  BY DEF Ownership, OneAllocator, RegNow
<1>3. \A s \in RegNow \X Block : s[1] \in RegNow
  OBVIOUS
<1> QED BY <1>1, <1>2, <1>3 DEF Ownership, SingleOwner

-----------------------------------------------------------------------------
(***************************************************************************)
(* The request controller.                                                 *)
(***************************************************************************)
LEMMA AccountRqStart ==
    ASSUME TypeOK, Ownership, Account, NEW p \in Pod, RqStart(p) \/ RqStartGone(p)
    PROVE  Account'
<1>1. UNCHANGED <<nc, npr, pending, cache, heap, cur, rl, cc>> /\ rq = RqIdle
  BY DEF RqStart, RqStartGone, user, api, alloc, Ownership, FreshCopies
<1>2. /\ rq'.add = {} /\ rq'.give = {} /\ rq'.conf \in {None, nc}
      /\ rq'.pc \in {"idle", "ensure"} \/
            (/\ rq'.pc = "update" /\ rq'.pod = p /\ rq'.fresh = CacheIsFresh(p) /\ cache[p] # None
             /\ rq'.new = [cache[p] EXCEPT !.stale = TRUE])
  <2>1. CASE RqStart(p)
    BY <2>1 DEF RqStart, RqIdle
  <2>2. CASE rq' = RqIdle
    BY <2>2 DEF RqIdle
  <2>3. CASE RqStartGone(p) /\ cache[p] # None /\ rq' # RqIdle
    <3>1. rq' = [RqIdle EXCEPT !.pc = "update", !.pod = p, !.fresh = CacheIsFresh(p),
                               !.new = [cache[p] EXCEPT !.stale = TRUE]]
      BY <2>3 DEF RqStartGone
    <3> QED BY <2>3, <3>1 DEF RqIdle
  <2> QED BY <2>1, <2>2, <2>3 DEF RqStartGone
<1>3. InRq = {} /\ InRq' = {} /\ InCc' = InCc /\ FreeNow' = FreeNow /\ RegNow' = RegNow
  BY <1>1, <1>2 DEF InRq, InCc, FreeNow, RegNow, RqIdle
<1>4. RqKeeps'
  <2> SUFFICES ASSUME rq'.pc = "update", rq'.fresh PROVE npr[rq'.pod].allocs \subseteq rq'.new.allocs
    BY <1>1, <1>2 DEF RqKeeps
  <2>1. rq'.pod = p /\ npr[p] = cache[p] /\ cache[p] \in NPR
    BY <1>2 DEF Ownership, Coherent, TypeOK
  <2>2. rq'.new.allocs = cache[p].allocs
    BY <1>2, <2>1 DEF NPR
  <2> QED BY <2>1, <2>2
<1>5. OnePool' /\ CcKeeps'
  BY <1>1, <1>2 DEF Account, OnePool, CcKeeps
<1>6. Lossless'
  BY <1>1, <1>3, LosslessMove DEF Account
<1> QED BY <1>4, <1>5, <1>6 DEF Account

LEMMA AccountRqEnsure ==
    ASSUME TypeOK, Ownership, Account, RqEnsure
    PROVE  Account'
<1>1. UNCHANGED <<nc, npr, rl, cc>> /\ rq.pc = "ensure" /\ EnsureAllocator(rq.conf)
  BY DEF RqEnsure, user, api, queues
<1>2. /\ rq'.pc = "decide" /\ rq'.conf = rq.conf /\ rq'.add = rq.add /\ rq'.give = rq.give
      /\ rq.conf \in Configs
  BY <1>1 DEF RqEnsure, TypeOK, RqState
<1>3. /\ RegNow' = RegNow \cup rq.conf.pool
      /\ FreeNow' = FreeNow \cup ((rq.conf.pool \ RegNow) \X Block)
  BY <1>1, <1>2, EnsureOwner
<1>4. InRq' = InRq /\ InCc' = InCc
  BY <1>1, <1>2 DEF InRq, InCc
<1>5. OnePool' /\ RqKeeps' /\ CcKeeps'
  BY <1>1, <1>2 DEF Account, OnePool, RqKeeps, CcKeeps
<1>6. Lossless'
  BY <1>1, <1>3, <1>4, LosslessEnsure DEF Account
<1> QED BY <1>5, <1>6 DEF Account

LEMMA AccountRqAllocatePod ==
    ASSUME TypeOK, Ownership, Account, RqAllocatePod
    PROVE  Account'
<1>1. UNCHANGED <<nc, npr, rl, cc, cur>> /\ rq.pc = "decide"
  BY DEF RqAllocatePod, user, api
<1>2. rq.gen = cur /\ cur \in Gen /\ cur # None /\ rq.add = {} /\ rq.give = {}
  BY <1>1, NoneFacts DEF TypeOK, RqState, Ownership, OneAllocator, FreshCopies
<1>3. CASE rq' = RqIdle /\ heap' = heap
  <2>1. rq'.pc = "idle" /\ rq'.conf = None
    BY <1>3 DEF RqIdle
  <2>2. InRq = {} /\ InCc' = InCc /\ FreeNow' = FreeNow /\ RegNow' = RegNow
    BY <1>1, <1>2, <1>3 DEF InRq, InCc, FreeNow, RegNow
  <2>3. Lossless'
    BY <1>1, <2>2, LosslessMove DEF Account
  <2> QED BY <1>1, <2>1, <2>3 DEF Account, OnePool, RqKeeps, CcKeeps
<1>4. ASSUME NEW S \in PicksForPod(heap[rq.gen], rq.conf.pool, rq.want, Exclude[rq.pod]),
             heap' = [heap EXCEPT ![rq.gen] = Allocate(@, S)],
             rq' = [rq EXCEPT !.pc = "create", !.add = S,
                        !.new = [allocs |-> S, count |-> rq.want, target |-> rq.conf.target,
                                 stale |-> FALSE, deleting |-> FALSE]]
      PROVE  Account'
  <2>1. S \subseteq FreeNow
    <3>1. heap[rq.gen] \in Allocator
      BY <1>2 DEF TypeOK
    <3>2. S \subseteq heap[rq.gen].free
      BY SMTT(30), <3>1, PodPicks
    <3> QED BY <1>2, <3>2 DEF FreeNow
  <2>2. FreeNow' = FreeNow \ S /\ RegNow' = RegNow
    BY <1>1, <1>2, <1>4, <2>1, AllocateOwner
  <2>3. rq'.pc = "create" /\ rq'.conf = rq.conf /\ rq'.add = S
    BY <1>4 DEF TypeOK, RqState
  <2>4. InRq = {} /\ InRq' = S /\ InCc' = InCc
    BY <1>1, <1>2, <2>3 DEF InRq, InCc
  <2>5. Lossless'
    BY <1>1, <2>2, <2>4, LosslessMove DEF Account
  <2> QED BY <1>1, <2>3, <2>5 DEF Account, OnePool, RqKeeps, CcKeeps
<1> QED BY <1>3, <1>4 DEF RqAllocatePod

LEMMA AccountRqResize ==
    ASSUME TypeOK, Ownership, Account, RqResize
    PROVE  Account'
<1> DEFINE p == rq.pod
           o == cache[p]
           inPool == {s \in o.allocs : s[1] \in rq.conf.pool}
           keep == Lowest(inPool, rq.want)
<1>1. UNCHANGED <<nc, npr, pending, cache, rl, cc, heap, cur>> /\ rq.pc = "decide" /\ o # None
  BY DEF RqResize, user, api, alloc
<1>2. rq.add = {} /\ rq.give = {} /\ p \in Pod /\ o \in NPR /\ rq.conf # None
  BY <1>1, NoneFacts DEF TypeOK, RqState, Ownership, FreshCopies
<1>3. ASSUME CacheIsFresh(p) PROVE npr[p] = o /\ \A s \in o.allocs : s \in inPool
  <2>1. npr[p] = o /\ ~Stale(npr[p])
    BY <1>1, <1>2, <1>3 DEF Ownership, Coherent, Dying
  <2>2. \A s \in o.allocs : s[1] \in nc.pool
    BY <1>1, <1>2, <2>1, PoolSlots
  <2> QED BY <1>2, <2>1, <2>2 DEF Account, OnePool
<1>4. ASSUME rq'.conf \in {None, rq.conf}, InRq' = {}, RqKeeps' PROVE Account'
  <2>1. InRq = {} /\ InCc' = InCc /\ FreeNow' = FreeNow /\ RegNow' = RegNow
    BY <1>1, <1>2 DEF InRq, InCc, FreeNow, RegNow
  <2>2. Lossless'
    BY <1>1, <1>4, <2>1, LosslessMove DEF Account
  <2> QED BY <1>1, <1>4, <2>2 DEF Account, OnePool, CcKeeps
<1>5. CASE rq' = RqIdle
  <2>1. rq'.conf = None /\ InRq' = {} /\ RqKeeps'
    BY <1>5 DEF RqIdle, InRq, RqKeeps
  <2> QED BY <1>4, <2>1
<1>6. CASE rq' = [rq EXCEPT !.pc = IF rq.conf.pool = {} THEN "update" ELSE "grow",
                            !.fresh = CacheIsFresh(p), !.new = [o EXCEPT !.count = rq.want],
                            !.todo = rq.conf.pool, !.delta = rq.want - o.count]
  <2>1. /\ rq'.pc \in {"update", "grow"} /\ rq'.pod = p /\ rq'.fresh = CacheIsFresh(p)
        /\ rq'.conf = rq.conf /\ rq'.add = {} /\ rq'.give = {}
        /\ rq'.new = [o EXCEPT !.count = rq.want]
    BY <1>2, <1>6 DEF TypeOK, RqState
  <2>2. rq'.new.allocs = o.allocs
    BY <1>2, <2>1 DEF NPR
  <2>3. InRq' = {} /\ RqKeeps'
    BY <1>1, <1>3, <2>1, <2>2 DEF InRq, RqKeeps
  <2> QED BY <1>4, <2>1, <2>3
<1>7. CASE rq' = [rq EXCEPT !.pc = "update", !.fresh = CacheIsFresh(p),
                            !.new = [o EXCEPT !.count = rq.want, !.allocs = keep],
                            !.give = inPool \ keep]
  <2>1. /\ rq'.pc = "update" /\ rq'.pod = p /\ rq'.fresh = CacheIsFresh(p)
        /\ rq'.conf = rq.conf /\ rq'.add = {} /\ rq'.give = inPool \ keep
        /\ rq'.new = [o EXCEPT !.count = rq.want, !.allocs = keep]
    BY <1>2, <1>7 DEF TypeOK, RqState
  <2>2. rq'.new.allocs = keep
    BY <1>2, <2>1 DEF NPR
  <2>3. CacheIsFresh(p) => o.allocs \subseteq keep \cup (inPool \ keep)
    BY <1>3
  <2> HIDE DEF keep, inPool
  <2>4. InRq' = {} /\ RqKeeps'
    BY <1>1, <1>3, <2>1, <2>2, <2>3 DEF InRq, RqKeeps
  <2> QED BY <1>4, <2>1, <2>4
<1> QED BY <1>5, <1>6, <1>7 DEF RqResize

LEMMA AccountRqGrow ==
    ASSUME TypeOK, Ownership, Account, NEW ip, RqGrow(ip)
    PROVE  Account'
<1>1. UNCHANGED <<nc, npr, rl, cc, cur>> /\ rq.pc = "grow"
  BY DEF RqGrow, user, api
<1>2. rq.gen = cur /\ cur \in Gen /\ cur # None /\ rq.give = {} /\ rq.new \in NPR
  BY <1>1, NoneFacts DEF TypeOK, RqState, Ownership, OneAllocator, FreshCopies
<1>3. CASE rq' = [rq EXCEPT !.pc = "free", !.give = rq.add] /\ heap' = heap
  <2>1. rq'.pc = "free" /\ rq'.conf = rq.conf /\ rq'.give = rq.add
    BY <1>3 DEF TypeOK, RqState
  <2>2. InRq' = InRq /\ InCc' = InCc /\ FreeNow' = FreeNow /\ RegNow' = RegNow
    BY <1>1, <1>3, <2>1 DEF InRq, InCc, FreeNow, RegNow
  <2>3. Lossless'
    BY <1>1, <2>2, LosslessMove DEF Account
  <2> QED BY <1>1, <2>1, <2>3 DEF Account, OnePool, RqKeeps, CcKeeps
<1>4. ASSUME NEW S \in PicksForIP(heap[rq.gen], ip, rq.delta, Unusable(rq.pod, rq.new.allocs)),
             heap' = [heap EXCEPT ![rq.gen] = Allocate(@, S)],
             rq' = [rq EXCEPT !.pc = IF rq.todo = {ip} THEN "update" ELSE "grow",
                              !.todo = rq.todo \ {ip}, !.add = rq.add \cup S,
                              !.new = [rq.new EXCEPT !.allocs = @ \cup S]]
      PROVE  Account'
  <2>1. S \subseteq FreeNow
    <3>1. heap[rq.gen] \in Allocator
      BY <1>2 DEF TypeOK
    <3>2. S \subseteq heap[rq.gen].free
      BY SMTT(30), <3>1, IPPicks
    <3> QED BY <1>2, <3>2 DEF FreeNow
  <2>2. FreeNow' = FreeNow \ S /\ RegNow' = RegNow
    BY <1>1, <1>2, <1>4, <2>1, AllocateOwner
  <2>3. /\ rq'.pc \in {"update", "grow"} /\ rq'.pod = rq.pod /\ rq'.fresh = rq.fresh
        /\ rq'.conf = rq.conf /\ rq'.add = rq.add \cup S /\ rq'.give = rq.give
        /\ rq'.new = [rq.new EXCEPT !.allocs = @ \cup S]
    BY <1>4 DEF TypeOK, RqState
  <2>4. rq'.new.allocs = rq.new.allocs \cup S
    BY <1>2, <2>3 DEF NPR
  <2>5. InRq' = InRq \cup S /\ InCc' = InCc
    BY <1>1, <2>3 DEF InRq, InCc
  <2>6. Lossless'
    BY <1>1, <2>2, <2>5, LosslessMove DEF Account
  <2>7. RqKeeps'
    BY <1>1, <2>3, <2>4 DEF Account, RqKeeps
  <2> QED BY <1>1, <2>3, <2>6, <2>7 DEF Account, OnePool, CcKeeps
<1> QED BY <1>3, <1>4 DEF RqGrow

LEMMA AccountRqFree ==
    ASSUME TypeOK, Ownership, Account, RqFree
    PROVE  Account'
<1>1. /\ UNCHANGED <<nc, npr, rl, cc, cur>> /\ rq.pc = "free"
      /\ rq' = RqIdle /\ heap' = [heap EXCEPT ![rq.gen] = Free(@, rq.give)]
  BY DEF RqFree, user, api
<1>2. rq.gen = cur /\ cur \in Gen
  BY <1>1, NoneFacts DEF TypeOK, RqState, Ownership, OneAllocator
<1>3. InRq = rq.give /\ InCc' = InCc /\ rq'.pc = "idle" /\ rq'.conf = None
  BY <1>1 DEF InRq, InCc, RqIdle
<1>4. FreeNow' = FreeNow \cup InRq /\ RegNow' = RegNow
  <2>1. rq.give \subseteq RegNow \X Block
    BY <1>3 DEF Ownership, SingleOwner
  <2> QED BY <1>1, <1>2, <1>3, <2>1, FreeOwner
<1>5. Lossless'
  BY <1>1, <1>3, <1>4, LosslessMove DEF Account
<1> QED BY <1>1, <1>3, <1>5 DEF Account, OnePool, RqKeeps, CcKeeps

\* What follows an API call of the request controller that wrote o, or nothing.
LEMMA AccountRqAfter ==
    ASSUME TypeOK, Account, NEW ok, NEW retry, RqAfterCall(ok, retry), NEW p \in Pod, p = rq.pod
    PROVE  /\ OnePool' /\ RqKeeps' /\ CcKeeps' /\ InCc' = InCc /\ FreeNow' = FreeNow /\ RegNow' = RegNow
           /\ InRq' = IF ok THEN rq.give ELSE rq.add
           /\ rl'.pc = rl.pc /\ rl'.pod = rl.pod /\ (npr' = npr => rl' = rl)
<1> DEFINE give == IF ok THEN rq.give ELSE rq.add
<1>1. /\ rq'.pc \in {"idle", "free"} /\ rq'.conf \in {None, rq.conf} /\ InRq' = give
      /\ UNCHANGED <<nc, nprr, cache, heap, cur, rlQ>>
      /\ rl' = Spoil(rl, p) /\ cc' = SpoilList(p)
  <2> HIDE DEF give
  <2> QED BY SMTT(30), RqAfter DEF give
<1>2. /\ cc'.pc = cc.pc /\ cc'.pod = cc.pod /\ cc'.new = cc.new
      /\ cc'.conf = cc.conf /\ cc'.add = cc.add /\ cc'.list = cc.list /\ cc'.fresh \subseteq cc.fresh
  BY <1>1, SpoilCc
<1>3. OnePool' /\ RqKeeps' /\ CcKeeps'
  BY <1>1, <1>2 DEF Account, OnePool, RqKeeps, CcKeeps
<1>4. InCc' = InCc /\ FreeNow' = FreeNow /\ RegNow' = RegNow
  BY <1>1, <1>2 DEF InCc, FreeNow, RegNow
<1>5. rl'.pc = rl.pc /\ rl'.pod = rl.pod /\ (npr' = npr => rl' = rl)
  BY <1>1, SpoilRl DEF Spoil
<1> QED BY <1>1, <1>3, <1>4, <1>5

LEMMA AccountRqFailed ==
    ASSUME TypeOK, Ownership, Account, rq.pc \in {"create", "update"}, UNCHANGED api,
           NEW retry, RqAfterCall(FALSE, retry)
    PROVE  Account'
<1>1. PICK p \in Pod : p = rq.pod
  BY DEF TypeOK, RqState
<1>2. npr' = npr /\ InRq = rq.add
  BY DEF api, InRq
<1>3. /\ OnePool' /\ RqKeeps' /\ CcKeeps' /\ InCc' = InCc /\ FreeNow' = FreeNow /\ RegNow' = RegNow
      /\ InRq' = InRq /\ rl' = rl
  BY <1>1, <1>2, AccountRqAfter
<1>4. Lossless'
  BY <1>2, <1>3, LosslessMove DEF Account
<1> QED BY <1>3, <1>4 DEF Account

LEMMA AccountRqCreate ==
    ASSUME Calm, TypeOK, Ownership, Account, RqCreate
    PROVE  Account'
<1>1. CASE npr[rq.pod] = None /\ Store(rq.pod, rq.new) /\ RqAfterCall(TRUE, FALSE)
  <2>1. PICK p \in Pod : p = rq.pod
    BY DEF RqCreate, TypeOK, RqState
  <2>2. /\ OnePool' /\ RqKeeps' /\ CcKeeps' /\ InCc' = InCc /\ FreeNow' = FreeNow /\ RegNow' = RegNow
        /\ rl'.pc = rl.pc /\ rl'.pod = rl.pod
    BY <1>1, <2>1, AccountRqAfter
  <2>3. npr'[p] = rq.new /\ rq.new # None /\ \A q \in Pod : q # p => npr'[q] = npr[q]
    BY <1>1, <2>1 DEF Store, TypeOK, RqCreate
  <2>4. ~(rl.pc = "finalize" /\ rl.pod = p)
    BY <1>1, <2>1 DEF Ownership, Release, Deleting
  <2>5. /\ OwnedBy(p) = {} /\ OwnedBy(p)' = rq.new.allocs
        /\ \A q \in Pod \ {p} : OwnedBy(q)' = OwnedBy(q)
    BY <1>1, <2>1, <2>2, <2>3, <2>4 DEF OwnedBy
  <2>6. InRq = rq.new.allocs
    BY DEF RqCreate, InRq, Ownership, FreshCopies
  <2>7. Lossless'
    BY <2>2, <2>5, <2>6, LosslessWrite DEF Account
  <2> QED BY <2>2, <2>7 DEF Account
<1>2. CASE npr[rq.pod] # None /\ UNCHANGED api /\ RqAfterCall(FALSE, FALSE)
  BY <1>2, AccountRqFailed DEF RqCreate
<1>3. CASE Fails(npr[rq.pod] = None, rq.pod, rq.new, "api_error") /\ RqAfterCall(FALSE, TRUE)
  BY <1>3, AccountRqFailed, CalmFails DEF RqCreate
<1> QED BY <1>1, <1>2, <1>3 DEF RqCreate

LEMMA AccountRqUpdate ==
    ASSUME Calm, TypeOK, Ownership, Account, RqUpdate
    PROVE  Account'
<1>1. PICK ok \in BOOLEAN : /\ Call(rq.fresh, rq.pod, rq.new, "api_error", ok)
                            /\ RqAfterCall(ok, ~ok)
  BY DEF RqUpdate
<1>2. CASE ok = TRUE
  <2>1. rq.fresh /\ Store(rq.pod, rq.new)
    BY <1>1, <1>2, CalmCall
  <2>2. PICK p \in Pod : p = rq.pod
    BY DEF RqUpdate, TypeOK, RqState
  <2>3. /\ OnePool' /\ RqKeeps' /\ CcKeeps' /\ InCc' = InCc /\ FreeNow' = FreeNow /\ RegNow' = RegNow
        /\ InRq' = rq.give /\ rl'.pc = rl.pc /\ rl'.pod = rl.pod
    BY <1>1, <1>2, <2>2, AccountRqAfter
  <2>4. npr'[p] = rq.new /\ rq.new # None /\ \A q \in Pod : q # p => npr'[q] = npr[q]
    BY <2>1, <2>2 DEF Store, TypeOK, RqUpdate
  <2>5. npr[p] # None /\ ~(rl.pc = "finalize" /\ rl.pod = p)
    BY <2>1, <2>2 DEF RqUpdate, Ownership, FreshCopies, Dying, Release
  <2>6. /\ OwnedBy(p) = npr[p].allocs /\ OwnedBy(p)' = rq.new.allocs
        /\ \A q \in Pod \ {p} : OwnedBy(q)' = OwnedBy(q)
    BY <2>2, <2>3, <2>4, <2>5 DEF OwnedBy
  <2>7. InRq = rq.add /\ npr[p].allocs \cup rq.add \subseteq rq.new.allocs \cup rq.give
    BY <2>1, <2>2 DEF RqUpdate, InRq, Account, RqKeeps
  <2>8. Lossless'
    BY <2>3, <2>6, <2>7, LosslessWrite DEF Account
  <2> QED BY <2>3, <2>8 DEF Account
<1>3. CASE ok = FALSE
  <2>1. UNCHANGED api /\ RqAfterCall(FALSE, TRUE)
    BY <1>1, <1>3, CalmCall
  <2> QED BY <2>1, AccountRqFailed DEF RqUpdate
<1> QED BY <1>2, <1>3

-----------------------------------------------------------------------------
(***************************************************************************)
(* The NATPortRange controller.                                            *)
(***************************************************************************)
LEMMA AccountRlAfter ==
    ASSUME TypeOK, Ownership, Account, NEW retry, RlAfterCall(retry), NEW p \in Pod, p = rl.pod,
           \A q \in Pod : q # p => npr'[q] = npr[q]
    PROVE  /\ OnePool' /\ RqKeeps' /\ CcKeeps' /\ InRq' = InRq /\ InCc' = InCc
           /\ FreeNow' = FreeNow /\ RegNow' = RegNow /\ rl'.pc = "idle"
<1>1. /\ rl'.pc = "idle" /\ UNCHANGED <<nc, nprr, cache, heap, cur>>
      /\ rq'.pc = rq.pc /\ rq'.pod = rq.pod /\ rq'.new = rq.new
      /\ rq'.conf = rq.conf /\ rq'.add = rq.add /\ rq'.give = rq.give
      /\ rq'.fresh => rq.fresh /\ (rq.pod # p \/ npr'[p] = npr[p])
      /\ cc'.pc = cc.pc /\ cc'.pod = cc.pod /\ cc'.new = cc.new
      /\ cc'.conf = cc.conf /\ cc'.add = cc.add /\ cc'.list = cc.list /\ cc'.fresh \subseteq cc.fresh
  BY RlAfter
<1>2. OnePool' /\ CcKeeps'
  BY <1>1 DEF Account, OnePool, CcKeeps
<1>3. RqKeeps'
  <2>1. rq'.fresh /\ rq.pc \in {"grow", "update"} => rq.pod \in Pod /\ npr'[rq.pod] = npr[rq.pod]
    BY <1>1 DEF TypeOK, RqState
  <2> QED BY <1>1, <2>1 DEF Account, RqKeeps
<1>4. InRq' = InRq /\ InCc' = InCc /\ FreeNow' = FreeNow /\ RegNow' = RegNow
  BY <1>1 DEF InRq, InCc, FreeNow, RegNow
<1> QED BY <1>1, <1>2, <1>3, <1>4

LEMMA AccountRlDelete ==
    ASSUME Calm, TypeOK, Ownership, Account, RlDelete
    PROVE  Account'
<1>1. PICK p \in Pod : p = rl.pod
  BY DEF RlDelete, TypeOK, RlState
<1>2. PICK retry \in BOOLEAN : RlAfterCall(retry)
  BY DEF RlDelete
<1>3. \/ npr' = npr
      \/ /\ npr[p] # None /\ npr' = [npr EXCEPT ![p] = [npr[p] EXCEPT !.deleting = TRUE]]
  BY <1>1, CalmCall DEF RlDelete, Store, api
<1>4. /\ \A q \in Pod : q # p => npr'[q] = npr[q]
      /\ npr[p] # None => npr'[p] # None /\ npr'[p].allocs = npr[p].allocs
  <2>1. npr[p] # None => npr[p] \in NPR /\ [npr[p] EXCEPT !.deleting = TRUE] \in NPR
    BY NPRUpdates DEF TypeOK
  <2>2. npr[p] # None => [npr[p] EXCEPT !.deleting = TRUE].allocs = npr[p].allocs
    BY <2>1 DEF NPR
  <2>3. CASE npr' = npr
    BY <2>3
  <2>4. CASE npr[p] # None /\ npr' = [npr EXCEPT ![p] = [npr[p] EXCEPT !.deleting = TRUE]]
    <3> DEFINE o == [npr[p] EXCEPT !.deleting = TRUE]
    <3>1. o # None /\ o.allocs = npr[p].allocs /\ npr' = [npr EXCEPT ![p] = o]
      BY <2>1, <2>2, <2>4, NoneFacts
    <3> HIDE DEF o
    <3> QED BY <3>1 DEF TypeOK
  <2> QED BY <1>3, <2>3, <2>4
<1>5. /\ OnePool' /\ RqKeeps' /\ CcKeeps' /\ InRq' = InRq /\ InCc' = InCc
      /\ FreeNow' = FreeNow /\ RegNow' = RegNow /\ rl'.pc = "idle"
  BY <1>1, <1>2, <1>4, AccountRlAfter
<1>6. \A q \in Pod : OwnedBy(q) \subseteq OwnedBy(q)'
  BY <1>4, <1>5 DEF OwnedBy
<1>7. Lossless'
  BY <1>5, <1>6, LosslessWrite DEF Account
<1> QED BY <1>5, <1>7 DEF Account

LEMMA AccountRlRelease ==
    ASSUME TypeOK, Ownership, Account, RlRelease
    PROVE  Account'
<1>1. UNCHANGED <<nc, npr, cur, rq, cc>> /\ rl.pc = "release"
  BY DEF RlRelease, user, api
<1>2. PICK p \in Pod : p = rl.pod /\ rl'.pc = "finalize" /\ rl'.pod = p
  BY <1>1 DEF RlRelease, TypeOK, RlState
<1>3. rl.new = npr[p] /\ npr[p] # None
  BY <1>1, <1>2 DEF Ownership, Release, Deleting
<1>4. OwnedBy(p) = npr[p].allocs /\ OwnedBy(p) \subseteq RegNow \X Block
  BY <1>1, <1>3 DEF OwnedBy, Ownership, SingleOwner
<1>5. FreeNow' = FreeNow \cup OwnedBy(p) /\ RegNow' = RegNow
  <2>1. CASE cur = None
    <3>1. OwnedBy(p) = {}
      BY <1>4, <2>1 DEF RegNow
    <3> QED BY <1>1, <2>1, <3>1 DEF FreeNow, RegNow
  <2>2. CASE cur # None
    <3>1. cur \in Gen /\ heap' = [heap EXCEPT ![cur] = Free(@, OwnedBy(p))]
      BY <1>3, <1>4, <2>2 DEF RlRelease, TypeOK
    <3> QED BY <1>1, <1>4, <3>1, FreeOwner
  <2> QED BY <2>1, <2>2
<1>6. \A q \in Pod \ {p} : OwnedBy(q)' = OwnedBy(q)
  BY <1>1, <1>2 DEF OwnedBy
<1>7. InRq' = InRq /\ InCc' = InCc
  BY <1>1 DEF InRq, InCc
<1>8. Lossless'
  <2>1. ASSUME NEW s, Owned(s)
        PROVE  Owned(s)'
    <3>1. CASE s \in FreeNow \cup InRq \cup InCc \cup OwnedBy(p)
      BY <1>5, <1>7, <3>1 DEF Owned
    <3>2. CASE \E q \in Pod \ {p} : s \in OwnedBy(q)
      BY <1>6, <3>2 DEF Owned
    <3> QED BY <2>1, <3>1, <3>2 DEF Owned
  <2> QED BY <1>5, <2>1 DEF Account, Lossless
<1> QED BY <1>1, <1>8 DEF Account, OnePool, RqKeeps, CcKeeps

LEMMA AccountRlFinalize ==
    ASSUME Calm, TypeOK, Ownership, Account, RlFinalize
    PROVE  Account'
<1>1. PICK p \in Pod : p = rl.pod
  BY DEF RlFinalize, TypeOK, RlState
<1>2. PICK retry \in BOOLEAN : RlAfterCall(retry)
  BY DEF RlFinalize
<1>3. \A q \in Pod : q # p => npr'[q] = npr[q]
  <2>1. PICK ok \in BOOLEAN : Call(rl.fresh, rl.pod, None, "release_error", ok)
    BY DEF RlFinalize
  <2>2. Store(rl.pod, None) \/ UNCHANGED api
    BY <2>1, CalmCall
  <2> QED BY <1>1, <2>2 DEF Store, api, TypeOK
<1>4. /\ OnePool' /\ RqKeeps' /\ CcKeeps' /\ InRq' = InRq /\ InCc' = InCc
      /\ FreeNow' = FreeNow /\ RegNow' = RegNow /\ rl'.pc = "idle"
  BY <1>1, <1>2, <1>3, AccountRlAfter
<1>5. OwnedBy(p) = {} /\ \A q \in Pod \ {p} : OwnedBy(q) \subseteq OwnedBy(q)'
  BY <1>1, <1>3, <1>4 DEF OwnedBy, RlFinalize
<1>6. Lossless'
  BY <1>4, <1>5, LosslessWrite DEF Account
<1> QED BY <1>4, <1>6 DEF Account

-----------------------------------------------------------------------------
(***************************************************************************)
(* The NATConfig controller.                                               *)
(***************************************************************************)
\* A step that changes nothing but the NATConfig controller's locals.
LEMMA AccountCcLocal ==
    ASSUME Account, UNCHANGED <<nc, npr, rl, rq, heap, cur>>, cc'.add = cc.add,
           cc'.conf \in {None, cc.conf, nc}, CcKeeps'
    PROVE  Account'
<1>1. InRq' = InRq /\ InCc' = InCc /\ FreeNow' = FreeNow /\ RegNow' = RegNow
  BY DEF InRq, InCc, FreeNow, RegNow
<1>2. Lossless'
  BY <1>1, LosslessMove DEF Account
<1> QED BY <1>2 DEF Account, OnePool, RqKeeps

LEMMA AccountCcReads ==
    ASSUME TypeOK, Ownership, Account, CcStart \/ CcList \/ CcDrop
    PROVE  Account'
<1>1. UNCHANGED <<nc, npr, rl, rq, heap, cur>> /\ cc.pc \in {"idle", "list", "scan"} /\ cc.add = {}
  BY DEF CcStart, CcList, CcDrop, user, api, alloc, Ownership, OneAllocator, FreshCopies
<1>2. cc'.add = {} /\ cc'.conf \in {None, cc.conf, nc} /\ cc'.pc # "extend"
  <2>1. CASE CcStart
    BY <2>1 DEF CcStart, CcIdle
  <2>2. CASE CcList
    BY <1>1, <2>2 DEF CcList, TypeOK, CcState
  <2>3. CASE CcDrop
    <3>1. cc' = CcIdle
      BY <2>3 DEF CcDrop, Ownership, OneAllocator
    <3> QED BY <3>1 DEF CcIdle
  <2> QED BY <2>1, <2>2, <2>3
<1>3. CcKeeps'
  BY <1>2 DEF CcKeeps
<1> QED BY ZenonT(60), <1>1, <1>2, <1>3, AccountCcLocal

LEMMA AccountCcScan ==
    ASSUME TypeOK, Ownership, Account, NEW p \in Pod, CcScan(p)
    PROVE  Account'
<1> DEFINE o == cc.list[p]
           kept == {s \in o.allocs : s[1] \in cc.conf.pool}
<1>1. UNCHANGED <<nc, npr, rl, rq, heap, cur>> /\ cc.pc = "scan" /\ o # None
  BY DEF CcScan, user, api, alloc
<1>2. o \in NPR /\ cc.add = {} /\ cc.conf # None
  BY <1>1 DEF TypeOK, CcState, Ownership, FreshCopies
<1>3. CASE cc' = [cc EXCEPT !.list = [cc.list EXCEPT ![p] = None]]
  <2>1. cc'.pc = "scan" /\ cc'.conf = cc.conf /\ cc'.add = cc.add
    BY <1>1, <1>3 DEF TypeOK, CcState
  <2>2. CcKeeps'
    BY <2>1 DEF CcKeeps
  <2> QED BY <1>1, <2>1, <2>2, AccountCcLocal
<1>4. CASE cc' = [cc EXCEPT !.pc = "extend", !.pod = p, !.todo = cc.conf.pool \ IPsOf(o.allocs),
                            !.new = [o EXCEPT !.allocs = {s \in @ : s[1] \in cc.conf.pool}]]
  <2>1. /\ cc'.pc = "extend" /\ cc'.conf = cc.conf /\ cc'.add = cc.add
        /\ cc'.fresh = cc.fresh /\ cc'.list = cc.list /\ cc'.pod = p
        /\ cc'.new = [o EXCEPT !.allocs = {s \in @ : s[1] \in cc.conf.pool}]
    BY <1>4 DEF TypeOK, CcState
  <2>2. cc'.new.allocs = kept
    BY <1>2, <2>1 DEF NPR
  <2>3. ASSUME p \in cc.fresh PROVE o.allocs \subseteq kept
    <3>1. npr[p] = o /\ ~Stale(npr[p])
      BY <1>1, <2>3 DEF Ownership, FreshCopies, Stale
    <3>2. \A s \in o.allocs : s[1] \in nc.pool
      BY <1>1, <3>1, PoolSlots
    <3> QED BY <1>2, <3>2 DEF Account, OnePool
  <2> HIDE DEF kept
  <2>4. CcKeeps'
    BY <1>2, <2>1, <2>2, <2>3 DEF CcKeeps
  <2> QED BY <1>1, <2>1, <2>4, AccountCcLocal
<1> QED BY <1>3, <1>4 DEF CcScan

LEMMA AccountCcEnsure ==
    ASSUME TypeOK, Ownership, Account, CcEnsure
    PROVE  Account'
<1>1. UNCHANGED <<nc, npr, rl, rq>> /\ cc.pc = "ensure" /\ EnsureAllocator(cc.conf)
  BY DEF CcEnsure, user, api
<1>2. cc'.pc = "list" /\ cc'.conf = cc.conf /\ cc'.add = cc.add /\ cc.conf \in Configs
  BY <1>1 DEF CcEnsure, TypeOK, CcState
<1>3. /\ RegNow' = RegNow \cup cc.conf.pool
      /\ FreeNow' = FreeNow \cup ((cc.conf.pool \ RegNow) \X Block)
  BY <1>1, <1>2, EnsureOwner
<1>4. InRq' = InRq /\ InCc' = InCc
  BY <1>1, <1>2 DEF InRq, InCc
<1>5. OnePool' /\ RqKeeps' /\ CcKeeps'
  BY <1>1, <1>2 DEF Account, OnePool, RqKeeps, CcKeeps
<1>6. Lossless'
  BY <1>1, <1>3, <1>4, LosslessEnsure DEF Account
<1> QED BY <1>5, <1>6 DEF Account

LEMMA AccountCcExtend ==
    ASSUME TypeOK, Ownership, Account, NEW ip, CcExtend(ip)
    PROVE  Account'
<1>1. UNCHANGED <<nc, npr, rl, rq, cur>> /\ cc.pc = "extend"
  BY DEF CcExtend, user, api
<1>2. cc.gen = cur /\ cur \in Gen /\ cc.new \in NPR
  BY <1>1, NoneFacts DEF TypeOK, CcState, Ownership, OneAllocator
<1>3. CASE cc' = [cc EXCEPT !.pc = "abort"] /\ heap' = heap
  <2>1. cc'.pc = "abort" /\ cc'.conf = cc.conf /\ cc'.add = cc.add
    BY <1>3 DEF TypeOK, CcState
  <2>2. CcKeeps'
    BY <2>1 DEF CcKeeps
  <2> QED BY <1>1, <1>3, <2>1, <2>2, AccountCcLocal
<1>4. ASSUME NEW S \in PicksForIP(heap[cc.gen], ip, cc.new.count, Unusable(cc.pod, cc.new.allocs)),
             heap' = [heap EXCEPT ![cc.gen] = Allocate(@, S)],
             cc' = [cc EXCEPT !.todo = cc.todo \ {ip}, !.add = cc.add \cup S,
                              !.new = [cc.new EXCEPT !.allocs = @ \cup S]]
      PROVE  Account'
  <2>1. S \subseteq FreeNow
    <3>1. heap[cc.gen] \in Allocator
      BY <1>2 DEF TypeOK
    <3>2. S \subseteq heap[cc.gen].free
      BY SMTT(30), <3>1, IPPicks
    <3> QED BY <1>2, <3>2, NoneFacts DEF FreeNow
  <2>2. FreeNow' = FreeNow \ S /\ RegNow' = RegNow
    BY <1>1, <1>2, <1>4, <2>1, AllocateOwner
  <2>3. /\ cc'.pc = cc.pc /\ cc'.conf = cc.conf /\ cc'.add = cc.add \cup S
        /\ cc'.list = cc.list /\ cc'.fresh = cc.fresh /\ cc'.pod = cc.pod
        /\ cc'.new = [cc.new EXCEPT !.allocs = @ \cup S]
    BY <1>4 DEF TypeOK, CcState
  <2>4. cc'.new.allocs = cc.new.allocs \cup S
    BY <1>2, <2>3 DEF NPR
  <2>5. InRq' = InRq /\ InCc' = InCc \cup S
    BY <1>1, <2>3 DEF InRq, InCc
  <2>6. Lossless'
    BY <1>1, <2>2, <2>5, LosslessMove DEF Account
  <2>7. CcKeeps'
    BY <2>3, <2>4 DEF Account, CcKeeps
  <2> QED BY <1>1, <2>3, <2>6, <2>7 DEF Account, OnePool, RqKeeps
<1> QED BY <1>3, <1>4 DEF CcExtend

LEMMA AccountCcUpdate ==
    ASSUME Calm, TypeOK, Ownership, Account, CcUpdate
    PROVE  Account'
<1>0. PICK p \in Pod : p = cc.pod
  BY DEF CcUpdate, TypeOK, CcState
<1>1. PICK ok \in BOOLEAN :
          /\ Call(cc.pod \in cc.fresh, cc.pod, cc.new, "api_error", ok)
          /\ cc' = IF ok THEN [cc EXCEPT !.pc = "scan", !.pod = None, !.new = None,
                                         !.add = {}, !.list = [cc.list EXCEPT ![p] = None],
                                         !.fresh = @ \ {p}]
                   ELSE [cc EXCEPT !.pc = "abort"]
  BY <1>0 DEF CcUpdate
<1>2. cc.pc = "extend" /\ rq' = Spoil(rq, p) /\ rl' = Spoil(rl, p) /\ UNCHANGED <<nc, heap, cur>>
  BY <1>0 DEF CcUpdate, user, alloc
<1>3. CASE ok = TRUE
  <2>1. cc.pod \in cc.fresh /\ Store(cc.pod, cc.new)
    BY <1>1, <1>3, CalmCall
  <2>2. cc'.pc = "scan" /\ cc'.conf = cc.conf /\ cc'.add = {}
    BY <1>1, <1>3 DEF TypeOK, CcState
  <2>3. npr'[p] = cc.new /\ cc.new # None /\ \A q \in Pod : q # p => npr'[q] = npr[q]
    BY <1>0, <1>2, <2>1 DEF Store, TypeOK
  <2>4. /\ rq'.pc = rq.pc /\ rq'.pod = rq.pod /\ rq'.new = rq.new /\ rq'.conf = rq.conf
        /\ rq'.add = rq.add /\ rq'.give = rq.give
        /\ rq'.fresh => rq.fresh /\ (rq.pod # p \/ npr'[p] = npr[p])
    BY <1>2, SpoilRq
  <2>5. RqKeeps'
    <3>1. rq'.fresh /\ rq.pc \in {"grow", "update"} => rq.pod \in Pod /\ npr'[rq.pod] = npr[rq.pod]
      BY <2>3, <2>4 DEF TypeOK, RqState
    <3> QED BY <2>4, <3>1 DEF Account, RqKeeps
  <2>6. rl'.pc = rl.pc /\ rl'.pod = rl.pod
    BY <1>2, SpoilRl
  <2>7. npr[p] # None /\ cc.list[p] = npr[p] /\ ~(rl.pc = "finalize" /\ rl.pod = p)
    BY ZenonT(60), <1>0, <1>2, <2>1 DEF Ownership, FreshCopies, Release, Deleting
  <2>8. /\ OwnedBy(p) = npr[p].allocs /\ OwnedBy(p)' = cc.new.allocs
        /\ \A q \in Pod \ {p} : OwnedBy(q)' = OwnedBy(q)
    BY <2>3, <2>6, <2>7 DEF OwnedBy
  <2>9. npr[p].allocs \cup cc.add \subseteq cc.new.allocs
    BY <1>0, <1>2, <2>1, <2>7 DEF Account, CcKeeps
  <2>10. /\ InRq' = InRq /\ InCc = cc.add /\ InCc' = {} /\ FreeNow' = FreeNow /\ RegNow' = RegNow
    BY <1>2, <2>2, <2>4 DEF InRq, InCc, FreeNow, RegNow
  <2>11. Lossless'
    BY <2>8, <2>9, <2>10, LosslessWrite DEF Account
  <2> QED BY <1>2, <2>2, <2>4, <2>5, <2>11 DEF Account, OnePool, CcKeeps
<1>4. CASE ok = FALSE
  <2>1. npr' = npr
    BY <1>1, <1>4, CalmCall DEF api
  <2>2. rq' = rq /\ rl' = rl
    BY <1>2, <2>1 DEF Spoil
  <2>3. cc'.pc = "abort" /\ cc'.conf = cc.conf /\ cc'.add = cc.add
    BY <1>1, <1>4 DEF TypeOK, CcState
  <2>4. CcKeeps'
    BY <2>3 DEF CcKeeps
  <2> QED BY <1>2, <2>1, <2>2, <2>3, <2>4, AccountCcLocal
<1> QED BY <1>3, <1>4

LEMMA AccountCcAbort ==
    ASSUME TypeOK, Ownership, Account, CcAbort
    PROVE  Account'
<1>1. /\ UNCHANGED <<nc, npr, rl, rq, cur>> /\ cc.pc = "abort"
      /\ cc' = CcIdle /\ heap' = [heap EXCEPT ![cc.gen] = Free(@, cc.add)]
  BY DEF CcAbort, user, api
<1>2. cc.gen = cur /\ cur \in Gen
  BY <1>1, NoneFacts DEF TypeOK, CcState, Ownership, OneAllocator
<1>3. InCc = cc.add /\ InRq' = InRq /\ cc'.pc = "idle" /\ cc'.conf = None
  BY <1>1 DEF InRq, InCc, CcIdle
<1>4. FreeNow' = FreeNow \cup InCc /\ RegNow' = RegNow
  <2>1. cc.add \subseteq RegNow \X Block
    BY <1>3 DEF Ownership, SingleOwner
  <2> QED BY <1>1, <1>2, <1>3, <2>1, FreeOwner
<1>5. Lossless'
  BY <1>1, <1>3, <1>4, LosslessMove DEF Account
<1> QED BY <1>1, <1>3, <1>5 DEF Account, OnePool, RqKeeps, CcKeeps

-----------------------------------------------------------------------------
(***************************************************************************)
(* Restart, the environment, and the theorem.                              *)
(***************************************************************************)
LEMMA AccountRestart ==
    ASSUME Calm, TypeOK, Ownership, Restart
    PROVE  Account'
<1>1. /\ UNCHANGED <<nc, npr>> /\ rq' = RqIdle /\ rl' = RlIdle /\ cc' = CcIdle
      /\ \A p \in Pod : ~Deleting(npr[p])
  BY CalmFacts DEF Restart, Deleting
<1>2. nc # None
  BY DEF Ownership, OneAllocator
<1>3. cur' # None /\ heap'[cur'] = Reconstructed
  <2> DEFINE g == CHOOSE h \in Gen : TRUE
  <2>1. g \in Gen
    BY ConstantsAssumption
  <2>2. cur' = g /\ heap' = [h \in Gen |-> IF nc # None /\ h = g THEN Reconstructed ELSE NewAllocator]
    BY <1>2 DEF Restart
  <2> HIDE DEF g
  <2> QED BY <1>2, <2>1, <2>2, NoneFacts
<1>4. /\ RegNow' = nc.pool
      /\ FreeNow' = (nc.pool \X Block) \ UNION {npr[p].allocs : p \in {q \in Pod : npr[q] # None /\ ~npr[q].deleting}}
  BY <1>2, <1>3, ReconstructedFacts DEF RegNow, FreeNow
<1>5. \A p \in Pod : npr[p] # None => OwnedBy(p)' = npr[p].allocs
  BY <1>1, IdleFields DEF OwnedBy
<1>6. Lossless'
  BY ZenonT(60), <1>4, <1>5 DEF Lossless, Owned
<1> QED BY <1>1, <1>6 DEF Account, OnePool, RqKeeps, CcKeeps, RqIdle, CcIdle

LEMMA AccountQuiet ==
    ASSUME TypeOK, Ownership, Account, UNCHANGED <<npr, heap, cur, rq, cc>>,
           rl' = rl \/ (rl.pc = "idle" /\ rl'.pc # "finalize"),
           nc' = nc \/ (nc # None /\ nc' # None /\ nc'.pool = nc.pool)
    PROVE  Account'
<1>1. InRq' = InRq /\ InCc' = InCc /\ FreeNow' = FreeNow /\ RegNow' = RegNow
  BY DEF InRq, InCc, FreeNow, RegNow
<1>2. \A p \in Pod : OwnedBy(p)' = OwnedBy(p)
  BY DEF OwnedBy
<1>3. Lossless'
  BY SMTT(30), <1>1, <1>2 DEF Account, Lossless, Owned
<1> QED BY <1>3 DEF Account, OnePool, RqKeeps, CcKeeps

LEMMA AccountInit == Init => Account
<1> SUFFICES ASSUME Init PROVE Account
  OBVIOUS
<1>1. cur = None /\ rq = RqIdle /\ cc = CcIdle
  BY DEF Init
<1>2. RegNow = {}
  BY <1>1 DEF RegNow
<1> QED BY <1>1, <1>2 DEF Account, OnePool, RqKeeps, CcKeeps, Lossless, RqIdle, CcIdle

LEMMA AccountNext ==
    ASSUME Steady, TypeOK, Ownership, Account, [Next]_vars
    PROVE  Account'
<1>0. Calm /\ "grow" \notin Env
  BY SteadyIsCalm
<1>1. CASE RqStep
  BY <1>0, <1>1, AccountRqEnsure, AccountRqAllocatePod, AccountRqResize, AccountRqGrow, AccountRqCreate,
     AccountRqUpdate, AccountRqFree DEF RqStep
<1>2. CASE RlStep
  <2>1. ~RlStamp
    BY DEF RlStamp, Ownership, Release
  <2> QED BY <1>0, <1>2, <2>1, AccountRlDelete, AccountRlRelease, AccountRlFinalize DEF RlStep
<1>3. CASE CcStep
  <2>1. ~CcRemove
    BY DEF CcRemove, Ownership, OneAllocator
  <2> QED BY <1>0, <1>3, <2>1, AccountCcReads, AccountCcEnsure, AccountCcScan, AccountCcExtend,
             AccountCcUpdate, AccountCcAbort DEF CcStep
<1>4. CASE Deliver
  BY <1>4, AccountQuiet DEF Deliver, user, alloc
<1>5. CASE \E p \in Pod : RqStart(p) \/ RqStartGone(p)
  BY <1>5, AccountRqStart
<1>6. CASE \E p \in Pod : RlStart(p)
  <2>1. UNCHANGED <<nc, npr, heap, cur, rq, cc>> /\ rl.pc = "idle"
    BY <1>6 DEF RlStart, user, api, alloc
  <2>2. rl'.pc # "finalize"
    <3>1. PICK p \in Pod : rl' = IF RlVerdict(cache[p]) = "idle" THEN RlIdle
             ELSE [pc |-> RlVerdict(cache[p]), pod |-> p, new |-> cache[p], fresh |-> CacheIsFresh(p)]
      BY <1>6 DEF RlStart
    <3>2. RlVerdict(cache[p]) # "finalize"
      <4>1. cache[p] # None => cache[p].stale \in BOOLEAN /\ cache[p].deleting \in BOOLEAN
        BY DEF TypeOK, NPR
      <4> QED BY <4>1 DEF RlVerdict
    <3> QED BY <3>1, <3>2, IdleFields
  <2> QED BY <2>1, <2>2, AccountQuiet
<1>7. CASE \E p \in Pod : EditRequest(p) \/ DeleteNPR(p)
  <2>1. \A p \in Pod : ~DeleteNPR(p)
    BY <1>0, CalmFacts DEF DeleteNPR
  <2> QED BY <1>7, <2>1, AccountQuiet DEF EditRequest, EnvStep, api, alloc
<1>8. CASE EditConfig
  <2>1. nc # None /\ nc' # None /\ nc'.pool = nc.pool
    BY <1>0, <1>8, CalmFacts, NoneFacts DEF EditConfig, MayBecome, Ownership, OneAllocator
  <2> QED BY <1>8, <2>1, AccountQuiet DEF EditConfig, EnvStep, api, alloc
<1>9. CASE Resync \/ Restart
  <2>1. ~Resync
    BY <1>0, CalmFacts DEF Resync
  <2> QED BY <1>0, <1>9, <2>1, AccountRestart
<1>10. CASE UNCHANGED vars
  BY <1>10, AccountQuiet DEF vars, user, api, alloc
<1> QED BY <1>1, <1>2, <1>3, <1>4, <1>5, <1>6, <1>7, <1>8, <1>9, <1>10 DEF Next

\* What Ownership and Account say when the operator has come to rest.
LEMMA AccountedAtRest ==
    ASSUME Ownership, Account
    PROVE  Accounted
<1> SUFFICES ASSUME Quiescent, cur # None, NEW s \in heap[cur].reg \X Block
             PROVE  s \in heap[cur].free <=> ~ \E p \in Pod : Exists(p) /\ s \in npr[p].allocs
  BY DEF Accounted
<1>1. \A p \in Pod : s \in OwnedBy(p) <=> Exists(p) /\ s \in npr[p].allocs
  BY DEF Quiescent, RlIdle, OwnedBy, Exists
<1>2. InRq = {} /\ InCc = {} /\ FreeNow = heap[cur].free /\ RegNow = heap[cur].reg
  BY DEF Quiescent, RqIdle, CcIdle, InRq, InCc, FreeNow, RegNow
<1>3. s \in FreeNow \/ \E p \in Pod : s \in OwnedBy(p)
  BY <1>2 DEF Account, Lossless, Owned
<1>4. s \in FreeNow => \A p \in Pod : s \notin OwnedBy(p)
  BY DEF Ownership, SingleOwner
<1> QED BY <1>1, <1>2, <1>3, <1>4

\* In a calm environment in which the pool stays as it is no block gets lost:
\* when the operator has come to rest, whatever it has been through, a block
\* of a registered IP is free in the allocator or listed in an NPR, not both.
THEOREM AccountedHolds == Steady => (Spec => []Accounted)
<1> SUFFICES ASSUME Steady PROVE Spec => []Accounted
  OBVIOUS
<1>1. TypeOK /\ Ownership /\ Account /\ [Next]_vars => Account'
  BY AccountNext
<1>2. Calm
  BY SteadyIsCalm
<1>3. Spec => []TypeOK
  BY TypeCorrect
<1>4. Spec => []Ownership
  BY <1>2, OwnershipHolds
<1>5. Ownership /\ Account => Accounted
  BY AccountedAtRest
<1> QED BY <1>1, <1>3, <1>4, <1>5, AccountInit, PTL DEF Spec

-----------------------------------------------------------------------------
(***************************************************************************)
(* How many blocks an NPR has on an IP.                                    *)
(***************************************************************************)
LEMMA OnIPFinite ==
    ASSUME NEW S \in SUBSET Slot, NEW ip
    PROVE  IsFiniteSet(OnIP(S, ip)) /\ Cardinality(OnIP(S, ip)) \in Nat
<1>1. IsFiniteSet({ip} \X Block)
  BY FS_Singleton, FS_Product, BlockAssumption
<1>2. OnIP(S, ip) \in SUBSET ({ip} \X Block)
  BY SMTT(30) DEF OnIP, Slot
<1> QED BY <1>1, <1>2, FS_Subset, FS_CardinalityType

\* Blocks picked on one IP, of indices the pod does not have yet.
LEMMA CountAfterPick ==
    ASSUME NEW S \in SUBSET Slot, NEW T \in SUBSET Slot, NEW ip,
           \A t \in T : t[1] = ip /\ t[2] \notin BlocksOf(S)
    PROVE  /\ Cardinality(OnIP(S \cup T, ip)) = Cardinality(OnIP(S, ip)) + Cardinality(T)
           /\ \A other : other # ip => OnIP(S \cup T, other) = OnIP(S, other)
           /\ IPsOf(S \cup T) \subseteq IPsOf(S) \cup {ip}
<1>1. OnIP(T, ip) = T /\ OnIP(S \cup T, ip) = OnIP(S, ip) \cup T /\ OnIP(S, ip) \cap T = {}
  BY DEF OnIP, BlocksOf
<1>2. IsFiniteSet(OnIP(S, ip)) /\ IsFiniteSet(T)
  BY <1>1, OnIPFinite
<1>3. Cardinality(OnIP(S, ip) \cup T) = Cardinality(OnIP(S, ip)) + Cardinality(T) - Cardinality({})
  BY <1>1, <1>2, FS_Union
<1>4. Cardinality(OnIP(S, ip)) \in Nat /\ Cardinality(T) \in Nat /\ Cardinality({}) = 0
  BY <1>2, FS_CardinalityType, FS_EmptySet
<1>5. Cardinality(OnIP(S, ip) \cup T) = Cardinality(OnIP(S, ip)) + Cardinality(T)
  BY SMTT(30), <1>3, <1>4
<1> QED BY <1>1, <1>5 DEF OnIP, IPsOf

\* The blocks on s's IP that come before s.
Below(S, s) == {t \in S : t[1] = s[1] /\ t[2] < s[2]}

LEMMA BelowGrows ==
    ASSUME NEW S \in SUBSET Slot, NEW s \in S, NEW t \in S, s[1] = t[1], s[2] < t[2]
    PROVE  Cardinality(Below(S, s)) < Cardinality(Below(S, t))
<1>1. \A x \in S : x[2] \in Nat
  BY BlockAssumption DEF Slot
<1>2. s \in Below(S, t) /\ s \notin Below(S, s)
  BY SMTT(30), <1>1 DEF Below
<1>3. Below(S, s) \subseteq Below(S, t)
  BY SMTT(30), <1>1 DEF Below
<1>4. Below(S, t) \in SUBSET OnIP(S, t[1])
  BY DEF Below, OnIP
<1>5. IsFiniteSet(Below(S, t)) /\ IsFiniteSet(Below(S, s))
  BY <1>3, <1>4, OnIPFinite, FS_Subset
<1>6. Cardinality(Below(S, s)) <= Cardinality(Below(S, t))
      /\ Cardinality(Below(S, t)) # Cardinality(Below(S, s))
  BY <1>2, <1>3, <1>5, FS_Subset
<1>7. Cardinality(Below(S, s)) \in Nat /\ Cardinality(Below(S, t)) \in Nat
  BY <1>5, FS_CardinalityType
<1> QED BY SMTT(30), <1>6, <1>7

\* decreaseCount keeps as many blocks on each IP as it means to: the number of
\* blocks before it tells the blocks of an IP apart and takes all values.
LEMMA CountLowest ==
    ASSUME NEW S \in SUBSET Slot, NEW ip, NEW n \in Nat, n <= Cardinality(OnIP(S, ip))
    PROVE  Cardinality(OnIP(Lowest(S, n), ip)) = n
<1> DEFINE X == OnIP(S, ip)
           m == Cardinality(X)
           r == [s \in X |-> Cardinality(Below(S, s))]
           Y == OnIP(Lowest(S, n), ip)
<1>1. IsFiniteSet(X) /\ m \in Nat
  BY OnIPFinite
<1>2. X \subseteq S /\ \A s \in X : s[1] = ip /\ s[2] \in Nat /\ s = <<s[1], s[2]>>
  <2>1. \A s \in Slot : s = <<s[1], s[2]>> /\ s[2] \in Block
    BY SMTT(30) DEF Slot
  <2> QED BY <2>1, BlockAssumption DEF OnIP
<1>3. \A s \in X : Cardinality(Below(S, s)) \in 0 .. m - 1
  <2> SUFFICES ASSUME NEW s \in X PROVE Cardinality(Below(S, s)) \in 0 .. m - 1
    OBVIOUS
  <2>1. Below(S, s) \in SUBSET X
    BY <1>2 DEF Below, OnIP
  <2>2. s \notin Below(S, s)
    BY SMTT(30), <1>2 DEF Below
  <2>3. Cardinality(Below(S, s)) <= m /\ m # Cardinality(Below(S, s)) /\ IsFiniteSet(Below(S, s))
    BY <1>1, <2>1, <2>2, FS_Subset
  <2>4. Cardinality(Below(S, s)) \in Nat
    BY <2>3, FS_CardinalityType
  <2> QED BY SMTT(30), <1>1, <2>3, <2>4
<1>4. \A s, t \in X : s # t => Cardinality(Below(S, s)) # Cardinality(Below(S, t))
  <2> SUFFICES ASSUME NEW s \in X, NEW t \in X, s # t
               PROVE  Cardinality(Below(S, s)) # Cardinality(Below(S, t))
    OBVIOUS
  <2>1. s[2] < t[2] \/ t[2] < s[2]
    <3>1. s[2] # t[2]
      BY <1>2
    <3> QED BY SMTT(30), <1>2, <3>1
  <2>2. Cardinality(Below(S, s)) < Cardinality(Below(S, t)) \/ Cardinality(Below(S, t)) < Cardinality(Below(S, s))
    BY <1>2, <2>1, BelowGrows
  <2>3. Cardinality(Below(S, s)) \in Nat /\ Cardinality(Below(S, t)) \in Nat
    BY SMTT(30), <1>1, <1>3
  <2> QED BY SMTT(30), <2>2, <2>3
<1>5. IsFiniteSet(0 .. m - 1) /\ Cardinality(0 .. m - 1) = m
  <2>1. m - 1 \in Int /\ (IF 0 > m - 1 THEN 0 ELSE m - 1 - 0 + 1) = m
    BY SMTT(30), <1>1
  <2> QED BY SMTT(30), <2>1, FS_Interval
<1>6. r \in Injection(X, 0 .. m - 1)
  BY <1>3, <1>4 DEF Injection, IsInjective
<1>7. r \in Surjection(X, 0 .. m - 1)
  BY <1>1, <1>5, <1>6, FS_Injection
<1>8. Y = {s \in X : Cardinality(Below(S, s)) < n}
  BY DEF OnIP, Lowest, Below
<1> DEFINE q == [s \in Y |-> Cardinality(Below(S, s))]
<1>9. \A s \in Y : s \in X /\ Cardinality(Below(S, s)) \in 0 .. n - 1
  BY SMTT(30), <1>1, <1>3, <1>8
<1>10. q \in [Y -> 0 .. n - 1]
  BY <1>9
<1>11. \A k \in 0 .. n - 1 : \E s \in Y : q[s] = k
  <2> SUFFICES ASSUME NEW k \in 0 .. n - 1 PROVE \E s \in Y : Cardinality(Below(S, s)) = k
    OBVIOUS
  <2>1. k \in 0 .. m - 1 /\ k < n
    BY SMTT(30), <1>1
  <2>2. PICK s \in X : r[s] = k
    BY <1>7, <2>1 DEF Surjection
  <2>3. s \in Y
    BY <1>8, <2>1, <2>2
  <2> QED BY <2>2, <2>3
<1>12. \A s, t \in Y : q[s] = q[t] => s = t
  BY <1>4, <1>9
<1>13. q \in Bijection(Y, 0 .. n - 1)
  BY <1>10, <1>11, <1>12 DEF Bijection, Injection, Surjection, IsInjective
<1>14. IsFiniteSet(Y)
  BY <1>1, <1>9, FS_Subset
<1>15. Cardinality(0 .. n - 1) = Cardinality(Y)
  BY <1>13, <1>14, FS_Bijection DEF ExistsBijection
<1>16. Cardinality(0 .. n - 1) = n
  <2>1. n - 1 \in Int /\ (IF 0 > n - 1 THEN 0 ELSE n - 1 - 0 + 1) = n
    BY SMTT(30)
  <2> QED BY SMTT(30), <2>1, FS_Interval
<1> QED BY <1>15, <1>16

-----------------------------------------------------------------------------
(***************************************************************************)
(* While the pool stays as it is, every NPR has the blocks it asks for.    *)
(***************************************************************************)
\* The other fields do not matter.
LEMMA EvenSame ==
    ASSUME NEW P, NEW o, NEW o2, Even(P, o), o # None, o2.allocs = o.allocs, o2.count = o.count
    PROVE  Even(P, o2)
BY DEF Even

\* What AllocateForPod hands out.
LEMMA EvenPick ==
    ASSUME NEW a, NEW P, NEW n, NEW ex, NEW o, o.allocs \in PicksForPod(a, P, n, ex), o.count = n
    PROVE  Even(P, o)
<1>1. /\ \A s \in o.allocs : \E ip \in P : s \in Available(a, ip, ex)
      /\ \A ip \in P : Cardinality(OnIP(o.allocs, ip)) = n
  BY DEF PicksForPod
<1>2. IPsOf(o.allocs) \subseteq P
  BY <1>1 DEF IPsOf, Available
<1> QED BY <1>1, <1>2 DEF Even

\* There is a block on every IP of the pool.
LEMMA EvenPool ==
    ASSUME NEW P, NEW o \in NPR, Even(P, o)
    PROVE  IPsOf(o.allocs) = P
<1>1. o # None /\ o.count # 0
  BY NoneFacts DEF NPR
<1>2. \A ip \in P : OnIP(o.allocs, ip) # {}
  BY <1>1, FS_EmptySet DEF Even
<1>3. P \subseteq IPsOf(o.allocs)
  BY <1>2 DEF OnIP, IPsOf
<1> QED BY <1>1, <1>3 DEF Even

\* decreaseCount.
LEMMA EvenFewer ==
    ASSUME NEW P, NEW o \in NPR, Even(P, o), NEW n \in Counts, o.count > n, NEW o2,
           o2.count = n, o2.allocs = Lowest({s \in o.allocs : s[1] \in P}, n)
    PROVE  Even(P, o2)
<1>1. o # None /\ o.count \in Nat /\ n \in Nat /\ o.allocs \in SUBSET Slot
  BY NoneFacts DEF NPR
<1>2. {s \in o.allocs : s[1] \in P} = o.allocs
  BY <1>1 DEF Even, IPsOf
<1>3. \A ip \in P : n <= Cardinality(OnIP(o.allocs, ip))
  <2>1. n <= o.count
    BY SMTT(30), <1>1
  <2> QED BY <1>1, <2>1 DEF Even
<1>4. \A ip \in P : Cardinality(OnIP(o2.allocs, ip)) = n
  BY <1>1, <1>2, <1>3, CountLowest
<1>5. IPsOf(o2.allocs) \subseteq P
  BY <1>1, <1>2 DEF Even, IPsOf, Lowest
<1> QED BY <1>4, <1>5 DEF Even

\* increaseCount sets out, ...
LEMMA HalfGrownStart ==
    ASSUME NEW P, NEW o \in NPR, Even(P, o), NEW n \in Counts, o.count < n, NEW o2,
           o2.count = n, o2.allocs = o.allocs
    PROVE  HalfGrown(P, o2, P, n - o.count) /\ (P = {} => Even(P, o2))
<1>1. o # None /\ o.count \in Nat /\ n \in Nat
  BY NoneFacts DEF NPR
<1>2. n - (n - o.count) = o.count
  BY SMTT(30), <1>1
<1> QED BY <1>1, <1>2 DEF Even, HalfGrown

\* ... allocates on one IP after the other ...
LEMMA HalfGrownStep ==
    ASSUME NEW P, NEW o \in NPR, NEW todo, NEW d \in Nat, HalfGrown(P, o, todo, d), NEW ip \in todo,
           NEW S \in SUBSET Slot, Cardinality(S) = d,
           \A s \in S : s[1] = ip /\ s[2] \notin BlocksOf(o.allocs),
           NEW o2, o2.count = o.count, o2.allocs = o.allocs \cup S
    PROVE  HalfGrown(P, o2, todo \ {ip}, d)
<1>1. o.allocs \in SUBSET Slot /\ o.count \in Nat
  BY NoneFacts DEF NPR
<1>2. /\ Cardinality(OnIP(o2.allocs, ip)) = Cardinality(OnIP(o.allocs, ip)) + d
      /\ \A other : other # ip => OnIP(o2.allocs, other) = OnIP(o.allocs, other)
      /\ IPsOf(o2.allocs) \subseteq IPsOf(o.allocs) \cup {ip}
  <2>1. /\ Cardinality(OnIP(o.allocs \cup S, ip)) = Cardinality(OnIP(o.allocs, ip)) + Cardinality(S)
        /\ \A other : other # ip => OnIP(o.allocs \cup S, other) = OnIP(o.allocs, other)
        /\ IPsOf(o.allocs \cup S) \subseteq IPsOf(o.allocs) \cup {ip}
    BY <1>1, CountAfterPick
  <2> QED BY <2>1
<1>3. ip \in P /\ Cardinality(OnIP(o.allocs, ip)) = o.count - d
  BY DEF HalfGrown
<1>4. Cardinality(OnIP(o2.allocs, ip)) = o.count
  <2>1. (o.count - d) + d = o.count
    BY SMTT(30), <1>1
  <2> QED BY <1>2, <1>3, <2>1
<1> QED BY <1>2, <1>3, <1>4 DEF HalfGrown

\* ... and is done.
LEMMA HalfGrownDone ==
    ASSUME NEW P, NEW o, NEW d, HalfGrown(P, o, {}, d)
    PROVE  Even(P, o)
BY DEF HalfGrown, Even

\* A write of an even object keeps the API server and the events even.
LEMMA EvenWrite ==
    ASSUME TypeOK, EvenEverywhere, NEW p \in Pod, NEW obj, Even(nc.pool, obj),
           Store(p, obj) \/ UNCHANGED api
    PROVE  /\ \A q \in Pod : Even(nc.pool, npr'[q])
           /\ \A i \in 1..Len(pending') : Even(nc.pool, pending'[i].obj)
<1>1. CASE UNCHANGED api
  BY <1>1 DEF api, EvenEverywhere
<1>2. CASE Store(p, obj)
  <2>1. \A q \in Pod : npr'[q] = IF q = p THEN obj ELSE npr[q]
    BY <1>2 DEF Store, TypeOK
  <2>2. \A i \in 1..Len(pending') : \/ i \in 1..Len(pending) /\ pending'[i] = pending[i]
                                    \/ pending'[i].obj = obj
    <3>1. pending \in Seq([pod : Pod, obj : NPR \cup {None}])
      BY DEF TypeOK
    <3>2. pending' = Append(pending, [pod |-> p, obj |-> obj])
      BY <1>2 DEF Store
    <3> QED BY SMTT(30), <3>1, <3>2
  <2> QED BY <2>1, <2>2 DEF EvenEverywhere
<1> QED BY <1>1, <1>2

\* What EvenEverywhere is about.
LEMMA EvenFrame ==
    ASSUME EvenEverywhere, nc'.pool = nc.pool,
           \A p \in Pod : Even(nc.pool, npr'[p]) /\ Even(nc.pool, cache'[p]),
           \A i \in 1..Len(pending') : Even(nc.pool, pending'[i].obj),
           \/ rq'.pc \notin {"create", "grow", "update"}
           \/ rq'.pc \in {"create", "update"} /\ Even(nc.pool, rq'.new)
           \/ rq'.pc = "grow" /\ HalfGrown(nc.pool, rq'.new, rq'.todo, rq'.delta)
           \/ rq'.pc = rq.pc /\ rq'.new = rq.new /\ rq'.todo = rq.todo /\ rq'.delta = rq.delta,
           \/ rl'.pc = "idle" \/ Even(nc.pool, rl'.new)
           \/ rl'.pc = rl.pc /\ rl'.new = rl.new,
           cc'.pc \notin {"extend", "abort"},
           \A p \in Pod : Even(nc.pool, cc'.list[p])
    PROVE  EvenEverywhere'
BY DEF EvenEverywhere

LEMMA SpoilKeepsGrowth ==
    ASSUME TypeOK, NEW p \in Pod
    PROVE  Spoil(rq, p).todo = rq.todo /\ Spoil(rq, p).delta = rq.delta
<1>1. rq \in RqState
  BY DEF TypeOK
<1>2. \E f \in BOOLEAN : Spoil(rq, p) = [rq EXCEPT !.fresh = f]
  BY SpoilTypes
<1> QED BY SMTT(30), <1>1, <1>2 DEF RqState

\* The request controller, up to its API call.
LEMMA EvenRqPrepares ==
    ASSUME TypeOK, OnePool, nc # None, EvenEverywhere,
           \/ \E p \in Pod : RqStartGone(p) \/ RqStart(p)
           \/ RqEnsure \/ RqAllocatePod \/ RqResize \/ (\E ip \in IP : RqGrow(ip)) \/ RqFree
    PROVE  EvenEverywhere'
<1>1. UNCHANGED <<nc, npr, pending, cache, rl, cc>>
  BY DEF RqStartGone, RqStart, RqEnsure, RqAllocatePod, RqResize, RqGrow, RqFree, user, api
<1> DEFINE P == nc.pool
<1> SUFFICES \/ rq'.pc \notin {"create", "grow", "update"}
             \/ rq'.pc \in {"create", "update"} /\ Even(P, rq'.new)
             \/ rq'.pc = "grow" /\ HalfGrown(P, rq'.new, rq'.todo, rq'.delta)
  BY <1>1, EvenFrame DEF EvenEverywhere
<1>2. ASSUME NEW p \in Pod, RqStartGone(p) PROVE rq'.pc = "idle" \/ (rq'.pc = "update" /\ Even(P, rq'.new))
  <2>1. CASE rq' = RqIdle
    BY <2>1, IdleFields
  <2>2. CASE rq' # RqIdle
    <3>1. cache[p] # None /\ rq' = [RqIdle EXCEPT !.pc = "update", !.pod = p,
                            !.fresh = CacheIsFresh(p), !.new = [cache[p] EXCEPT !.stale = TRUE]]
      BY <1>2, <2>2 DEF RqStartGone
    <3>2. rq'.pc = "update" /\ rq'.new = [cache[p] EXCEPT !.stale = TRUE]
      BY <3>1 DEF RqIdle
    <3>3. rq'.new.allocs = cache[p].allocs /\ rq'.new.count = cache[p].count
      BY <3>1, <3>2 DEF TypeOK, NPR
    <3> QED BY <3>1, <3>2, <3>3, EvenSame DEF EvenEverywhere
  <2> QED BY <2>1, <2>2
<1>3. ASSUME NEW p \in Pod, RqStart(p) PROVE rq'.pc = "ensure"
  BY <1>3 DEF RqStart, RqIdle
<1>4. ASSUME RqEnsure PROVE rq'.pc = "decide"
  BY <1>4 DEF RqEnsure, TypeOK, RqState
<1>5. ASSUME RqAllocatePod PROVE rq'.pc = "idle" \/ (rq'.pc = "create" /\ Even(P, rq'.new))
  <2>1. rq.conf # None /\ rq.conf.pool = P /\ rq \in RqState
    BY <1>5 DEF RqAllocatePod, TypeOK, OnePool
  <2>2. ASSUME NEW S \in PicksForPod(heap[rq.gen], P, rq.want, Exclude[rq.pod]),
               rq' = [rq EXCEPT !.pc = "create", !.add = S,
                          !.new = [allocs |-> S, count |-> rq.want, target |-> rq.conf.target,
                                   stale |-> FALSE, deleting |-> FALSE]]
        PROVE  rq'.pc = "create" /\ Even(P, rq'.new)
    <3>1. rq'.pc = "create" /\ rq'.new.allocs = S /\ rq'.new.count = rq.want
      BY <2>1, <2>2 DEF RqState
    <3> QED BY <3>1, EvenPick
  <2> QED BY <1>5, <2>1, <2>2, IdleFields DEF RqAllocatePod
<1>6. ASSUME RqResize
      PROVE  \/ rq'.pc = "idle" \/ (rq'.pc = "update" /\ Even(P, rq'.new))
             \/ rq'.pc = "grow" /\ HalfGrown(P, rq'.new, rq'.todo, rq'.delta)
  <2> DEFINE o == cache[rq.pod]
             inPool == {s \in o.allocs : s[1] \in P}
             keep == Lowest(inPool, rq.want)
             more == [o EXCEPT !.count = rq.want]
             less == [o EXCEPT !.count = rq.want, !.allocs = keep]
  <2>1. /\ rq \in RqState /\ rq.pod \in Pod /\ rq.want \in Counts /\ rq.conf.pool = P
        /\ o \in NPR /\ Even(P, o)
    BY <1>6 DEF RqResize, TypeOK, RqState, OnePool, EvenEverywhere
  <2>2. /\ more.allocs = o.allocs /\ more.count = rq.want
        /\ less.allocs = keep /\ less.count = rq.want
    BY <2>1 DEF NPR
  <2>3. \/ rq' = RqIdle
        \/ o.count < rq.want /\ rq' = [rq EXCEPT !.pc = IF P = {} THEN "update" ELSE "grow",
                              !.fresh = CacheIsFresh(rq.pod), !.new = more,
                              !.todo = P, !.delta = rq.want - o.count]
        \/ o.count > rq.want /\ rq' = [rq EXCEPT !.pc = "update", !.fresh = CacheIsFresh(rq.pod),
                              !.new = less, !.give = inPool \ keep]
    BY <1>6, <2>1 DEF RqResize
  <2> HIDE DEF more, less
  <2>4. \/ rq' = RqIdle
        \/ o.count < rq.want /\ rq'.pc = (IF P = {} THEN "update" ELSE "grow") /\ rq'.new = more
              /\ rq'.todo = P /\ rq'.delta = rq.want - o.count
        \/ o.count > rq.want /\ rq'.pc = "update" /\ rq'.new = less
    <3> HIDE DEF o, inPool, keep, P
    <3> QED BY <2>1, <2>3 DEF RqState
  <2>5. o.count < rq.want => HalfGrown(P, more, P, rq.want - o.count) /\ (P = {} => Even(P, more))
    BY <2>1, <2>2, HalfGrownStart
  <2>6. o.count > rq.want => Even(P, less)
    BY <2>1, <2>2, EvenFewer
  <2> QED BY <2>4, <2>5, <2>6, IdleFields
<1>7. ASSUME NEW ip \in IP, RqGrow(ip)
      PROVE  \/ rq'.pc = "free" \/ (rq'.pc = "update" /\ Even(P, rq'.new))
             \/ rq'.pc = "grow" /\ HalfGrown(P, rq'.new, rq'.todo, rq'.delta)
  <2>1. /\ rq.gen \in Gen /\ heap[rq.gen] \in Allocator /\ rq.new \in NPR /\ rq \in RqState
        /\ rq.delta \in Nat /\ ip \in rq.todo /\ HalfGrown(P, rq.new, rq.todo, rq.delta)
    BY <1>7 DEF RqGrow, TypeOK, RqState, EvenEverywhere
  <2>2. ASSUME NEW S \in PicksForIP(heap[rq.gen], ip, rq.delta, Unusable(rq.pod, rq.new.allocs)),
               rq' = [rq EXCEPT !.pc = IF rq.todo = {ip} THEN "update" ELSE "grow",
                              !.todo = rq.todo \ {ip}, !.add = rq.add \cup S,
                              !.new = [rq.new EXCEPT !.allocs = @ \cup S]]
        PROVE  \/ rq'.pc = "update" /\ Even(P, rq'.new)
               \/ rq'.pc = "grow" /\ HalfGrown(P, rq'.new, rq'.todo, rq'.delta)
    <3> DEFINE new == [rq.new EXCEPT !.allocs = @ \cup S]
    <3>1. new.allocs = rq.new.allocs \cup S /\ new.count = rq.new.count
      BY <2>1 DEF NPR
    <3>2. rq' = [rq EXCEPT !.pc = IF rq.todo = {ip} THEN "update" ELSE "grow",
                           !.todo = rq.todo \ {ip}, !.add = rq.add \cup S, !.new = new]
      BY <2>2
    <3> HIDE DEF new
    <3>3. /\ rq'.pc = (IF rq.todo = {ip} THEN "update" ELSE "grow") /\ rq'.new = new
          /\ rq'.todo = rq.todo \ {ip} /\ rq'.delta = rq.delta
      BY <2>1, <3>2 DEF RqState
    <3>4. /\ S \in SUBSET Slot /\ Cardinality(S) = rq.delta
          /\ \A s \in S : s[1] = ip /\ s[2] \notin BlocksOf(rq.new.allocs)
      <4>1. Cardinality(S) = rq.delta
        BY DEF PicksForIP
      <4>2. S \in SUBSET Slot /\ \A s \in S : s[1] = ip /\ s[2] \notin Unusable(rq.pod, rq.new.allocs)
        BY SMTT(30), <2>1, IPPicks
      <4> QED BY <4>1, <4>2 DEF Unusable
    <3>5. HalfGrown(P, new, rq.todo \ {ip}, rq.delta)
      BY <2>1, <3>1, <3>4, HalfGrownStep
    <3>6. rq.todo = {ip} => Even(P, new)
      BY <3>5, HalfGrownDone
    <3> QED BY <3>3, <3>5, <3>6
  <2>3. rq' = [rq EXCEPT !.pc = "free", !.give = rq.add] => rq'.pc = "free"
    BY <2>1 DEF RqState
  <2> QED BY <1>7, <2>2, <2>3 DEF RqGrow
<1>8. ASSUME RqFree PROVE rq'.pc = "idle"
  BY <1>8, IdleFields DEF RqFree
<1> QED BY <1>2, <1>3, <1>4, <1>5, <1>6, <1>7, <1>8

\* No step leaves a copy of an NPR uneven while the pool stays what it is.
LEMMA EvenNext ==
    TypeOK /\ OnePool /\ nc # None /\ EvenEverywhere /\ [Next]_vars /\ nc'.pool = nc.pool
        => EvenEverywhere'
<1> SUFFICES ASSUME TypeOK, OnePool, nc # None, EvenEverywhere, [Next]_vars, nc'.pool = nc.pool
             PROVE  EvenEverywhere'
  OBVIOUS
<1> DEFINE P == nc.pool
           RqKept == rq'.pc = rq.pc /\ rq'.new = rq.new /\ rq'.todo = rq.todo /\ rq'.delta = rq.delta
           RlKept == rl'.pc = rl.pc /\ rl'.new = rl.new
           CcKept == cc'.pc = cc.pc /\ cc'.list = cc.list
           ApiEven == /\ \A q \in Pod : Even(P, npr'[q])
                      /\ \A i \in 1..Len(pending') : Even(P, pending'[i].obj)
<1>0. Even(P, None) /\ \A p \in Pod : CcIdle.list[p] = None
  BY DEF Even, CcIdle, NoList
<1>a. UNCHANGED api => ApiEven
  BY DEF api, EvenEverywhere
<1>b. ASSUME ApiEven, cache' = cache,
             RqKept \/ rq'.pc \notin {"create", "grow", "update"}, RlKept \/ rl'.pc = "idle", CcKept
      PROVE  EvenEverywhere'
  BY <1>b, EvenFrame DEF EvenEverywhere
<1>c. ASSUME UNCHANGED <<npr, pending, cache, rq, rl>>, cc'.pc \notin {"extend", "abort"},
             \A p \in Pod : cc'.list[p] \in {cc.list[p], cache[p], None}
      PROVE  EvenEverywhere'
  <2>1. \A p \in Pod : Even(P, cc'.list[p])
    BY <1>0, <1>c DEF EvenEverywhere
  <2> QED BY <1>c, <2>1, EvenFrame DEF EvenEverywhere
<1> HIDE DEF ApiEven
<1>1. CASE Deliver
  <2>1. pending # <<>> /\ pending' = Tail(pending) /\ cache' = [cache EXCEPT ![Head(pending).pod] = Head(pending).obj]
        /\ UNCHANGED <<npr, rq, rl, cc>>
    BY <1>1 DEF Deliver
  <2>2. Head(pending) = pending[1] /\ 1 \in 1..Len(pending)
        /\ \A i \in 1..Len(pending') : i + 1 \in 1..Len(pending) /\ pending'[i] = pending[i + 1]
    <3>1. pending \in Seq([pod : Pod, obj : NPR \cup {None}])
      BY DEF TypeOK
    <3> QED BY SMTT(30), <2>1, <3>1
  <2>3. \A p \in Pod : cache'[p] \in {cache[p], pending[1].obj}
    BY <2>1, <2>2 DEF TypeOK
  <2>4. \A p \in Pod : Even(P, cache'[p])
    BY <2>2, <2>3 DEF EvenEverywhere
  <2>5. \A i \in 1..Len(pending') : Even(P, pending'[i].obj)
    BY <2>2 DEF EvenEverywhere
  <2> QED BY <2>1, <2>4, <2>5, EvenFrame DEF EvenEverywhere
<1>2. CASE \/ \E p \in Pod : RqStartGone(p) \/ RqStart(p)
           \/ RqEnsure \/ RqAllocatePod \/ RqResize \/ (\E ip \in IP : RqGrow(ip)) \/ RqFree
  BY <1>2, EvenRqPrepares
<1>3. CASE RqCreate \/ RqUpdate
  <2>1. rq.pc \in {"create", "update"} /\ (Store(rq.pod, rq.new) \/ UNCHANGED api)
    BY <1>3 DEF RqCreate, RqUpdate, Call, Fails
  <2>2. \E ok, retry : RqAfterCall(ok, retry)
    BY <1>3 DEF RqCreate, RqUpdate
  <2>3. rq.pod \in Pod /\ Even(P, rq.new) /\ rq \in RqState
    BY <2>1 DEF TypeOK, RqState, EvenEverywhere
  <2>4. ApiEven
    BY <2>1, <2>3, EvenWrite DEF ApiEven
  <2>5. rq' = RqIdle \/ \E give : rq' = [rq EXCEPT !.pc = "free", !.give = give]
    BY <2>2 DEF RqAfterCall
  <2>6. rq'.pc \in {"idle", "free"}
    BY <2>3, <2>5, IdleFields DEF RqState
  <2>7. RlKept /\ CcKept /\ cache' = cache
    BY <2>2, <2>3, SpoilKeeps DEF RqAfterCall
  <2> QED BY <1>b, <2>4, <2>6, <2>7
<1>4. ASSUME NEW p \in Pod, RlStart(p) PROVE EvenEverywhere'
  <2>1. UNCHANGED <<npr, pending, cache, rq, cc>>
    BY <1>4 DEF RlStart, api
  <2>2. rl'.pc = "idle" \/ rl'.new = cache[p]
    BY <1>4, IdleFields DEF RlStart
  <2> QED BY <2>1, <2>2, EvenFrame DEF EvenEverywhere
<1>5. ASSUME NEW retry, NEW obj, rl.pc # "idle", RlAfterCall(retry), Even(P, obj),
             Store(rl.pod, obj) \/ UNCHANGED api
      PROVE  EvenEverywhere'
  <2>1. rl.pod \in Pod
    BY <1>5 DEF TypeOK, RlState
  <2>2. ApiEven
    BY <1>5, <2>1, EvenWrite DEF ApiEven
  <2>3. RqKept /\ CcKept /\ cache' = cache /\ rl'.pc = "idle"
    BY <1>5, <2>1, SpoilKeeps, SpoilKeepsGrowth, IdleFields DEF RlAfterCall
  <2> QED BY <1>b, <2>2, <2>3
<1>6. CASE RlStamp
  <2> DEFINE obj == [rl.new EXCEPT !.stale = TRUE]
  <2>1. rl.new \in NPR /\ rl.pc # "idle" /\ Even(P, rl.new) /\ rl.new # None
    BY <1>6, NoneFacts DEF RlStamp, TypeOK, RlState, EvenEverywhere
  <2>2. obj.allocs = rl.new.allocs /\ obj.count = rl.new.count
    BY <2>1 DEF NPR
  <2>3. RlAfterCall(TRUE) /\ (Store(rl.pod, obj) \/ UNCHANGED api)
    BY <1>6 DEF RlStamp, Call, Fails
  <2> HIDE DEF obj
  <2>4. Even(P, obj)
    BY <2>1, <2>2, EvenSame
  <2> QED BY <1>5, <2>1, <2>3, <2>4
<1>7. ASSUME NEW p \in Pod, npr[p] # None
      PROVE  Even(P, [npr[p] EXCEPT !.deleting = TRUE])
  <2> DEFINE obj == [npr[p] EXCEPT !.deleting = TRUE]
  <2>1. obj.allocs = npr[p].allocs /\ obj.count = npr[p].count
    BY <1>7 DEF TypeOK, NPR
  <2> HIDE DEF obj
  <2>2. Even(P, obj)
    BY <1>7, <2>1, EvenSame DEF EvenEverywhere
  <2> QED BY <2>2 DEF obj
<1>8. CASE RlDelete
  <2> DEFINE obj == [npr[rl.pod] EXCEPT !.deleting = TRUE]
  <2>1. rl.pod \in Pod /\ rl.pc # "idle"
    BY <1>8 DEF RlDelete, TypeOK, RlState
  <2>2. PICK retry : RlAfterCall(retry)
    BY <1>8 DEF RlDelete
  <2>3. (npr[rl.pod] # None /\ Store(rl.pod, obj)) \/ UNCHANGED api
    BY <1>8 DEF RlDelete, Call, Fails
  <2>4. npr[rl.pod] # None => Even(P, obj)
    BY <1>7, <2>1
  <2> HIDE DEF obj
  <2> QED BY <1>0, <1>5, <2>1, <2>2, <2>3, <2>4
<1>9. CASE RlRelease
  <2>1. rl'.new = rl.new /\ rl.pc # "idle" /\ UNCHANGED <<npr, pending, cache, rq, cc>>
    BY <1>9 DEF RlRelease, TypeOK, RlState, api
  <2> QED BY <2>1, EvenFrame DEF EvenEverywhere
<1>10. CASE RlFinalize
  <2>1. rl.pc # "idle" /\ \E retry : RlAfterCall(retry) /\ (Store(rl.pod, None) \/ UNCHANGED api)
    BY <1>10 DEF RlFinalize, Call, Fails
  <2> QED BY <1>0, <1>5, <2>1
<1>11. CASE CcStart \/ CcRemove
  <2>1. cc'.pc \in {"remove", "ensure", "idle"} /\ cc'.list = CcIdle.list
    <3>1. CcStart => cc'.pc \in {"remove", "ensure", "idle"} /\ cc'.list = CcIdle.list
      BY DEF CcStart, CcIdle
    <3>2. CcRemove => cc'.pc \in {"remove", "ensure", "idle"} /\ cc'.list = CcIdle.list
      BY IdleFields DEF CcRemove
    <3> QED BY <1>11, <3>1, <3>2
  <2>2. UNCHANGED <<npr, pending, cache, rq, rl>>
    BY <1>11 DEF CcStart, CcRemove, api
  <2> QED BY <1>0, <1>c, <2>1, <2>2
<1>12. CASE CcEnsure
  <2>1. cc'.pc = "list" /\ cc'.list = cc.list
    BY <1>12 DEF CcEnsure, TypeOK, CcState
  <2> QED BY <1>12, <1>c, <2>1 DEF CcEnsure, api
<1>13. CASE CcList
  <2> DEFINE listed == {p \in Pod : cache[p] # None /\ ~cache[p].deleting /\ ~cache[p].stale}
             list == [p \in Pod |-> IF p \in listed THEN cache[p] ELSE None]
  <2>1. \A p \in Pod : list[p] \in {cache[p], None}
    OBVIOUS
  <2>2. cc'.pc = "scan" /\ cc'.list = list
    BY <1>13 DEF CcList, TypeOK, CcState
  <2>3. UNCHANGED <<npr, pending, cache, rq, rl>>
    BY <1>13 DEF CcList, api
  <2> HIDE DEF list
  <2> QED BY <1>c, <2>1, <2>2, <2>3
<1>14. ASSUME NEW p \in Pod, CcScan(p) PROVE EvenEverywhere'
  <2> DEFINE o == cc.list[p]
             list == [cc.list EXCEPT ![p] = None]
  <2>1. o \in NPR /\ cc \in CcState /\ cc.pc = "scan" /\ Even(P, o) /\ cc.conf.pool = P
    BY <1>14 DEF CcScan, TypeOK, CcState, OnePool, EvenEverywhere
  <2>2. \A q \in Pod : list[q] = IF q = p THEN None ELSE cc.list[q]
    BY <2>1 DEF CcState
  <2>3. IPsOf(o.allocs) = cc.conf.pool
    BY <2>1, EvenPool
  <2>4. cc' = [cc EXCEPT !.list = list] /\ UNCHANGED <<npr, pending, cache, rq, rl>>
    BY <1>14, <2>3 DEF CcScan, api
  <2> HIDE DEF list
  <2>5. cc'.list = list /\ cc'.pc = "scan"
    BY <2>1, <2>4 DEF CcState
  <2> QED BY <1>c, <2>2, <2>4, <2>5
<1>15. CASE (\E ip \in IP : CcExtend(ip)) \/ CcUpdate \/ CcAbort
  BY <1>15 DEF CcExtend, CcUpdate, CcAbort, EvenEverywhere
<1>16. CASE CcDrop
  <2>1. cc' = CcIdle \/ (cc'.pc = "scan" /\ cc'.list = cc.list)
    BY <1>16 DEF CcDrop, TypeOK, CcState
  <2>2. UNCHANGED <<npr, pending, cache, rq, rl>>
    BY <1>16 DEF CcDrop, api
  <2> QED BY <1>0, <1>c, <2>1, <2>2, IdleFields
<1>17. CASE (\E p \in Pod : EditRequest(p)) \/ EditConfig \/ Resync \/ UNCHANGED vars
  <2>1. UNCHANGED <<npr, pending, cache, rq, rl, cc>>
    BY <1>17 DEF EditRequest, EditConfig, Resync, EnvStep, api, vars
  <2> QED BY <1>c, <2>1 DEF EvenEverywhere
<1>18. ASSUME NEW p \in Pod, DeleteNPR(p) PROVE EvenEverywhere'
  <2> DEFINE obj == [npr[p] EXCEPT !.deleting = TRUE]
  <2>1. npr[p] # None /\ Store(p, obj)
    BY <1>18 DEF DeleteNPR
  <2>2. Even(P, obj)
    BY <1>7, <2>1
  <2> HIDE DEF obj
  <2>3. ApiEven
    BY <2>1, <2>2, EvenWrite DEF ApiEven
  <2>4. RqKept /\ RlKept /\ CcKept /\ cache' = cache
    BY <1>18, SpoilKeeps, SpoilKeepsGrowth DEF DeleteNPR, EnvStep
  <2> QED BY <1>b, <2>3, <2>4
<1>19. CASE Restart
  <2>1. cache' = npr /\ npr' = npr /\ Len(pending') = 0 /\ rq' = RqIdle /\ rl' = RlIdle /\ cc' = CcIdle
    BY <1>19 DEF Restart
  <2>2. \A p \in Pod : Even(P, cc'.list[p])
    BY <1>0, <2>1
  <2>3. 1..Len(pending') = {}
    BY SMTT(30), <2>1
  <2>4. \A p \in Pod : Even(P, npr'[p]) /\ Even(P, cache'[p])
    BY <2>1 DEF EvenEverywhere
  <2>5. /\ rq'.pc \notin {"create", "grow", "update"} /\ rl'.pc = "idle"
        /\ cc'.pc \notin {"extend", "abort"}
    BY <2>1, IdleFields
  <2> QED BY <2>2, <2>3, <2>4, <2>5, EvenFrame
<1> QED
  BY <1>1, <1>2, <1>3, <1>4, <1>6, <1>8, <1>9, <1>10, <1>11, <1>12, <1>13, <1>14, <1>15, <1>16,
     <1>17, <1>18, <1>19 DEF Next, RqStep, RlStep, CcStep

-----------------------------------------------------------------------------
(***************************************************************************)
(* While the pool stays as it is, every request gets its blocks.           *)
(***************************************************************************)
\* A write of an object makes no NPR disappear.
LEMMA StoreKeeps ==
    ASSUME TypeOK, NEW p \in Pod, NEW obj \in NPR, Store(p, obj) \/ UNCHANGED api
    PROVE  \A q \in Pod : npr'[q] = None => npr[q] = None
BY NoneFacts DEF Store, api, TypeOK

\* A request whose NPR the cache still has, though it is gone, is gone too.
LEMMA GoneForAll ==
    ASSUME Ownership, NEW p \in Pod, npr[p] = None, nprr[p] # None
    PROVE  cache[p] = None
BY DEF Ownership, Dying

LEMMA NoneForgottenNext ==
    ASSUME Calm, TypeOK, Ownership, NoneForgotten, [Next]_vars
    PROVE  NoneForgotten'
<1> DEFINE Waits(p) == p \in rqQ \/ (rq.pod = p /\ rq.pc \in {"ensure", "decide", "create"})
<1>0. \A p \in Pod : nprr[p] # None /\ npr[p] = None => Waits(p)
  BY DEF NoneForgotten
<1>a. ASSUME nprr' = nprr, \A p \in Pod : npr'[p] = None => npr[p] = None \/ nprr[p] = None,
             \A p \in Pod : nprr[p] # None /\ npr'[p] = None /\ Waits(p) => Waits(p)'
      PROVE  NoneForgotten'
  BY <1>0, <1>a DEF NoneForgotten
<1>b. ASSUME UNCHANGED <<nprr, npr>>, \A p \in Pod : nprr[p] # None /\ npr[p] = None /\ Waits(p) => Waits(p)'
      PROVE  NoneForgotten'
  BY <1>a, <1>b
<1>c. ASSUME nprr' = nprr, \A p \in Pod : npr'[p] = None => npr[p] = None \/ nprr[p] = None,
             rqQ' = rqQ, rq'.pod = rq.pod, rq'.pc = rq.pc
      PROVE  NoneForgotten'
  BY <1>a, <1>c
<1> HIDE DEF Waits
<1>1. ASSUME NEW p \in Pod, RqStartGone(p) \/ RqStart(p) PROVE NoneForgotten'
  <2>1. UNCHANGED <<nprr, npr>> /\ rq.pc = "idle" /\ rqQ' = rqQ \ {p}
    BY <1>1 DEF RqStartGone, RqStart, user, api
  <2>2. nprr[p] = None \/ (rq'.pod = p /\ rq'.pc = "ensure")
    BY <1>1 DEF RqStartGone, RqStart, RqIdle
  <2> QED BY <1>b, <2>1, <2>2 DEF Waits
<1>2. CASE RqEnsure
  <2>1. UNCHANGED <<nprr, npr, rqQ>> /\ rq'.pod = rq.pod /\ rq'.pc = "decide"
    BY <1>2 DEF RqEnsure, user, api, queues, TypeOK, RqState
  <2> QED BY <1>b, <2>1 DEF Waits
<1>3. CASE RqAllocatePod
  <2>1. UNCHANGED <<nprr, npr>> /\ rqQ \subseteq rqQ'
    BY <1>3 DEF RqAllocatePod, user, api
  <2>2. rq.pod \in rqQ' \/ (rq'.pod = rq.pod /\ rq'.pc = "create")
    BY <1>3 DEF RqAllocatePod, TypeOK, RqState
  <2> QED BY <1>b, <2>1, <2>2 DEF Waits
<1>4. CASE RqResize
  <2>1. UNCHANGED <<nprr, npr, rqQ>> /\ cache[rq.pod] # None
    BY <1>4 DEF RqResize, user, api, queues
  <2> QED BY <1>b, <2>1, GoneForAll DEF Waits
<1>5. CASE (\E ip \in IP : RqGrow(ip)) \/ RqFree
  <2>1. UNCHANGED <<nprr, npr>> /\ rqQ \subseteq rqQ' /\ rq.pc \in {"grow", "free"}
    BY <1>5 DEF RqGrow, RqFree, user, api, queues
  <2> QED BY <1>b, <2>1 DEF Waits
<1>6. CASE RqCreate
  <2>1. rq.pod \in Pod /\ rq.new \in NPR /\ nprr' = nprr
    BY <1>6 DEF RqCreate, RqAfterCall, user, TypeOK, RqState
  <2>2. /\ Store(rq.pod, rq.new) \/ UNCHANGED api
        /\ rqQ \subseteq rqQ' /\ (Store(rq.pod, rq.new) \/ npr[rq.pod] # None \/ rq.pod \in rqQ')
    BY <1>6 DEF RqCreate, RqAfterCall, Fails
  <2>3. \A q \in Pod : npr'[q] = None => npr[q] = None
    BY <2>1, <2>2, StoreKeeps
  <2>4. npr'[rq.pod] # None \/ rq.pod \in rqQ'
    BY <2>1, <2>2, <2>3, NoneFacts DEF Store, TypeOK
  <2> QED BY <1>a, <2>1, <2>2, <2>3, <2>4 DEF Waits
<1>7. CASE RqUpdate
  <2>1. /\ rq.pod \in Pod /\ rq.new \in NPR /\ nprr' = nprr /\ rqQ \subseteq rqQ' /\ rq.pc = "update"
        /\ Store(rq.pod, rq.new) \/ UNCHANGED api
    BY <1>7 DEF RqUpdate, RqAfterCall, Call, Fails, user, TypeOK, RqState
  <2>2. \A q \in Pod : npr'[q] = None => npr[q] = None
    BY <2>1, StoreKeeps
  <2> QED BY <1>a, <2>1, <2>2 DEF Waits
<1>8. ASSUME NEW retry, rl.pc # "idle", RlAfterCall(retry),
             \A p \in Pod : npr'[p] = None => npr[p] = None \/ nprr[p] = None
      PROVE  NoneForgotten'
  <2>1. rl.pod \in Pod
    BY <1>8 DEF TypeOK, RlState
  <2>2. nprr' = nprr /\ rqQ' = rqQ /\ rq'.pc = rq.pc /\ rq'.pod = rq.pod
    BY <1>8, <2>1, SpoilKeeps DEF RlAfterCall, user
  <2> QED BY <1>c, <1>8, <2>2
<1>9. CASE RlStamp
  BY <1>9 DEF RlStamp, Ownership, Release
<1>10. CASE RlDelete
  <2> DEFINE obj == [npr[rl.pod] EXCEPT !.deleting = TRUE]
  <2>1. rl.pod \in Pod /\ rl.pc # "idle"
    BY <1>10 DEF RlDelete, TypeOK, RlState
  <2>2. PICK retry : RlAfterCall(retry)
    BY <1>10 DEF RlDelete
  <2>3. (npr[rl.pod] # None /\ Store(rl.pod, obj)) \/ UNCHANGED api
    BY <1>10 DEF RlDelete, Call, Fails
  <2>4. npr[rl.pod] # None => obj \in NPR
    BY <2>1 DEF NPR, TypeOK
  <2> HIDE DEF obj
  <2>5. \A q \in Pod : npr'[q] = None => npr[q] = None
    <3>1. CASE UNCHANGED api
      BY <3>1 DEF api
    <3>2. CASE npr[rl.pod] # None /\ Store(rl.pod, obj)
      BY <2>1, <2>4, <3>2, StoreKeeps
    <3> QED BY <2>3, <3>1, <3>2
  <2> QED BY <1>8, <2>1, <2>2, <2>5
<1>11. CASE RlFinalize
  <2>1. rl.pod \in Pod /\ rl.pc = "finalize" /\ nprr[rl.pod] = None
    BY <1>11 DEF RlFinalize, TypeOK, RlState, Ownership, Release, Dying
  <2>2. PICK retry : RlAfterCall(retry) /\ (Store(rl.pod, None) \/ UNCHANGED api)
    BY <1>11 DEF RlFinalize, Call, Fails
  <2>3. \A q \in Pod : npr'[q] = None => npr[q] = None \/ nprr[q] = None
    BY <2>1, <2>2 DEF Store, api, TypeOK
  <2> QED BY <1>8, <2>1, <2>2, <2>3
<1>12. CASE CcUpdate
  <2>1. cc.pod \in Pod /\ cc.new \in NPR /\ (Store(cc.pod, cc.new) \/ UNCHANGED api)
    BY <1>12 DEF CcUpdate, Call, Fails, TypeOK, CcState
  <2>2. \A q \in Pod : npr'[q] = None => npr[q] = None
    BY <2>1, StoreKeeps
  <2>3. nprr' = nprr /\ rqQ' = rqQ /\ rq'.pc = rq.pc /\ rq'.pod = rq.pod
    BY <1>12, <2>1, SpoilKeeps DEF CcUpdate, user, queues
  <2> QED BY <1>c, <2>2, <2>3
<1>13. CASE \/ CcStart \/ CcRemove \/ CcEnsure \/ CcList \/ (\E p \in Pod : CcScan(p))
            \/ (\E ip \in IP : CcExtend(ip)) \/ CcAbort \/ CcDrop
  <2>1. UNCHANGED <<nprr, npr, rqQ, rq>>
    BY <1>13 DEF CcStart, CcRemove, CcEnsure, CcList, CcScan, CcExtend, CcAbort, CcDrop, user, api, queues
  <2> QED BY <1>c, <2>1
<1>14. CASE RlRelease \/ Deliver \/ (\E p \in Pod : RlStart(p)) \/ EditConfig \/ UNCHANGED vars
  <2>1. UNCHANGED <<nprr, npr, rqQ, rq>>
    BY <1>14 DEF RlRelease, Deliver, RlStart, EditConfig, vars, user, api, queues
  <2> QED BY <1>c, <2>1
<1>15. ASSUME NEW p \in Pod, EditRequest(p) PROVE NoneForgotten'
  <2>1. UNCHANGED <<npr, rq>> /\ rqQ' = rqQ \cup {p} /\ \A q \in Pod : q # p => nprr'[q] = nprr[q]
    BY <1>15 DEF EditRequest, api, TypeOK
  <2> QED BY <2>1 DEF NoneForgotten
<1>16. ASSUME NEW p \in Pod, DeleteNPR(p) PROVE FALSE
  BY <1>16, CalmFacts DEF DeleteNPR
<1>17. CASE Resync
  BY <1>17, CalmFacts DEF Resync
<1>18. CASE Restart
  BY <1>18 DEF Restart, NoneForgotten
<1> QED
  BY <1>1, <1>2, <1>3, <1>4, <1>5, <1>6, <1>7, <1>9, <1>10, <1>11, <1>12, <1>13, <1>14, <1>15,
     <1>16, <1>17, <1>18 DEF Next, RqStep, RlStep, CcStep

LEMMA ProvidedInit == Init => Provided
<1> SUFFICES ASSUME Init PROVE Provided
  OBVIOUS
<1>1. Len(pending) = 0 /\ \A p \in Pod : npr[p] = None /\ cache[p] = None /\ nprr[p] = None /\ cc.list[p] = None
  BY DEF Init, CcIdle, NoList
<1>2. rq.pc = "idle" /\ rl.pc = "idle" /\ cc.pc = "idle"
  BY IdleFields DEF Init
<1> QED BY <1>1, <1>2 DEF Provided, EvenEverywhere, NoneForgotten, Even

LEMMA ProvidedNext ==
    ASSUME Steady, TypeOK, Ownership, Account, Provided, [Next]_vars
    PROVE  Provided'
<1>0. Calm /\ "grow" \notin Env
  BY SteadyIsCalm
<1>1. nc # None /\ nc'.pool = nc.pool
  <2>1. nc # None
    BY DEF Ownership, OneAllocator
  <2>2. CASE EditConfig
    BY <1>0, <2>1, <2>2, CalmFacts DEF EditConfig, MayBecome
  <2>3. CASE UNCHANGED nc
    BY <2>1, <2>3
  <2>4. ~EditConfig => UNCHANGED nc
    BY DEF Next, RqStep, RlStep, CcStep, vars, user, Deliver, RqStartGone, RqStart, RqEnsure,
           RqAllocatePod, RqResize, RqGrow, RqCreate, RqUpdate, RqAfterCall, RqFree, RlStart,
           RlStamp, RlDelete, RlAfterCall, RlRelease, RlFinalize, CcStart, CcRemove, CcEnsure,
           CcList, CcScan, CcExtend, CcUpdate, CcAbort, CcDrop, EditRequest, DeleteNPR, Resync,
           Restart
  <2> QED BY <2>1, <2>2, <2>3, <2>4
<1>2. EvenEverywhere'
  BY <1>1, EvenNext DEF Account, Provided
<1>3. NoneForgotten'
  BY <1>0, NoneForgottenNext DEF Provided
<1> QED BY <1>2, <1>3 DEF Provided

LEMMA ServedAtRest == TypeOK /\ Ownership /\ Provided => Served
<1> SUFFICES ASSUME TypeOK, Ownership, Provided, Quiescent, NEW p \in Pod, nprr[p] # None
             PROVE  /\ Exists(p) /\ ~npr[p].stale /\ ~npr[p].deleting
                    /\ IPsOf(npr[p].allocs) = nc.pool
                    /\ \A ip \in nc.pool : Cardinality(OnIP(npr[p].allocs, ip)) = npr[p].count
  BY DEF Served
<1>1. npr[p] # None
  BY IdleFields DEF Quiescent, Provided, NoneForgotten
<1>2. ~npr[p].stale /\ ~npr[p].deleting
  BY <1>1 DEF Ownership, Dying, Stale, Deleting
<1>3. npr[p] \in NPR /\ Even(nc.pool, npr[p])
  BY <1>1 DEF TypeOK, Provided, EvenEverywhere
<1>4. IPsOf(npr[p].allocs) = nc.pool
  BY <1>3, EvenPool
<1> QED BY <1>1, <1>2, <1>3, <1>4 DEF Exists, Even

\* While the pool stays as it is, a request is served: when the operator is at
\* rest, its NPR exists, is not on its way out and lists, on every pool IP and on
\* no other, as many blocks as it says, whatever creations, resizes, failed calls
\* and restarts have come before.
THEOREM ServedHolds == Steady => (Spec => []Served)
<1> SUFFICES ASSUME Steady PROVE Spec => []Served
  OBVIOUS
<1>1. TypeOK /\ Ownership /\ Account /\ [Next]_vars => Account'
  BY AccountNext
<1>2. TypeOK /\ Ownership /\ Account /\ Provided /\ [Next]_vars => Provided'
  BY ProvidedNext
<1>3. Calm
  BY SteadyIsCalm
<1>4. Spec => []TypeOK
  BY TypeCorrect
<1>5. Spec => []Ownership
  BY <1>3, OwnershipHolds
<1>6. TypeOK /\ Ownership /\ Provided => Served
  BY ServedAtRest
<1> QED BY <1>1, <1>2, <1>4, <1>5, <1>6, AccountInit, ProvidedInit, PTL DEF Spec
=============================================================================
