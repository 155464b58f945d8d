---------------------------- MODULE OperatorInv -----------------------------
(***************************************************************************)
(* Inductive invariants of Operator: why its blocks stay disjoint.         *)
(***************************************************************************)
EXTENDS Operator

(***************************************************************************)
(* In any environment: every copy of an NPR, wherever it is, lists blocks  *)
(* whose indices differ and that p's own ports are not in.                 *)
(***************************************************************************)
Clean(p, o) ==
    o # None => IndicesDistinct(o.allocs) /\ BlocksOf(o.allocs) \cap Exclude[p] = {}

\* What PodRangesDisjoint rests on: not only the stored NPRs are clean but also
\* the cached ones, the events on the way and the copies being edited.
CleanEverywhere ==
    /\ \A p \in Pod : Clean(p, npr[p]) /\ Clean(p, cache[p]) /\ Clean(p, cc.list[p])
    /\ \A i \in 1..Len(pending) : Clean(pending[i].pod, pending[i].obj)
    /\ rq.pc # "idle" => Clean(rq.pod, rq.new)
    /\ rl.pc # "idle" => Clean(rl.pod, rl.new)
    /\ cc.pc = "extend" => Clean(cc.pod, cc.new)

(***************************************************************************)
(* In a calm environment: the pool only grows and not under a NATConfig    *)
(* reconcile's feet, NPRs are deleted only by the operator, a request is   *)
(* not repeated before the NPR of its predecessor has gone, the operator   *)
(* does not restart while an NPR terminates, and the call that removes the *)
(* finalizer does not fail.                                                *)
(***************************************************************************)
CalmEvents == {"delete", "resize", "edit", "grow", "crash", "api_error"}

Stale(o)    == o # None /\ o.stale
Deleting(o) == o # None /\ o.deleting

\* Nothing but the registry's one allocator is in use, and no IP ever leaves it.
OneAllocator ==
    /\ nc # None
    /\ rq.gen \in {None, cur} /\ cc.gen \in {None, cur}
    /\ rq.conf # None => rq.conf.pool \subseteq nc.pool
    /\ cc.pc = "ensure" => cc.conf.pool = nc.pool
    /\ cc.gone = {} /\ cc.pc # "remove"
    /\ cur # None => heap[cur].reg \subseteq nc.pool

\* The cache lags behind the API server but ends up where it is; nothing
\* follows the event of a deletion until that event has been seen.
Coherent ==
    /\ \A p \in Pod : CacheIsFresh(p) => cache[p] = npr[p]
    /\ \A i \in 1..Len(pending) : LET p == pending[i].pod o == pending[i].obj IN
        /\ (\A j \in 1..Len(pending) : j > i => pending[j].pod # p) => o = npr[p]
        /\ Deleting(o) => \A j \in 1..Len(pending) : j > i => pending[j].pod # p
        /\ o = None => /\ \A j \in 1..Len(pending) : j # i => pending[j].pod # p
                       /\ Stale(cache[p])
        /\ npr[p] = None => o = None
        /\ Stale(o) => Stale(npr[p])

\* The last days of an NPR: from the stale mark on nobody else writes it, and
\* whoever sees it terminating sees it as it is.
Dying ==
    \A p \in Pod :
        /\ Deleting(npr[p]) => Stale(npr[p])
        /\ Stale(cache[p]) => npr[p] = None \/ Stale(npr[p])
        /\ Deleting(cache[p]) => npr[p] = None \/ CacheIsFresh(p)
        /\ npr[p] = None /\ cache[p] # None => Stale(cache[p]) /\ p \notin rlQ /\ rl.pod # p
        /\ Stale(npr[p]) \/ Stale(cache[p]) =>
              /\ nprr[p] = None
              /\ rq.pod = p => rq.pc = "update" /\ ~rq.fresh /\ rq.add = {} /\ rq.give = {}

\* What a reconcile of an NPR that is on its way out knows about it.
Release ==
    /\ rl.pc = "idle" => rl.pod = None
    /\ rl.pc # "stamp"
    /\ rl.pc = "delete" => Stale(npr[rl.pod])
    /\ rl.pc \in {"release", "finalize"} =>
          /\ rl.fresh /\ rl.pod \notin rlQ /\ CacheIsFresh(rl.pod)
          /\ rl.new = npr[rl.pod] /\ Deleting(rl.new)

\* A reconcile whose copy is still current edits what the API server has.
FreshCopies ==
    /\ rq.fresh => /\ rq.pc \in {"grow", "update", "free"}
                   /\ rq.pc \in {"grow", "update"} =>
                        /\ npr[rq.pod] # None /\ ~Stale(npr[rq.pod])
                        /\ rq.new.allocs \subseteq npr[rq.pod].allocs \cup rq.add
                        /\ rq.give \subseteq npr[rq.pod].allocs \ rq.new.allocs
                        /\ rq.new.stale => nprr[rq.pod] = None /\ rq.new.allocs = npr[rq.pod].allocs
    /\ rq.pc = "idle" => rq = RqIdle
    /\ rq.pc \in {"ensure", "decide"} => rq.add = {} /\ rq.give = {}
    /\ rq.pc = "create" => rq.new.allocs = rq.add /\ rq.give = {} /\ ~rq.new.stale /\ ~rq.new.deleting
    /\ rq.pc = "grow" => rq.give = {} /\ ~rq.new.stale /\ ~rq.new.deleting
    /\ rq.pc = "update" => /\ ~rq.new.deleting
                           /\ rq.add = {} \/ rq.give = {}
                           /\ rq.new.stale => rq.add = {} /\ rq.give = {}
    /\ \A p \in cc.fresh : cc.list[p] # None => cc.list[p] = npr[p]
    /\ \A p \in Pod : cc.list[p] # None => ~cc.list[p].stale /\ ~cc.list[p].deleting
    /\ cc.pc = "extend" => /\ ~cc.new.stale /\ ~cc.new.deleting
                           /\ cc.new.allocs \subseteq cc.list[cc.pod].allocs \cup cc.add
                           /\ cc.list[cc.pod] # None
    /\ cc.pc \notin {"extend", "abort"} => cc.add = {}

\* Who answers for a slot: the NPR that lists it until its blocks have been
\* returned, or the reconcile that has taken it and not yet handed it on.
OwnedBy(p) == IF npr[p] = None \/ (rl.pc = "finalize" /\ rl.pod = p) THEN {} ELSE npr[p].allocs
InRq == IF rq.pc = "free" THEN rq.give ELSE rq.add
InCc == cc.add
FreeNow == IF cur = None THEN {} ELSE heap[cur].free
RegNow  == IF cur = None THEN {} ELSE heap[cur].reg

\* Every slot has one owner, and only slots of registered IPs have one.
SingleOwner ==
    /\ InRq \cap InCc = {} /\ InRq \cap FreeNow = {} /\ InCc \cap FreeNow = {}
    /\ \A p \in Pod : /\ OwnedBy(p) \cap (InRq \cup InCc \cup FreeNow) = {}
                      /\ \A q \in Pod : p # q => OwnedBy(p) \cap OwnedBy(q) = {}
                      /\ OwnedBy(p) \subseteq RegNow \X Block
    /\ InRq \cup InCc \subseteq RegNow \X Block

\* The inductive invariant behind Exclusive in a calm environment.
Ownership == OneAllocator /\ Coherent /\ Dying /\ Release /\ FreshCopies /\ SingleOwner

(***************************************************************************)
(* While the pool stays as it is: no block is lost either.  When the pool  *)
(* may grow, a NATConfig reconcile that read the smaller pool strikes the  *)
(* blocks of the new IPs from NPRs without returning them.                 *)
(***************************************************************************)
SteadyEvents == CalmEvents \ {"grow"}

OnePool == /\ rq.conf # None => rq.conf.pool = nc.pool
           /\ cc.conf # None => cc.conf.pool = nc.pool

\* A write from a current copy keeps or returns what the NPR lists and what
\* the reconcile has taken for it.
RqKeeps == rq.fresh /\ rq.pc \in {"grow", "update"} =>
              npr[rq.pod].allocs \cup rq.add \subseteq rq.new.allocs \cup rq.give
CcKeeps == cc.pc = "extend" /\ cc.pod \in cc.fresh =>
              cc.list[cc.pod].allocs \cup cc.add \subseteq cc.new.allocs

\* Every slot of a registered IP has an owner.
Owned(s) == s \in FreeNow \cup InRq \cup InCc \/ \E p \in Pod : s \in OwnedBy(p)
Lossless == \A s \in RegNow \X Block : Owned(s)

\* With Ownership, the inductive invariant behind Accounted.
Account == OnePool /\ RqKeeps /\ CcKeeps /\ Lossless

(***************************************************************************)
(* Nor is a request left without its blocks: every copy of an NPR lists as *)
(* many as it says on every IP of the pool, and no others, so that the     *)
(* reconcile of the NATConfig finds nothing to add or to take away.        *)
(***************************************************************************)
Even(P, o) ==
    o # None => /\ IPsOf(o.allocs) \subseteq P
                /\ \A ip \in P : Cardinality(OnIP(o.allocs, ip)) = o.count

\* On the IPs it has not been to yet, increaseCount is delta blocks short.
HalfGrown(P, o, todo, delta) ==
    /\ todo \subseteq P /\ IPsOf(o.allocs) \subseteq P
    /\ \A ip \in P : Cardinality(OnIP(o.allocs, ip)) =
                        IF ip \in todo THEN o.count - delta ELSE o.count

EvenEverywhere ==
    /\ \A p \in Pod : /\ Even(nc.pool, npr[p]) /\ Even(nc.pool, cache[p])
                      /\ Even(nc.pool, cc.list[p])
    /\ \A i \in 1..Len(pending) : Even(nc.pool, pending[i].obj)
    /\ rq.pc \in {"create", "update"} => Even(nc.pool, rq.new)
    /\ rq.pc = "grow" => HalfGrown(nc.pool, rq.new, rq.todo, rq.delta)
    /\ rl.pc # "idle" => Even(nc.pool, rl.new)
    /\ cc.pc \notin {"extend", "abort"}

\* A request for which there is no NPR is queued, or on its way to the Create.
NoneForgotten ==
    \A p \in Pod : nprr[p] # None /\ npr[p] = None =>
        p \in rqQ \/ (rq.pod = p /\ rq.pc \in {"ensure", "decide", "create"})

\* With Ownership and Account, the inductive invariant behind Served.
Provided == EvenEverywhere /\ NoneForgotten
=============================================================================
