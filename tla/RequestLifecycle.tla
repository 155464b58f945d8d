-------------------------- MODULE RequestLifecycle --------------------------
(***************************************************************************)
(* The requests (NATPortRangeRequest) of one pod name, kept by the daemon  *)
(* of one node: the Pod controller makes them, gives them a grace period   *)
(* and renews them, the NPRR controller deletes them when it is over, and  *)
(* the startup syncer looks for pods that went away while it was down.     *)
(*                                                                         *)
(* The controllers share nothing but the API server and run side by side.  *)
(* A reconcile is cut at every call of the API server.  Reads go to the    *)
(* daemon's cache, of requests of this node and pod ("seen"); pods and     *)
(* NATConfigs are read as they are, since each of their changes queues the *)
(* pod after the cache has it.  A grace period's end is a stamp, and time  *)
(* is the last stamp that has passed.                                      *)
(***************************************************************************)
EXTENDS Naturals

CONSTANTS NC,         \* NATConfig names
          IP,         \* pod addresses
          Note,       \* values of the port-range-count annotation, 0: absent
          MaxInt32,   \* the largest count that parses
          None,
          Env,        \* which of the events below can happen
          MaxEdits,   \* bound: number of changes to pod and NATConfigs
          MaxFaults   \* bound: number of failed calls and restarts

Request  == [foreign : BOOLEAN, ip : IP \cup {None}, count : 0 .. MaxInt32, expiry : Nat, rev : Nat]
PodType  == [ip : IP \cup {None}, terminating : BOOLEAN, labels : SUBSET NC, note : Note]
Copies   == [NC -> Request \cup {None}]
WorkType == [pod : PodType \cup {None}, ends : BOOLEAN, want : SUBSET NC, copy : Copies,
             create : SUBSET NC, visit : SUBSET NC]

ASSUME RequestAssumption ==
    /\ Note \subseteq Nat /\ MaxInt32 \in Nat
    /\ None \notin IP /\ None \notin NC /\ None \notin Request /\ None \notin WorkType
    /\ Env \subseteq {"recreate", "relabel", "annotate", "natconfig", "restart", "fail",
                      "lag", "race", "clash"}
    /\ MaxEdits \in Nat /\ MaxFaults \in Nat

VARIABLES pod,        \* the pod of this name on this node
          ncs,        \* the NATConfigs that exist
          edits, faults,
          rq,         \* the request of each NATConfig, in the API server
          seen,       \* and in the daemon's cache
          rev,        \* the last resource version
          stamp,      \* the last grace period given
          clock,      \* the last one that is over
          up,
          podq, rqq,  \* the work queues: the pod, and requests by NATConfig
          alarm,      \* RequeueAfter of the NPRR controller
          work,       \* the Pod controller's reconcile in progress
          del,        \* the request the NPRR controller is about to delete
          sync        \* the startup syncer

api   == <<pod, ncs, edits>>
store == <<rq, seen, rev>>
time  == <<stamp, clock>>
rqc   == <<rqq, alarm, del>>
vars  == <<api, faults, store, time, up, podq, rqc, work, sync>>

NoSync  == [todo |-> {}, copy |-> [n \in NC |-> None], hit |-> None]
NoAlarm == [n \in NC |-> 0]

\* The daemon's cache holds the requests of its own node, and finds them by
\* the pod's identity; a foreign one has the name but not these.
View(r) == IF r = None \/ r.foreign THEN None ELSE r

\* A request of that name left by another node's daemon, or made for a pod
\* whose namespace and name join to the same nprrName.  It is gone when a pod
\* is bound here, but for "clash".
Foreign == [foreign |-> TRUE, ip |-> None, count |-> 0, expiry |-> 0, rev |-> 0]

Init ==
    /\ pod = None /\ ncs = NC /\ edits = 0 /\ faults = 0
    /\ rq \in [NC -> {None, Foreign}]
    /\ seen = [n \in NC |-> None] /\ rev = 0
    /\ stamp = 0 /\ clock = 0
    /\ up = TRUE /\ podq = FALSE /\ rqq = {} /\ alarm = NoAlarm
    /\ work = None /\ del = None /\ sync = NoSync

-----------------------------------------------------------------------------
(* Writes to the API server.                                               *)

\* The request n becomes r.
Store(n, r) ==
    /\ rq' = [rq EXCEPT ![n] = r]
    /\ rev' = rev + 1
    /\ UNCHANGED seen

\* The watch brings a change to the cache and queues the request.
Deliver(n) ==
    /\ up /\ seen[n] # View(rq[n])
    /\ seen' = [seen EXCEPT ![n] = View(rq[n])]
    /\ rqq' = rqq \cup {n}
    /\ UNCHANGED <<api, faults, rq, rev, time, up, podq, alarm, work, del, sync>>

\* Without "lag", a reconcile starts when the cache has the daemon's own
\* earlier writes.
CaughtUp == "lag" \in Env \/ \A n \in NC : seen[n] = View(rq[n])

\* deletionGracePeriod from now.
NewExpiry == stamp + 1

-----------------------------------------------------------------------------
(* The Pod controller.                                                     *)

\* desiredPortRangeCount: 0 stands for nil, which is what an annotation gives
\* that is missing, not positive or no number of 32 bits.
DesiredCount(p) == IF p.note \in 1 .. MaxInt32 THEN p.note ELSE 0

MatchingNCs(p) == p.labels \cap ncs

\* Without "race", nothing happens between a check and the write it is for.
Unraced == "race" \in Env \/ (del = None /\ sync.hit = None)

\* PodReconciler.Reconcile up to its first write, and handlePodGone.  A pod
\* without an address stays queued (RequeueAfter).
PodBegin ==
    /\ up /\ podq /\ work = None /\ Unraced /\ CaughtUp
    /\ pod # None => pod.ip # None
    /\ podq' = FALSE
    /\ LET found == {n \in NC : seen[n] # None}
           want  == IF pod = None THEN {} ELSE MatchingNCs(pod)
           ends  == pod = None \/ pod.terminating IN
       work' = [pod |-> pod, ends |-> ends, want |-> want, copy |-> seen,
                create |-> IF ends THEN {} ELSE want \ found, visit |-> found]
    /\ UNCHANGED <<api, faults, store, time, up, rqc, sync>>

\* Create; a request of that name that exists is left as it is.
CreateRequest(n) ==
    /\ work # None /\ Unraced /\ n \in work.create
    /\ work' = [work EXCEPT !.create = @ \ {n}]
    /\ IF rq[n] # None THEN UNCHANGED store
       ELSE Store(n, [foreign |-> FALSE, ip |-> work.pod.ip, count |-> DesiredCount(work.pod),
                      expiry |-> 0, rev |-> rev + 1])
    /\ UNCHANGED <<api, faults, time, up, podq, rqc, sync>>

ShouldExpire(n) == work.ends \/ n \notin work.want

\* Where the loop over the existing requests is.
Visiting(n) == work # None /\ Unraced /\ work.create = {} /\ n \in work.visit

Visited(n) == work' = [work EXCEPT !.visit = @ \ {n}]

\* The object was deleted under the update: an error that is retried.
Lost == work' = None /\ podq' = TRUE

\* The pod is gone or going, or matches no more: the grace period starts.
\* A conflict is passed over.
Expire(n) ==
    /\ Visiting(n) /\ ShouldExpire(n) /\ work.copy[n].expiry = 0
    /\ IF rq[n] = None THEN Lost /\ UNCHANGED <<store, stamp>>
       ELSE /\ Visited(n) /\ UNCHANGED podq
            /\ IF rq[n].rev # work.copy[n].rev THEN UNCHANGED <<store, stamp>>
               ELSE /\ stamp' = NewExpiry
                    /\ Store(n, [rq[n] EXCEPT !.expiry = NewExpiry, !.rev = rev + 1])
    /\ UNCHANGED <<api, faults, clock, up, rqc, sync>>

\* An update of the request n that keeps it.  The reconcile goes on with the
\* server's answer, or after a conflict with its own copy.
Rewrite(n, new) ==
    /\ IF rq[n] = None THEN Lost /\ UNCHANGED store
       ELSE /\ UNCHANGED podq
            /\ IF rq[n].rev # work.copy[n].rev
               THEN UNCHANGED store /\ work' = [work EXCEPT !.copy[n] = new]
               ELSE LET r == [new EXCEPT !.rev = rev + 1] IN
                    Store(n, r) /\ work' = [work EXCEPT !.copy[n] = r]
    /\ UNCHANGED <<api, faults, time, up, rqc, sync>>

\* The pod runs and matches: a grace period is taken back ...
Renew(n) ==
    /\ Visiting(n) /\ ~ShouldExpire(n) /\ work.copy[n].expiry # 0
    /\ Rewrite(n, [work.copy[n] EXCEPT !.expiry = 0])

\* ... and then the count follows the annotation.
Recount(n) ==
    /\ Visiting(n) /\ ~ShouldExpire(n) /\ work.copy[n].expiry = 0
    /\ work.copy[n].count # DesiredCount(work.pod)
    /\ Rewrite(n, [work.copy[n] EXCEPT !.count = DesiredCount(work.pod)])

\* Nothing is left to do for n.
Pass(n) ==
    /\ Visiting(n)
    /\ IF ShouldExpire(n) THEN work.copy[n].expiry # 0
       ELSE work.copy[n].expiry = 0 /\ work.copy[n].count = DesiredCount(work.pod)
    /\ Visited(n)
    /\ UNCHANGED <<api, faults, store, time, up, podq, rqc, sync>>

PodEnd ==
    /\ work # None /\ work.create = {} /\ work.visit = {}
    /\ work' = None
    /\ UNCHANGED <<api, faults, store, time, up, podq, rqc, sync>>

Fault == faults < MaxFaults /\ faults' = faults + 1

\* Faulty: the error is logged and dropped.
PodForgets ==
    /\ "fail" \in Env /\ Fault /\ work # None
    /\ work' = None /\ UNCHANGED podq
    /\ UNCHANGED <<api, store, time, up, rqc, sync>>

\* A call fails: the reconcile ends with an error, and the pod is retried.
PodFails ==
    /\ "fail" \in Env /\ Fault /\ work # None
    /\ work' = None /\ podq' = TRUE
    /\ UNCHANGED <<api, store, time, up, rqc, sync>>

-----------------------------------------------------------------------------
(* The NPRR controller.                                                    *)

\* Faulty: the grace period is not waited for.
RqBeginAtOnce(n) ==
    /\ up /\ n \in rqq /\ del = None /\ CaughtUp
    /\ rqq' = rqq \ {n}
    /\ IF seen[n] # None /\ seen[n].expiry # 0 THEN del' = n ELSE UNCHANGED del
    /\ UNCHANGED <<api, faults, store, time, up, podq, work, alarm, sync>>

\* NPRRReconciler.Reconcile up to Delete.  The work queue would keep the
\* earlier of two alarms, and reconcile once more in vain.
RqBegin(n) ==
    /\ up /\ n \in rqq /\ del = None /\ CaughtUp
    /\ rqq' = rqq \ {n}
    /\ IF seen[n] = None \/ seen[n].expiry = 0 THEN UNCHANGED <<alarm, del>>
       ELSE IF seen[n].expiry > clock
            THEN alarm' = [alarm EXCEPT ![n] = seen[n].expiry] /\ UNCHANGED del
            ELSE del' = n /\ UNCHANGED alarm
    /\ UNCHANGED <<api, faults, store, time, up, podq, work, sync>>

\* Delete, by name and without a precondition.
RqDelete ==
    /\ del # None /\ del' = None
    /\ IF rq[del] = None THEN UNCHANGED store ELSE Store(del, None)
    /\ UNCHANGED <<api, faults, time, up, podq, rqq, alarm, work, sync>>

RqDeleteFails ==
    /\ "fail" \in Env /\ Fault /\ del # None
    /\ del' = None /\ rqq' = rqq \cup {del}
    /\ UNCHANGED <<api, store, time, up, podq, alarm, work, sync>>

\* RequeueAfter runs out.
Ring(n) ==
    /\ up /\ alarm[n] \in 1 .. clock
    /\ alarm' = [alarm EXCEPT ![n] = 0] /\ rqq' = rqq \cup {n}
    /\ UNCHANGED <<api, faults, store, time, up, podq, del, work, sync>>

-----------------------------------------------------------------------------
(* Start and stop, and the startup syncer.                                 *)

Down ==
    /\ up' = FALSE /\ podq' = FALSE /\ rqq' = {} /\ alarm' = NoAlarm
    /\ work' = None /\ del' = None /\ sync' = NoSync

Stop ==
    /\ "restart" \in Env /\ Fault /\ up /\ Down
    /\ UNCHANGED <<api, store, time>>

\* The caches are filled, everything in them is queued, and the syncer has
\* its list.
Start ==
    /\ ~up /\ up' = TRUE
    /\ LET fresh == [n \in NC |-> View(rq[n])] IN
       /\ seen' = fresh
       /\ rqq' = {n \in NC : fresh[n] # None}
       /\ sync' = [todo |-> {n \in NC : fresh[n] # None}, copy |-> fresh, hit |-> None]
    /\ podq' = (pod # None)
    /\ UNCHANGED <<api, faults, rq, rev, time, alarm, work, del>>

\* Faulty: there is no syncer.
SyncLookAway(n) ==
    /\ n \in sync.todo /\ sync.hit = None
    /\ sync' = [sync EXCEPT !.todo = @ \ {n}]
    /\ UNCHANGED <<api, faults, store, time, up, podq, rqc, work>>

\* Sync: a request without a grace period whose pod is not there.
SyncLook(n) ==
    /\ n \in sync.todo /\ sync.hit = None
    /\ sync' = [sync EXCEPT !.todo = @ \ {n},
                            !.hit = IF sync.copy[n].expiry = 0 /\ pod = None THEN n ELSE None]
    /\ UNCHANGED <<api, faults, store, time, up, podq, rqc, work>>

\* Its update passes over a conflict; any other error ends the process.
SyncMark ==
    /\ sync.hit # None
    /\ LET n == sync.hit IN
       IF rq[n] = None THEN Down /\ UNCHANGED <<store, stamp>>
       ELSE /\ sync' = [sync EXCEPT !.hit = None]
            /\ IF rq[n].rev # sync.copy[n].rev THEN UNCHANGED <<store, stamp>>
               ELSE /\ stamp' = NewExpiry
                    /\ Store(n, [rq[n] EXCEPT !.expiry = NewExpiry, !.rev = rev + 1])
            /\ UNCHANGED <<up, podq, rqc, work>>
    /\ UNCHANGED <<api, faults, clock>>

-----------------------------------------------------------------------------
(* The environment: kubelet, users, time.                                  *)

\* Every change queues the pod, a change of a NATConfig through
\* natConfigToPods.  Its List, a read of the informer cache, works here; were
\* it to fail, the change would go unnoticed until the next event of the pod.
EnvStep ==
    /\ Unraced
    /\ edits < MaxEdits /\ edits' = edits + 1
    /\ podq' = (up /\ (pod # None \/ pod' # None \/ podq))
    /\ UNCHANGED <<faults, store, time, up, rqc, work, sync>>

\* A pod of this name is bound to this node.
PodBound ==
    /\ pod = None
    /\ "recreate" \in Env \/ edits = 0
    /\ "clash" \in Env \/ \A n \in NC : rq[n] = View(rq[n])
    /\ \E l \in SUBSET NC, a \in Note :
          pod' = [ip |-> None, terminating |-> FALSE, labels |-> l, note |-> a]
    /\ EnvStep /\ UNCHANGED ncs

\* The kubelet reports the address.
PodAddressed ==
    /\ pod # None /\ pod.ip = None
    /\ \E i \in IP : pod' = [pod EXCEPT !.ip = i]
    /\ EnvStep /\ UNCHANGED ncs

PodTerminating ==
    /\ pod # None /\ ~pod.terminating
    /\ pod' = [pod EXCEPT !.terminating = TRUE]
    /\ EnvStep /\ UNCHANGED ncs

PodGone ==
    /\ pod # None /\ pod.terminating /\ pod' = None
    /\ EnvStep /\ UNCHANGED ncs

PodRelabelled ==
    /\ "relabel" \in Env /\ pod # None
    /\ \E l \in (SUBSET NC) \ {pod.labels} : pod' = [pod EXCEPT !.labels = l]
    /\ EnvStep /\ UNCHANGED ncs

PodAnnotated ==
    /\ "annotate" \in Env /\ pod # None
    /\ \E a \in Note \ {pod.note} : pod' = [pod EXCEPT !.note = a]
    /\ EnvStep /\ UNCHANGED ncs

\* natConfigToPods queues the pod.
NATConfigChanged(n) ==
    /\ "natconfig" \in Env
    /\ ncs' = IF n \in ncs THEN ncs \ {n} ELSE ncs \cup {n}
    /\ pod' = pod /\ EnvStep

\* A foreign request is deleted by the daemon it belongs to.
ForeignGone(n) ==
    /\ rq[n] # None /\ rq[n].foreign
    /\ rq' = [rq EXCEPT ![n] = None]
    /\ UNCHANGED <<api, faults, seen, rev, time, up, podq, rqc, work, sync>>

\* Time passes the end of the next grace period.
Elapse ==
    /\ clock < stamp /\ clock' = clock + 1
    /\ UNCHANGED <<api, faults, store, stamp, up, podq, rqc, work, sync>>

Step ==
    \/ PodBegin \/ PodEnd
    \/ \E n \in NC : CreateRequest(n) \/ Expire(n) \/ Renew(n) \/ Recount(n) \/ Pass(n)

SyncStep == SyncMark \/ \E n \in NC : SyncLook(n)

EnvNext ==
    \/ PodBound \/ PodAddressed \/ PodTerminating \/ PodGone
    \/ PodRelabelled \/ PodAnnotated
    \/ \E n \in NC : NATConfigChanged(n) \/ ForeignGone(n)

Next ==
    \/ Step \/ PodFails
    \/ \E n \in NC : RqBegin(n) \/ Ring(n) \/ Deliver(n)
    \/ RqDelete \/ RqDeleteFails
    \/ Stop \/ Start \/ SyncStep
    \/ EnvNext \/ Elapse

\* Each controller runs on, watch events arrive, the daemon is restarted and
\* time passes.
Fairness ==
    /\ WF_vars(Step) /\ WF_vars(RqDelete) /\ WF_vars(Start) /\ WF_vars(SyncStep)
    /\ WF_vars(Elapse)
    /\ \A n \in NC : WF_vars(RqBegin(n)) /\ WF_vars(Ring(n)) /\ WF_vars(Deliver(n))

Safety == Init /\ [][Next]_vars
Spec   == Safety /\ Fairness

-----------------------------------------------------------------------------
TypeOK ==
    /\ pod \in PodType \cup {None} /\ ncs \subseteq NC
    /\ edits \in 0 .. MaxEdits /\ faults \in 0 .. MaxFaults
    /\ rq \in Copies /\ seen \in Copies
    /\ rev \in Nat /\ stamp \in Nat /\ clock \in 0 .. stamp
    /\ up \in BOOLEAN /\ podq \in BOOLEAN /\ rqq \subseteq NC
    /\ alarm \in [NC -> Nat]
    /\ work \in WorkType \cup {None} /\ del \in NC \cup {None}
    /\ sync \in [todo : SUBSET NC, copy : Copies, hit : NC \cup {None}]

Running == pod # None /\ pod.ip # None /\ ~pod.terminating

\* The request n is what the pod needs.
Current(n) == View(rq[n]) # None /\ rq[n].expiry = 0 /\ rq[n].count = DesiredCount(pod)

\* The daemon has nothing to do but to wait for the end of grace periods.
AtRest ==
    /\ up /\ ~podq /\ work = None /\ rqq = {} /\ del = None
    /\ sync.todo = {} /\ sync.hit = None
    /\ \A n \in NC : seen[n] = View(rq[n]) /\ alarm[n] \notin 1 .. clock

\* When the daemon is at rest, a running pod has, for every NATConfig that
\* matches it, a request that is not about to expire and has its count; every
\* other request of it has a grace period and the alarm for its end.
Reconciled ==
    AtRest =>
        \A n \in NC :
            IF Running /\ n \in MatchingNCs(pod) THEN Current(n)
            ELSE View(rq[n]) # None /\ (pod # None => pod.ip # None)
                    => rq[n].expiry # 0 /\ alarm[n] = rq[n].expiry

\* At rest the request of a running pod has the pod's address.
RightAddress ==
    AtRest /\ Running => \A n \in MatchingNCs(pod) : Current(n) => rq[n].ip = pod.ip

\* The lease each request stands for.
LeaseOf(n) ==
    IF View(rq[n]) = None THEN "none"
    ELSE IF rq[n].expiry = 0 THEN "held"
    ELSE IF rq[n].expiry > clock THEN "grace" ELSE "over"

Lease == INSTANCE RequestLease
            WITH Key <- NC, Address <- IP, Nobody <- None,
                 lease <- [n \in NC |-> LeaseOf(n)],
                 address <- [n \in NC |-> IF View(rq[n]) = None THEN None ELSE rq[n].ip]

\* The controllers implement the lease: a request is never deleted before its
\* grace period is over, nor after it was renewed, and its address is never
\* rewritten, whatever fails and whenever the daemon restarts.
IsLease == Lease!Spec

\* When the changes stop, the requests of a pod that is gone are deleted, and
\* a running pod has its requests for good.
Settles ==
    <>[]\A n \in NC :
           /\ pod = None => View(rq[n]) = None
           /\ Running /\ n \in MatchingNCs(pod) => Current(n)
=============================================================================
