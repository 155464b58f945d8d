---------------------------- MODULE RequestProof ----------------------------
(***************************************************************************)
(* Proofs that the daemon's controllers implement the lease of             *)
(* RequestLease (IsLease) and that at rest the requests are what the pod   *)
(* needs (Reconciled), for any number of NATConfigs and addresses,         *)
(* whatever fails and whenever the daemon restarts, when a reconcile finds *)
(* the cache up to date ("lag" does not happen) and nothing comes between  *)
(* a check and the write it is for ("race" does not happen).               *)
(***************************************************************************)
EXTENDS RequestLifecycle, TLAPS

USE ZenonT(10), SMTT(30)

Calm == "race" \notin Env /\ "lag" \notin Env

\* c is a copy of a request taken when it was q or earlier, at version v of
\* the store: only the same version has the same resource version.
Faithful(q, v, c) ==
    c # None => /\ ~c.foreign /\ c.rev \in 1 .. v
                /\ q # None /\ q.rev = c.rev => q = c

Versions ==
    \A n \in NC : rq[n] # None => IF rq[n].foreign THEN rq[n] = Foreign ELSE rq[n].rev \in 1 .. rev

Copied ==
    \A n \in NC : /\ Faithful(rq[n], rev, seen[n])
                  /\ Faithful(rq[n], rev, sync.copy[n])
                  /\ work # None => Faithful(rq[n], rev, work.copy[n])

\* What the two loops over requests have in hand exists.
Planned ==
    /\ work # None => /\ \A n \in work.visit : work.copy[n] # None
                      /\ work.create # {} => work.pod # None
    /\ \A n \in sync.todo : sync.copy[n] # None
    /\ sync.hit # None => sync.copy[sync.hit] # None /\ sync.copy[sync.hit].expiry = 0

\* What the NPRR controller is about to delete has run out, and still has.
Due == del # None => LET q == View(rq[del]) IN q # None => q.expiry \in 1 .. clock

LeaseInv == TypeOK /\ Versions /\ Copied /\ Planned /\ Due

\* A step of the lease n.
Moved(n) ==
    /\ LeaseOf(n)' = LeaseOf(n) \/ <<LeaseOf(n), LeaseOf(n)'>> \in Lease!Moves
    /\ LeaseOf(n) # "none" /\ LeaseOf(n)' # "none" => rq'[n].ip = rq[n].ip

-----------------------------------------------------------------------------
(* Writes to the store.                                                    *)

\* A write gives a new resource version, so no copy is taken for it.
LEMMA FaithfulAfter ==
    ASSUME NEW q, NEW v \in Nat, NEW c \in Request \cup {None}, Faithful(q, v, c),
           NEW r \in Request \cup {None}, r # None => r.rev = v + 1
    PROVE  Faithful(q, v + 1, c) /\ Faithful(r, v + 1, c)
BY DEF Faithful, Request

LEMMA FaithfulSelf ==
    ASSUME NEW r \in Request, ~r.foreign, NEW v \in Nat, r.rev \in 1 .. v
    PROVE  Faithful(r, v, r)
BY DEF Faithful

LEMMA FaithfulView ==
    ASSUME TypeOK, Versions, NEW n \in NC
    PROVE  Faithful(rq[n], rev, View(rq[n])) /\ View(rq[n]) \in Request \cup {None}
BY DEF TypeOK, Versions, View, Faithful, Copies

LEMMA ForeignType == Foreign \in Request /\ Foreign.foreign /\ Foreign.rev = 0
BY RequestAssumption DEF Foreign, Request

LEMMA StoreFacts ==
    ASSUME LeaseInv, NEW n \in NC, NEW r \in Request \cup {None}, Store(n, r),
           r # None => r.rev = rev + 1 /\ ~r.foreign
    PROVE  /\ rq' \in Copies /\ rev' = rev + 1 /\ rev' \in Nat /\ seen' = seen /\ rq'[n] = r
           /\ \A m \in NC : m # n => rq'[m] = rq[m]
           /\ Versions'
           /\ \A m \in NC, c \in Request \cup {None} :
                 Faithful(rq[m], rev, c) => Faithful(rq'[m], rev', c)
<1>1. /\ rq' \in Copies /\ rev' = rev + 1 /\ rev' \in Nat /\ seen' = seen /\ rq'[n] = r
      /\ \A m \in NC : m # n => rq'[m] = rq[m]
  BY DEF Store, LeaseInv, TypeOK, Copies
<1>2. Versions'
  <2>1. rev \in Nat
    BY DEF LeaseInv, TypeOK
  <2> QED BY <1>1, <2>1 DEF LeaseInv, Versions
<1>3. \A m \in NC, c \in Request \cup {None} :
                 Faithful(rq[m], rev, c) => Faithful(rq'[m], rev', c)
  <2> SUFFICES ASSUME NEW m \in NC, NEW c \in Request \cup {None}, Faithful(rq[m], rev, c)
               PROVE  Faithful(rq'[m], rev', c)
    OBVIOUS
  <2>1. rev \in Nat
    BY DEF LeaseInv, TypeOK
  <2>2. Faithful(rq[m], rev + 1, c) /\ Faithful(r, rev + 1, c)
    BY <2>1, FaithfulAfter
  <2> QED BY <1>1, <2>2
<1> QED BY <1>1, <1>2, <1>3

\* All copies stay faithful when the store is written.
LEMMA StoreCopied ==
    ASSUME LeaseInv, NEW n \in NC, NEW r \in Request \cup {None}, Store(n, r),
           r # None => r.rev = rev + 1 /\ ~r.foreign,
           sync'.copy = sync.copy \/ sync' = NoSync,
           \/ work' = None
           \/ work # None /\ \A m \in NC : \/ work'.copy[m] = work.copy[m]
                                           \/ m = n /\ work'.copy[m] = r
    PROVE  Copied'
<1>1. \A m \in NC : /\ seen[m] \in Request \cup {None} /\ sync.copy[m] \in Request \cup {None}
                    /\ work # None => work.copy[m] \in Request \cup {None}
  BY DEF LeaseInv, TypeOK, Copies, WorkType
<1>2. \A m \in NC : Faithful(rq'[m], rev', seen'[m])
  BY <1>1, StoreFacts DEF LeaseInv, Copied
<1>3. \A m \in NC : Faithful(rq'[m], rev', sync'.copy[m])
  BY <1>1, StoreFacts DEF LeaseInv, Copied, NoSync, Faithful
<1>4. r # None => Faithful(r, rev', r)
  <2>1. rev \in Nat /\ rev' = rev + 1 /\ rev' \in Nat
    BY StoreFacts DEF LeaseInv, TypeOK
  <2>2. r # None => r.rev \in 1 .. rev'
    BY <2>1
  <2> QED BY <2>1, <2>2, FaithfulSelf
<1>5. r = None => Faithful(r, rev', r)
  BY DEF Faithful
<1>6. work' # None => \A m \in NC : Faithful(rq'[m], rev', work'.copy[m])
  BY <1>1, <1>4, <1>5, StoreFacts DEF LeaseInv, Copied
<1> QED BY <1>2, <1>3, <1>6 DEF Copied

-----------------------------------------------------------------------------
(* Steps of the lease.                                                     *)

LEMMA MovedSame ==
    ASSUME UNCHANGED <<rq, clock>>
    PROVE  \A n \in NC : Moved(n)
BY DEF Moved, LeaseOf, View

\* One write moves the lease it is about.
LEMMA MovedStore ==
    ASSUME LeaseInv, NEW n \in NC, NEW r \in Request \cup {None}, Store(n, r),
           r # None => r.rev = rev + 1 /\ ~r.foreign, clock' = clock,
           LET q == View(rq[n]) IN
              \/ q = None /\ r # None /\ r.expiry = 0
              \/ q = None /\ r = None
              \/ q # None /\ r # None /\ r.ip = q.ip /\ q.expiry = 0 /\ r.expiry > clock
              \/ q # None /\ r # None /\ r.ip = q.ip /\ r.expiry = 0
              \/ q # None /\ r = None /\ q.expiry \in 1 .. clock
    PROVE  \A m \in NC : Moved(m)
<1>1. rq'[n] = r /\ \A m \in NC : m # n => rq'[m] = rq[m]
  BY StoreFacts
<1>2. \A m \in NC : m # n => Moved(m)
  BY <1>1 DEF Moved, LeaseOf, View
<1>3. clock \in Nat /\ rq[n] \in Request \cup {None}
  BY DEF LeaseInv, TypeOK, Copies
<1>4. View(rq[n]) # None => View(rq[n]) = rq[n] /\ rq[n].expiry \in Nat
  BY <1>3 DEF View, Request
<1>5. r # None => r.expiry \in Nat /\ View(r) = r
  BY DEF View, Request
<1>6. LeaseOf(n) = IF View(rq[n]) = None THEN "none" ELSE IF rq[n].expiry = 0 THEN "held"
                   ELSE IF rq[n].expiry > clock THEN "grace" ELSE "over"
  BY DEF LeaseOf
<1>7. LeaseOf(n)' = IF r = None THEN "none" ELSE IF r.expiry = 0 THEN "held"
                    ELSE IF r.expiry > clock THEN "grace" ELSE "over"
  BY <1>1, <1>5 DEF LeaseOf, View
<1>8. Moved(n)
  BY <1>1, <1>3, <1>4, <1>5, <1>6, <1>7 DEF Moved, Lease!Moves
<1> QED BY <1>2, <1>8

LEMMA MovedElapse ==
    ASSUME LeaseInv, Elapse
    PROVE  \A n \in NC : Moved(n)
<1> SUFFICES ASSUME NEW n \in NC PROVE Moved(n)
  OBVIOUS
<1>1. rq' = rq /\ clock' = clock + 1 /\ clock \in Nat /\ rq[n] \in Request \cup {None}
  BY DEF Elapse, store, LeaseInv, TypeOK, Copies
<1>2. View(rq[n]) # None => View(rq[n]) = rq[n] /\ rq[n].expiry \in Nat
  BY <1>1 DEF View, Request
<1>3. LeaseOf(n)' = IF View(rq[n]) = None THEN "none" ELSE IF rq[n].expiry = 0 THEN "held"
                    ELSE IF rq[n].expiry > clock + 1 THEN "grace" ELSE "over"
  BY <1>1 DEF LeaseOf, View
<1> QED BY <1>1, <1>2, <1>3 DEF Moved, LeaseOf, Lease!Moves

\* Moves of all requests are a step of the abstract lease.
LEMMA MovesRefine ==
    ASSUME TypeOK, TypeOK', \A n \in NC : Moved(n)
    PROVE  Lease!Next
<1> SUFFICES ASSUME NEW n \in NC PROVE Lease!Change(n)
  BY DEF Lease!Next
<1>1. Moved(n) /\ rq[n] \in Request \cup {None} /\ rq'[n] \in Request \cup {None}
  BY DEF TypeOK, Copies
<1>2. (LeaseOf(n) = "none" <=> View(rq[n]) = None) /\ (LeaseOf(n)' = "none" <=> View(rq[n])' = None)
  BY DEF LeaseOf
<1>3. View(rq[n])' # None => rq'[n].ip \in IP \cup {None}
  BY <1>1 DEF View, Request
<1> QED BY <1>1, <1>2, <1>3 DEF Lease!Change, Moved

-----------------------------------------------------------------------------
(* The invariant, action by action.                                        *)

LeaseStep == LeaseInv' /\ \A n \in NC : Moved(n)

LEMMA LeaseInit == Init => LeaseInv /\ Lease!Init
<1> SUFFICES ASSUME Init PROVE LeaseInv /\ Lease!Init
  OBVIOUS
<1>1. \A n \in NC : (rq[n] = None \/ rq[n] = Foreign) /\ seen[n] = None
  BY DEF Init
<1>2. TypeOK
  <2>1. /\ rq \in Copies /\ seen \in Copies
        /\ sync \in [todo : SUBSET NC, copy : Copies, hit : NC \cup {None}]
    BY ForeignType DEF Init, Copies, NoSync
  <2>2. edits \in 0 .. MaxEdits /\ faults \in 0 .. MaxFaults /\ rev \in Nat /\ stamp \in Nat /\ clock \in 0 .. stamp
    BY RequestAssumption DEF Init
  <2>3. alarm \in [NC -> Nat]
    BY DEF Init, NoAlarm
  <2>4. up \in BOOLEAN /\ podq \in BOOLEAN /\ rqq \subseteq NC /\ ncs \subseteq NC
    BY DEF Init
  <2> QED BY <2>1, <2>2, <2>3, <2>4 DEF Init, TypeOK
<1>3. Versions /\ Copied
  BY <1>1, ForeignType DEF Init, Versions, Copied, Faithful, NoSync
<1>4. Planned /\ Due
  BY DEF Init, Planned, Due, NoSync
<1>5. \A n \in NC : View(rq[n]) = None
  BY <1>1, ForeignType DEF View
<1>6. Lease!Init
  BY <1>5 DEF Lease!Init, LeaseOf
<1> QED BY <1>2, <1>3, <1>4, <1>6 DEF LeaseInv

\* Steps that leave the store, the copies and the time alone.
LEMMA Quiet ==
    ASSUME LeaseInv, TypeOK', Planned', UNCHANGED <<rq, rev, seen, clock>>,
           sync'.copy = sync.copy \/ sync' = NoSync,
           work' = None \/ (work # None /\ work'.copy = work.copy),
           del' = del \/ del' = None
    PROVE  LeaseStep
<1>1. Versions' /\ Due'
  BY DEF LeaseInv, Versions, Due, View
<1>2. Copied'
  BY DEF LeaseInv, Copied, NoSync, Faithful
<1> QED BY <1>1, <1>2, MovedSame DEF LeaseStep, LeaseInv

LEMMA PodBeginStep == LeaseInv /\ PodBegin => LeaseStep
<1> SUFFICES ASSUME LeaseInv, PodBegin PROVE LeaseStep
  OBVIOUS
<1>1. /\ UNCHANGED <<pod, ncs, edits, faults, rq, seen, rev, stamp, clock, up, rqq, alarm, del, sync>>
      /\ podq' = FALSE
  BY DEF PodBegin, api, store, time, rqc
<1> DEFINE found == {n \in NC : seen[n] # None}
           want  == IF pod = None THEN {} ELSE MatchingNCs(pod)
           ends  == pod = None \/ pod.terminating
           create == IF ends THEN {} ELSE want \ found
<1>2. work' = [pod |-> pod, ends |-> ends, want |-> want, copy |-> seen, create |-> create, visit |-> found]
  BY DEF PodBegin
<1>3. ends \in BOOLEAN
  BY DEF LeaseInv, TypeOK, PodType
<1>4. want \subseteq NC /\ found \subseteq NC
  BY DEF LeaseInv, TypeOK, PodType, MatchingNCs
<1>5. /\ work'.pod = pod /\ work'.ends = ends /\ work'.want = want /\ work'.copy = seen
      /\ work'.create = create /\ work'.visit = found
  BY <1>2
<1>6. create # {} => pod # None
  OBVIOUS
<1>7. create \subseteq NC
  BY <1>4
<1> HIDE DEF found, want, ends, create
<1>8. work' \in WorkType
  BY <1>2, <1>3, <1>4, <1>7 DEF WorkType, LeaseInv, TypeOK
<1>9. TypeOK'
  BY <1>1, <1>8 DEF LeaseInv, TypeOK
<1>10. Planned'
  BY <1>1, <1>5, <1>6 DEF LeaseInv, Planned, found
<1>11. Versions' /\ Due' /\ Copied'
  BY <1>1, <1>5 DEF LeaseInv, Versions, Due, View, Copied
<1> QED BY <1>1, <1>9, <1>10, <1>11, MovedSame DEF LeaseStep, LeaseInv

\* The reconcile goes on without a write, or ends.
LEMMA PodQuietSteps ==
    ASSUME LeaseInv, PodEnd \/ PodFails \/ \E n \in NC : Pass(n)
    PROVE  LeaseStep
<1>1. CASE PodEnd
  <2>1. TypeOK' /\ Planned'
    BY <1>1 DEF PodEnd, api, store, time, rqc, LeaseInv, TypeOK, Planned
  <2> QED BY <1>1, <2>1, Quiet DEF PodEnd, store, time, rqc
<1>2. CASE PodFails
  <2>1. faults' \in 0 .. MaxFaults
    BY <1>2, RequestAssumption DEF PodFails, Fault, LeaseInv, TypeOK
  <2>2. TypeOK' /\ Planned'
    BY <1>2, <2>1 DEF PodFails, api, store, time, rqc, LeaseInv, TypeOK, Planned
  <2> QED BY <1>2, <2>2, Quiet DEF PodFails, store, time, rqc
<1>3. ASSUME NEW n \in NC, Pass(n) PROVE LeaseStep
  <2>1. work \in WorkType /\ work' = [work EXCEPT !.visit = @ \ {n}]
    BY <1>3 DEF Pass, Visiting, Visited, LeaseInv, TypeOK
  <2>2. /\ work' \in WorkType /\ work'.copy = work.copy /\ work'.visit = work.visit \ {n}
        /\ work'.create = work.create /\ work'.pod = work.pod
    BY <2>1 DEF WorkType
  <2>3. TypeOK'
    BY <1>3, <2>2 DEF Pass, api, store, time, rqc, LeaseInv, TypeOK
  <2>4. Planned'
    BY <1>3, <2>2 DEF Pass, Visiting, LeaseInv, Planned
  <2> QED BY <1>3, <2>2, <2>3, <2>4, Quiet DEF Pass, Visiting, store, time, rqc
<1> QED BY <1>1, <1>2, <1>3

\* Steps that write one request.
LEMMA Written ==
    ASSUME LeaseInv, NEW n \in NC, NEW r \in Request \cup {None}, Store(n, r),
           r # None => r.rev = rev + 1 /\ ~r.foreign, clock' = clock,
           LET q == View(rq[n]) IN
              \/ q = None /\ r # None /\ r.expiry = 0
              \/ q = None /\ r = None
              \/ q # None /\ r # None /\ r.ip = q.ip /\ q.expiry = 0 /\ r.expiry > clock
              \/ q # None /\ r # None /\ r.ip = q.ip /\ r.expiry = 0
              \/ q # None /\ r = None /\ q.expiry \in 1 .. clock,
           sync'.copy = sync.copy \/ sync' = NoSync,
           \/ work' = None
           \/ work # None /\ \A m \in NC : \/ work'.copy[m] = work.copy[m]
                                           \/ m = n /\ work'.copy[m] = r,
           TypeOK', Planned',
           del' = None \/ (del' = del /\ del # n)
    PROVE  LeaseStep
<1>1. Versions' /\ \A m \in NC : m # n => rq'[m] = rq[m]
  BY StoreFacts
<1>2. Copied'
  BY StoreCopied
<1>3. Due'
  BY <1>1 DEF LeaseInv, TypeOK, Due, View
<1>4. \A m \in NC : Moved(m)
  BY MovedStore
<1> QED BY <1>1, <1>2, <1>3, <1>4 DEF LeaseStep, LeaseInv

LEMMA CreateStep ==
    ASSUME Calm, LeaseInv, NEW n \in NC, CreateRequest(n)
    PROVE  LeaseStep
<1>1. /\ work # None /\ work \in WorkType /\ work.create # {} /\ del = None
      /\ work' = [work EXCEPT !.create = @ \ {n}]
      /\ UNCHANGED <<pod, ncs, edits, faults, stamp, clock, up, podq, rqq, alarm, del, sync>>
  BY DEF CreateRequest, Unraced, Calm, api, time, rqc, LeaseInv, TypeOK
<1>2. /\ work' \in WorkType /\ work'.copy = work.copy /\ work'.visit = work.visit
      /\ work'.create = work.create \ {n} /\ work'.pod = work.pod
  BY <1>1 DEF WorkType
<1>3. Planned'
  BY <1>1, <1>2 DEF LeaseInv, Planned, WorkType
<1>4. CASE rq[n] # None
  <2>1. UNCHANGED <<rq, seen, rev>>
    BY <1>4 DEF CreateRequest, store
  <2>2. TypeOK'
    BY <1>1, <1>2, <2>1 DEF LeaseInv, TypeOK
  <2> QED BY <1>1, <1>2, <1>3, <2>1, <2>2, Quiet
<1>5. CASE rq[n] = None
  <2> DEFINE r == [foreign |-> FALSE, ip |-> work.pod.ip, count |-> DesiredCount(work.pod),
                   expiry |-> 0, rev |-> rev + 1]
  <2>1. work.pod \in PodType
    BY <1>1 DEF LeaseInv, Planned, WorkType
  <2>2. work.pod.ip \in IP \cup {None}
    BY <2>1 DEF PodType
  <2>3. DesiredCount(work.pod) \in 0 .. MaxInt32
    BY RequestAssumption DEF DesiredCount
  <2>4. rev \in Nat
    BY DEF LeaseInv, TypeOK
  <2>5. r \in Request /\ r.expiry = 0 /\ r.rev = rev + 1 /\ ~r.foreign
    BY <2>2, <2>3, <2>4 DEF Request
  <2>6. Store(n, r)
    BY <1>5 DEF CreateRequest
  <2>7. r # None
    BY <2>5, RequestAssumption
  <2> HIDE DEF r
  <2>8. rq' \in Copies /\ rev' \in Nat /\ seen' = seen
    BY <2>5, <2>6, StoreFacts
  <2>9. TypeOK'
    BY <1>1, <1>2, <2>8 DEF LeaseInv, TypeOK
  <2>10. View(rq[n]) = None
    BY <1>5 DEF View
  <2> QED BY <1>1, <1>2, <1>3, <2>5, <2>6, <2>7, <2>9, <2>10, Written
<1> QED BY <1>4, <1>5

\* What a grace period makes of a request that is still as it was copied.
LEMMA Graced ==
    ASSUME LeaseInv, NEW n \in NC, NEW c \in Request, Faithful(rq[n], rev, c),
           rq[n] # None, rq[n].rev = c.rev, c.expiry = 0,
           NEW r, r = [rq[n] EXCEPT !.expiry = NewExpiry, !.rev = rev + 1]
    PROVE  /\ r \in Request /\ r # None /\ r.rev = rev + 1 /\ ~r.foreign
           /\ View(rq[n]) # None /\ View(rq[n]).expiry = 0
           /\ r.ip = View(rq[n]).ip /\ r.expiry > clock
           /\ r.expiry = stamp + 1 /\ r.count = rq[n].count
<1>1. rq[n] = c /\ ~c.foreign
  BY RequestAssumption DEF Faithful
<1>2. rev \in Nat /\ stamp \in Nat /\ clock \in 0 .. stamp
  BY DEF LeaseInv, TypeOK
<1>3. /\ r.rev = rev + 1 /\ r.expiry = stamp + 1 /\ r.ip = c.ip /\ r.foreign = c.foreign
      /\ r.count = c.count /\ r \in Request
  <2>1. r = [c EXCEPT !.expiry = stamp + 1, !.rev = rev + 1]
    BY <1>1 DEF NewExpiry
  <2>2. stamp + 1 \in Nat /\ rev + 1 \in Nat
    BY <1>2
  <2> QED BY <2>1, <2>2 DEF Request
<1>4. r # None /\ View(rq[n]) = c
  BY <1>1, <1>3, RequestAssumption DEF View
<1>5. r.expiry > clock
  BY <1>2, <1>3
<1> QED BY <1>1, <1>3, <1>4, <1>5

LEMMA ExpireStep ==
    ASSUME Calm, LeaseInv, NEW n \in NC, Expire(n)
    PROVE  LeaseStep
<1>1. /\ work \in WorkType /\ del = None /\ n \in work.visit /\ work.copy[n].expiry = 0
      /\ UNCHANGED <<pod, ncs, edits, faults, clock, up, rqq, alarm, del, sync>>
  BY DEF Expire, Visiting, Unraced, Calm, api, rqc, LeaseInv, TypeOK
<1>2. work.copy[n] \in Request /\ Faithful(rq[n], rev, work.copy[n])
  <2>1. work.copy[n] # None /\ Faithful(rq[n], rev, work.copy[n])
    BY <1>1, RequestAssumption DEF Expire, Visiting, LeaseInv, Planned, Copied
  <2> QED BY <1>1, <2>1 DEF WorkType, Copies
<1>3. CASE rq[n] = None
  <2>1. UNCHANGED <<rq, seen, rev, stamp>> /\ work' = None /\ podq' = TRUE
    BY <1>3 DEF Expire, Lost, store
  <2>2. TypeOK' /\ Planned'
    BY <1>1, <2>1 DEF LeaseInv, TypeOK, Planned
  <2> QED BY <1>1, <2>1, <2>2, Quiet
<1>4. CASE rq[n] # None
  <2>1. work' = [work EXCEPT !.visit = @ \ {n}] /\ podq' = podq
    BY <1>4 DEF Expire, Visited
  <2>2. /\ work' \in WorkType /\ work'.copy = work.copy /\ work'.visit = work.visit \ {n}
        /\ work'.create = work.create /\ work'.pod = work.pod
    BY <1>1, <2>1 DEF WorkType
  <2>3. Planned' /\ work # None
    BY <1>1, <2>2 DEF LeaseInv, Planned, Expire, Visiting
  <2>4. CASE rq[n].rev # work.copy[n].rev
    <3>1. UNCHANGED <<rq, seen, rev, stamp>>
      BY <1>4, <2>4 DEF Expire, store
    <3>2. TypeOK'
      BY <1>1, <2>1, <2>2, <3>1 DEF LeaseInv, TypeOK
    <3> QED BY <1>1, <2>2, <2>3, <3>1, <3>2, Quiet
  <2>5. CASE rq[n].rev = work.copy[n].rev
    <3> DEFINE r == [rq[n] EXCEPT !.expiry = NewExpiry, !.rev = rev + 1]
    <3>1. Store(n, r) /\ stamp' = stamp + 1
      BY <1>4, <2>5 DEF Expire, NewExpiry
    <3>2. /\ r \in Request /\ r # None /\ r.rev = rev + 1 /\ ~r.foreign
          /\ View(rq[n]) # None /\ View(rq[n]).expiry = 0
          /\ r.ip = View(rq[n]).ip /\ r.expiry > clock
      BY <1>1, <1>2, <1>4, <2>5, Graced
    <3> HIDE DEF r
    <3>3. rq' \in Copies /\ rev' \in Nat /\ seen' = seen
      BY <3>1, <3>2, StoreFacts
    <3>4. stamp' \in Nat /\ clock' \in 0 .. stamp'
      BY <1>1, <3>1 DEF LeaseInv, TypeOK
    <3>5. TypeOK'
      BY <1>1, <2>1, <2>2, <3>3, <3>4 DEF LeaseInv, TypeOK
    <3> QED BY <1>1, <2>2, <2>3, <3>1, <3>2, <3>5, Written
  <2> QED BY <2>4, <2>5
<1> QED BY <1>3, <1>4

\* The updates of the loop over requests that keep the request.
LEMMA RewriteStep ==
    ASSUME Calm, LeaseInv, NEW n \in NC, Visiting(n), NEW new \in Request,
           new.foreign = work.copy[n].foreign, new.ip = work.copy[n].ip,
           new.rev = work.copy[n].rev, new.expiry = 0, Rewrite(n, new)
    PROVE  LeaseStep
<1>1. /\ work # None /\ work \in WorkType /\ del = None /\ n \in work.visit
      /\ UNCHANGED <<pod, ncs, edits, faults, stamp, clock, up, rqq, alarm, del, sync>>
  BY DEF Rewrite, Visiting, Unraced, Calm, api, time, rqc, LeaseInv, TypeOK
<1> DEFINE c == work.copy[n]
<1>2. c \in Request /\ c # None /\ Faithful(rq[n], rev, c)
  <2>1. c # None /\ Faithful(rq[n], rev, c)
    BY <1>1, RequestAssumption DEF LeaseInv, Planned, Copied
  <2> QED BY <1>1, <2>1 DEF WorkType, Copies
<1>3. CASE rq[n] = None
  <2>1. UNCHANGED <<rq, seen, rev>> /\ work' = None /\ podq' = TRUE
    BY <1>3 DEF Rewrite, Lost, store
  <2>2. TypeOK' /\ Planned'
    BY <1>1, <2>1 DEF LeaseInv, TypeOK, Planned
  <2> QED BY <1>1, <2>1, <2>2, Quiet
<1>4. ASSUME NEW r \in Request, work' = [work EXCEPT !.copy[n] = r]
      PROVE  /\ work' \in WorkType /\ Planned'
             /\ work'.copy[n] = r /\ \A m \in NC : m # n => work'.copy[m] = work.copy[m]
  <2>1. /\ work' \in WorkType /\ work'.create = work.create /\ work'.visit = work.visit
        /\ work'.pod = work.pod /\ work'.copy = [work.copy EXCEPT ![n] = r]
    BY <1>1, <1>4 DEF WorkType, Copies
  <2>2. work'.copy[n] = r /\ \A m \in NC : m # n => work'.copy[m] = work.copy[m]
    BY <1>1, <2>1 DEF WorkType, Copies
  <2>3. r # None /\ work.visit \subseteq NC
    BY <1>1, RequestAssumption DEF WorkType
  <2> QED BY <1>1, <2>1, <2>2, <2>3 DEF LeaseInv, Planned
<1>5. CASE rq[n] # None /\ rq[n].rev # c.rev
  <2>1. UNCHANGED <<rq, seen, rev, podq>> /\ work' = [work EXCEPT !.copy[n] = new]
    BY <1>5 DEF Rewrite, store
  <2>2. /\ work' \in WorkType /\ Planned'
        /\ work'.copy[n] = new /\ \A m \in NC : m # n => work'.copy[m] = work.copy[m]
    BY <1>4, <2>1
  <2>3. TypeOK'
    BY <1>1, <2>1, <2>2 DEF LeaseInv, TypeOK
  <2>4. Faithful(rq[n], rev, new)
    BY <1>2, <1>5 DEF Faithful
  <2>5. Copied'
    BY <1>1, <2>1, <2>2, <2>4 DEF LeaseInv, Copied
  <2>6. Versions' /\ Due'
    BY <1>1, <2>1 DEF LeaseInv, Versions, Due, View
  <2> QED BY <1>1, <2>1, <2>2, <2>3, <2>5, <2>6, MovedSame DEF LeaseStep, LeaseInv
<1>6. CASE rq[n] # None /\ rq[n].rev = c.rev
  <2> DEFINE r == [new EXCEPT !.rev = rev + 1]
  <2>1. Store(n, r) /\ work' = [work EXCEPT !.copy[n] = r] /\ podq' = podq
    BY <1>6 DEF Rewrite
  <2>2. rev \in Nat
    BY DEF LeaseInv, TypeOK
  <2>3. r \in Request /\ r.rev = rev + 1 /\ r.foreign = new.foreign /\ r.ip = new.ip /\ r.expiry = 0
    BY <2>2 DEF Request
  <2>4. rq[n] = c /\ ~c.foreign
    BY <1>2, <1>6 DEF Faithful
  <2>5. View(rq[n]) = c /\ ~r.foreign /\ r # None
    BY <1>2, <2>3, <2>4, RequestAssumption DEF View
  <2> HIDE DEF r
  <2>6. /\ work' \in WorkType /\ Planned'
        /\ work'.copy[n] = r /\ \A m \in NC : m # n => work'.copy[m] = work.copy[m]
    BY <1>4, <2>1, <2>3
  <2>7. rq' \in Copies /\ rev' \in Nat /\ seen' = seen
    BY <2>1, <2>3, <2>5, StoreFacts
  <2>8. TypeOK'
    BY <1>1, <2>1, <2>6, <2>7 DEF LeaseInv, TypeOK
  <2> QED BY <1>1, <1>2, <2>1, <2>3, <2>5, <2>6, <2>8, Written
<1> QED BY <1>3, <1>5, <1>6

LEMMA VisitedCopy ==
    ASSUME LeaseInv, NEW n \in NC, Visiting(n)
    PROVE  work.copy[n] \in Request
BY DEF LeaseInv, TypeOK, Planned, Visiting, WorkType, Copies

LEMMA RenewStep ==
    ASSUME Calm, LeaseInv, NEW n \in NC, Renew(n) \/ Recount(n)
    PROVE  LeaseStep
<1>1. Visiting(n) /\ work.copy[n] \in Request
  BY VisitedCopy DEF Renew, Recount
<1>2. CASE Renew(n)
  <2> DEFINE new == [work.copy[n] EXCEPT !.expiry = 0]
  <2>1. /\ new \in Request /\ new.foreign = work.copy[n].foreign /\ new.ip = work.copy[n].ip
        /\ new.rev = work.copy[n].rev /\ new.expiry = 0
    BY <1>1 DEF Request
  <2>2. Rewrite(n, new)
    BY <1>2 DEF Renew
  <2> HIDE DEF new
  <2> QED BY <1>1, <2>1, <2>2, RewriteStep
<1>3. CASE Recount(n)
  <2> DEFINE new == [work.copy[n] EXCEPT !.count = DesiredCount(work.pod)]
  <2>1. DesiredCount(work.pod) \in 0 .. MaxInt32
    BY RequestAssumption DEF DesiredCount
  <2>2. /\ new \in Request /\ new.foreign = work.copy[n].foreign /\ new.ip = work.copy[n].ip
        /\ new.rev = work.copy[n].rev /\ new.expiry = 0
    BY <1>1, <1>3, <2>1 DEF Request, Recount
  <2>3. Rewrite(n, new)
    BY <1>3 DEF Recount
  <2> HIDE DEF new
  <2> QED BY <1>1, <2>2, <2>3, RewriteStep
<1> QED BY <1>2, <1>3

LEMMA DeliverStep ==
    ASSUME LeaseInv, NEW n \in NC, Deliver(n)
    PROVE  LeaseStep
<1>1. /\ UNCHANGED <<pod, ncs, edits, faults, rq, rev, stamp, clock, up, podq, alarm, work, del, sync>>
      /\ seen' = [seen EXCEPT ![n] = View(rq[n])] /\ rqq' = rqq \cup {n}
  BY DEF Deliver, api, time
<1>2. seen' \in Copies /\ \A m \in NC : Faithful(rq[m], rev, seen'[m])
  BY <1>1, FaithfulView DEF LeaseInv, TypeOK, Copied, Copies
<1>3. TypeOK'
  BY <1>1, <1>2 DEF LeaseInv, TypeOK
<1>4. Versions' /\ Due' /\ Planned'
  BY <1>1 DEF LeaseInv, Versions, Due, View, Planned
<1>5. Copied'
  BY <1>1, <1>2 DEF LeaseInv, Copied
<1> QED BY <1>1, <1>3, <1>4, <1>5, MovedSame DEF LeaseStep, LeaseInv

LEMMA RqBeginStep ==
    ASSUME Calm, LeaseInv, NEW n \in NC, RqBegin(n)
    PROVE  LeaseStep
<1>1. /\ UNCHANGED <<pod, ncs, edits, faults, rq, seen, rev, stamp, clock, up, podq, work, sync>>
      /\ rqq' = rqq \ {n} /\ seen[n] = View(rq[n])
  BY DEF RqBegin, CaughtUp, Calm, api, store, time
<1>2. seen[n] # None => seen[n].expiry \in Nat
  BY DEF LeaseInv, TypeOK, Copies, Request
<1>3. clock \in Nat
  BY DEF LeaseInv, TypeOK
<1>4. del' = del \/ (del' = n /\ seen[n] # None /\ seen[n].expiry \in 1 .. clock)
  BY <1>2, <1>3 DEF RqBegin
<1>5. Due'
  BY <1>1, <1>4 DEF LeaseInv, Due, View
<1>6. alarm' \in [NC -> Nat] /\ del' \in NC \cup {None}
  BY <1>2, <1>4 DEF RqBegin, LeaseInv, TypeOK
<1>7. TypeOK'
  BY <1>1, <1>6 DEF LeaseInv, TypeOK
<1>8. Versions' /\ Planned' /\ Copied'
  BY <1>1 DEF LeaseInv, Versions, Planned, Copied
<1> QED BY <1>1, <1>5, <1>7, <1>8, MovedSame DEF LeaseStep, LeaseInv

LEMMA RqDeleteStep ==
    ASSUME LeaseInv, RqDelete
    PROVE  LeaseStep
<1>1. /\ UNCHANGED <<pod, ncs, edits, faults, stamp, clock, up, podq, rqq, alarm, work, sync>>
      /\ del \in NC /\ del' = None
  BY DEF RqDelete, api, time, LeaseInv, TypeOK
<1>2. Planned'
  BY <1>1 DEF LeaseInv, Planned
<1>3. CASE rq[del] = None
  <2>1. UNCHANGED <<rq, seen, rev>>
    BY <1>3 DEF RqDelete, store
  <2>2. TypeOK'
    BY <1>1, <2>1 DEF LeaseInv, TypeOK
  <2> QED BY <1>1, <1>2, <2>1, <2>2, Quiet
<1>4. CASE rq[del] # None
  <2>1. Store(del, None)
    BY <1>4 DEF RqDelete
  <2>2. rq' \in Copies /\ rev' \in Nat /\ seen' = seen
    BY <1>1, <2>1, StoreFacts
  <2>3. TypeOK'
    BY <1>1, <2>2 DEF LeaseInv, TypeOK
  <2>4. View(rq[del]) # None => View(rq[del]).expiry \in 1 .. clock
    BY <1>1, RequestAssumption DEF LeaseInv, Due
  <2> QED BY <1>1, <1>2, <2>1, <2>3, <2>4, Written
<1> QED BY <1>3, <1>4

LEMMA RqQuietSteps ==
    ASSUME LeaseInv, RqDeleteFails \/ \E n \in NC : Ring(n)
    PROVE  LeaseStep
<1>1. CASE RqDeleteFails
  <2>1. faults' \in 0 .. MaxFaults
    BY <1>1, RequestAssumption DEF RqDeleteFails, Fault, LeaseInv, TypeOK
  <2>2. TypeOK' /\ Planned'
    BY <1>1, <2>1 DEF RqDeleteFails, api, store, time, LeaseInv, TypeOK, Planned
  <2> QED BY <1>1, <2>2, Quiet DEF RqDeleteFails, store, time
<1>2. ASSUME NEW n \in NC, Ring(n) PROVE LeaseStep
  <2>1. TypeOK' /\ Planned'
    BY <1>2 DEF Ring, api, store, time, LeaseInv, TypeOK, Planned
  <2> QED BY <1>2, <2>1, Quiet DEF Ring, store, time
<1> QED BY <1>1, <1>2

LEMMA DownFacts ==
    ASSUME LeaseInv, Down
    PROVE  /\ Planned' /\ up' \in BOOLEAN /\ podq' \in BOOLEAN /\ rqq' \subseteq NC
           /\ alarm' \in [NC -> Nat] /\ work' = None /\ del' = None /\ sync' = NoSync
           /\ sync' \in [todo : SUBSET NC, copy : Copies, hit : NC \cup {None}]
BY DEF Down, NoAlarm, NoSync, Planned, Copies

LEMMA StopStep == LeaseInv /\ Stop => LeaseStep
<1> SUFFICES ASSUME LeaseInv, Stop PROVE LeaseStep
  OBVIOUS
<1>1. faults' \in 0 .. MaxFaults
  BY RequestAssumption DEF Stop, Fault, LeaseInv, TypeOK
<1>2. Down /\ UNCHANGED <<pod, ncs, edits, rq, seen, rev, stamp, clock>>
  BY DEF Stop, api, store, time
<1>3. TypeOK'
  BY <1>1, <1>2, DownFacts DEF LeaseInv, TypeOK
<1> QED BY <1>2, <1>3, DownFacts, Quiet

LEMMA StartStep == LeaseInv /\ Start => LeaseStep
<1> SUFFICES ASSUME LeaseInv, Start PROVE LeaseStep
  OBVIOUS
<1> DEFINE fresh == [n \in NC |-> View(rq[n])]
<1>1. /\ UNCHANGED <<pod, ncs, edits, faults, rq, rev, stamp, clock, alarm, work, del>>
      /\ up' = TRUE /\ podq' = (pod # None) /\ seen' = fresh
      /\ rqq' = {n \in NC : fresh[n] # None}
      /\ sync' = [todo |-> {n \in NC : fresh[n] # None}, copy |-> fresh, hit |-> None]
  BY DEF Start, api, time
<1>2. fresh \in Copies /\ \A n \in NC : Faithful(rq[n], rev, fresh[n])
  BY FaithfulView DEF LeaseInv, Copies
<1> HIDE DEF fresh
<1>3. sync'.todo = {n \in NC : fresh[n] # None} /\ sync'.copy = fresh /\ sync'.hit = None
  BY <1>1
<1>4. sync' \in [todo : SUBSET NC, copy : Copies, hit : NC \cup {None}]
  BY <1>1, <1>2
<1>5. TypeOK'
  BY <1>1, <1>2, <1>4 DEF LeaseInv, TypeOK
<1>6. Versions' /\ Due' /\ Planned'
  BY <1>1, <1>3 DEF LeaseInv, Versions, Due, View, Planned
<1>7. Copied'
  BY <1>1, <1>2, <1>3 DEF LeaseInv, Copied
<1> QED BY <1>1, <1>5, <1>6, <1>7, MovedSame DEF LeaseStep, LeaseInv

LEMMA SyncLookStep ==
    ASSUME LeaseInv, NEW n \in NC, SyncLook(n)
    PROVE  LeaseStep
<1> DEFINE hit == IF sync.copy[n].expiry = 0 /\ pod = None THEN n ELSE None
<1>1. /\ UNCHANGED <<pod, ncs, edits, faults, rq, seen, rev, stamp, clock, up, podq, rqq, alarm, del, work>>
      /\ n \in sync.todo /\ sync' = [sync EXCEPT !.todo = @ \ {n}, !.hit = hit]
      /\ sync \in [todo : SUBSET NC, copy : Copies, hit : NC \cup {None}]
  BY DEF SyncLook, api, store, time, rqc, LeaseInv, TypeOK
<1>2. hit = None \/ (hit = n /\ sync.copy[n].expiry = 0)
  OBVIOUS
<1> HIDE DEF hit
<1>3. /\ sync'.todo = sync.todo \ {n} /\ sync'.copy = sync.copy /\ sync'.hit = hit
      /\ sync' \in [todo : SUBSET NC, copy : Copies, hit : NC \cup {None}]
  BY <1>1, <1>2
<1>4. TypeOK'
  BY <1>1, <1>3 DEF LeaseInv, TypeOK
<1>5. Planned'
  BY <1>1, <1>2, <1>3 DEF LeaseInv, Planned
<1> QED BY <1>1, <1>3, <1>4, <1>5, Quiet

LEMMA SyncMarkStep == LeaseInv /\ SyncMark => LeaseStep
<1> SUFFICES ASSUME LeaseInv, SyncMark PROVE LeaseStep
  OBVIOUS
<1> DEFINE n == sync.hit
<1>1. /\ n \in NC /\ UNCHANGED <<pod, ncs, edits, faults, clock>>
      /\ sync \in [todo : SUBSET NC, copy : Copies, hit : NC \cup {None}]
  BY DEF SyncMark, api, LeaseInv, TypeOK
<1>2. /\ sync.copy[n] \in Request /\ Faithful(rq[n], rev, sync.copy[n])
      /\ sync.copy[n].expiry = 0
  <2>1. sync.copy[n] # None /\ sync.copy[n].expiry = 0
    BY DEF SyncMark, LeaseInv, Planned
  <2>2. Faithful(rq[n], rev, sync.copy[n])
    BY <1>1 DEF LeaseInv, Copied
  <2> QED BY <1>1, <2>1, <2>2 DEF Copies
<1>3. CASE rq[n] = None
  <2>1. Down /\ UNCHANGED <<rq, seen, rev, stamp>>
    BY <1>3 DEF SyncMark, store
  <2>2. TypeOK'
    BY <1>1, <2>1, DownFacts DEF LeaseInv, TypeOK
  <2> QED BY <1>1, <2>1, <2>2, DownFacts, Quiet
<1>4. CASE rq[n] # None
  <2>1. /\ sync' = [sync EXCEPT !.hit = None]
        /\ UNCHANGED <<up, podq, rqq, alarm, del, work>>
    BY <1>4 DEF SyncMark, rqc
  <2>2. /\ sync'.todo = sync.todo /\ sync'.copy = sync.copy /\ sync'.hit = None
        /\ sync' \in [todo : SUBSET NC, copy : Copies, hit : NC \cup {None}]
    BY <1>1, <2>1
  <2>3. Planned'
    BY <2>1, <2>2 DEF LeaseInv, Planned
  <2>4. CASE rq[n].rev # sync.copy[n].rev
    <3>1. UNCHANGED <<rq, seen, rev, stamp>>
      BY <1>4, <2>4 DEF SyncMark, store
    <3>2. TypeOK'
      BY <1>1, <2>1, <2>2, <3>1 DEF LeaseInv, TypeOK
    <3> QED BY <1>1, <2>1, <2>2, <2>3, <3>1, <3>2, Quiet
  <2>5. CASE rq[n].rev = sync.copy[n].rev
    <3> DEFINE r == [rq[n] EXCEPT !.expiry = NewExpiry, !.rev = rev + 1]
    <3>1. Store(n, r) /\ stamp' = stamp + 1
      BY <1>4, <2>5 DEF SyncMark, NewExpiry
    <3>2. /\ r \in Request /\ r # None /\ r.rev = rev + 1 /\ ~r.foreign
          /\ View(rq[n]) # None /\ View(rq[n]).expiry = 0
          /\ r.ip = View(rq[n]).ip /\ r.expiry > clock
      BY <1>1, <1>2, <1>4, <2>5, Graced
    <3> HIDE DEF r
    <3>3. rq' \in Copies /\ rev' \in Nat /\ seen' = seen
      BY <1>1, <3>1, <3>2, StoreFacts
    <3>4. stamp' \in Nat /\ clock' \in 0 .. stamp'
      BY <1>1, <3>1 DEF LeaseInv, TypeOK
    <3>5. TypeOK'
      BY <1>1, <2>1, <2>2, <3>3, <3>4 DEF LeaseInv, TypeOK
    <3>6. del # n
      <4> SUFFICES ASSUME del = n PROVE FALSE
        OBVIOUS
      <4>1. View(rq[n]).expiry \in 1 .. clock
        BY <1>1, <3>2, RequestAssumption DEF LeaseInv, Due
      <4> QED BY <3>2, <4>1
    <3> HIDE DEF n
    <3> QED BY <1>1, <2>1, <2>2, <2>3, <3>1, <3>2, <3>5, <3>6, Written
  <2> QED BY <2>4, <2>5
<1> QED BY <1>3, <1>4

LEMMA PodEdited ==
    ASSUME LeaseInv, EnvNext, ~\E n \in NC : ForeignGone(n)
    PROVE  EnvStep /\ pod' \in PodType \cup {None} /\ ncs' \subseteq NC
<1>1. pod \in PodType \cup {None} /\ ncs \subseteq NC
  BY DEF LeaseInv, TypeOK
<1>2. CASE PodBound
  BY <1>1, <1>2 DEF PodBound, PodType
<1>3. CASE PodAddressed
  BY <1>1, <1>3 DEF PodAddressed, PodType
<1>4. CASE PodTerminating
  BY <1>1, <1>4 DEF PodTerminating, PodType
<1>5. CASE PodGone
  BY <1>1, <1>5 DEF PodGone
<1>6. CASE PodRelabelled
  BY <1>1, <1>6 DEF PodRelabelled, PodType
<1>7. CASE PodAnnotated
  BY <1>1, <1>7 DEF PodAnnotated, PodType
<1>8. ASSUME NEW n \in NC, NATConfigChanged(n)
      PROVE  EnvStep /\ pod' \in PodType \cup {None} /\ ncs' \subseteq NC
  BY <1>1, <1>8 DEF NATConfigChanged
<1> QED BY <1>2, <1>3, <1>4, <1>5, <1>6, <1>7, <1>8 DEF EnvNext

LEMMA EnvLeaseStep ==
    ASSUME LeaseInv, EnvNext
    PROVE  LeaseStep
<1>1. ASSUME NEW n \in NC, ForeignGone(n) PROVE LeaseStep
  <2>1. /\ UNCHANGED <<pod, ncs, edits, faults, seen, rev, stamp, clock, up, podq, rqq, alarm, del, work, sync>>
        /\ rq' = [rq EXCEPT ![n] = None] /\ rq[n] # None /\ rq[n].foreign
    BY <1>1 DEF ForeignGone, api, time, rqc
  <2>2. rq' \in Copies /\ rq'[n] = None /\ \A m \in NC : m # n => rq'[m] = rq[m]
    BY <2>1 DEF LeaseInv, TypeOK, Copies
  <2>3. TypeOK'
    BY <2>1, <2>2 DEF LeaseInv, TypeOK
  <2>4. Versions' /\ Planned'
    BY <2>1, <2>2 DEF LeaseInv, Versions, Planned
  <2>5. Due'
    BY <2>1, <2>2 DEF LeaseInv, TypeOK, Due, View
  <2>6. Copied'
    BY <2>1, <2>2 DEF LeaseInv, Copied, Faithful
  <2>7. \A m \in NC : View(rq'[m]) = View(rq[m]) /\ (View(rq[m]) # None => rq'[m] = rq[m])
    BY <2>1, <2>2 DEF View
  <2>8. \A m \in NC : Moved(m)
    BY <2>1, <2>7 DEF Moved, LeaseOf, View
  <2> QED BY <2>3, <2>4, <2>5, <2>6, <2>8 DEF LeaseStep, LeaseInv
<1>2. CASE ~\E n \in NC : ForeignGone(n)
  <2>1. EnvStep /\ pod' \in PodType \cup {None} /\ ncs' \subseteq NC
    BY <1>2, PodEdited
  <2>2. edits' \in 0 .. MaxEdits
    BY <2>1, RequestAssumption DEF EnvStep, LeaseInv, TypeOK
  <2>3. /\ UNCHANGED <<faults, rq, seen, rev, stamp, clock, up, rqq, alarm, del, work, sync>>
        /\ podq' \in BOOLEAN
    BY <2>1 DEF EnvStep, store, time, rqc, LeaseInv, TypeOK
  <2>4. TypeOK' /\ Planned'
    BY <2>1, <2>2, <2>3 DEF LeaseInv, TypeOK, Planned
  <2> QED BY <2>3, <2>4, Quiet
<1> QED BY <1>1, <1>2

LEMMA ElapseStep == LeaseInv /\ Elapse => LeaseStep
<1> SUFFICES ASSUME LeaseInv, Elapse PROVE LeaseStep
  OBVIOUS
<1>1. /\ UNCHANGED <<pod, ncs, edits, faults, rq, seen, rev, stamp, up, podq, rqq, alarm, del, work, sync>>
      /\ clock < stamp /\ clock' = clock + 1
  BY DEF Elapse, api, store, rqc
<1>2. clock' \in 0 .. stamp' /\ 1 .. clock \subseteq 1 .. clock'
  BY <1>1 DEF LeaseInv, TypeOK
<1>3. TypeOK'
  BY <1>1, <1>2 DEF LeaseInv, TypeOK
<1>4. Versions' /\ Planned' /\ Copied'
  BY <1>1 DEF LeaseInv, Versions, Planned, Copied
<1>5. Due'
  BY <1>1, <1>2 DEF LeaseInv, Due, View
<1> QED BY <1>3, <1>4, <1>5, MovedElapse DEF LeaseStep, LeaseInv

-----------------------------------------------------------------------------
LEMMA LeaseNext ==
    ASSUME Calm, LeaseInv, [Next]_vars
    PROVE  LeaseStep
<1>1. CASE UNCHANGED vars
  <2>1. TypeOK' /\ Planned'
    BY <1>1 DEF vars, api, store, time, rqc, LeaseInv, TypeOK, Planned
  <2> QED BY <1>1, <2>1, Quiet DEF vars, api, store, time, rqc
<1>2. CASE Step
  BY <1>2, PodBeginStep, PodQuietSteps, CreateStep, ExpireStep, RenewStep DEF Step
<1>3. CASE PodFails
  BY <1>3, PodQuietSteps
<1>4. ASSUME NEW n \in NC, RqBegin(n) \/ Ring(n) \/ Deliver(n) PROVE LeaseStep
  BY <1>4, RqBeginStep, RqQuietSteps, DeliverStep
<1>5. CASE RqDelete \/ RqDeleteFails
  BY <1>5, RqDeleteStep, RqQuietSteps
<1>6. CASE Stop \/ Start
  BY <1>6, StopStep, StartStep
<1>7. CASE SyncStep
  BY <1>7, SyncMarkStep, SyncLookStep DEF SyncStep
<1>8. CASE EnvNext \/ Elapse
  BY <1>8, EnvLeaseStep, ElapseStep
<1> QED BY <1>1, <1>2, <1>3, <1>4, <1>5, <1>6, <1>7, <1>8 DEF Next

LEMMA LeaseInvariant == Calm => (Safety => []LeaseInv)
<1> SUFFICES ASSUME Calm PROVE Safety => []LeaseInv
  OBVIOUS
<1>1. Init => LeaseInv
  BY LeaseInit
<1>2. LeaseInv /\ [Next]_vars => LeaseInv'
  BY LeaseNext DEF LeaseStep
<1> QED BY <1>1, <1>2, PTL DEF Safety

\* The controllers implement the lease: no request is deleted before its grace
\* period is over nor after it was renewed, and none changes its address
\* (PodReconciler.Reconcile, NPRRReconciler.Reconcile and the syncer).
THEOREM LeaseImplemented == Calm => (Safety => IsLease)
<1> SUFFICES ASSUME Calm PROVE Safety => IsLease
  OBVIOUS
<1>1. Init => Lease!Init
  BY LeaseInit
<1>2. LeaseInv /\ [Next]_vars => [Lease!Next]_(Lease!vars)
  BY LeaseNext, MovesRefine DEF LeaseStep, LeaseInv
<1>3. Safety => []LeaseInv
  BY LeaseInvariant
<1> QED BY <1>1, <1>2, <1>3, PTL DEF Safety, IsLease, Lease!Spec

-----------------------------------------------------------------------------
(* At rest the requests are what the pod needs.  The invariant says who    *)
(* will still see to a request that is not.                                *)

Unclashing == "clash" \notin Env

Wanted(n) == Running /\ n \in MatchingNCs(pod)
Good(n)   == IF Wanted(n) THEN Current(n) ELSE View(rq[n]) = None \/ rq[n].expiry # 0

Unclashed == pod # None => \A n \in NC : rq[n] = View(rq[n])
Halted    == ~up => work = None /\ del = None /\ sync.todo = {} /\ sync.hit = None
Marking   == sync.hit # None => pod = None

\* The end of a grace period is noticed.
Alarmed ==
    \A n \in NC :
        up /\ View(rq[n]) # None /\ rq[n].expiry # 0
            => n \in rqq \/ del = n \/ seen[n] # View(rq[n]) \/ alarm[n] = rq[n].expiry

\* With no reconcile in progress, only the syncer has something left to do.
Swept(n) ==
    Good(n) \/ (pod = None /\ (n \in sync.todo \/ n = sync.hit) /\ rq[n] = sync.copy[n])

\* The reconcile in progress is about the pod and the NATConfigs as they are.
Abreast ==
    /\ work.pod = pod
    /\ pod # None => pod.ip # None /\ work.want = MatchingNCs(pod)
    /\ work.ends <=> pod = None \/ pod.terminating

\* What it has still to do for n, if anything.
Pending(n) ==
    IF n \in work.create THEN rq[n] = None /\ Wanted(n) /\ n \notin work.visit
    ELSE IF n \in work.visit
    THEN \/ rq[n] = work.copy[n]
         \/ rq[n] = None /\ work.copy[n].expiry # 0
         \/ pod = None /\ Good(n)
    ELSE Good(n)

Handled ==
    up /\ ~podq => IF work = None THEN \A n \in NC : Swept(n)
                   ELSE Abreast /\ \A n \in NC : Pending(n)

RestInv == Unclashed /\ Halted /\ Marking /\ Alarmed /\ Handled

LEMMA GoodSame ==
    ASSUME UNCHANGED <<pod, ncs>>, NEW n \in NC, rq'[n] = rq[n]
    PROVE  (Good(n)' <=> Good(n)) /\ (Wanted(n)' <=> Wanted(n))
BY DEF Good, Wanted, Running, MatchingNCs, Current, View

LEMMA HandledSame ==
    ASSUME Handled, UNCHANGED <<pod, ncs, rq, up, podq, work, sync>>
    PROVE  Handled'
<1>1. \A n \in NC : (Good(n)' <=> Good(n)) /\ (Wanted(n)' <=> Wanted(n))
  BY GoodSame
<1>2. Abreast' <=> Abreast
  BY DEF Abreast, MatchingNCs
<1> QED BY <1>1, <1>2 DEF Handled, Swept, Pending

LEMMA RestInit == Init => RestInv
<1> SUFFICES ASSUME Init PROVE RestInv
  OBVIOUS
<1>1. \A n \in NC : View(rq[n]) = None
  BY ForeignType DEF Init, View
<1>2. pod = None /\ up /\ work = None /\ sync.hit = None
  BY DEF Init, NoSync
<1>3. \A n \in NC : Good(n)
  BY <1>1, <1>2 DEF Good, Wanted, Running
<1> QED BY <1>1, <1>2, <1>3 DEF RestInv, Unclashed, Halted, Marking, Alarmed, Handled, Swept

LEMMA RestSame ==
    ASSUME RestInv, UNCHANGED <<pod, ncs, rq, up, podq, work, sync>>,
           Alarmed', up \/ del' = None
    PROVE  RestInv'
<1>1. Handled'
  BY HandledSame DEF RestInv
<1>2. Unclashed' /\ Halted' /\ Marking'
  BY DEF RestInv, Unclashed, Halted, Marking, View
<1> QED BY <1>1, <1>2 DEF RestInv

\* The NPRR controller's steps without a write, the watch and time.
LEMMA RestNprr ==
    ASSUME Calm, LeaseInv, RestInv,
           RqDeleteFails \/ Elapse \/ \E n \in NC : RqBegin(n) \/ Ring(n) \/ Deliver(n)
    PROVE  RestInv'
<1>1. CASE RqDeleteFails
  <2>1. /\ UNCHANGED <<pod, ncs, rq, seen, up, podq, work, sync, alarm>> /\ del' = None
        /\ rqq' = rqq \cup {del}
    BY <1>1 DEF RqDeleteFails, api, store
  <2>2. Alarmed'
    BY <2>1 DEF RestInv, Alarmed, View
  <2> QED BY <2>1, <2>2, RestSame
<1>2. CASE Elapse
  <2>1. UNCHANGED <<pod, ncs, rq, seen, up, podq, work, sync, alarm, del, rqq>>
    BY <1>2 DEF Elapse, api, store, rqc
  <2>2. Alarmed' /\ (up \/ del' = None)
    BY <2>1 DEF RestInv, Alarmed, View, Halted
  <2> QED BY <2>1, <2>2, RestSame
<1>3. ASSUME NEW n \in NC, RqBegin(n) PROVE RestInv'
  <2>1. /\ UNCHANGED <<pod, ncs, rq, seen, up, podq, work, sync>> /\ up /\ rqq' = rqq \ {n}
        /\ seen[n] = View(rq[n]) /\ del = None
    BY <1>3 DEF RqBegin, api, store, CaughtUp, Calm
  <2>2. alarm \in [NC -> Nat]
    BY DEF LeaseInv, TypeOK
  <2>3. \A m \in NC : m # n => alarm'[m] = alarm[m]
    BY <1>3, <2>2 DEF RqBegin
  <2>4. seen[n] # None /\ seen[n].expiry # 0 => del' = n \/ alarm'[n] = seen[n].expiry
    BY <1>3, <2>2 DEF RqBegin
  <2>5. View(rq[n]) # None => View(rq[n]) = rq[n]
    BY DEF View
  <2>6. Alarmed'
    <3> SUFFICES ASSUME NEW m \in NC, up', View(rq[m])' # None, rq'[m].expiry # 0
                 PROVE  m \in rqq' \/ del' = m \/ seen'[m] # View(rq[m])' \/ alarm'[m] = rq'[m].expiry
      BY DEF Alarmed
    <3>1. View(rq[m])' = View(rq[m]) /\ rq'[m] = rq[m] /\ seen'[m] = seen[m]
      BY <2>1 DEF View
    <3>2. CASE m = n
      BY <2>1, <2>4, <2>5, <3>1, <3>2
    <3>3. CASE m # n
      <4>1. m \in rqq \/ del = m \/ seen[m] # View(rq[m]) \/ alarm[m] = rq[m].expiry
        BY <2>1, <3>1 DEF RestInv, Alarmed
      <4>2. del # m
        BY <2>1, RequestAssumption
      <4> QED BY <2>1, <2>3, <3>1, <3>3, <4>1, <4>2
    <3> QED BY <3>2, <3>3
  <2> QED BY <2>1, <2>6, RestSame
<1>4. ASSUME NEW n \in NC, Ring(n) PROVE RestInv'
  <2>1. /\ UNCHANGED <<pod, ncs, rq, seen, up, podq, work, sync, del>> /\ up /\ rqq' = rqq \cup {n}
        /\ alarm' = [alarm EXCEPT ![n] = 0] /\ alarm \in [NC -> Nat]
    BY <1>4 DEF Ring, api, store, LeaseInv, TypeOK
  <2>2. Alarmed'
    BY <2>1 DEF RestInv, Alarmed, View
  <2> QED BY <2>1, <2>2, RestSame
<1>5. ASSUME NEW n \in NC, Deliver(n) PROVE RestInv'
  <2>1. /\ UNCHANGED <<pod, ncs, rq, up, podq, work, sync, del, alarm>> /\ up /\ rqq' = rqq \cup {n}
        /\ seen' = [seen EXCEPT ![n] = View(rq[n])] /\ seen \in Copies
    BY <1>5 DEF Deliver, api, LeaseInv, TypeOK
  <2>2. Alarmed'
    BY <2>1 DEF RestInv, Alarmed, View, Copies
  <2> QED BY <2>1, <2>2, RestSame
<1> QED BY <1>1, <1>2, <1>3, <1>4, <1>5

\* A write reaches the NPRR controller through the watch.
LEMMA AlarmedStore ==
    ASSUME LeaseInv, Alarmed, NEW n \in NC, NEW r \in Request \cup {None}, Store(n, r),
           r # None => r.rev = rev + 1 /\ ~r.foreign,
           up' => up, UNCHANGED <<rqq, alarm>>, del' = del \/ del = n
    PROVE  Alarmed'
<1>1. rq'[n] = r /\ seen' = seen /\ \A m \in NC : m # n => rq'[m] = rq[m]
  BY StoreFacts
<1>2. rev \in Nat /\ Faithful(rq[n], rev, seen[n])
  BY DEF LeaseInv, TypeOK, Copied
<1>3. r # None => seen[n] # r
  BY <1>2 DEF Faithful
<1>4. View(r) # None => View(r) = r
  BY DEF View
<1> SUFFICES ASSUME NEW m \in NC, up', View(rq[m])' # None, rq'[m].expiry # 0
             PROVE  m \in rqq' \/ del' = m \/ seen'[m] # View(rq[m])' \/ alarm'[m] = rq'[m].expiry
  BY DEF Alarmed
<1>5. CASE m = n
  BY <1>1, <1>3, <1>4, <1>5 DEF View
<1>6. CASE m # n
  BY <1>1, <1>6 DEF Alarmed, View
<1> QED BY <1>5, <1>6

LEMMA RestDelete ==
    ASSUME LeaseInv, RestInv, RqDelete
    PROVE  RestInv'
<1>1. /\ UNCHANGED <<pod, ncs, up, podq, rqq, alarm, work, sync>>
      /\ del \in NC /\ del' = None
  BY DEF RqDelete, api, LeaseInv, TypeOK
<1>2. /\ rq'[del] = None /\ Alarmed'
      /\ \A m \in NC : m # del => rq'[m] = rq[m]
  <2>1. CASE rq[del] = None
    <3>1. UNCHANGED <<rq, seen, rev>>
      BY <2>1 DEF RqDelete, store
    <3> QED BY <1>1, <2>1, <3>1 DEF RestInv, Alarmed, View
  <2>2. CASE rq[del] # None
    <3>1. Store(del, None)
      BY <2>2 DEF RqDelete
    <3> QED BY <1>1, <3>1, StoreFacts, AlarmedStore DEF RestInv
  <2> QED BY <2>1, <2>2
<1>3. rq[del] # None /\ ~rq[del].foreign => rq[del].expiry # 0
  BY <1>1, RequestAssumption DEF LeaseInv, Due, View
<1>4. \A m \in NC : Good(m) => Good(m)'
  <2> SUFFICES ASSUME NEW m \in NC, Good(m) PROVE Good(m)'
    OBVIOUS
  <2>1. CASE m # del
    BY <1>1, <1>2, <2>1, GoodSame
  <2>2. CASE m = del
    <3>1. ~Wanted(m)
      BY <1>3, <2>2 DEF Good, Current, View
    <3>2. ~Wanted(m)'
      BY <1>1, <3>1 DEF Wanted, Running, MatchingNCs
    <3> QED BY <1>2, <2>2, <3>2 DEF Good, View
  <2> QED BY <2>1, <2>2
<1>5. \A m \in NC : m = del /\ pod = None => Good(m)'
  BY <1>1, <1>2 DEF Good, Wanted, Running, View
<1>6. Unclashed' /\ Halted' /\ Marking'
  BY <1>1, <1>2 DEF RestInv, Unclashed, Halted, Marking, View
<1>7. \A m \in NC : Swept(m) => Swept(m)'
  BY <1>1, <1>2, <1>4, <1>5 DEF Swept
<1>8. Abreast => Abreast'
  BY <1>1 DEF Abreast, MatchingNCs
<1>9. ASSUME work # None, NEW m \in NC, Pending(m) PROVE Pending(m)'
  <2>1. work' = work /\ Faithful(rq[m], rev, work.copy[m])
    BY <1>1, <1>9 DEF LeaseInv, Copied
  <2>2. CASE m \in work.create
    BY <1>1, <1>2, <1>9, <2>1, <2>2 DEF Pending, Wanted, Running, MatchingNCs
  <2>3. CASE m \notin work.create /\ m \in work.visit
    <3>1. work.copy[m] # None
      BY <1>9, <2>3 DEF LeaseInv, Planned
    <3>2. m # del \/ rq[m] # work.copy[m] \/ work.copy[m].expiry # 0
      BY <1>3, <2>1, <3>1 DEF Faithful
    <3> QED BY <1>1, <1>2, <1>4, <1>9, <2>1, <2>3, <3>2 DEF Pending
  <2>4. CASE m \notin work.create /\ m \notin work.visit
    BY <1>4, <1>9, <2>1, <2>4 DEF Pending
  <2> QED BY <2>2, <2>3, <2>4
<1>10. Handled'
  BY <1>1, <1>7, <1>8, <1>9 DEF RestInv, Handled
<1> QED BY <1>2, <1>6, <1>10 DEF RestInv

\* While the daemon is down nothing is promised.
LEMMA RestDown ==
    ASSUME RestInv, Down, UNCHANGED <<pod, rq>>
    PROVE  RestInv'
BY DEF Down, NoSync, RestInv, Unclashed, Halted, Marking, Alarmed, Handled, View

LEMMA RestStart ==
    ASSUME LeaseInv, RestInv, Start
    PROVE  RestInv'
<1>1. /\ UNCHANGED <<pod, ncs, rq, work, del>> /\ ~up /\ up' = TRUE /\ podq' = (pod # None)
      /\ rqq' = {n \in NC : View(rq[n]) # None}
      /\ sync' = [todo |-> {n \in NC : View(rq[n]) # None}, copy |-> [n \in NC |-> View(rq[n])],
                  hit |-> None]
  BY DEF Start, api
<1>2. sync'.todo = {n \in NC : View(rq[n]) # None} /\ sync'.hit = None
      /\ sync'.copy = [n \in NC |-> View(rq[n])]
  BY <1>1
<1>3. work' = None
  BY <1>1 DEF RestInv, Halted
<1>4. Alarmed'
  BY <1>1 DEF Alarmed, View
<1>5. ASSUME pod = None, NEW n \in NC PROVE Swept(n)'
  <2>1. CASE View(rq[n]) = None
    BY <1>1, <1>5, <2>1 DEF Swept, Good, Wanted, Running, View
  <2>2. CASE View(rq[n]) # None
    BY <1>1, <1>2, <1>5, <2>2 DEF Swept, View
  <2> QED BY <2>1, <2>2
<1>6. Handled'
  BY <1>1, <1>3, <1>5 DEF Handled
<1>7. Unclashed' /\ Halted' /\ Marking'
  BY <1>1, <1>2 DEF RestInv, Unclashed, Halted, Marking, View
<1> QED BY <1>4, <1>6, <1>7 DEF RestInv

LEMMA RestLook ==
    ASSUME LeaseInv, RestInv, NEW n \in NC, SyncLook(n)
    PROVE  RestInv'
<1> DEFINE hit == IF sync.copy[n].expiry = 0 /\ pod = None THEN n ELSE None
<1>1. /\ UNCHANGED <<pod, ncs, rq, seen, up, podq, rqq, alarm, del, work>>
      /\ n \in sync.todo /\ sync.hit = None /\ sync' = [sync EXCEPT !.todo = @ \ {n}, !.hit = hit]
      /\ sync \in [todo : SUBSET NC, copy : Copies, hit : NC \cup {None}]
  BY DEF SyncLook, api, store, rqc, LeaseInv, TypeOK
<1>2. sync'.todo = sync.todo \ {n} /\ sync'.copy = sync.copy /\ sync'.hit = hit
  BY <1>1
<1>3. up
  BY <1>1 DEF RestInv, Halted
<1>4. \A m \in NC : (Good(m)' <=> Good(m)) /\ (Wanted(m)' <=> Wanted(m))
  BY <1>1, GoodSame
<1>5. ASSUME NEW m \in NC, Swept(m) PROVE Swept(m)'
  <2>1. CASE m # n
    BY <1>1, <1>2, <1>4, <1>5, <2>1, RequestAssumption DEF Swept
  <2>2. CASE m = n /\ pod = None /\ rq[n] = sync.copy[n]
    <3>1. CASE sync.copy[n].expiry = 0
      BY <1>1, <1>2, <2>2, <3>1 DEF Swept
    <3>2. CASE sync.copy[n].expiry # 0
      BY <1>4, <2>2, <3>2 DEF Swept, Good, Wanted, Running
    <3> QED BY <3>1, <3>2
  <2>3. CASE Good(m)
    BY <1>4, <2>3 DEF Swept
  <2> QED BY <1>5, <2>1, <2>2, <2>3 DEF Swept
<1>6. Abreast => Abreast'
  BY <1>1 DEF Abreast, MatchingNCs
<1>7. \A m \in NC : Pending(m) => Pending(m)'
  BY <1>1, <1>4 DEF Pending
<1>8. Handled'
  BY <1>1, <1>5, <1>6, <1>7 DEF RestInv, Handled
<1>9. Unclashed' /\ Halted' /\ Alarmed'
  BY <1>1, <1>3 DEF RestInv, Unclashed, Halted, Alarmed, View
<1>10. Marking'
  BY <1>1, <1>2 DEF Marking
<1> QED BY <1>8, <1>9, <1>10 DEF RestInv

LEMMA RestMark ==
    ASSUME LeaseInv, RestInv, SyncMark
    PROVE  RestInv'
<1> DEFINE n == sync.hit
<1>1. /\ n \in NC /\ UNCHANGED <<pod, ncs>> /\ pod = None
      /\ sync \in [todo : SUBSET NC, copy : Copies, hit : NC \cup {None}]
  BY DEF SyncMark, api, LeaseInv, TypeOK, RestInv, Marking
<1>2. /\ sync.copy[n] \in Request /\ Faithful(rq[n], rev, sync.copy[n])
      /\ sync.copy[n].expiry = 0
  <2>1. sync.copy[n] # None /\ sync.copy[n].expiry = 0
    BY DEF SyncMark, LeaseInv, Planned
  <2>2. Faithful(rq[n], rev, sync.copy[n])
    BY <1>1 DEF LeaseInv, Copied
  <2> QED BY <1>1, <2>1, <2>2 DEF Copies
<1>3. CASE rq[n] = None
  <2>1. Down /\ UNCHANGED <<pod, rq>>
    BY <1>1, <1>3 DEF SyncMark, store
  <2> QED BY <2>1, RestDown
<1>4. CASE rq[n] # None
  <2>1. /\ sync' = [sync EXCEPT !.hit = None]
        /\ UNCHANGED <<up, podq, rqq, alarm, del, work>>
    BY <1>4 DEF SyncMark, rqc
  <2>2. sync'.todo = sync.todo /\ sync'.copy = sync.copy /\ sync'.hit = None
    BY <1>1, <2>1
  <2>3. \A m \in NC : ~Wanted(m)'
    BY <1>1 DEF Wanted, Running
  <2>4. Unclashed' /\ Halted' /\ Marking'
    BY <1>1, <2>1, <2>2 DEF RestInv, Unclashed, Halted, Marking
  <2>5. Abreast => Abreast'
    BY <1>1, <2>1 DEF Abreast
  <2>6. CASE rq[n].rev # sync.copy[n].rev
    <3>1. UNCHANGED <<rq, seen>>
      BY <1>4, <2>6 DEF SyncMark, store
    <3>2. \A m \in NC : (Good(m)' <=> Good(m)) /\ (Wanted(m)' <=> Wanted(m))
      BY <1>1, <3>1, GoodSame
    <3>3. \A m \in NC : Swept(m) => Swept(m)'
      BY <1>1, <2>2, <2>6, <3>1, <3>2 DEF Swept
    <3>4. \A m \in NC : Pending(m) => Pending(m)'
      BY <1>1, <2>1, <3>1, <3>2 DEF Pending
    <3>5. Handled' /\ Alarmed'
      BY <2>1, <2>5, <3>1, <3>3, <3>4 DEF RestInv, Handled, Alarmed, View
    <3> QED BY <2>4, <3>5 DEF RestInv
  <2>7. CASE rq[n].rev = sync.copy[n].rev
    <3> DEFINE r == [rq[n] EXCEPT !.expiry = NewExpiry, !.rev = rev + 1]
    <3>1. Store(n, r)
      BY <1>4, <2>7 DEF SyncMark
    <3>2. r \in Request /\ r # None /\ r.rev = rev + 1 /\ ~r.foreign /\ r.expiry = stamp + 1
      BY <1>1, <1>2, <1>4, <2>7, Graced
    <3>3. r.expiry # 0
      BY <3>2 DEF LeaseInv, TypeOK
    <3> HIDE DEF r
    <3>4. Alarmed'
      BY <1>1, <2>1, <3>1, <3>2, AlarmedStore DEF RestInv
    <3>5. rq'[n] = r /\ \A m \in NC : m # n => rq'[m] = rq[m]
      BY <1>1, <3>1, <3>2, StoreFacts
    <3>6. \A m \in NC : m # n => (Good(m)' <=> Good(m)) /\ (Wanted(m)' <=> Wanted(m))
      BY <1>1, <3>5, GoodSame
    <3>7. \A m \in NC : m = n => Good(m)'
      BY <2>3, <3>3, <3>5 DEF Good
    <3>8. \A m \in NC : Swept(m) => Swept(m)'
      BY <1>1, <2>2, <3>5, <3>6, <3>7 DEF Swept
    <3>9. \A m \in NC : Pending(m) => Pending(m)'
      BY <1>1, <1>4, <2>1, <3>5, <3>6, <3>7 DEF Pending
    <3>10. Handled'
      BY <2>1, <2>5, <3>8, <3>9 DEF RestInv, Handled
    <3> QED BY <2>4, <3>4, <3>10 DEF RestInv
  <2> QED BY <2>6, <2>7
<1> QED BY <1>3, <1>4

LEMMA RestEnv ==
    ASSUME Calm, Unclashing, LeaseInv, RestInv, EnvNext
    PROVE  RestInv'
<1>1. ASSUME NEW n \in NC, ForeignGone(n) PROVE RestInv'
  <2>1. /\ UNCHANGED <<pod, ncs, seen, up, podq, rqq, alarm, del, work, sync>>
        /\ rq' = [rq EXCEPT ![n] = None] /\ rq[n] # None /\ rq[n].foreign /\ rq \in Copies
    BY <1>1 DEF ForeignGone, api, rqc, LeaseInv, TypeOK
  <2>2. rq'[n] = None /\ \A m \in NC : m # n => rq'[m] = rq[m]
    BY <2>1 DEF Copies
  <2>3. \A m \in NC : View(rq'[m]) = View(rq[m]) /\ (View(rq[m]) # None => rq'[m] = rq[m])
    BY <2>1, <2>2 DEF View
  <2>4. \A m \in NC : (Good(m)' <=> Good(m)) /\ (Wanted(m)' <=> Wanted(m))
    BY <2>1, <2>3 DEF Good, Wanted, Running, MatchingNCs, Current, View
  <2>5. Unclashed' /\ Halted' /\ Marking' /\ Alarmed'
    BY <2>1, <2>2, <2>3 DEF RestInv, Unclashed, Halted, Marking, Alarmed, View
  <2>6. View(rq[n]) = None /\ sync.copy[n] # rq[n] /\ (work # None => work.copy[n] # rq[n])
    BY <2>1 DEF View, LeaseInv, Copied, Faithful
  <2>7. \A m \in NC : Swept(m) => Swept(m)'
    BY <2>1, <2>2, <2>4, <2>6 DEF Swept
  <2>8. work # None => \A m \in NC : Pending(m) => Pending(m)'
    BY <2>1, <2>2, <2>4, <2>6 DEF Pending
  <2>9. Abreast => Abreast'
    BY <2>1 DEF Abreast, MatchingNCs
  <2>10. Handled'
    BY <2>1, <2>7, <2>8, <2>9 DEF RestInv, Handled
  <2> QED BY <2>5, <2>10 DEF RestInv
<1>2. CASE ~\E n \in NC : ForeignGone(n)
  <2>1. EnvStep
    BY <1>2, PodEdited
  <2>2. /\ UNCHANGED <<rq, seen, up, rqq, alarm, del, work, sync>> /\ sync.hit = None
        /\ podq' = (up /\ (pod # None \/ pod' # None \/ podq))
    BY <2>1 DEF EnvStep, store, rqc, Unraced, Calm
  <2>3. Halted' /\ Marking' /\ Alarmed'
    BY <2>2 DEF RestInv, Halted, Marking, Alarmed, View
  <2>4. pod # None \/ pod' = None \/ \A n \in NC : rq[n] = View(rq[n])
    BY <1>2 DEF EnvNext, PodBound, PodAddressed, PodTerminating, PodGone, PodRelabelled, PodAnnotated,
                NATConfigChanged, Unclashing
  <2>5. Unclashed'
    BY <2>2, <2>4 DEF RestInv, Unclashed, View
  <2>6. Handled'
    <3> SUFFICES ASSUME up', ~podq' PROVE Handled'
      BY DEF Handled
    <3>1. pod = None /\ pod' = None /\ up /\ ~podq
      BY <2>2 DEF LeaseInv, TypeOK
    <3>2. \A n \in NC : (Good(n)' <=> Good(n)) /\ (Wanted(n)' <=> Wanted(n))
      BY <2>2, <3>1 DEF Good, Wanted, Running, View
    <3>3. Abreast => Abreast'
      BY <2>2, <3>1 DEF Abreast
    <3> QED BY <2>2, <3>1, <3>2, <3>3 DEF RestInv, Handled, Swept, Pending
  <2> QED BY <2>3, <2>5, <2>6 DEF RestInv
<1> QED BY <1>1, <1>2

\* The Pod controller's judgement is the right one.
LEMMA Judged ==
    ASSUME Abreast, NEW n \in NC
    PROVE  Wanted(n) <=> ~ShouldExpire(n)
BY DEF Abreast, Wanted, Running, ShouldExpire

LEMMA RestWork ==
    ASSUME RestInv, up, UNCHANGED <<pod, ncs, up, sync>>,
           Unclashed', Alarmed', podq' \/ Handled'
    PROVE  RestInv'
<1>1. Handled'
  BY DEF Handled
<1> QED BY <1>1 DEF RestInv, Halted, Marking

LEMMA RestBegin ==
    ASSUME Calm, LeaseInv, RestInv, PodBegin
    PROVE  RestInv'
<1>1. /\ UNCHANGED <<pod, ncs, rq, seen, up, rqq, alarm, del, sync>> /\ up
      /\ pod # None => pod.ip # None
      /\ \A n \in NC : seen[n] = View(rq[n])
  BY DEF PodBegin, api, store, rqc, CaughtUp, Calm
<1> DEFINE found == {n \in NC : seen[n] # None}
           want  == IF pod = None THEN {} ELSE MatchingNCs(pod)
           ends  == pod = None \/ pod.terminating
           create == IF ends THEN {} ELSE want \ found
<1>2. work' = [pod |-> pod, ends |-> ends, want |-> want, copy |-> seen, create |-> create, visit |-> found]
  BY DEF PodBegin
<1>3. /\ work'.pod = pod /\ work'.ends = ends /\ work'.want = want /\ work'.copy = seen
      /\ work'.create = create /\ work'.visit = found
  BY <1>2
<1>4. Unclashed' /\ Alarmed'
  BY <1>1 DEF RestInv, Unclashed, Alarmed, View
<1>5. Abreast'
  BY <1>1, <1>3 DEF Abreast, MatchingNCs
<1>6. ASSUME NEW n \in NC PROVE Pending(n)'
  <2>1. (Good(n)' <=> Good(n)) /\ (Wanted(n)' <=> Wanted(n))
    BY <1>1, GoodSame
  <2>2. CASE n \in create
    <3>1. pod # None /\ View(rq[n]) = None
      BY <1>1, <2>2
    <3>2. rq[n] = None
      BY <3>1 DEF RestInv, Unclashed
    <3>3. Wanted(n) /\ n \notin found
      BY <1>1, <2>2 DEF Wanted, Running
    <3> QED BY <1>1, <1>3, <2>1, <2>2, <3>2, <3>3 DEF Pending
  <2>3. CASE n \in found
    <3>1. rq[n] = seen[n] /\ n \notin create
      BY <1>1, <2>3 DEF View
    <3> QED BY <1>1, <1>3, <2>3, <3>1 DEF Pending
  <2>4. CASE n \notin found /\ n \notin create
    <3>1. View(rq[n]) = None /\ ~Wanted(n)
      BY <1>1, <2>4 DEF Wanted, Running
    <3> QED BY <1>3, <2>1, <2>4, <3>1 DEF Pending, Good
  <2> QED BY <2>2, <2>3, <2>4
<1>7. work' # None
  <2>1. TypeOK
    BY DEF LeaseInv
  <2>2. ends \in BOOLEAN /\ want \subseteq NC /\ create \subseteq NC /\ found \subseteq NC
    BY <2>1 DEF TypeOK, PodType, MatchingNCs
  <2> HIDE DEF ends, want, create, found
  <2>3. work' \in WorkType
    BY <1>2, <2>1, <2>2 DEF WorkType, TypeOK
  <2> QED BY <2>3, RequestAssumption
<1>8. Handled'
  BY <1>5, <1>6, <1>7 DEF Handled
<1> QED BY <1>1, <1>4, <1>8, RestWork

LEMMA RestCreate ==
    ASSUME LeaseInv, RestInv, NEW n \in NC, CreateRequest(n)
    PROVE  RestInv'
<1>1. /\ work # None /\ work \in WorkType /\ work.create # {} /\ n \in work.create
      /\ work' = [work EXCEPT !.create = @ \ {n}]
      /\ UNCHANGED <<pod, ncs, up, podq, rqq, alarm, del, sync>>
  BY DEF CreateRequest, api, rqc, LeaseInv, TypeOK
<1>2. /\ work' \in WorkType /\ work'.copy = work.copy /\ work'.visit = work.visit
      /\ work'.create = work.create \ {n} /\ work'.pod = work.pod
      /\ work'.ends = work.ends /\ work'.want = work.want
  BY <1>1 DEF WorkType
<1>3. up /\ work' # None
  BY <1>1, <1>2, RequestAssumption DEF RestInv, Halted
<1>4. Handled /\ (~podq => Abreast /\ \A m \in NC : Pending(m))
  BY <1>1, <1>3 DEF RestInv, Handled
<1>5. CASE rq[n] # None
  <2>1. UNCHANGED <<rq, seen>>
    BY <1>5 DEF CreateRequest, store
  <2>2. Unclashed' /\ Alarmed'
    BY <1>1, <2>1 DEF RestInv, Unclashed, Alarmed, View
  <2>3. podq'
    BY <1>1, <1>4, <1>5 DEF Pending
  <2> QED BY <1>1, <1>3, <2>2, <2>3, RestWork
<1>6. CASE rq[n] = None
  <2> DEFINE r == [foreign |-> FALSE, ip |-> work.pod.ip, count |-> DesiredCount(work.pod),
                   expiry |-> 0, rev |-> rev + 1]
  <2>1. work.pod \in PodType
    BY <1>1 DEF LeaseInv, Planned, WorkType
  <2>2. work.pod.ip \in IP \cup {None}
    BY <2>1 DEF PodType
  <2>3. DesiredCount(work.pod) \in 0 .. MaxInt32
    BY RequestAssumption DEF DesiredCount
  <2>4. rev \in Nat
    BY DEF LeaseInv, TypeOK
  <2>5. r \in Request /\ r.expiry = 0 /\ r.rev = rev + 1 /\ ~r.foreign /\ r.count = DesiredCount(work.pod)
    BY <2>2, <2>3, <2>4 DEF Request
  <2>6. Store(n, r)
    BY <1>6 DEF CreateRequest
  <2>7. r # None
    BY <2>5, RequestAssumption
  <2> HIDE DEF r
  <2>8. rq'[n] = r /\ \A m \in NC : m # n => rq'[m] = rq[m]
    BY <2>5, <2>6, StoreFacts
  <2>9. Unclashed'
    BY <1>1, <2>5, <2>8 DEF RestInv, Unclashed, View
  <2>10. Alarmed'
    BY <1>1, <2>5, <2>6, AlarmedStore DEF RestInv
  <2>11. ASSUME ~podq PROVE Handled'
    <3>1. Abreast'
      BY <1>1, <1>2, <1>4, <2>11 DEF Abreast, MatchingNCs
    <3>2. \A m \in NC : m # n => Pending(m)'
      <4> SUFFICES ASSUME NEW m \in NC, m # n PROVE Pending(m)'
        OBVIOUS
      <4>1. (Good(m)' <=> Good(m)) /\ (Wanted(m)' <=> Wanted(m))
        BY <1>1, <2>8, GoodSame
      <4> QED BY <1>1, <1>2, <1>4, <2>8, <2>11, <4>1 DEF Pending
    <3>3. work.pod = pod /\ Wanted(n) /\ n \notin work.visit
      BY <1>1, <1>4, <2>11 DEF Abreast, Pending
    <3>4. Wanted(n)' /\ Current(n)'
      BY <1>1, <2>5, <2>7, <2>8, <3>3 DEF Wanted, Running, MatchingNCs, Current, View, DesiredCount
    <3>5. Pending(n)'
      BY <1>2, <3>3, <3>4 DEF Pending, Good
    <3> QED BY <1>3, <3>1, <3>2, <3>5 DEF Handled
  <2> QED BY <1>1, <1>3, <2>9, <2>10, <2>11, RestWork
<1> QED BY <1>5, <1>6

\* Going on with the loop over the requests.
LEMMA RestVisited ==
    ASSUME LeaseInv, RestInv, NEW n \in NC, Visiting(n), Visited(n), ~podq, up,
           UNCHANGED <<pod, ncs, up>>,
           \A m \in NC : m # n => rq'[m] = rq[m],
           Abreast => Good(n)'
    PROVE  Handled'
<1>1. /\ work # None /\ work \in WorkType /\ work.create = {} /\ n \in work.visit
      /\ work' = [work EXCEPT !.visit = @ \ {n}]
  BY DEF Visiting, Visited, LeaseInv, TypeOK
<1>2. /\ work' \in WorkType /\ work'.copy = work.copy /\ work'.visit = work.visit \ {n}
      /\ work'.create = work.create /\ work'.pod = work.pod
      /\ work'.ends = work.ends /\ work'.want = work.want
  BY <1>1 DEF WorkType
<1>3. Abreast /\ \A m \in NC : Pending(m)
  BY <1>1 DEF RestInv, Handled
<1>4. Abreast'
  BY <1>2, <1>3 DEF Abreast, MatchingNCs
<1>5. \A m \in NC : m # n => Pending(m)'
  <2> SUFFICES ASSUME NEW m \in NC, m # n PROVE Pending(m)'
    OBVIOUS
  <2>1. (Good(m)' <=> Good(m)) /\ (Wanted(m)' <=> Wanted(m))
    BY GoodSame
  <2> QED BY <1>1, <1>2, <1>3, <2>1 DEF Pending
<1>6. Pending(n)'
  BY <1>1, <1>2, <1>3 DEF Pending
<1>7. work' # None
  BY <1>2, RequestAssumption
<1> QED BY <1>4, <1>5, <1>6, <1>7 DEF Handled

LEMMA VisitPending ==
    ASSUME RestInv, NEW n \in NC, Visiting(n), ~podq
    PROVE  /\ up /\ Abreast
           /\ \/ rq[n] = work.copy[n]
              \/ rq[n] = None /\ work.copy[n].expiry # 0
              \/ pod = None /\ Good(n)
BY DEF RestInv, Halted, Visiting, Handled, Pending

LEMMA RestPass ==
    ASSUME LeaseInv, RestInv, NEW n \in NC, Pass(n)
    PROVE  RestInv'
<1>1. /\ Visiting(n) /\ Visited(n) /\ work # None
      /\ UNCHANGED <<pod, ncs, rq, seen, up, podq, rqq, alarm, del, sync>>
  BY DEF Pass, Visiting, api, store, rqc
<1>2. up /\ work.copy[n] \in Request /\ Faithful(rq[n], rev, work.copy[n])
  BY <1>1, VisitedCopy DEF RestInv, Halted, LeaseInv, Copied
<1>3. Unclashed' /\ Alarmed'
  BY <1>1 DEF RestInv, Unclashed, Alarmed, View
<1>4. ASSUME ~podq PROVE Handled'
  <2>1. Good(n)' <=> Good(n)
    BY <1>1, GoodSame
  <2>2. /\ Abreast
        /\ \/ rq[n] = work.copy[n]
           \/ rq[n] = None /\ work.copy[n].expiry # 0
           \/ pod = None /\ Good(n)
    BY <1>1, <1>4, VisitPending
  <2>3. Wanted(n) <=> ~ShouldExpire(n)
    BY <2>2, Judged
  <2>4. CASE ShouldExpire(n)
    BY <1>1, <1>2, <1>4, <2>1, <2>2, <2>3, <2>4, RestVisited DEF Pass, Good, View
  <2>5. CASE ~ShouldExpire(n)
    <3>1. pod # None /\ work.pod = pod
      BY <2>2, <2>3, <2>5 DEF Wanted, Running, Abreast
    <3>2. rq[n] = work.copy[n] /\ work.copy[n].expiry = 0 /\ work.copy[n].count = DesiredCount(pod)
      BY <2>2, <2>5, <3>1 DEF Pass
    <3>3. rq[n] # None /\ ~rq[n].foreign
      BY <1>2, <3>2, RequestAssumption DEF Faithful
    <3>4. Good(n)
      BY <2>3, <2>5, <3>2, <3>3 DEF Good, Current, View
    <3> QED BY <1>1, <1>2, <1>4, <2>1, <3>4, RestVisited
  <2> QED BY <2>4, <2>5
<1>5. podq \in BOOLEAN
  BY DEF LeaseInv, TypeOK
<1> QED BY <1>1, <1>2, <1>3, <1>4, <1>5, RestWork

LEMMA RestExpire ==
    ASSUME LeaseInv, RestInv, NEW n \in NC, Expire(n)
    PROVE  RestInv'
<1>1. /\ Visiting(n) /\ work # None /\ ShouldExpire(n) /\ work.copy[n].expiry = 0
      /\ UNCHANGED <<pod, ncs, up, rqq, alarm, del, sync>>
  BY DEF Expire, Visiting, api, rqc
<1>2. up /\ work.copy[n] \in Request /\ Faithful(rq[n], rev, work.copy[n]) /\ podq \in BOOLEAN
  BY <1>1, VisitedCopy DEF RestInv, Halted, LeaseInv, Copied, TypeOK
<1>3. CASE rq[n] = None
  <2>1. UNCHANGED <<rq, seen>> /\ podq' = TRUE
    BY <1>3 DEF Expire, Lost, store
  <2>2. Unclashed' /\ Alarmed'
    BY <1>1, <2>1 DEF RestInv, Unclashed, Alarmed, View
  <2> QED BY <1>1, <1>2, <2>1, <2>2, RestWork
<1>4. CASE rq[n] # None /\ rq[n].rev # work.copy[n].rev
  <2>1. UNCHANGED <<rq, seen, podq>> /\ Visited(n)
    BY <1>4 DEF Expire, store
  <2>2. Unclashed' /\ Alarmed'
    BY <1>1, <2>1 DEF RestInv, Unclashed, Alarmed, View
  <2>3. ASSUME ~podq PROVE Handled'
    <3>1. Good(n)
      BY <1>1, <1>4, <2>3, VisitPending
    <3>2. Good(n)'
      BY <1>1, <2>1, <3>1, GoodSame
    <3> QED BY <1>1, <1>2, <2>1, <2>3, <3>2, RestVisited
  <2> QED BY <1>1, <1>2, <2>1, <2>2, <2>3, RestWork
<1>5. CASE rq[n] # None /\ rq[n].rev = work.copy[n].rev
  <2> DEFINE r == [rq[n] EXCEPT !.expiry = NewExpiry, !.rev = rev + 1]
  <2>1. Store(n, r) /\ Visited(n) /\ podq' = podq
    BY <1>5 DEF Expire
  <2>2. r \in Request /\ r # None /\ r.rev = rev + 1 /\ ~r.foreign /\ r.expiry = stamp + 1
    BY <1>1, <1>2, <1>5, Graced
  <2>3. r.expiry # 0
    BY <2>2 DEF LeaseInv, TypeOK
  <2> HIDE DEF r
  <2>4. rq'[n] = r /\ \A m \in NC : m # n => rq'[m] = rq[m]
    BY <2>1, <2>2, StoreFacts
  <2>5. Unclashed'
    BY <1>1, <2>2, <2>4 DEF RestInv, Unclashed, View
  <2>6. Alarmed'
    BY <1>1, <2>1, <2>2, AlarmedStore DEF RestInv
  <2>7. ASSUME ~podq PROVE Handled'
    <3>1. ~Wanted(n)
      BY <1>1, <2>7, VisitPending, Judged
    <3>2. Good(n)'
      BY <1>1, <2>3, <2>4, <3>1 DEF Good, Wanted, Running, MatchingNCs
    <3> QED BY <1>1, <1>2, <2>1, <2>4, <2>7, <3>2, RestVisited
  <2> QED BY <1>1, <1>2, <2>1, <2>5, <2>6, <2>7, RestWork
<1> QED BY <1>3, <1>4, <1>5

LEMMA RestRewrite ==
    ASSUME LeaseInv, RestInv, NEW n \in NC, Visiting(n), ~ShouldExpire(n), NEW new \in Request,
           new.foreign = work.copy[n].foreign, Rewrite(n, new)
    PROVE  RestInv'
<1>1. /\ work # None /\ work \in WorkType /\ n \in work.visit /\ work.create = {}
      /\ UNCHANGED <<pod, ncs, up, rqq, alarm, del, sync>>
  BY DEF Rewrite, Visiting, api, rqc, LeaseInv, TypeOK
<1> DEFINE c == work.copy[n]
<1>2. up /\ c \in Request /\ c # None /\ ~c.foreign /\ podq \in BOOLEAN
  BY <1>1, VisitedCopy, RequestAssumption DEF RestInv, Halted, LeaseInv, Copied, TypeOK, Faithful
<1>3. ~podq => pod # None
  BY VisitPending, Judged DEF Wanted, Running
<1>4. CASE rq[n] = None
  <2>1. UNCHANGED <<rq, seen>> /\ podq' = TRUE
    BY <1>4 DEF Rewrite, Lost, store
  <2>2. Unclashed' /\ Alarmed'
    BY <1>1, <2>1 DEF RestInv, Unclashed, Alarmed, View
  <2> QED BY <1>1, <1>2, <2>1, <2>2, RestWork
<1>5. CASE rq[n] # None /\ rq[n].rev # c.rev
  <2>1. UNCHANGED <<rq, seen, podq>>
    BY <1>5 DEF Rewrite, store
  <2>2. Unclashed' /\ Alarmed'
    BY <1>1, <2>1 DEF RestInv, Unclashed, Alarmed, View
  <2>3. podq
    BY <1>2, <1>3, <1>5, VisitPending
  <2> QED BY <1>1, <1>2, <2>1, <2>2, <2>3, RestWork
<1>6. CASE rq[n] # None /\ rq[n].rev = c.rev
  <2> DEFINE r == [new EXCEPT !.rev = rev + 1]
  <2>1. Store(n, r) /\ work' = [work EXCEPT !.copy[n] = r] /\ podq' = podq
    BY <1>6 DEF Rewrite
  <2>2. rev \in Nat
    BY DEF LeaseInv, TypeOK
  <2>3. r \in Request /\ r.rev = rev + 1 /\ r.foreign = new.foreign
    BY <2>2 DEF Request
  <2>4. ~r.foreign /\ r # None
    BY <1>2, <2>3, RequestAssumption
  <2> HIDE DEF r
  <2>5. rq'[n] = r /\ \A m \in NC : m # n => rq'[m] = rq[m]
    BY <2>1, <2>3, <2>4, StoreFacts
  <2>6. /\ work' \in WorkType /\ work'.create = work.create /\ work'.visit = work.visit
        /\ work'.pod = work.pod /\ work'.ends = work.ends /\ work'.want = work.want
        /\ work'.copy = [work.copy EXCEPT ![n] = r]
    BY <1>1, <2>1, <2>3 DEF WorkType, Copies
  <2>7. work' # None /\ work'.copy[n] = r /\ \A m \in NC : m # n => work'.copy[m] = work.copy[m]
    BY <1>1, <2>6, RequestAssumption DEF WorkType, Copies
  <2>8. Unclashed'
    BY <1>1, <2>4, <2>5 DEF RestInv, Unclashed, View
  <2>9. Alarmed'
    BY <1>1, <2>1, <2>3, <2>4, AlarmedStore DEF RestInv
  <2>10. ASSUME ~podq PROVE Handled'
    <3>1. Abreast /\ \A m \in NC : Pending(m)
      BY <1>1, <1>2, <2>10 DEF RestInv, Handled
    <3>2. Abreast'
      BY <1>1, <2>6, <3>1 DEF Abreast, MatchingNCs
    <3>3. \A m \in NC : m # n => Pending(m)'
      <4> SUFFICES ASSUME NEW m \in NC, m # n PROVE Pending(m)'
        OBVIOUS
      <4>1. (Good(m)' <=> Good(m)) /\ (Wanted(m)' <=> Wanted(m))
        BY <1>1, <2>5, GoodSame
      <4> QED BY <1>1, <2>5, <2>6, <2>7, <3>1, <4>1 DEF Pending
    <3>4. Pending(n)'
      BY <1>1, <2>5, <2>6, <2>7 DEF Pending
    <3> QED BY <2>7, <3>2, <3>3, <3>4 DEF Handled
  <2> QED BY <1>1, <1>2, <2>1, <2>8, <2>9, <2>10, RestWork
<1> QED BY <1>4, <1>5, <1>6

LEMMA RestRenew ==
    ASSUME LeaseInv, RestInv, NEW n \in NC, Renew(n) \/ Recount(n)
    PROVE  RestInv'
<1>1. Visiting(n) /\ ~ShouldExpire(n) /\ work.copy[n] \in Request
  BY VisitedCopy DEF Renew, Recount
<1>2. CASE Renew(n)
  <2> DEFINE new == [work.copy[n] EXCEPT !.expiry = 0]
  <2>1. new \in Request /\ new.foreign = work.copy[n].foreign
    BY <1>1 DEF Request
  <2>2. Rewrite(n, new)
    BY <1>2 DEF Renew
  <2> HIDE DEF new
  <2> QED BY <1>1, <2>1, <2>2, RestRewrite
<1>3. CASE Recount(n)
  <2> DEFINE new == [work.copy[n] EXCEPT !.count = DesiredCount(work.pod)]
  <2>1. DesiredCount(work.pod) \in 0 .. MaxInt32
    BY RequestAssumption DEF DesiredCount
  <2>2. new \in Request /\ new.foreign = work.copy[n].foreign
    BY <1>1, <2>1 DEF Request
  <2>3. Rewrite(n, new)
    BY <1>3 DEF Recount
  <2> HIDE DEF new
  <2> QED BY <1>1, <2>2, <2>3, RestRewrite
<1> QED BY <1>2, <1>3

LEMMA RestEnd ==
    ASSUME RestInv, PodEnd \/ PodFails
    PROVE  RestInv'
<1>1. /\ UNCHANGED <<pod, ncs, rq, seen, up, rqq, alarm, del, sync>> /\ work # None /\ work' = None
      /\ podq' = TRUE \/ (podq' = podq /\ work.create = {} /\ work.visit = {})
  BY DEF PodEnd, PodFails, api, store, rqc
<1>2. up
  BY <1>1 DEF RestInv, Halted
<1>3. Unclashed' /\ Alarmed'
  BY <1>1 DEF RestInv, Unclashed, Alarmed, View
<1>4. \A n \in NC : Good(n)' <=> Good(n)
  BY <1>1, GoodSame
<1>5. podq' \/ Handled'
  BY <1>1, <1>2, <1>4 DEF RestInv, Handled, Pending, Swept
<1> QED BY <1>1, <1>2, <1>3, <1>5, RestWork

LEMMA RestNext ==
    ASSUME Calm, Unclashing, LeaseInv, RestInv, [Next]_vars
    PROVE  RestInv'
<1>1. CASE UNCHANGED vars
  <2>1. UNCHANGED <<pod, ncs, rq, seen, up, podq, work, sync, alarm, del, rqq>>
    BY <1>1 DEF vars, api, store, rqc
  <2>2. Alarmed' /\ (up \/ del' = None)
    BY <2>1 DEF RestInv, Alarmed, View, Halted
  <2> QED BY <2>1, <2>2, RestSame
<1>2. CASE Step
  BY <1>2, RestBegin, RestEnd, RestCreate, RestExpire, RestRenew, RestPass DEF Step
<1>3. CASE PodFails
  BY <1>3, RestEnd
<1>4. ASSUME NEW n \in NC, RqBegin(n) \/ Ring(n) \/ Deliver(n) PROVE RestInv'
  BY <1>4, RestNprr
<1>5. CASE RqDelete \/ RqDeleteFails
  BY <1>5, RestDelete, RestNprr
<1>6. CASE Stop \/ Start
  BY <1>6, RestDown, RestStart DEF Stop, api, store
<1>7. CASE SyncStep
  BY <1>7, RestMark, RestLook DEF SyncStep
<1>8. CASE EnvNext \/ Elapse
  BY <1>8, RestEnv, RestNprr
<1> QED BY <1>1, <1>2, <1>3, <1>4, <1>5, <1>6, <1>7, <1>8 DEF Next

LEMMA RestReconciled == RestInv => Reconciled
<1> SUFFICES ASSUME RestInv, AtRest, NEW n \in NC
             PROVE  IF Running /\ n \in MatchingNCs(pod) THEN Current(n)
                    ELSE View(rq[n]) # None /\ (pod # None => pod.ip # None)
                            => rq[n].expiry # 0 /\ alarm[n] = rq[n].expiry
  BY DEF Reconciled
<1>1. Good(n)
  BY RequestAssumption DEF RestInv, Handled, AtRest, Swept
<1>2. View(rq[n]) # None /\ rq[n].expiry # 0 => alarm[n] = rq[n].expiry
  BY RequestAssumption DEF RestInv, Alarmed, AtRest
<1> QED BY <1>1, <1>2 DEF Good, Wanted

\* When the daemon has nothing left to do, a running pod has a current request
\* for every NATConfig that matches it, and every other request runs out with
\* the alarm for its end set (the three loops of the daemon together).
THEOREM ReconciledHolds == Calm /\ Unclashing => (Safety => []Reconciled)
<1> SUFFICES ASSUME Calm, Unclashing PROVE Safety => []Reconciled
  OBVIOUS
<1>1. Init => RestInv
  BY RestInit
<1>2. LeaseInv /\ RestInv /\ [Next]_vars => RestInv'
  BY RestNext
<1>3. Safety => []LeaseInv
  BY LeaseInvariant
<1>4. RestInv => Reconciled
  BY RestReconciled
<1> QED BY <1>1, <1>2, <1>3, <1>4, PTL DEF Safety
=============================================================================
