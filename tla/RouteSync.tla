----------------------------- MODULE RouteSync ------------------------------
(***************************************************************************)
(* The NATConfig controller of one node's daemon                           *)
(* (internal/controller/daemon/natconfig_controller.go) with the two BPF   *)
(* maps it writes through internal/maps and the BGP speaker it drives.     *)
(*                                                                         *)
(* A reconcile has three phases, for target_cidrs, for the external-IP     *)
(* side of dst_kind and for the advertised routes.  Each adds what the     *)
(* NATConfig wants and the tracking lacks, records the tracking, and then  *)
(* removes what was dropped and no other NATConfig tracks.  CIDRs are      *)
(* compared as strings, while the maps hold what the strings parse to: the *)
(* keys of a CIDR are its prefix, or its addresses in dst_kind.            *)
(*                                                                         *)
(* The maps are pinned and outlive the daemon; the tracking and the BGP    *)
(* server do not.  The environment edits NATConfigs and the node's label.  *)
(* A NATConfig or Node event queues the names it concerns, so reading the  *)
(* present objects stands for reading a cache that has seen the event.     *)
(***************************************************************************)
EXTENDS Naturals, Sequences, Functions

CONSTANTS Name,       \* NATConfig names
          CIDR,       \* CIDR strings
          Bad,        \* the ones that do not parse or are not IPv4
          Keys,       \* [Phase -> [CIDR -> sequences of keys]]
          Configs,    \* the specs a NATConfig may have
          None,
          MaxEdits,   \* bound: number of API changes
          MaxFaults   \* bound: number of failing operations and restarts

Phase == {"target", "ext", "route"}

ConfigType == [targets : SUBSET CIDR, pool : SUBSET CIDR, selective : BOOLEAN]

ASSUME RouteAssumption ==
    /\ Bad \subseteq CIDR
    /\ Configs \subseteq ConfigType /\ None \notin Configs /\ None \notin Name
    /\ \A ph \in Phase, c \in CIDR : Keys[ph][c] \in Seq(Range(Keys[ph][c]))
    /\ MaxEdits \in Nat /\ MaxFaults \in Nat

KeysOf(ph, S) == UNION {Range(Keys[ph][c]) : c \in S}

Universe == UNION {KeysOf(ph, CIDR) : ph \in Phase}

\* Different strings stand for different prefixes that do not overlap.
KeysApart ==
    \A ph \in Phase : \A c, d \in CIDR :
        c # d => Range(Keys[ph][c]) \cap Range(Keys[ph][d]) = {}

VARIABLES nc,         \* the API objects, None when absent
          labelled,   \* does the node match the NATConfigs' nodeSelector
          edits, faults,
          queue,      \* the names waiting for a reconcile
          up,         \* is the daemon running
          speaker,    \* has its BGP server started
          tracked,    \* ncTargetCIDRs, ncExtIPCIDRs, ncAdvertisedCIDRs
          work,       \* the reconcile in progress
          present     \* the keys in target_cidrs, in dst_kind and advertised

api  == <<nc, labelled, edits>>
vars == <<nc, labelled, edits, faults, queue, up, speaker, tracked, work, present>>

NoWork    == [name |-> None]
NoTracked == [ph \in Phase |-> [n \in Name |-> {}]]

Init ==
    /\ nc = [n \in Name |-> None] /\ labelled \in BOOLEAN
    /\ edits = 0 /\ faults = 0
    /\ queue = {} /\ up = TRUE /\ speaker = FALSE
    /\ tracked = NoTracked /\ work = NoWork
    /\ present = [ph \in Phase |-> {}]

-----------------------------------------------------------------------------
\* nodeMatchesSelector: no selector matches every node.
NodeMatches(n) == ~nc[n].selective \/ labelled

\* What Reconcile derives from the NATConfig: nothing once it is deleted.
Desired(n) ==
    [ph \in Phase |-> IF nc[n] = None THEN {}
                      ELSE IF ph = "target" THEN nc[n].targets
                      ELSE IF ph = "ext" \/ NodeMatches(n) THEN nc[n].pool
                      ELSE {}]

\* The first half of applyCIDRDiff and of syncRoutes: what is to be added.
Enter(n, want, ph) ==
    [name |-> n, want |-> want, phase |-> ph, stage |-> "add",
     todo |-> want[ph] \ tracked[ph][n]]

\* Reconcile, up to the first map operation.
Begin(n) ==
    /\ up /\ work = NoWork /\ n \in queue
    /\ queue' = queue \ {n}
    /\ work' = Enter(n, Desired(n), "target")
    /\ UNCHANGED <<api, faults, up, speaker, tracked, present>>

\* Reading the Node for nodeMatchesSelector fails; the name is retried.  A
\* malformed nodeSelector, which fails every time, is not among the Configs:
\* such a NATConfig keeps whatever was tracked for it.
BeginFails(n) ==
    /\ up /\ work = NoWork /\ n \in queue
    /\ nc[n] # None /\ nc[n].selective
    /\ faults < MaxFaults /\ faults' = faults + 1
    /\ UNCHANGED <<api, queue, up, speaker, tracked, work, present>>

\* ParseCIDR and To4 accept the string; the BGP server accepts paths only
\* once it has started.
Works(ph, c) == c \notin Bad /\ (ph = "route" => speaker)

\* AddTargetCIDR, AddExtIPKind, AdvertisePrefix.
AddOne(c) ==
    /\ work # NoWork /\ work.stage = "add" /\ c \in work.todo /\ Works(work.phase, c)
    /\ present' = [present EXCEPT ![work.phase] = @ \cup Range(Keys[work.phase][c])]
    /\ work' = [work EXCEPT !.todo = @ \ {c}]
    /\ UNCHANGED <<api, faults, queue, up, speaker, tracked>>

\* Faulty cidrUsedByOther: nobody is asked.
UsedByNone(ph, n, c) == FALSE

\* cidrUsedByOther.
UsedByOther(ph, n, c) == \E m \in Name \ {n} : c \in tracked[ph][m]

\* Faulty: nothing is removed.
DroppedNone(ph, n, new) == {}

\* The second half of applyCIDRDiff and of syncRoutes: what is to be removed.
Dropped(ph, n, new) == {c \in tracked[ph][n] \ new : ~UsedByOther(ph, n, c)}

\* Faulty: the tracking holds what was written instead of the strings.
TrackKeys ==
    /\ work # NoWork /\ work.stage = "add" /\ work.todo = {}
    /\ tracked' = [tracked EXCEPT ![work.phase][work.name] =
                                     KeysOf(work.phase, work.want[work.phase])]
    /\ work' = [work EXCEPT !.stage = "remove", !.todo = {}]
    /\ UNCHANGED <<api, faults, queue, up, speaker, present>>

\* The tracking is recorded when everything has been added, and before
\* anything is removed.
Track ==
    /\ work # NoWork /\ work.stage = "add" /\ work.todo = {}
    /\ tracked' = [tracked EXCEPT ![work.phase][work.name] = work.want[work.phase]]
    /\ work' = [work EXCEPT !.stage = "remove",
                            !.todo = Dropped(work.phase, work.name, work.want[work.phase])]
    /\ UNCHANGED <<api, faults, queue, up, speaker, present>>

\* RemoveTargetCIDR, RemoveExtIPKind, WithdrawPrefix.
RemoveOne(c) ==
    /\ work # NoWork /\ work.stage = "remove" /\ c \in work.todo /\ Works(work.phase, c)
    /\ present' = [present EXCEPT ![work.phase] = @ \ Range(Keys[work.phase][c])]
    /\ work' = [work EXCEPT !.todo = @ \ {c}]
    /\ UNCHANGED <<api, faults, queue, up, speaker, tracked>>

\* syncBPFMaps goes on to the next map, and after the routes it is done.
Advance ==
    /\ work # NoWork /\ work.stage = "remove" /\ work.todo = {}
    /\ work' = CASE work.phase = "target" -> Enter(work.name, work.want, "ext")
                 [] work.phase = "ext"    -> Enter(work.name, work.want, "route")
                 [] work.phase = "route"  -> NoWork
    /\ UNCHANGED <<api, faults, queue, up, speaker, tracked, present>>

\* Faulty: the error is swallowed.
AbortSilently(c, k) ==
    /\ work # NoWork /\ c \in work.todo
    /\ work' = NoWork
    /\ UNCHANGED <<api, queue, up, speaker, tracked, present>>

\* Faulty: the tracking is recorded although the operation failed.
AbortTracked(c, k) ==
    /\ work # NoWork /\ c \in work.todo
    /\ tracked' = [tracked EXCEPT ![work.phase][work.name] = work.want[work.phase]]
    /\ queue' = queue \cup {work.name}
    /\ work' = NoWork
    /\ UNCHANGED <<api, up, speaker, present>>

\* An operation on c fails after its first k keys: the reconcile ends there
\* and its name is retried.
Abort(c, k) ==
    /\ work # NoWork /\ c \in work.todo
    /\ LET done == Range(SubSeq(Keys[work.phase][c], 1, k)) IN
       present' = [present EXCEPT ![work.phase] =
                     IF work.stage = "add" THEN @ \cup done ELSE @ \ done]
    /\ queue' = queue \cup {work.name}
    /\ work' = NoWork
    /\ UNCHANGED <<api, up, speaker, tracked>>

\* It has to fail: the string is no IPv4 CIDR, or the BGP server is not there.
Refused(c) ==
    /\ work # NoWork /\ ~Works(work.phase, c) /\ Abort(c, 0)
    /\ faults' = IF c \in Bad /\ faults < MaxFaults THEN faults + 1 ELSE faults

\* It happens to fail.
Fails(c) ==
    /\ work # NoWork /\ Works(work.phase, c)
    /\ \E k \in 0 .. (Len(Keys[work.phase][c]) - 1) : Abort(c, k)
    /\ faults < MaxFaults /\ faults' = faults + 1

\* BGPSpeaker.Start, which the manager runs beside the controllers.
SpeakerStart ==
    /\ up /\ ~speaker /\ speaker' = TRUE
    /\ UNCHANGED <<api, faults, queue, up, tracked, work, present>>

\* The daemon's process ends, and with it the BGP session.
Stop ==
    /\ up /\ faults < MaxFaults /\ faults' = faults + 1
    /\ up' = FALSE /\ speaker' = FALSE /\ queue' = {} /\ work' = NoWork
    /\ tracked' = NoTracked
    /\ present' = [present EXCEPT !["route"] = {}]
    /\ UNCHANGED api

\* The informer lists what exists; what is gone by now is never seen.
Start ==
    /\ ~up /\ up' = TRUE
    /\ queue' = {n \in Name : nc[n] # None}
    /\ UNCHANGED <<api, faults, speaker, tracked, work, present>>

-----------------------------------------------------------------------------
(* The environment.                                                        *)

EnvStep ==
    /\ edits < MaxEdits /\ edits' = edits + 1
    /\ UNCHANGED <<faults, up, speaker, tracked, work, present>>

Edit(n) ==
    /\ EnvStep
    /\ \E v \in (Configs \cup {None}) \ {nc[n]} : nc' = [nc EXCEPT ![n] = v]
    /\ queue' = IF up THEN queue \cup {n} ELSE queue
    /\ UNCHANGED labelled

\* nodeToNATConfigs queues every NATConfig when the node changes.  Its List,
\* a read of the informer cache, works here; were it to fail, the change would
\* go unnoticed until the next event of the NATConfig.
Relabel ==
    /\ EnvStep
    /\ labelled' = ~labelled
    /\ queue' = IF up THEN queue \cup {n \in Name : nc[n] # None} ELSE queue
    /\ UNCHANGED nc

Step ==
    \/ \E c \in CIDR : AddOne(c) \/ RemoveOne(c) \/ Refused(c)
    \/ Track \/ Advance

Next ==
    \/ \E n \in Name : Begin(n) \/ BeginFails(n) \/ Edit(n)
    \/ Step
    \/ \E c \in CIDR : Fails(c)
    \/ SpeakerStart \/ Stop \/ Start
    \/ Relabel

\* A reconcile runs on, a stopped daemon is started again and its speaker
\* with it, and the work queue passes no name over for ever.
Fairness ==
    /\ WF_vars(Step) /\ WF_vars(SpeakerStart) /\ WF_vars(Start)
    /\ \A n \in Name : SF_vars(Begin(n))

Safety == Init /\ [][Next]_vars
Spec   == Safety /\ Fairness

-----------------------------------------------------------------------------
Work == [name : Name, want : [Phase -> SUBSET CIDR], phase : Phase,
         stage : {"add", "remove"}, todo : SUBSET CIDR]

TypeOK ==
    /\ nc \in [Name -> Configs \cup {None}] /\ labelled \in BOOLEAN
    /\ edits \in 0 .. MaxEdits /\ faults \in 0 .. MaxFaults
    /\ queue \subseteq Name /\ up \in BOOLEAN /\ speaker \in BOOLEAN
    /\ tracked \in [Phase -> [Name -> SUBSET CIDR]]
    /\ work \in Work \cup {NoWork}
    /\ present \in [Phase -> SUBSET Universe]

\* The daemon has dealt with the last change that concerns n.
Settled(n) == up /\ n \notin queue /\ work.name # n

AtRest == up /\ queue = {} /\ work = NoWork

\* All of what n wants is in the maps and advertised.
Served(n) == \A ph \in Phase : KeysOf(ph, Desired(n)[ph]) \subseteq present[ph]

\* What the tracking says is in place is in place, at every moment, whatever
\* fails: so a CIDR is never removed under a NATConfig that tracks it
\* (cidrUsedByOther), and a retry does not skip what was never added.
TrackedPresent ==
    \A ph \in Phase, n \in Name : KeysOf(ph, tracked[ph][n]) \subseteq present[ph]

\* A NATConfig the daemon is done with has its CIDRs in the maps and, where
\* its selector matches the node, advertised, and keeps them while other
\* NATConfigs with the same CIDRs come, fail and go.
SettledServed == \A n \in Name : Settled(n) => Served(n)

\* The phases a reconcile has behind it.
Behind(ph) == CASE ph = "target" -> {} [] ph = "ext" -> {"target"} [] ph = "route" -> {"target", "ext"}

\* How far the reconcile in progress has brought maps and tracking.
Progress ==
    /\ up
    /\ work.name \notin queue => work.want = Desired(work.name)
    /\ \A ph \in Behind(work.phase) : tracked[ph][work.name] = work.want[ph]
    /\ work.stage = "add" =>
          KeysOf(work.phase, work.want[work.phase] \ work.todo) \subseteq present[work.phase]
    /\ work.stage = "remove" =>
          /\ tracked[work.phase][work.name] = work.want[work.phase]
          /\ \A m \in Name : work.todo \cap tracked[work.phase][m] = {}

\* The tracking is at all times a true account of the maps, and of a
\* NATConfig the daemon is done with it says what the NATConfig wants: the
\* reason why the difference to it is all that a reconcile has to write.
Ledger ==
    /\ TrackedPresent
    /\ work # NoWork => Progress
    /\ ~up => tracked = NoTracked
    /\ \A n \in Name, ph \in Phase : Settled(n) => tracked[ph][n] = Desired(n)[ph]

\* Nothing is left behind: at rest the maps and the routes hold what some
\* NATConfig wants and nothing else.
Exact ==
    AtRest => \A ph \in Phase :
                 present[ph] = UNION {KeysOf(ph, Desired(n)[ph]) : n \in Name}

\* As long as no operation has failed and the daemon has not restarted,
\* applyCIDRDiff and syncRoutes leave nothing behind.
NoStrays == faults = 0 => Exact

\* Every NATConfig of valid CIDRs is served in the end, although another one
\* that is retried for ever shares the queue with it.
Converges ==
    \A n \in Name :
        <>[](nc[n] # None /\ (nc[n].targets \cup nc[n].pool) \cap Bad = {} => Served(n))
=============================================================================
