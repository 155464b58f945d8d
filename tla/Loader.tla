------------------------------- MODULE Loader -------------------------------
(***************************************************************************)
(* internal/loader: attaching the datapath to the uplink and pinning it    *)
(* under /sys/fs/bpf/mooring, by the daemon (EnsureLoaded at every start)  *)
(* and by moorctl (load, unload).                                          *)
(*                                                                         *)
(* A pin is a name in one of three directories; what it holds is known     *)
(* here by its generation, the Load that created it, because programs and  *)
(* maps of one Load work together and with no others.  An attachment lives *)
(* while its link is pinned or open in a process.  Every pin, attachment   *)
(* and removal is a step of its own, and a process can die between any two.*)
(***************************************************************************)
EXTENDS Naturals, FiniteSets

CONSTANTS SnatMaps,    \* the maps snat_egress creates
          GcProgs,     \* the two sweep programs of nat_gc
          RevMaps,     \* the maps revnat creates
          DaemonMode,  \* REVNAT_ATTACH_MODE
          Gen,         \* identities for generations
          Env,         \* which of the events below can happen
          MaxCtl,      \* bound: number of moorctl commands
          MaxFaults    \* bound: number of failing operations and crashes

Mode == {"tcx", "xdp"}
Dir  == {"maps", "progs", "links"}

\* AttachMode.linkName and AttachMode.other.
LinkName(m) == IF m = "xdp" THEN "revnat_xdp" ELSE "revnat_ingress"
Other(m)    == IF m = "xdp" THEN "tcx" ELSE "xdp"

Links == {"snat_egress", "revnat_ingress", "revnat_xdp"}
Pin   == SnatMaps \cup RevMaps \cup GcProgs \cup Links

DirOf(x) == IF x \in GcProgs THEN "progs" ELSE IF x \in Links THEN "links" ELSE "maps"

ASSUME LoaderAssumption ==
    /\ DaemonMode \in Mode /\ 0 \notin Gen
    /\ SnatMaps # {} /\ SnatMaps \cap RevMaps = {} /\ GcProgs \cap (SnatMaps \cup RevMaps) = {}
    /\ Links \cap (SnatMaps \cup RevMaps \cup GcProgs) = {}
    /\ Env \subseteq {"fault", "crash", "overlap", "load", "unload"}
    /\ MaxCtl \in Nat /\ MaxFaults \in Nat

VARIABLES pins,    \* the generation pinned under each name, 0 when it is free
          dirs,    \* the directories that exist
          proc,    \* the two processes
          ctl, faults,
          torn     \* was a removal cut short, and not made up for since

vars == <<pins, dirs, proc, ctl, faults, torn>>

Proc == {"daemon", "ctl"}

\* pc is where the process is in Load or Unload, gen the objects it loaded
\* and, in the serving daemon, the maps it has filled; todo are the pins it
\* still has to make or remove, held the link it has open, left the
\* directories it has still to remove.
Idle == [pc |-> "idle", mode |-> DaemonMode, gen |-> 0, todo |-> {},
         held |-> "none", left |-> {}]

Init ==
    /\ pins = [x \in Pin |-> 0] /\ dirs = {}
    /\ proc = [p \in Proc |-> Idle]
    /\ ctl = 0 /\ faults = 0 /\ torn = FALSE

Pinned(x) == pins[x] # 0

Goto(p, s) == proc' = [proc EXCEPT ![p] = s]

\* One process at a time, unless they overlap.
MayStart(p) ==
    /\ proc[p].pc = "idle"
    /\ "overlap" \in Env \/ \A q \in Proc : proc[q].pc = "idle"

-----------------------------------------------------------------------------
(* The daemon: EnsureLoaded, then the controllers.                         *)

\* Faulty: it always loads.
EnsureAlways ==
    /\ MayStart("daemon")
    /\ Goto("daemon", [Idle EXCEPT !.pc = "mkdir"])
    /\ UNCHANGED <<pins, dirs, ctl, faults, torn>>

\* Faulty: it looks at the link that is pinned first.
EnsureEgress ==
    /\ MayStart("daemon")
    /\ Goto("daemon", [Idle EXCEPT !.pc = IF Pinned("snat_egress") THEN "serving" ELSE "mkdir"])
    /\ UNCHANGED <<pins, dirs, ctl, faults, torn>>

EnsureLoaded ==
    /\ MayStart("daemon")
    /\ Goto("daemon", [Idle EXCEPT !.pc = IF Pinned(LinkName(DaemonMode)) THEN "serving"
                                          ELSE "mkdir"])
    /\ UNCHANGED <<pins, dirs, ctl, faults, torn>>

\* The controllers open the pinned maps (openMap), fill them and keep track
\* of it; without the maps they fail and try again.  openMap opens each map by
\* its path on every operation: while the pins are of different generations
\* the code would fill some of each, and the step stands for the moment when
\* all are of one.
Fill ==
    /\ proc["daemon"].pc = "serving" /\ proc["daemon"].gen = 0
    /\ \E g \in Gen : /\ \A x \in SnatMaps \cup RevMaps : pins[x] = g
                      /\ Goto("daemon", [proc["daemon"] EXCEPT !.gen = g])
    /\ UNCHANGED <<pins, dirs, ctl, faults, torn>>

(* moorctl load and moorctl unload.                                        *)

Command(s) ==
    /\ MayStart("ctl") /\ ctl < MaxCtl /\ ctl' = ctl + 1
    /\ Goto("ctl", s)
    /\ UNCHANGED <<pins, dirs, faults, torn>>

CtlLoad(m) == "load" \in Env /\ Command([Idle EXCEPT !.pc = "mkdir", !.mode = m])

CtlUnload == "unload" \in Env /\ Command([Idle EXCEPT !.pc = "unload", !.left = dirs])

-----------------------------------------------------------------------------
(* Load.                                                                   *)

\* Where a command ends, and where the daemon exits with an error.
Exit(p) == Goto(p, Idle)

\* Faulty: no deferred Unload.
RollBackNot(p) == Exit(p)

\* The deferred Unload of a Load that failed.
RollBack(p) == Goto(p, [Idle EXCEPT !.pc = "unload", !.left = dirs, !.mode = proc[p].mode])

\* Load up to the directories.  Its errors up to here (validateMode,
\* InterfaceByName, MkdirAll) leave nothing to roll back: to the pins they are
\* what Crash is.
MakeDirs(p) ==
    /\ proc[p].pc = "mkdir"
    /\ dirs' = Dir
    /\ Goto(p, [proc[p] EXCEPT !.pc = "check"])
    /\ UNCHANGED <<pins, ctl, faults, torn>>

\* A generation nothing refers to any more.
Fresh(g) == /\ g \in Gen
            /\ \A x \in Pin : pins[x] # g
            /\ \A q \in Proc : proc[q].gen # g

\* Faulty: the other mode's link is not looked for.
CheckNothing(p) ==
    /\ proc[p].pc = "check"
    /\ LET g == CHOOSE f \in Gen : Fresh(f) IN
       Fresh(g) /\ Goto(p, [proc[p] EXCEPT !.pc = "snat_maps", !.gen = g, !.todo = SnatMaps])
    /\ UNCHANGED <<pins, dirs, ctl, faults, torn>>

\* The other mode's link stops Load, which has nothing to roll back then.
\* Otherwise the objects of snat_egress are loaded.
CheckOther(p) ==
    /\ proc[p].pc = "check"
    /\ IF Pinned(LinkName(Other(proc[p].mode))) THEN Exit(p)
       ELSE LET g == CHOOSE f \in Gen : Fresh(f) IN
            Fresh(g) /\ Goto(p, [proc[p] EXCEPT !.pc = "snat_maps", !.gen = g, !.todo = SnatMaps])
    /\ UNCHANGED <<pins, dirs, ctl, faults, torn>>

\* Pin refuses a name that is taken and a directory that is gone.
CanPin(x) == ~Pinned(x) /\ DirOf(x) \in dirs

\* Faulty: a name that is taken is left as it is.
PinUnlessTaken(p, x) ==
    /\ proc[p].pc \in {"snat_maps", "gc_progs", "rev_maps"} /\ x \in proc[p].todo
    /\ pins' = IF CanPin(x) THEN [pins EXCEPT ![x] = proc[p].gen] ELSE pins
    /\ Goto(p, [proc[p] EXCEPT !.todo = @ \ {x}])
    /\ UNCHANGED <<dirs, ctl, faults, torn>>

\* One pin of the loops over maps and programs.
PinOne(p, x) ==
    /\ proc[p].pc \in {"snat_maps", "gc_progs", "rev_maps"} /\ x \in proc[p].todo
    /\ IF CanPin(x)
       THEN pins' = [pins EXCEPT ![x] = proc[p].gen] /\ Goto(p, [proc[p] EXCEPT !.todo = @ \ {x}])
       ELSE RollBack(p) /\ UNCHANGED pins
    /\ UNCHANGED <<dirs, ctl, faults, torn>>

\* snat_egress, nat_gc and revnat are loaded in turn.
NextObjects(p) ==
    /\ proc[p].todo = {}
    /\ \/ /\ proc[p].pc = "snat_maps"
          /\ Goto(p, [proc[p] EXCEPT !.pc = "gc_progs", !.todo = GcProgs])
       \/ /\ proc[p].pc = "gc_progs"
          /\ Goto(p, [proc[p] EXCEPT !.pc = "snat_link"])
       \/ /\ proc[p].pc = "rev_maps"
          /\ Goto(p, [proc[p] EXCEPT !.pc = "rev_link"])
    /\ UNCHANGED <<pins, dirs, ctl, faults, torn>>

\* The link a Load attaches next.
LinkOf(p) == IF proc[p].pc = "snat_link" THEN "snat_egress" ELSE LinkName(proc[p].mode)

Attached(l) == Pinned(l) \/ \E q \in Proc : proc[q].held = l

\* AttachTCX, and attachXDPWithFallback, which fails in both its modes when
\* the interface has an XDP program.
Attach(p) ==
    /\ proc[p].pc \in {"snat_link", "rev_link"} /\ proc[p].held = "none"
    /\ IF LinkOf(p) = "revnat_xdp" /\ Attached("revnat_xdp") THEN RollBack(p)
       ELSE Goto(p, [proc[p] EXCEPT !.held = LinkOf(p)])
    /\ UNCHANGED <<pins, dirs, ctl, faults, torn>>

\* The link is pinned and closed.  revnat's link is the last pin of all.
PinLink(p) ==
    /\ proc[p].pc \in {"snat_link", "rev_link"} /\ proc[p].held # "none"
    /\ IF ~CanPin(proc[p].held) THEN RollBack(p) /\ UNCHANGED pins
       ELSE /\ pins' = [pins EXCEPT ![proc[p].held] = proc[p].gen]
            /\ IF proc[p].pc = "snat_link"
               THEN Goto(p, [proc[p] EXCEPT !.held = "none", !.pc = "rev_maps", !.todo = RevMaps])
               ELSE IF p = "daemon" THEN Goto(p, [Idle EXCEPT !.pc = "serving"]) ELSE Exit(p)
    /\ UNCHANGED <<dirs, ctl, faults, torn>>

Loading == {"snat_maps", "gc_progs", "snat_link", "rev_maps", "rev_link"}

\* Loading an object, pinning it or attaching it fails for some other reason:
\* any error return of loadSNATEgress or loadRevnatXDP makes Load roll back.
LoadFails(p) ==
    /\ "fault" \in Env /\ faults < MaxFaults /\ faults' = faults + 1
    /\ proc[p].pc \in Loading
    /\ RollBack(p)
    /\ UNCHANGED <<pins, dirs, ctl, torn>>

-----------------------------------------------------------------------------
(* Unload: RemoveAll, one directory after the other, in any order.         *)

\* Opening and closing the links changes nothing, unless Close fails.
UnloadFails(p) ==
    /\ "fault" \in Env /\ faults < MaxFaults /\ faults' = faults + 1
    /\ proc[p].pc = "unload" /\ \E l \in Links : Pinned(l)
    /\ Exit(p)
    /\ UNCHANGED <<pins, dirs, ctl, torn>>

List(p, d) ==
    /\ proc[p].pc \in {"unload", "list"} /\ d \in proc[p].left
    /\ Goto(p, [proc[p] EXCEPT !.pc = "remove", !.left = @ \ {d},
                               !.todo = {x \in Pin : DirOf(x) = d /\ Pinned(x)}])
    /\ UNCHANGED <<pins, dirs, ctl, faults, torn>>

RemovePin(p, x) ==
    /\ proc[p].pc = "remove" /\ x \in proc[p].todo
    /\ pins' = [pins EXCEPT ![x] = 0]
    /\ Goto(p, [proc[p] EXCEPT !.todo = @ \ {x}])
    /\ UNCHANGED <<dirs, ctl, faults, torn>>

\* A directory is removed with its last entry; what was pinned in it after
\* it was listed keeps it.
RemoveDirs(p) ==
    /\ proc[p].pc = "remove" /\ proc[p].todo = {}
    /\ dirs' = {d \in dirs : d \in proc[p].left \/ \E x \in Pin : DirOf(x) = d /\ Pinned(x)}
    /\ Goto(p, [proc[p] EXCEPT !.pc = "list"])
    /\ UNCHANGED <<pins, ctl, faults, torn>>

UnloadDone(p) ==
    /\ proc[p].pc \in {"unload", "list"} /\ proc[p].left = {}
    /\ Exit(p) /\ torn' = FALSE
    /\ UNCHANGED <<pins, dirs, ctl, faults>>

Unloading(p) == proc[p].pc \in {"unload", "list", "remove"}

RevnatPinned == \E m \in Mode : Pinned(LinkName(m))

\* The process dies, perhaps in the middle of removing an installation.
Crash(p) ==
    /\ "crash" \in Env /\ faults < MaxFaults /\ faults' = faults + 1
    /\ proc[p].pc # "idle"
    /\ torn' = (torn \/ (proc[p].pc \in {"list", "remove"} /\ RevnatPinned))
    /\ Exit(p)
    /\ UNCHANGED <<pins, dirs, ctl>>

-----------------------------------------------------------------------------
Step(p) ==
    \/ MakeDirs(p) \/ CheckOther(p) \/ NextObjects(p) \/ Attach(p) \/ PinLink(p)
    \/ \E x \in Pin : PinOne(p, x) \/ RemovePin(p, x)
    \/ \E d \in Dir : List(p, d)
    \/ RemoveDirs(p) \/ UnloadDone(p)

Next ==
    \/ EnsureLoaded \/ Fill
    \/ \E m \in Mode : CtlLoad(m)
    \/ CtlUnload
    \/ \E p \in Proc : Step(p) \/ LoadFails(p) \/ UnloadFails(p) \/ Crash(p)

\* Processes run on, and the daemon's pod is restarted whenever it exits.
Fairness ==
    /\ \A p \in Proc : WF_vars(Step(p))
    /\ SF_vars(EnsureLoaded) /\ WF_vars(Fill)

Safety == Init /\ [][Next]_vars
Spec   == Safety /\ Fairness

-----------------------------------------------------------------------------
State == [pc : {"idle", "mkdir", "check", "unload", "list", "remove", "serving"} \cup Loading,
          mode : Mode, gen : Gen \cup {0}, todo : SUBSET Pin,
          held : Links \cup {"none"}, left : SUBSET Dir]

TypeOK ==
    /\ pins \in [Pin -> Gen \cup {0}] /\ dirs \subseteq Dir /\ proc \in [Proc -> State]
    /\ ctl \in 0 .. MaxCtl /\ faults \in 0 .. MaxFaults /\ torn \in BOOLEAN

\* The revnat link of mode m is pinned together with everything else, all of
\* it from one Load.
Installed(m) ==
    /\ Pinned(LinkName(m))
    /\ \A x \in SnatMaps \cup RevMaps \cup GcProgs \cup {"snat_egress"} :
          pins[x] = pins[LinkName(m)]

\* revnat runs at most once, whatever failed or died before: the reason of
\* the exclusivity check of Load.
Exclusive == \A m \in Mode : ~(Attached(LinkName(m)) /\ Attached(LinkName(Other(m))))

\* Why EnsureLoaded may take one link for the whole: unless a removal is under
\* way or was cut short, a pinned revnat link comes with all maps, programs
\* and links of the Load that pinned it.
Complete ==
    \A m \in Mode :
        Pinned(LinkName(m)) /\ ~torn /\ (\A p \in Proc : ~Unloading(p)) => Installed(m)

\* The maps a daemon has filled are the maps of the attached programs.
FilledAttached ==
    proc["daemon"].pc = "serving" /\ proc["daemon"].gen # 0 /\ ~torn
        => /\ Installed(DaemonMode)
           /\ pins["snat_egress"] = proc["daemon"].gen

\* No start of the daemon, in whichever mode, takes down an installation
\* that works: only moorctl does.
DaemonKeeps ==
    [][\A m \in Mode : Installed(m) /\ proc["ctl"].pc = "idle" => Installed(m)']_vars

\* The daemon is done with its start: it serves with filled maps.
Serving ==
    /\ proc["daemon"].pc = "serving" /\ proc["daemon"].gen # 0
    /\ Installed(DaemonMode)

\* Whatever a Load left half done, a daemon that is restarted ends up serving,
\* unless the other mode is installed or a removal was cut short.
Recovers == <>[](Serving \/ Pinned(LinkName(Other(DaemonMode))) \/ torn)

\* The same after a removal that was cut short.
RecoversTorn == <>[](Serving \/ Pinned(LinkName(Other(DaemonMode))))
=============================================================================
