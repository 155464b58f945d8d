---------------------------- MODULE LoaderProof -----------------------------
(***************************************************************************)
(* Proof that the loader keeps an installation whole (Complete), attaches  *)
(* revnat once (Exclusive), fills the maps of the attached programs        *)
(* (FilledAttached) and that no start of the daemon takes an installation  *)
(* down (DaemonKeeps), for any maps and programs, whatever fails and       *)
(* wherever a process dies, when the daemon and moorctl do not overlap.    *)
(***************************************************************************)
EXTENDS Loader, TLAPS

USE ZenonT(10), SMTT(30)

\* At most one process is at work, and one that is not holds nothing.
Alone ==
    /\ \A p, q \in Proc : p # q => proc[p] = Idle \/ proc[q] = Idle
    /\ \A p \in Proc : proc[p].pc = "idle" => proc[p] = Idle

\* A pin lies in a directory that exists.
Housed == \A x \in Pin : Pinned(x) => DirOf(x) \in dirs

OneLink == \A m \in Mode : ~(Pinned(LinkName(m)) /\ Pinned(LinkName(Other(m))))

Whole == \A m \in Mode : Pinned(LinkName(m)) => Installed(m)

Removing(p) == proc[p].pc \in {"list", "remove"}

\* An Unload that has removed nothing yet may still be given up without harm.
WholeUnlessTorn == ~torn /\ (\A p \in Proc : ~Removing(p)) => Whole

\* The pins S are from the Load of p.
Mine(p, S) == \A x \in S : pins[x] = proc[p].gen

\* How far a Load has come.
LoadStage(p) ==
    /\ proc[p].held # "none" => /\ proc[p].pc \in {"snat_link", "rev_link"}
                                /\ proc[p].held = LinkOf(p)
    /\ proc[p].pc \in Loading => proc[p].gen # 0 /\ ~Pinned(LinkName(Other(proc[p].mode)))
    /\ proc[p].pc = "snat_maps" =>
          proc[p].todo \subseteq SnatMaps /\ Mine(p, SnatMaps \ proc[p].todo)
    /\ proc[p].pc = "gc_progs" =>
          proc[p].todo \subseteq GcProgs /\ Mine(p, SnatMaps \cup (GcProgs \ proc[p].todo))
    /\ proc[p].pc = "snat_link" => Mine(p, SnatMaps \cup GcProgs)
    /\ proc[p].pc = "rev_maps" =>
          /\ proc[p].todo \subseteq RevMaps
          /\ Mine(p, SnatMaps \cup GcProgs \cup {"snat_egress"} \cup (RevMaps \ proc[p].todo))
    /\ proc[p].pc = "rev_link" => Mine(p, SnatMaps \cup GcProgs \cup {"snat_egress"} \cup RevMaps)

\* What an Unload has not listed yet, or is about to remove, is all there is.
UnloadStage(p) ==
    Unloading(p) => \A x \in Pin : Pinned(x) => \/ DirOf(x) \in proc[p].left
                                                \/ proc[p].pc = "remove" /\ x \in proc[p].todo

\* The daemon loads only where its link is missing, so what it rolls back is
\* no installation; and it serves with its link in place.
DaemonStage ==
    /\ proc["daemon"].mode = DaemonMode
    /\ proc["daemon"].pc \in {"mkdir", "check"} \cup Loading => ~Pinned(LinkName(DaemonMode))
    /\ Unloading("daemon") => ~RevnatPinned
    /\ proc["daemon"].pc = "serving" => Pinned(LinkName(DaemonMode))
    /\ proc["daemon"].pc = "serving" /\ proc["daemon"].gen # 0 => Mine("daemon", SnatMaps \cup RevMaps)

LoaderInv ==
    /\ TypeOK /\ Alone /\ Housed /\ OneLink /\ WholeUnlessTorn /\ DaemonStage
    /\ \A p \in Proc : LoadStage(p) /\ UnloadStage(p)

-----------------------------------------------------------------------------
(* Names, processes and the state of a process.                            *)

LEMMA LinkFacts ==
    /\ \A m \in Mode : /\ LinkName(m) \in Links \ {"snat_egress"} /\ Other(m) \in Mode /\ Other(m) # m
                       /\ Other(Other(m)) = m /\ LinkName(m) # LinkName(Other(m))
    /\ \A m, n \in Mode : n = m \/ n = Other(m)
    /\ Links \subseteq Pin /\ "snat_egress" \in Links /\ "none" \notin Links
    /\ \A x \in Links : x \notin SnatMaps /\ x \notin RevMaps /\ x \notin GcProgs
BY LoaderAssumption DEF Mode, LinkName, Other, Links, Pin

LEMMA IdleType == Idle \in State /\ Idle.pc = "idle" /\ Idle.held = "none" /\ Idle.mode = DaemonMode
BY LoaderAssumption DEF Idle, State, Mode, Links, Dir

LEMMA GotoFacts ==
    ASSUME TypeOK, NEW p \in Proc, NEW s, Goto(p, s)
    PROVE  proc'[p] = s /\ \A q \in Proc : q # p => proc'[q] = proc[q]
BY DEF TypeOK, Goto

LEMMA GotoType ==
    ASSUME TypeOK, NEW p \in Proc, NEW s \in State, Goto(p, s)
    PROVE  proc' \in [Proc -> State]
BY DEF TypeOK, Goto

\* Nobody else is at work.
LEMMA Others ==
    ASSUME TypeOK, Alone, NEW p \in Proc, proc[p].pc # "idle"
    PROVE  \A q \in Proc : q # p => proc[q] = Idle
BY IdleType DEF Alone

LEMMA IdleStages ==
    ASSUME NEW q \in Proc, proc'[q] = Idle
    PROVE  LoadStage(q)' /\ UnloadStage(q)'
BY IdleType DEF LoadStage, UnloadStage, Unloading, Loading

LEMMA IdleDaemon ==
    ASSUME proc'["daemon"] = Idle
    PROVE  DaemonStage'
BY IdleType DEF DaemonStage, Unloading, Loading

\* The invariant after a step of p, from its parts.
LEMMA Assemble ==
    ASSUME LoaderInv, NEW p \in Proc, NEW s \in State, Goto(p, s),
           \A q \in Proc : q # p => proc[q] = Idle,
           s.pc = "idle" => s = Idle,
           pins' \in [Pin -> Gen \cup {0}], dirs' \subseteq Dir,
           ctl' \in 0 .. MaxCtl, faults' \in 0 .. MaxFaults, torn' \in BOOLEAN,
           Housed', OneLink', WholeUnlessTorn',
           LoadStage(p)', UnloadStage(p)', p = "daemon" => DaemonStage'
    PROVE  LoaderInv'
<1>1. proc'[p] = s /\ \A q \in Proc : q # p => proc'[q] = Idle
  BY GotoFacts DEF LoaderInv
<1>2. proc' \in [Proc -> State]
  BY GotoType DEF LoaderInv
<1>3. Alone'
  BY <1>1 DEF Alone
<1>4. \A q \in Proc : LoadStage(q)' /\ UnloadStage(q)'
  BY <1>1, IdleStages
<1>5. DaemonStage'
  BY <1>1, IdleDaemon DEF Proc
<1> QED BY <1>2, <1>3, <1>4, <1>5 DEF LoaderInv, TypeOK

-----------------------------------------------------------------------------
(* The invariant, action by action.                                        *)

LEMMA LoaderInit == Init => LoaderInv
<1> SUFFICES ASSUME Init PROVE LoaderInv
  OBVIOUS
<1>1. /\ \A x \in Pin : ~Pinned(x)
      /\ pins \in [Pin -> Gen \cup {0}] /\ dirs \subseteq Dir /\ proc \in [Proc -> State]
      /\ \A p \in Proc : proc[p] = Idle
  BY IdleType DEF Init, Pinned
<1>2. TypeOK
  <2>1. ctl \in 0 .. MaxCtl /\ faults \in 0 .. MaxFaults
    BY LoaderAssumption DEF Init
  <2> QED BY <1>1, <2>1 DEF Init, TypeOK
<1>3. Housed /\ OneLink /\ WholeUnlessTorn
  BY <1>1, LinkFacts DEF Housed, OneLink, WholeUnlessTorn, Whole
<1>4. \A p \in Proc : LoadStage(p) /\ UnloadStage(p)
  BY <1>1, IdleType DEF LoadStage, UnloadStage, Unloading, Loading
<1>5. DaemonStage
  BY <1>1, IdleType DEF DaemonStage, Unloading, Loading, Proc
<1> QED BY <1>1, <1>2, <1>3, <1>4, <1>5 DEF LoaderInv, Alone

\* A process starts while nobody is at work.
LEMMA StartKeeps ==
    ASSUME LoaderInv, "overlap" \notin Env, NEW p \in Proc, MayStart(p), NEW s \in State, Goto(p, s),
           UNCHANGED <<pins, dirs, faults, torn>>, ctl' \in 0 .. MaxCtl,
           s.held = "none" /\ s.gen = 0 /\ s.pc \in {"mkdir", "unload", "serving"},
           s.pc = "unload" => s.left = dirs,
           p = "daemon" => /\ s.mode = DaemonMode /\ s.pc # "unload"
                           /\ s.pc = "mkdir" => ~Pinned(LinkName(DaemonMode))
                           /\ s.pc = "serving" => Pinned(LinkName(DaemonMode))
    PROVE  LoaderInv'
<1>1. \A q \in Proc : proc[q] = Idle
  BY DEF MayStart, LoaderInv, Alone
<1>2. proc'[p] = s /\ \A q \in Proc : q # p => proc'[q] = proc[q]
  BY GotoFacts DEF LoaderInv
<1>3. Housed' /\ OneLink'
  BY DEF LoaderInv, Housed, OneLink, Pinned
<1>4. WholeUnlessTorn'
  <2>1. Whole' <=> Whole
    BY DEF Whole, Installed, Pinned
  <2> QED BY <1>1, <2>1, IdleType DEF LoaderInv, WholeUnlessTorn, Removing
<1>5. LoadStage(p)'
  BY <1>2 DEF LoadStage, Loading
<1>6. UnloadStage(p)'
  BY <1>2 DEF UnloadStage, Unloading, Pinned, LoaderInv, Housed
<1>7. p = "daemon" => DaemonStage'
  BY <1>2 DEF DaemonStage, Unloading, Loading, Pinned
<1> QED BY <1>1, <1>3, <1>4, <1>5, <1>6, <1>7, Assemble DEF LoaderInv, TypeOK

LEMMA EnsureStep ==
    ASSUME LoaderInv, "overlap" \notin Env, EnsureLoaded
    PROVE  LoaderInv'
<1> DEFINE s == [Idle EXCEPT !.pc = IF Pinned(LinkName(DaemonMode)) THEN "serving" ELSE "mkdir"]
<1>1. /\ MayStart("daemon") /\ Goto("daemon", s) /\ UNCHANGED <<pins, dirs, ctl, faults, torn>>
  BY DEF EnsureLoaded
<1>2. /\ s \in State /\ s.held = "none" /\ s.gen = 0 /\ s.mode = DaemonMode
      /\ s.pc = IF Pinned(LinkName(DaemonMode)) THEN "serving" ELSE "mkdir"
  BY IdleType DEF Idle, State
<1> HIDE DEF s
<1> QED BY <1>1, <1>2, StartKeeps DEF LoaderInv, TypeOK, Proc

LEMMA CommandStep ==
    ASSUME LoaderInv, "overlap" \notin Env, CtlUnload \/ \E m \in Mode : CtlLoad(m)
    PROVE  LoaderInv'
<1>1. ASSUME NEW s \in State, Command(s), s.held = "none", s.gen = 0, s.pc \in {"mkdir", "unload"},
             s.pc = "unload" => s.left = dirs
      PROVE  LoaderInv'
  <2>1. /\ MayStart("ctl") /\ Goto("ctl", s) /\ UNCHANGED <<pins, dirs, faults, torn>>
        /\ ctl' \in 0 .. MaxCtl
    BY <1>1, LoaderAssumption DEF Command, LoaderInv, TypeOK
  <2> QED BY <1>1, <2>1, StartKeeps DEF Proc
<1>2. CASE CtlUnload
  <2> DEFINE s == [Idle EXCEPT !.pc = "unload", !.left = dirs]
  <2>1. s \in State /\ s.held = "none" /\ s.gen = 0 /\ s.pc = "unload" /\ s.left = dirs
    BY IdleType DEF Idle, State, LoaderInv, TypeOK
  <2>2. Command(s)
    BY <1>2 DEF CtlUnload
  <2> HIDE DEF s
  <2> QED BY <1>1, <2>1, <2>2
<1>3. CASE \E m \in Mode : CtlLoad(m)
  <2> PICK m \in Mode : CtlLoad(m)
    BY <1>3
  <2> DEFINE s == [Idle EXCEPT !.pc = "mkdir", !.mode = m]
  <2>1. s \in State /\ s.held = "none" /\ s.gen = 0 /\ s.pc = "mkdir"
    BY IdleType DEF Idle, State
  <2>2. Command(s)
    BY DEF CtlLoad
  <2> HIDE DEF s
  <2> QED BY <1>1, <2>1, <2>2
<1> QED BY <1>2, <1>3

\* A step that pins and removes nothing.
LEMMA NoPinStep ==
    ASSUME LoaderInv, NEW p \in Proc, proc[p].pc # "idle", NEW s \in State, Goto(p, s),
           s.pc = "idle" => s = Idle,
           pins' = pins, torn' = torn, dirs' \subseteq Dir, Housed', ctl' = ctl,
           faults' \in 0 .. MaxFaults,
           proc[p].pc \in {"list", "remove"} => s.pc \in {"list", "remove"},
           LoadStage(p)', UnloadStage(p)', p = "daemon" => DaemonStage'
    PROVE  LoaderInv'
<1>1. \A q \in Proc : q # p => proc[q] = Idle
  BY Others DEF LoaderInv
<1>2. proc'[p] = s /\ \A q \in Proc : q # p => proc'[q] = proc[q]
  BY GotoFacts DEF LoaderInv
<1>3. OneLink'
  BY DEF LoaderInv, OneLink, Pinned
<1>4. WholeUnlessTorn'
  <2>1. Whole' <=> Whole
    BY DEF Whole, Installed, Pinned
  <2>2. (\A q \in Proc : ~Removing(q)') => \A q \in Proc : ~Removing(q)
    BY <1>2 DEF Removing
  <2> QED BY <2>1, <2>2 DEF LoaderInv, WholeUnlessTorn
<1> QED BY <1>1, <1>3, <1>4, Assemble DEF LoaderInv, TypeOK

LEMMA HousedSame ==
    ASSUME LoaderInv, pins' = pins, dirs' = dirs
    PROVE  Housed'
BY DEF LoaderInv, Housed, Pinned

\* The daemon's rollback meets no pinned revnat link.
LEMMA RollBackKeeps ==
    ASSUME LoaderInv, NEW p \in Proc, proc[p].pc \in Loading, RollBack(p),
           UNCHANGED <<pins, dirs, ctl, torn>>, faults' \in 0 .. MaxFaults
    PROVE  LoaderInv'
<1> DEFINE s == [Idle EXCEPT !.pc = "unload", !.left = dirs, !.mode = proc[p].mode]
<1>1. Goto(p, s)
  BY DEF RollBack
<1>2. proc[p] \in State /\ dirs \subseteq Dir
  BY DEF LoaderInv, TypeOK
<1>3. /\ s \in State /\ s.pc = "unload" /\ s.left = dirs /\ s.held = "none" /\ s.mode = proc[p].mode
  BY <1>2, IdleType DEF Idle, State
<1> HIDE DEF s
<1>4. proc'[p] = s
  BY <1>1, GotoFacts DEF LoaderInv
<1>5. LoadStage(p)'
  BY <1>3, <1>4 DEF LoadStage, Loading
<1>6. UnloadStage(p)'
  BY <1>3, <1>4 DEF UnloadStage, Pinned, LoaderInv, Housed
<1>7. ASSUME p = "daemon" PROVE DaemonStage'
  <2>1. /\ ~Pinned(LinkName(DaemonMode)) /\ ~Pinned(LinkName(Other(DaemonMode)))
        /\ proc[p].mode = DaemonMode
    BY <1>7 DEF LoaderInv, DaemonStage, LoadStage, Proc
  <2>2. ~RevnatPinned'
    BY <2>1, LinkFacts, LoaderAssumption DEF RevnatPinned, Pinned
  <2> QED BY <1>3, <1>4, <1>7, <2>1, <2>2 DEF DaemonStage, Loading
<1>8. proc[p].pc # "idle" /\ proc[p].pc \notin {"list", "remove"}
  BY DEF Loading
<1> QED BY <1>1, <1>2, <1>3, <1>5, <1>6, <1>7, <1>8, HousedSame, NoPinStep

LEMMA ExitKeeps ==
    ASSUME LoaderInv, NEW p \in Proc, proc[p].pc # "idle", proc[p].pc \notin {"list", "remove"}, Exit(p),
           UNCHANGED <<pins, dirs, ctl, torn>>, faults' \in 0 .. MaxFaults
    PROVE  LoaderInv'
<1>1. Goto(p, Idle) /\ Idle \in State
  BY IdleType DEF Exit
<1>2. proc'[p] = Idle
  BY <1>1, GotoFacts DEF LoaderInv
<1>3. dirs' \subseteq Dir
  BY DEF LoaderInv, TypeOK
<1> QED BY <1>1, <1>2, <1>3, HousedSame, NoPinStep, IdleStages, IdleDaemon

LEMMA FailSteps ==
    ASSUME LoaderInv, NEW p \in Proc, LoadFails(p) \/ UnloadFails(p)
    PROVE  LoaderInv'
<1>1. faults' \in 0 .. MaxFaults
  BY LoaderAssumption DEF LoadFails, UnloadFails, LoaderInv, TypeOK
<1>2. CASE LoadFails(p)
  BY <1>1, <1>2, RollBackKeeps DEF LoadFails
<1>3. CASE UnloadFails(p)
  BY <1>1, <1>3, ExitKeeps DEF UnloadFails
<1> QED BY <1>2, <1>3

LEMMA MakeDirsStep ==
    ASSUME LoaderInv, NEW p \in Proc, MakeDirs(p)
    PROVE  LoaderInv'
<1> DEFINE s == [proc[p] EXCEPT !.pc = "check"]
<1>1. /\ proc[p].pc = "mkdir" /\ dirs' = Dir /\ Goto(p, s) /\ UNCHANGED <<pins, ctl, faults, torn>>
  BY DEF MakeDirs
<1>2. proc[p] \in State /\ proc[p].held = "none"
  BY <1>1 DEF LoaderInv, TypeOK, LoadStage
<1>3. s \in State /\ s.pc = "check" /\ s.held = "none" /\ s.mode = proc[p].mode
  BY <1>2 DEF State
<1> HIDE DEF s
<1>4. proc'[p] = s
  BY <1>1, GotoFacts DEF LoaderInv
<1>5. Housed'
  BY <1>1 DEF Housed, DirOf, Dir
<1>6. LoadStage(p)' /\ UnloadStage(p)'
  BY <1>3, <1>4 DEF LoadStage, UnloadStage, Unloading, Loading
<1>7. p = "daemon" => DaemonStage'
  BY <1>1, <1>3, <1>4 DEF LoaderInv, DaemonStage, Pinned, Unloading
<1> QED BY <1>1, <1>3, <1>5, <1>6, <1>7, NoPinStep DEF LoaderInv, TypeOK

LEMMA CheckOtherStep ==
    ASSUME LoaderInv, NEW p \in Proc, CheckOther(p)
    PROVE  LoaderInv'
<1>1. proc[p].pc = "check" /\ UNCHANGED <<pins, dirs, ctl, faults, torn>>
  BY DEF CheckOther
<1>2. faults' \in 0 .. MaxFaults /\ dirs' \subseteq Dir
  BY <1>1 DEF LoaderInv, TypeOK
<1>3. CASE Exit(p)
  BY <1>1, <1>2, <1>3, ExitKeeps
<1>4. CASE ~Exit(p)
  <2>1. PICK g \in Gen : Goto(p, [proc[p] EXCEPT !.pc = "snat_maps", !.gen = g, !.todo = SnatMaps])
    BY <1>4 DEF CheckOther, Fresh
  <2>2. ~Pinned(LinkName(Other(proc[p].mode)))
    BY <1>4 DEF CheckOther
  <2> DEFINE s == [proc[p] EXCEPT !.pc = "snat_maps", !.gen = g, !.todo = SnatMaps]
  <2>3. proc[p] \in State /\ proc[p].held = "none"
    BY <1>1 DEF LoaderInv, TypeOK, LoadStage
  <2>4. /\ s \in State /\ s.pc = "snat_maps" /\ s.held = "none" /\ s.mode = proc[p].mode
        /\ s.gen = g /\ s.todo = SnatMaps /\ g # 0
    BY <2>3, LoaderAssumption DEF State, Loading, Pin
  <2>5. Goto(p, s)
    BY <2>1
  <2> HIDE DEF s
  <2>6. proc'[p] = s
    BY <2>5, GotoFacts DEF LoaderInv
  <2>7. LoadStage(p)' /\ UnloadStage(p)'
    BY <1>1, <2>2, <2>4, <2>6 DEF LoadStage, UnloadStage, Unloading, Loading, Pinned, Mine
  <2>8. p = "daemon" => DaemonStage'
    BY <1>1, <2>4, <2>6 DEF LoaderInv, DaemonStage, Pinned, Unloading
  <2> QED BY <1>1, <1>2, <2>4, <2>5, <2>7, <2>8, HousedSame, NoPinStep
<1> QED BY <1>3, <1>4

LEMMA NextObjectsStep ==
    ASSUME LoaderInv, NEW p \in Proc, NextObjects(p)
    PROVE  LoaderInv'
<1>1. proc[p].todo = {} /\ UNCHANGED <<pins, dirs, ctl, faults, torn>>
  BY DEF NextObjects
<1>2. faults' \in 0 .. MaxFaults /\ dirs' \subseteq Dir /\ proc[p] \in State
  BY <1>1 DEF LoaderInv, TypeOK
<1>3. ASSUME NEW s \in State, Goto(p, s), proc[p].pc \in Loading, s.pc \in Loading, LoadStage(p)',
             s.mode = proc[p].mode
      PROVE  LoaderInv'
  <2>1. proc'[p] = s
    BY <1>3, GotoFacts DEF LoaderInv
  <2>2. UnloadStage(p)'
    BY <1>3, <2>1 DEF UnloadStage, Unloading, Loading
  <2>3. p = "daemon" => DaemonStage'
    BY <1>1, <1>3, <2>1 DEF LoaderInv, DaemonStage, Pinned, Unloading, Loading
  <2> QED BY <1>1, <1>2, <1>3, <2>2, <2>3, HousedSame, NoPinStep DEF Loading
<1>4. CASE proc[p].pc = "snat_maps"
  <2> DEFINE s == [proc[p] EXCEPT !.pc = "gc_progs", !.todo = GcProgs]
  <2>1. Goto(p, s)
    BY <1>4 DEF NextObjects
  <2>2. /\ s \in State /\ s.pc = "gc_progs" /\ s.todo = GcProgs /\ s.mode = proc[p].mode
        /\ s.gen = proc[p].gen /\ s.held = proc[p].held
    BY <1>2 DEF State, Loading, Pin
  <2> HIDE DEF s
  <2>3. proc'[p] = s
    BY <2>1, GotoFacts DEF LoaderInv
  <2>4. LoadStage(p)'
    BY <1>1, <1>4, <2>2, <2>3 DEF LoaderInv, LoadStage, Loading, Pinned, Mine
  <2> QED BY <1>3, <1>4, <2>1, <2>2, <2>4 DEF Loading
<1>5. CASE proc[p].pc = "gc_progs"
  <2> DEFINE s == [proc[p] EXCEPT !.pc = "snat_link"]
  <2>1. Goto(p, s)
    BY <1>5 DEF NextObjects
  <2>2. /\ s \in State /\ s.pc = "snat_link" /\ s.mode = proc[p].mode
        /\ s.gen = proc[p].gen /\ s.held = proc[p].held
    BY <1>2 DEF State, Loading
  <2> HIDE DEF s
  <2>3. proc'[p] = s
    BY <2>1, GotoFacts DEF LoaderInv
  <2>4. LoadStage(p)'
    BY <1>1, <1>5, <2>2, <2>3 DEF LoaderInv, LoadStage, Loading, Pinned, Mine
  <2> QED BY <1>3, <1>5, <2>1, <2>2, <2>4 DEF Loading
<1>6. CASE proc[p].pc = "rev_maps"
  <2> DEFINE s == [proc[p] EXCEPT !.pc = "rev_link"]
  <2>1. Goto(p, s)
    BY <1>6 DEF NextObjects
  <2>2. /\ s \in State /\ s.pc = "rev_link" /\ s.mode = proc[p].mode
        /\ s.gen = proc[p].gen /\ s.held = proc[p].held
    BY <1>2 DEF State, Loading
  <2> HIDE DEF s
  <2>3. proc'[p] = s
    BY <2>1, GotoFacts DEF LoaderInv
  <2>4. LoadStage(p)'
    BY <1>1, <1>6, <2>2, <2>3 DEF LoaderInv, LoadStage, Loading, Pinned, Mine
  <2> QED BY <1>3, <1>6, <2>1, <2>2, <2>4 DEF Loading
<1> QED BY <1>4, <1>5, <1>6 DEF NextObjects

LEMMA AttachStep ==
    ASSUME LoaderInv, NEW p \in Proc, Attach(p)
    PROVE  LoaderInv'
<1>1. proc[p].pc \in {"snat_link", "rev_link"} /\ UNCHANGED <<pins, dirs, ctl, faults, torn>>
  BY DEF Attach
<1>2. faults' \in 0 .. MaxFaults /\ dirs' \subseteq Dir /\ proc[p] \in State
  BY <1>1 DEF LoaderInv, TypeOK
<1>3. CASE RollBack(p)
  BY <1>1, <1>2, <1>3, RollBackKeeps DEF Loading
<1>4. CASE ~RollBack(p)
  <2> DEFINE s == [proc[p] EXCEPT !.held = LinkOf(p)]
  <2>1. Goto(p, s)
    BY <1>4 DEF Attach
  <2>2. LinkOf(p) \in Links
    BY <1>2, LinkFacts DEF LinkOf, State
  <2>3. /\ s \in State /\ s.pc = proc[p].pc /\ s.mode = proc[p].mode
        /\ s.gen = proc[p].gen /\ s.held = LinkOf(p)
    BY <1>2, <2>2 DEF State
  <2> HIDE DEF s
  <2>4. proc'[p] = s
    BY <2>1, GotoFacts DEF LoaderInv
  <2>5. LinkOf(p)' = LinkOf(p)
    BY <2>3, <2>4 DEF LinkOf
  <2>6. LoadStage(p)'
    BY <1>1, <2>3, <2>4, <2>5 DEF LoaderInv, LoadStage, Loading, Pinned, Mine
  <2>7. UnloadStage(p)'
    BY <1>1, <2>3, <2>4 DEF UnloadStage, Unloading
  <2>8. p = "daemon" => DaemonStage'
    BY <1>1, <2>3, <2>4 DEF LoaderInv, DaemonStage, Pinned, Unloading, Loading
  <2> QED BY <1>1, <1>2, <2>1, <2>3, <2>6, <2>7, <2>8, HousedSame, NoPinStep
<1> QED BY <1>3, <1>4

LEMMA FillStep ==
    ASSUME LoaderInv, Fill
    PROVE  LoaderInv'
<1>1. proc["daemon"].pc = "serving" /\ UNCHANGED <<pins, dirs, ctl, faults, torn>>
  BY DEF Fill
<1>2. PICK g \in Gen : /\ \A x \in SnatMaps \cup RevMaps : pins[x] = g
                       /\ Goto("daemon", [proc["daemon"] EXCEPT !.gen = g])
  BY DEF Fill
<1> DEFINE s == [proc["daemon"] EXCEPT !.gen = g]
<1>3. faults' \in 0 .. MaxFaults /\ dirs' \subseteq Dir /\ proc["daemon"] \in State
  BY <1>1 DEF LoaderInv, TypeOK, Proc
<1>4. /\ s \in State /\ s.pc = "serving" /\ s.mode = proc["daemon"].mode /\ s.gen = g
      /\ s.held = proc["daemon"].held
  BY <1>1, <1>3 DEF State
<1>5. Goto("daemon", s)
  BY <1>2
<1> HIDE DEF s
<1>6. proc'["daemon"] = s
  BY <1>5, GotoFacts DEF LoaderInv, Proc
<1>7. LoadStage("daemon")' /\ UnloadStage("daemon")'
  BY <1>1, <1>4, <1>6 DEF LoaderInv, LoadStage, UnloadStage, Unloading, Loading, Proc
<1>8. DaemonStage'
  BY <1>1, <1>2, <1>4, <1>6 DEF LoaderInv, DaemonStage, Unloading, Loading, Pinned, Mine
<1> QED BY <1>1, <1>3, <1>4, <1>5, <1>7, <1>8, HousedSame, NoPinStep DEF Proc

LEMMA ListStep ==
    ASSUME LoaderInv, NEW p \in Proc, NEW d \in Dir, List(p, d)
    PROVE  LoaderInv'
<1> DEFINE s == [proc[p] EXCEPT !.pc = "remove", !.left = @ \ {d},
                                !.todo = {x \in Pin : DirOf(x) = d /\ Pinned(x)}]
<1>1. /\ proc[p].pc \in {"unload", "list"} /\ Goto(p, s)
      /\ UNCHANGED <<pins, dirs, ctl, faults, torn>>
  BY DEF List
<1>2. faults' \in 0 .. MaxFaults /\ dirs' \subseteq Dir /\ proc[p] \in State /\ proc[p].held = "none"
  BY <1>1 DEF LoaderInv, TypeOK, LoadStage
<1>3. /\ s \in State /\ s.pc = "remove" /\ s.mode = proc[p].mode /\ s.held = "none"
      /\ s.left = proc[p].left \ {d} /\ s.todo = {x \in Pin : DirOf(x) = d /\ Pinned(x)}
  BY <1>2 DEF State
<1> HIDE DEF s
<1>4. proc'[p] = s
  BY <1>1, GotoFacts DEF LoaderInv
<1>5. LoadStage(p)'
  BY <1>3, <1>4 DEF LoadStage, Loading
<1>6. UnloadStage(p)'
  BY <1>1, <1>3, <1>4 DEF LoaderInv, UnloadStage, Unloading, Pinned
<1>7. p = "daemon" => DaemonStage'
  BY <1>1, <1>3, <1>4 DEF LoaderInv, DaemonStage, Unloading, Loading, Pinned, RevnatPinned
<1> QED BY <1>1, <1>2, <1>3, <1>5, <1>6, <1>7, HousedSame, NoPinStep

LEMMA RemoveDirsStep ==
    ASSUME LoaderInv, NEW p \in Proc, RemoveDirs(p)
    PROVE  LoaderInv'
<1> DEFINE s == [proc[p] EXCEPT !.pc = "list"]
<1>1. /\ proc[p].pc = "remove" /\ proc[p].todo = {} /\ Goto(p, s)
      /\ dirs' = {d \in dirs : d \in proc[p].left \/ \E x \in Pin : DirOf(x) = d /\ Pinned(x)}
      /\ UNCHANGED <<pins, ctl, faults, torn>>
  BY DEF RemoveDirs
<1>2. faults' \in 0 .. MaxFaults /\ dirs' \subseteq Dir /\ proc[p] \in State /\ proc[p].held = "none"
  BY <1>1 DEF LoaderInv, TypeOK, LoadStage
<1>3. /\ s \in State /\ s.pc = "list" /\ s.mode = proc[p].mode /\ s.held = "none"
      /\ s.left = proc[p].left
  BY <1>2 DEF State
<1> HIDE DEF s
<1>4. proc'[p] = s
  BY <1>1, GotoFacts DEF LoaderInv
<1>5. LoadStage(p)'
  BY <1>3, <1>4 DEF LoadStage, Loading
<1>6. UnloadStage(p)'
  BY <1>1, <1>3, <1>4 DEF LoaderInv, UnloadStage, Unloading, Pinned
<1>7. p = "daemon" => DaemonStage'
  BY <1>1, <1>3, <1>4 DEF LoaderInv, DaemonStage, Unloading, Loading, Pinned, RevnatPinned
<1>8. Housed'
  BY <1>1 DEF LoaderInv, Housed, Pinned
<1> QED BY <1>1, <1>2, <1>3, <1>5, <1>6, <1>7, <1>8, NoPinStep

\* The end of a process that was removing pins: nothing is left that could be
\* missing a part, or it is remembered.
LEMMA EndKeeps ==
    ASSUME LoaderInv, NEW p \in Proc, proc[p].pc # "idle", Exit(p),
           UNCHANGED <<pins, dirs, ctl>>, faults' \in 0 .. MaxFaults, torn' \in BOOLEAN,
           ~torn' => Whole
    PROVE  LoaderInv'
<1>1. Goto(p, Idle) /\ Idle \in State
  BY IdleType DEF Exit
<1>2. proc'[p] = Idle
  BY <1>1, GotoFacts DEF LoaderInv
<1>3. Housed' /\ OneLink'
  BY DEF LoaderInv, Housed, OneLink, Pinned
<1>4. WholeUnlessTorn'
  BY DEF WholeUnlessTorn, Whole, Installed, Pinned
<1>5. \A q \in Proc : q # p => proc[q] = Idle
  BY Others DEF LoaderInv
<1> QED BY <1>1, <1>2, <1>3, <1>4, <1>5, Assemble, IdleStages, IdleDaemon DEF LoaderInv, TypeOK

LEMMA UnloadDoneStep ==
    ASSUME LoaderInv, NEW p \in Proc, UnloadDone(p)
    PROVE  LoaderInv'
<1>1. /\ proc[p].pc \in {"unload", "list"} /\ proc[p].left = {} /\ Exit(p) /\ torn' = FALSE
      /\ UNCHANGED <<pins, dirs, ctl, faults>>
  BY DEF UnloadDone
<1>2. \A x \in Pin : ~Pinned(x)
  BY <1>1 DEF LoaderInv, UnloadStage, Unloading
<1>3. Whole
  BY <1>2, LinkFacts DEF Whole
<1>4. faults' \in 0 .. MaxFaults /\ torn' \in BOOLEAN
  BY <1>1 DEF LoaderInv, TypeOK
<1> QED BY <1>1, <1>3, <1>4, EndKeeps

LEMMA CrashStep ==
    ASSUME LoaderInv, NEW p \in Proc, Crash(p)
    PROVE  LoaderInv'
<1>1. /\ proc[p].pc # "idle" /\ Exit(p) /\ UNCHANGED <<pins, dirs, ctl>>
      /\ torn' = (torn \/ (proc[p].pc \in {"list", "remove"} /\ RevnatPinned))
  BY DEF Crash
<1>2. faults' \in 0 .. MaxFaults
  BY LoaderAssumption DEF Crash, LoaderInv, TypeOK
<1>3. torn' \in BOOLEAN
  BY <1>1 DEF LoaderInv, TypeOK
<1>4. \A q \in Proc : q # p => ~Removing(q)
  BY <1>1, Others, IdleType DEF LoaderInv, Removing
<1>5. ASSUME ~torn' PROVE Whole
  <2>1. CASE RevnatPinned
    BY <1>1, <1>4, <1>5, <2>1 DEF LoaderInv, WholeUnlessTorn, Removing
  <2>2. CASE ~RevnatPinned
    BY <2>2 DEF RevnatPinned, Whole
  <2> QED BY <2>1, <2>2
<1> QED BY <1>1, <1>2, <1>3, <1>5, EndKeeps

\* A new pin takes no place that an installation needs.
LEMMA PinKeepsWhole ==
    ASSUME LoaderInv, NEW p \in Proc, proc[p].pc \in Loading,
           NEW x \in SnatMaps \cup RevMaps \cup GcProgs \cup {"snat_egress"}, ~Pinned(x),
           NEW g, pins' = [pins EXCEPT ![x] = g], torn' = torn
    PROVE  WholeUnlessTorn'
<1> SUFFICES ASSUME ~torn, NEW m \in Mode, pins'[LinkName(m)] # 0
             PROVE  FALSE
  BY DEF WholeUnlessTorn, Whole, Pinned
<1>1. \A q \in Proc : ~Removing(q)
  BY Others, IdleType DEF LoaderInv, Removing, Loading
<1>2. x # LinkName(m) /\ LinkName(m) \in Pin
  BY LinkFacts
<1>3. Pinned(LinkName(m))
  BY <1>2 DEF LoaderInv, TypeOK, Pinned
<1>4. Installed(m)
  BY <1>1, <1>3 DEF LoaderInv, WholeUnlessTorn, Whole
<1> QED BY <1>3, <1>4 DEF Installed, Pinned

LEMMA PinOneStep ==
    ASSUME LoaderInv, NEW p \in Proc, NEW x \in Pin, PinOne(p, x)
    PROVE  LoaderInv'
<1>1. /\ proc[p].pc \in {"snat_maps", "gc_progs", "rev_maps"} /\ x \in proc[p].todo
      /\ UNCHANGED <<dirs, ctl, faults, torn>>
  BY DEF PinOne
<1>2. /\ faults' \in 0 .. MaxFaults /\ dirs' \subseteq Dir /\ proc[p] \in State
      /\ ctl' \in 0 .. MaxCtl /\ torn' \in BOOLEAN
  BY <1>1 DEF LoaderInv, TypeOK
<1>3. proc[p].pc \in Loading /\ proc[p].held = "none" /\ proc[p].gen # 0
  BY <1>1 DEF LoaderInv, LoadStage, Loading
<1>4. CASE ~CanPin(x)
  BY <1>1, <1>2, <1>3, <1>4, RollBackKeeps DEF PinOne
<1>5. CASE CanPin(x)
  <2> DEFINE s == [proc[p] EXCEPT !.todo = @ \ {x}]
  <2>1. /\ pins' = [pins EXCEPT ![x] = proc[p].gen] /\ Goto(p, s)
        /\ ~Pinned(x) /\ DirOf(x) \in dirs
    BY <1>5 DEF PinOne, CanPin
  <2>2. /\ s \in State /\ s.pc = proc[p].pc /\ s.mode = proc[p].mode /\ s.gen = proc[p].gen
        /\ s.held = "none" /\ s.todo = proc[p].todo \ {x}
    BY <1>2, <1>3 DEF State
  <2> HIDE DEF s
  <2>3. proc'[p] = s
    BY <2>1, GotoFacts DEF LoaderInv
  <2>4. x \in SnatMaps \cup RevMaps \cup GcProgs /\ x \notin Links
    BY <1>1, LinkFacts DEF LoaderInv, LoadStage
  <2>5. /\ pins'[x] = proc[p].gen
        /\ \A y \in Pin : y # x => pins'[y] = pins[y]
        /\ pins' \in [Pin -> Gen \cup {0}]
    BY <1>2, <2>1 DEF LoaderInv, TypeOK, State
  <2>6. \A m \in Mode : Pinned(LinkName(m))' <=> Pinned(LinkName(m))
    BY <2>4, <2>5, LinkFacts DEF Pinned
  <2>7. WholeUnlessTorn'
    BY <1>1, <1>3, <2>1, <2>4, PinKeepsWhole
  <2>8. Housed'
    BY <1>1, <2>1, <2>5 DEF LoaderInv, Housed, Pinned
  <2>9. OneLink'
    BY <2>6, LinkFacts DEF LoaderInv, OneLink
  <2>10. LoadStage(p)'
    <3>1. \A S \in SUBSET Pin : Mine(p, S) => \A y \in S \cup {x} : pins'[y] = proc[p].gen
      BY <1>3, <2>5 DEF Mine, Pinned
    <3>2. pins'[LinkName(Other(proc[p].mode))] = 0
      BY <1>2, <1>3, <2>6, LinkFacts DEF LoaderInv, LoadStage, State, Pinned
    <3>3. CASE proc[p].pc = "snat_maps"
      <4>1. /\ \A y \in (SnatMaps \ proc[p].todo) \cup {x} : pins'[y] = proc[p].gen
            /\ proc[p].todo \subseteq SnatMaps
        BY <3>1, <3>3 DEF LoaderInv, LoadStage, Pin
      <4> QED BY <1>3, <2>2, <2>3, <3>2, <3>3, <4>1 DEF LoadStage, Mine, Pinned
    <3>4. CASE proc[p].pc = "gc_progs"
      <4>1. /\ \A y \in (SnatMaps \cup (GcProgs \ proc[p].todo)) \cup {x} : pins'[y] = proc[p].gen
            /\ proc[p].todo \subseteq GcProgs
        BY <3>1, <3>4 DEF LoaderInv, LoadStage, Pin
      <4> QED BY <1>3, <2>2, <2>3, <3>2, <3>4, <4>1 DEF LoadStage, Mine, Pinned
    <3>5. CASE proc[p].pc = "rev_maps"
      <4> DEFINE S == SnatMaps \cup GcProgs \cup {"snat_egress"} \cup (RevMaps \ proc[p].todo)
      <4>1. S \in SUBSET Pin /\ Mine(p, S) /\ proc[p].todo \subseteq RevMaps
        BY <3>5, LinkFacts DEF LoaderInv, LoadStage, Pin
      <4>2. \A y \in S \cup {x} : pins'[y] = proc[p].gen
        BY <3>1, <4>1
      <4> QED BY <1>3, <2>2, <2>3, <3>2, <3>5, <4>1, <4>2 DEF LoadStage, Mine, Pinned
    <3> QED BY <1>1, <3>3, <3>4, <3>5
  <2>11. UnloadStage(p)'
    BY <1>1, <2>2, <2>3 DEF UnloadStage, Unloading
  <2>12. p = "daemon" => DaemonStage'
    BY <1>1, <1>3, <2>2, <2>3, <2>6, LoaderAssumption DEF LoaderInv, DaemonStage, Unloading, Loading
  <2>13. \A q \in Proc : q # p => proc[q] = Idle
    BY <1>1, Others DEF LoaderInv
  <2>14. s.pc # "idle"
    BY <1>1, <2>2
  <2> QED BY <1>2, <2>1, <2>2, <2>5, <2>7, <2>8, <2>9, <2>10, <2>11, <2>12, <2>13, <2>14, Assemble
<1> QED BY <1>4, <1>5

LEMMA PinEgressStep ==
    ASSUME LoaderInv, NEW p \in Proc, PinLink(p), CanPin(proc[p].held), proc[p].pc = "snat_link"
    PROVE  LoaderInv'
<1> DEFINE s == [proc[p] EXCEPT !.held = "none", !.pc = "rev_maps", !.todo = RevMaps]
<1>1. /\ proc[p].held = "snat_egress" /\ UNCHANGED <<dirs, ctl, faults, torn>>
  BY DEF PinLink, LoaderInv, LoadStage, LinkOf
<1>2. /\ faults' \in 0 .. MaxFaults /\ dirs' \subseteq Dir /\ proc[p] \in State
      /\ ctl' \in 0 .. MaxCtl /\ torn' \in BOOLEAN
  BY <1>1 DEF LoaderInv, TypeOK
<1>3. proc[p].pc \in Loading /\ proc[p].gen # 0
  BY DEF LoaderInv, LoadStage, Loading
<1>4. /\ pins' = [pins EXCEPT !["snat_egress"] = proc[p].gen] /\ Goto(p, s)
      /\ ~Pinned("snat_egress") /\ DirOf("snat_egress") \in dirs
  BY <1>1 DEF PinLink, CanPin
<1>5. /\ s \in State /\ s.pc = "rev_maps" /\ s.mode = proc[p].mode /\ s.gen = proc[p].gen
      /\ s.held = "none" /\ s.todo = RevMaps
  BY <1>2 DEF State, Loading, Pin
<1> HIDE DEF s
<1>6. proc'[p] = s
  BY <1>4, GotoFacts DEF LoaderInv
<1>7. /\ pins'["snat_egress"] = proc[p].gen
      /\ \A y \in Pin : y # "snat_egress" => pins'[y] = pins[y]
      /\ pins' \in [Pin -> Gen \cup {0}]
  BY <1>2, <1>4, LinkFacts DEF LoaderInv, TypeOK, State
<1>8. \A m \in Mode : pins'[LinkName(m)] = pins[LinkName(m)]
  BY <1>7, LinkFacts
<1>9. WholeUnlessTorn'
  BY <1>1, <1>3, <1>4, PinKeepsWhole
<1>10. Housed'
  BY <1>1, <1>4, <1>7 DEF LoaderInv, Housed, Pinned
<1>11. OneLink'
  BY <1>8, LinkFacts DEF LoaderInv, OneLink, Pinned
<1>12. LoadStage(p)'
  <2>1. Mine(p, SnatMaps \cup GcProgs) /\ pins[LinkName(Other(proc[p].mode))] = 0
    BY <1>3 DEF LoaderInv, LoadStage, Pinned
  <2>2. \A y \in SnatMaps \cup GcProgs \cup {"snat_egress"} : pins'[y] = proc[p].gen
    BY <1>7, <2>1, LinkFacts DEF Mine, Pin
  <2>3. pins'[LinkName(Other(proc[p].mode))] = 0
    BY <1>2, <1>8, <2>1, LinkFacts DEF State
  <2> QED BY <1>3, <1>5, <1>6, <2>2, <2>3 DEF LoadStage, Mine, Pinned
<1>13. UnloadStage(p)'
  BY <1>5, <1>6 DEF UnloadStage, Unloading
<1>14. p = "daemon" => DaemonStage'
  BY <1>3, <1>5, <1>6, <1>8, LoaderAssumption DEF LoaderInv, DaemonStage, Unloading, Loading, Pinned
<1>15. \A q \in Proc : q # p => proc[q] = Idle
  BY Others DEF LoaderInv
<1> QED BY <1>2, <1>4, <1>5, <1>7, <1>9, <1>10, <1>11, <1>12, <1>13, <1>14, <1>15, Assemble

\* The last pin of a Load: with it the installation is whole.
LEMMA PinRevnatStep ==
    ASSUME LoaderInv, NEW p \in Proc, PinLink(p), CanPin(proc[p].held), proc[p].pc = "rev_link"
    PROVE  LoaderInv'
<1> DEFINE s == IF p = "daemon" THEN [Idle EXCEPT !.pc = "serving"] ELSE Idle
           l == LinkName(proc[p].mode)
<1>1. /\ proc[p].held = l /\ UNCHANGED <<dirs, ctl, faults, torn>>
  BY DEF PinLink, LoaderInv, LoadStage, LinkOf
<1>2. /\ faults' \in 0 .. MaxFaults /\ dirs' \subseteq Dir /\ proc[p] \in State
      /\ ctl' \in 0 .. MaxCtl /\ torn' \in BOOLEAN /\ proc[p].mode \in Mode
  BY <1>1 DEF LoaderInv, TypeOK, State
<1>3. /\ Mine(p, SnatMaps \cup GcProgs \cup {"snat_egress"} \cup RevMaps)
      /\ proc[p].gen # 0 /\ pins[LinkName(Other(proc[p].mode))] = 0
  BY DEF LoaderInv, LoadStage, Loading, Pinned
<1>4. pins' = [pins EXCEPT ![l] = proc[p].gen] /\ Goto(p, s) /\ DirOf(l) \in dirs
  BY <1>1 DEF PinLink, CanPin, Exit
<1>5. /\ s \in State /\ s.held = "none" /\ s.gen = 0 /\ s.mode = DaemonMode
      /\ p = "daemon" => s.pc = "serving"
      /\ p # "daemon" => s = Idle
  BY IdleType DEF Idle, State
<1> HIDE DEF s
<1>6. proc'[p] = s
  BY <1>4, GotoFacts DEF LoaderInv
<1>7. /\ l \in Links \ {"snat_egress"} /\ pins'[l] = proc[p].gen
      /\ \A y \in Pin : y # l => pins'[y] = pins[y]
      /\ pins' \in [Pin -> Gen \cup {0}]
  BY <1>2, <1>4, LinkFacts DEF LoaderInv, TypeOK, State
<1>8. pins'[LinkName(Other(proc[p].mode))] = 0
  BY <1>2, <1>3, <1>7, LinkFacts
<1>9. WholeUnlessTorn'
  <2>1. \A y \in SnatMaps \cup RevMaps \cup GcProgs \cup {"snat_egress"} : pins'[y] = pins'[l]
    BY <1>3, <1>7, LinkFacts DEF Mine, Pin
  <2> QED BY <1>2, <1>8, <2>1, LinkFacts DEF WholeUnlessTorn, Whole, Installed, Pinned
<1>10. Housed'
  BY <1>1, <1>4, <1>7 DEF LoaderInv, Housed, Pinned
<1>11. OneLink'
  BY <1>2, <1>8, LinkFacts DEF OneLink, Pinned
<1>12. LoadStage(p)' /\ UnloadStage(p)'
  BY <1>5, <1>6, IdleType DEF LoadStage, UnloadStage, Unloading, Loading
<1>13. ASSUME p = "daemon" PROVE DaemonStage'
  <2>1. proc[p].mode = DaemonMode
    BY <1>13 DEF LoaderInv, DaemonStage
  <2> QED BY <1>3, <1>5, <1>6, <1>7, <1>13, <2>1 DEF DaemonStage, Unloading, Loading, Pinned
<1>14. \A q \in Proc : q # p => proc[q] = Idle
  BY Others DEF LoaderInv
<1>15. s.pc = "idle" => s = Idle
  BY <1>5
<1> QED BY <1>2, <1>4, <1>5, <1>7, <1>9, <1>10, <1>11, <1>12, <1>13, <1>14, <1>15, Assemble

LEMMA PinLinkStep ==
    ASSUME LoaderInv, NEW p \in Proc, PinLink(p)
    PROVE  LoaderInv'
<1>1. CASE ~CanPin(proc[p].held)
  BY <1>1, RollBackKeeps DEF PinLink, LoaderInv, TypeOK, Loading
<1>2. CASE CanPin(proc[p].held)
  BY <1>2, PinEgressStep, PinRevnatStep DEF PinLink
<1> QED BY <1>1, <1>2

LEMMA RemovePinStep ==
    ASSUME LoaderInv, NEW p \in Proc, NEW x \in Pin, RemovePin(p, x)
    PROVE  LoaderInv'
<1> DEFINE s == [proc[p] EXCEPT !.todo = @ \ {x}]
<1>1. /\ proc[p].pc = "remove" /\ x \in proc[p].todo /\ pins' = [pins EXCEPT ![x] = 0]
      /\ Goto(p, s) /\ UNCHANGED <<dirs, ctl, faults, torn>>
  BY DEF RemovePin
<1>2. /\ faults' \in 0 .. MaxFaults /\ dirs' \subseteq Dir /\ proc[p] \in State
      /\ ctl' \in 0 .. MaxCtl /\ torn' \in BOOLEAN /\ proc[p].held = "none"
  BY <1>1 DEF LoaderInv, TypeOK, LoadStage
<1>3. /\ s \in State /\ s.pc = "remove" /\ s.mode = proc[p].mode /\ s.held = "none"
      /\ s.left = proc[p].left /\ s.todo = proc[p].todo \ {x}
  BY <1>1, <1>2 DEF State
<1> HIDE DEF s
<1>4. proc'[p] = s
  BY <1>1, GotoFacts DEF LoaderInv
<1>5. /\ pins'[x] = 0 /\ \A y \in Pin : y # x => pins'[y] = pins[y]
      /\ pins' \in [Pin -> Gen \cup {0}]
  BY <1>1 DEF LoaderInv, TypeOK
<1>6. \A y \in Pin : Pinned(y)' => Pinned(y)
  BY <1>5 DEF Pinned
<1>7. Housed' /\ OneLink'
  BY <1>1, <1>6, LinkFacts DEF LoaderInv, Housed, OneLink
<1>8. WholeUnlessTorn'
  BY <1>3, <1>4 DEF WholeUnlessTorn, Removing
<1>9. LoadStage(p)'
  BY <1>3, <1>4 DEF LoadStage, Loading
<1>10. UnloadStage(p)'
  BY <1>1, <1>3, <1>4, <1>5, <1>6 DEF LoaderInv, UnloadStage, Unloading, Pinned
<1>11. p = "daemon" => DaemonStage'
  BY <1>1, <1>3, <1>4, <1>6, LinkFacts DEF LoaderInv, DaemonStage, Unloading, Loading, RevnatPinned
<1>12. \A q \in Proc : q # p => proc[q] = Idle
  BY <1>1, Others DEF LoaderInv
<1>13. s.pc # "idle"
  BY <1>3
<1> QED BY <1>1, <1>2, <1>3, <1>5, <1>7, <1>8, <1>9, <1>10, <1>11, <1>12, <1>13, Assemble

LEMMA LoaderNext ==
    ASSUME "overlap" \notin Env, LoaderInv, [Next]_vars
    PROVE  LoaderInv'
<1>1. CASE EnsureLoaded \/ CtlUnload \/ \E m \in Mode : CtlLoad(m)
  BY <1>1, EnsureStep, CommandStep
<1>2. CASE Fill
  BY <1>2, FillStep
<1>3. CASE \E p \in Proc : Step(p)
  BY <1>3, MakeDirsStep, CheckOtherStep, NextObjectsStep, AttachStep, PinLinkStep, PinOneStep,
     RemovePinStep, ListStep, RemoveDirsStep, UnloadDoneStep DEF Step
<1>4. CASE \E p \in Proc : LoadFails(p) \/ UnloadFails(p) \/ Crash(p)
  BY <1>4, FailSteps, CrashStep
<1>5. CASE UNCHANGED vars
  BY <1>5 DEF vars, LoaderInv, TypeOK, Alone, Housed, OneLink, WholeUnlessTorn, Whole, Removing,
     Mine, LoadStage, UnloadStage, DaemonStage, Unloading, RevnatPinned, Pinned, Installed, LinkOf
<1> QED BY <1>1, <1>2, <1>3, <1>4, <1>5 DEF Next

\* The invariant holds of every behaviour in which the daemon and moorctl do
\* not run at the same time.
LEMMA LoaderInvHolds == "overlap" \notin Env => (Safety => []LoaderInv)
<1> SUFFICES ASSUME "overlap" \notin Env PROVE Safety => []LoaderInv
  OBVIOUS
<1>1. LoaderInv /\ [Next]_vars => LoaderInv'
  BY LoaderNext
<1> QED BY <1>1, LoaderInit, PTL DEF Safety

-----------------------------------------------------------------------------
\* revnat is attached at most once, in one of its modes, at every moment of
\* every Load, Unload, rollback and crash of processes that do not overlap.
THEOREM ExclusiveRevnat == "overlap" \notin Env => (Safety => []Exclusive)
<1> SUFFICES ASSUME "overlap" \notin Env PROVE Safety => []Exclusive
  OBVIOUS
<1>1. LoaderInv => Exclusive
  <2> SUFFICES ASSUME LoaderInv, NEW m \in Mode, Attached(LinkName(m)), Attached(LinkName(Other(m)))
               PROVE  FALSE
    BY DEF Exclusive
  <2>1. ASSUME NEW q \in Proc, NEW n \in Mode, proc[q].held = LinkName(n)
        PROVE  proc[q].mode = n /\ ~Pinned(LinkName(Other(n))) /\ proc[q] # Idle
    <3>1. LinkName(n) # "none" /\ LinkName(n) # "snat_egress" /\ proc[q].mode \in Mode
      BY LinkFacts DEF LoaderInv, TypeOK, State
    <3>2. proc[q].pc \in Loading /\ LinkName(n) = LinkName(proc[q].mode)
      BY <2>1, <3>1 DEF LoaderInv, LoadStage, LinkOf, Loading
    <3>3. proc[q].mode = n
      BY <3>1, <3>2, LinkFacts
    <3> QED BY <2>1, <3>1, <3>2, <3>3, IdleType DEF LoaderInv, LoadStage
  <2>2. Other(m) \in Mode /\ Other(Other(m)) = m /\ Other(m) # m
    BY LinkFacts
  <2>3. CASE Pinned(LinkName(m))
    BY <2>1, <2>2, <2>3 DEF Attached, LoaderInv, OneLink
  <2>4. CASE Pinned(LinkName(Other(m)))
    BY <2>1, <2>2, <2>4 DEF Attached, LoaderInv, OneLink
  <2>5. CASE \E q, r \in Proc : proc[q].held = LinkName(m) /\ proc[r].held = LinkName(Other(m))
    BY <2>1, <2>2, <2>5 DEF LoaderInv, Alone
  <2> QED BY <2>3, <2>4, <2>5 DEF Attached
<1> QED BY <1>1, LoaderInvHolds, PTL

\* One pinned revnat link vouches for all maps, programs and links of the
\* Load that pinned it, wherever an earlier Load failed or died: what
\* EnsureLoaded relies on.
THEOREM CompleteHolds == "overlap" \notin Env => (Safety => []Complete)
<1> SUFFICES ASSUME "overlap" \notin Env PROVE Safety => []Complete
  OBVIOUS
<1>1. LoaderInv => Complete
  BY DEF LoaderInv, WholeUnlessTorn, Whole, Removing, Unloading, Complete
<1> QED BY <1>1, LoaderInvHolds, PTL

\* The maps a serving daemon has filled are those the attached programs use.
THEOREM FilledAttachedHolds == "overlap" \notin Env => (Safety => []FilledAttached)
<1> SUFFICES ASSUME "overlap" \notin Env PROVE Safety => []FilledAttached
  OBVIOUS
<1>1. LoaderInv => FilledAttached
  <2> SUFFICES ASSUME LoaderInv, proc["daemon"].pc = "serving", proc["daemon"].gen # 0, ~torn
               PROVE  Installed(DaemonMode) /\ pins["snat_egress"] = proc["daemon"].gen
    BY DEF FilledAttached
  <2>1. \A p \in Proc : ~Removing(p)
    BY Others, IdleType DEF LoaderInv, Removing, Proc
  <2>2. Installed(DaemonMode)
    BY <2>1, LoaderAssumption DEF LoaderInv, WholeUnlessTorn, Whole, DaemonStage
  <2>3. PICK x \in SnatMaps : pins[x] = proc["daemon"].gen
    BY LoaderAssumption DEF LoaderInv, DaemonStage, Mine
  <2> QED BY <2>2, <2>3 DEF Installed
<1> QED BY <1>1, LoaderInvHolds, PTL

\* The daemon takes no installation down, neither its own nor one of the
\* other mode, whatever fails in its start.
THEOREM DaemonKeepsHolds == "overlap" \notin Env => (Safety => DaemonKeeps)
<1> SUFFICES ASSUME "overlap" \notin Env PROVE Safety => DaemonKeeps
  OBVIOUS
<1> DEFINE Keeps == \A m \in Mode : Installed(m) /\ proc["ctl"].pc = "idle" => Installed(m)'
<1>1. LoaderInv /\ [Next]_vars => [Keeps]_vars
  <2> SUFFICES ASSUME LoaderInv, Next, NEW m \in Mode, Installed(m), proc["ctl"].pc = "idle"
               PROVE  Installed(m)'
    BY DEF vars
  <2>1. CASE pins' = pins
    BY <2>1 DEF Installed, Pinned
  <2>2. ASSUME NEW p \in Proc, proc[p].pc # "idle" PROVE p = "daemon"
    BY <2>2 DEF Proc
  <2>3. ASSUME NEW p \in Proc, NEW x \in Pin, PinOne(p, x) PROVE Installed(m)'
    <3>1. x \in SnatMaps \cup RevMaps \cup GcProgs
      BY <2>3 DEF PinOne, LoaderInv, LoadStage
    <3>2. Pinned(x)
      BY <3>1 DEF Installed, Pinned
    <3> QED BY <2>1, <2>3, <3>2 DEF PinOne, CanPin
  <2>4. ASSUME NEW p \in Proc, PinLink(p) PROVE Installed(m)'
    <3>1. p = "daemon"
      BY <2>2, <2>4 DEF PinLink
    <3>2. proc[p].mode = DaemonMode /\ proc[p].pc \in Loading /\ Pinned(LinkName(m))
      BY <2>4, <3>1 DEF PinLink, Loading, LoaderInv, DaemonStage, Installed
    <3>3. ~Pinned(LinkName(DaemonMode))
      BY <3>1, <3>2 DEF LoaderInv, DaemonStage
    <3>4. ~Pinned(LinkName(Other(DaemonMode)))
      BY <3>2 DEF LoaderInv, LoadStage
    <3> QED BY <3>2, <3>3, <3>4, LinkFacts, LoaderAssumption
  <2>5. ASSUME NEW p \in Proc, NEW x \in Pin, RemovePin(p, x) PROVE Installed(m)'
    <3>1. p = "daemon"
      BY <2>2, <2>5 DEF RemovePin
    <3>2. ~RevnatPinned
      BY <2>5, <3>1 DEF RemovePin, LoaderInv, DaemonStage, Unloading
    <3> QED BY <3>2 DEF RevnatPinned, Installed
  <2> QED BY <2>1, <2>3, <2>4, <2>5
          DEF Next, EnsureLoaded, Fill, CtlLoad, CtlUnload, Command, Step, MakeDirs, CheckOther,
              NextObjects, Attach, List, RemoveDirs, UnloadDone, LoadFails, UnloadFails, Crash
<1> QED BY <1>1, LoaderInvHolds, PTL DEF Safety, DaemonKeeps
=============================================================================
