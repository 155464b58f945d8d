--------------------------- MODULE RouteSyncProof ---------------------------
(***************************************************************************)
(* Proof that the tracking of the NATConfig controller is a true account   *)
(* of the maps (Ledger), for any number of NATConfigs and CIDRs and        *)
(* whatever fails, as long as the CIDRs do not overlap (KeysApart); the    *)
(* properties that follow from it are at the end.                          *)
(***************************************************************************)
EXTENDS RouteSync, TLAPS

USE ZenonT(10), SMTT(30)

\* What is in place for a set of CIDRs is in place for each of them.
LEMMA KeysOfEach ==
    ASSUME NEW ph, NEW S, NEW P
    PROVE  KeysOf(ph, S) \subseteq P <=> \A c \in S : Range(Keys[ph][c]) \subseteq P
BY DEF KeysOf

LEMMA DesiredType ==
    ASSUME TypeOK, NEW n \in Name
    PROVE  Desired(n) \in [Phase -> SUBSET CIDR]
BY RouteAssumption DEF TypeOK, Desired, ConfigType

LEMMA NoWorkOrWork ==
    ASSUME TypeOK
    PROVE  /\ work # NoWork => work \in Work
           /\ work = NoWork => \A n \in Name : work.name # n
BY RouteAssumption DEF TypeOK, NoWork

LEMMA NoTrackedType == NoTracked \in [Phase -> [Name -> SUBSET CIDR]]
BY DEF NoTracked

LEMMA EnterType ==
    ASSUME TypeOK, NEW n \in Name, NEW want \in [Phase -> SUBSET CIDR], NEW ph \in Phase
    PROVE  Enter(n, want, ph) \in Work
BY DEF TypeOK, Enter, Work, Phase

\* The initial segment of a CIDR's keys that a failing operation has done.
LEMMA SegmentKeys ==
    ASSUME NEW ph \in Phase, NEW c \in CIDR, NEW k \in Nat, k <= Len(Keys[ph][c])
    PROVE  Range(SubSeq(Keys[ph][c], 1, k)) \subseteq Range(Keys[ph][c])
BY RouteAssumption DEF Range

LEMMA KeysInUniverse ==
    ASSUME NEW ph \in Phase, NEW c \in CIDR
    PROVE  Range(Keys[ph][c]) \subseteq Universe
BY DEF KeysOf, Universe

-----------------------------------------------------------------------------
(* Types.                                                                  *)

LEMMA TypeInit == Init => TypeOK
<1> SUFFICES ASSUME Init PROVE TypeOK
  OBVIOUS
<1>1. present \in [Phase -> SUBSET Universe] /\ nc \in [Name -> Configs \cup {None}]
  BY DEF Init
<1>2. edits \in 0 .. MaxEdits /\ faults \in 0 .. MaxFaults
  BY RouteAssumption DEF Init
<1>3. up \in BOOLEAN /\ speaker \in BOOLEAN /\ labelled \in BOOLEAN /\ queue \subseteq Name
  BY DEF Init
<1> QED BY <1>1, <1>2, <1>3, NoTrackedType DEF Init, TypeOK

LEMMA TypeBegin ==
    ASSUME TypeOK, NEW n \in Name, Begin(n) \/ BeginFails(n)
    PROVE  TypeOK'
<1>1. CASE Begin(n)
  <2>1. work' \in Work
    BY <1>1, DesiredType, EnterType DEF Begin, Phase
  <2> QED BY <1>1, <2>1 DEF Begin, TypeOK, api
<1>2. CASE BeginFails(n)
  BY <1>2, RouteAssumption DEF BeginFails, TypeOK, api
<1> QED BY <1>1, <1>2

LEMMA TypeAddRemove ==
    ASSUME TypeOK, NEW c \in CIDR, AddOne(c) \/ RemoveOne(c)
    PROVE  TypeOK'
<1>1. work \in Work
  BY NoWorkOrWork DEF AddOne, RemoveOne
<1>2. work' \in Work
  BY <1>1 DEF AddOne, RemoveOne, Work
<1>3. present' \in [Phase -> SUBSET Universe]
  BY <1>1, KeysInUniverse DEF AddOne, RemoveOne, Work, TypeOK
<1> QED BY <1>2, <1>3 DEF AddOne, RemoveOne, TypeOK, api

LEMMA TypeTrack == TypeOK /\ Track => TypeOK'
<1> SUFFICES ASSUME TypeOK, Track PROVE TypeOK'
  OBVIOUS
<1>1. work \in Work
  BY NoWorkOrWork DEF Track
<1>2. Dropped(work.phase, work.name, work.want[work.phase]) \in SUBSET CIDR
  BY <1>1 DEF Dropped, TypeOK, Work
<1>3. work' \in Work
  BY <1>1, <1>2 DEF Track, Work
<1>4. tracked' \in [Phase -> [Name -> SUBSET CIDR]]
  BY <1>1 DEF Track, Work, TypeOK
<1> QED BY <1>3, <1>4 DEF Track, TypeOK, api

LEMMA TypeAdvance == TypeOK /\ Advance => TypeOK'
<1> SUFFICES ASSUME TypeOK, Advance PROVE TypeOK'
  OBVIOUS
<1>1. work \in Work
  BY NoWorkOrWork DEF Advance
<1>2. /\ Enter(work.name, work.want, "ext") \in Work
      /\ Enter(work.name, work.want, "route") \in Work
  BY <1>1, EnterType DEF Work, Phase
<1>3. work' \in Work \cup {NoWork}
  BY <1>1, <1>2 DEF Advance, Work, Phase
<1> QED BY <1>3 DEF Advance, TypeOK, api

LEMMA TypeAbort ==
    ASSUME TypeOK, NEW c \in CIDR, NEW k \in Nat, k <= Len(Keys[work.phase][c]), Abort(c, k),
           faults' \in 0 .. MaxFaults
    PROVE  TypeOK'
<1>1. work \in Work
  BY NoWorkOrWork DEF Abort
<1>2. Range(SubSeq(Keys[work.phase][c], 1, k)) \subseteq Universe
  BY <1>1, SegmentKeys, KeysInUniverse DEF Work
<1>3. present' \in [Phase -> SUBSET Universe]
  BY <1>1, <1>2 DEF Abort, Work, TypeOK
<1>4. queue' \subseteq Name
  BY <1>1 DEF Abort, Work, TypeOK
<1> QED BY <1>3, <1>4 DEF Abort, TypeOK, api

\* The length of a key sequence bounds what an operation can have done.
LEMMA FailureShape ==
    ASSUME TypeOK, NEW c \in CIDR, Refused(c) \/ Fails(c)
    PROVE  /\ \E k \in Nat : k <= Len(Keys[work.phase][c]) /\ Abort(c, k)
           /\ faults' \in 0 .. MaxFaults
<1>1. work \in Work
  BY NoWorkOrWork DEF Refused, Fails
<1>2. Len(Keys[work.phase][c]) \in Nat
  BY <1>1, RouteAssumption DEF Work
<1>3. faults' \in 0 .. MaxFaults
  BY RouteAssumption DEF Refused, Fails, TypeOK
<1>4. \E k \in Nat : k <= Len(Keys[work.phase][c]) /\ Abort(c, k)
  BY <1>2 DEF Refused, Fails
<1> QED BY <1>3, <1>4

LEMMA TypeRest ==
    ASSUME TypeOK, SpeakerStart \/ Stop \/ Start \/ Relabel \/ \E n \in Name : Edit(n)
    PROVE  TypeOK'
<1>1. CASE SpeakerStart
  BY <1>1 DEF SpeakerStart, TypeOK, api
<1>2. CASE Stop
  <2>1. present' \in [Phase -> SUBSET Universe]
    BY <1>2 DEF Stop, TypeOK, Phase
  <2>2. faults' \in 0 .. MaxFaults
    BY <1>2, RouteAssumption DEF Stop, TypeOK
  <2> QED BY <1>2, <2>1, <2>2, NoTrackedType DEF Stop, TypeOK, api
<1>3. CASE Start
  BY <1>3 DEF Start, TypeOK, api
<1>4. CASE Relabel
  BY <1>4, RouteAssumption DEF Relabel, EnvStep, TypeOK
<1>5. CASE \E n \in Name : Edit(n)
  BY <1>5, RouteAssumption DEF Edit, EnvStep, TypeOK
<1> QED BY <1>1, <1>2, <1>3, <1>4, <1>5

LEMMA TypeNext == TypeOK /\ [Next]_vars => TypeOK'
<1> SUFFICES ASSUME TypeOK, [Next]_vars PROVE TypeOK'
  OBVIOUS
<1>1. CASE \E n \in Name : Begin(n) \/ BeginFails(n)
  BY <1>1, TypeBegin
<1>2. CASE \E c \in CIDR : AddOne(c) \/ RemoveOne(c)
  BY <1>2, TypeAddRemove
<1>3. CASE \E c \in CIDR : Refused(c) \/ Fails(c)
  BY <1>3, FailureShape, TypeAbort
<1>4. CASE Track \/ Advance
  BY <1>4, TypeTrack, TypeAdvance
<1>5. CASE SpeakerStart \/ Stop \/ Start \/ Relabel \/ \E n \in Name : Edit(n)
  BY <1>5, TypeRest
<1>6. CASE UNCHANGED vars
  BY <1>6 DEF vars, TypeOK
<1> QED BY <1>1, <1>2, <1>3, <1>4, <1>5, <1>6 DEF Next, Step

-----------------------------------------------------------------------------
(* The ledger, action by action.                                           *)

\* Parts of Ledger that depend on nothing else.
Account == TrackedPresent /\ (~up => tracked = NoTracked)

SettledTracked == \A n \in Name, ph \in Phase : Settled(n) => tracked[ph][n] = Desired(n)[ph]

LEMMA LedgerInit == Init => Ledger
<1> SUFFICES ASSUME Init PROVE Ledger
  OBVIOUS
<1>1. \A n \in Name, ph \in Phase : tracked[ph][n] = {} /\ Desired(n)[ph] = {}
  BY DEF Init, NoTracked, Desired
<1>2. TrackedPresent
  BY <1>1, KeysOfEach DEF TrackedPresent
<1> QED BY <1>1, <1>2 DEF Init, Ledger

\* Adding leaves in place what is in place.
LEMMA GrowKeeps ==
    ASSUME TypeOK, TrackedPresent, tracked' = tracked, NEW q \in Phase, NEW K,
           present' = [present EXCEPT ![q] = @ \cup K]
    PROVE  TrackedPresent'
BY DEF TypeOK, TrackedPresent

\* Removing keys of a CIDR nobody tracks leaves in place what is tracked.
LEMMA ShrinkKeeps ==
    ASSUME TypeOK, KeysApart, TrackedPresent, tracked' = tracked,
           NEW q \in Phase, NEW c \in CIDR, NEW K, K \subseteq Range(Keys[q][c]),
           \A m \in Name : c \notin tracked[q][m],
           present' = [present EXCEPT ![q] = @ \ K]
    PROVE  TrackedPresent'
<1> SUFFICES ASSUME NEW ph \in Phase, NEW n \in Name
             PROVE  KeysOf(ph, tracked[ph][n]) \subseteq present'[ph]
  BY DEF TrackedPresent
<1> SUFFICES ASSUME NEW d \in tracked[ph][n]
             PROVE  Range(Keys[ph][d]) \subseteq present'[ph]
  BY DEF KeysOf
<1>1. Range(Keys[ph][d]) \subseteq present[ph] /\ d \in CIDR
  BY KeysOfEach DEF TrackedPresent, TypeOK
<1>2. CASE ph # q
  BY <1>1, <1>2 DEF TypeOK
<1>3. CASE ph = q
  <2>1. d # c
    BY <1>3
  <2>2. Range(Keys[q][d]) \cap Range(Keys[q][c]) = {}
    BY <1>1, <2>1 DEF KeysApart
  <2> QED BY <1>1, <1>3, <2>2 DEF TypeOK
<1> QED BY <1>2, <1>3

LEMMA LedgerBegin ==
    ASSUME TypeOK, Ledger, NEW n \in Name, Begin(n) \/ BeginFails(n)
    PROVE  Ledger'
<1>1. CASE Begin(n)
  <2>1. /\ work' = Enter(n, Desired(n), "target") /\ up /\ up' = up /\ tracked' = tracked
        /\ present' = present /\ nc' = nc /\ labelled' = labelled /\ queue' = queue \ {n}
    BY <1>1 DEF Begin, api
  <2>2. \A m \in Name : Desired(m)' = Desired(m)
    BY <2>1 DEF Desired, NodeMatches
  <2>3. /\ work'.name = n /\ work'.want = Desired(n) /\ work'.phase = "target"
        /\ work'.stage = "add" /\ work'.todo = Desired(n)["target"] \ tracked["target"][n]
    BY <2>1 DEF Enter
  <2>4. Account'
    BY <2>1 DEF Ledger, Account, TrackedPresent
  <2>5. KeysOf("target", Desired(n)["target"] \cap tracked["target"][n]) \subseteq present["target"]
    BY KeysOfEach DEF Ledger, TrackedPresent, Phase
  <2>6. Progress'
    <3>1. Desired(n)["target"] \ work'.todo = Desired(n)["target"] \cap tracked["target"][n]
      BY <2>3
    <3> QED BY <2>1, <2>2, <2>3, <2>5, <3>1 DEF Progress, Behind
  <2>7. SettledTracked'
    <3>1. \A m \in Name : Settled(m)' => Settled(m)
      BY <1>1, <2>1, <2>3, NoWorkOrWork DEF Settled, Begin
    <3> QED BY <2>1, <2>2, <3>1 DEF Ledger, SettledTracked
  <2> QED BY <2>4, <2>6, <2>7 DEF Ledger, Account, SettledTracked
<1>2. CASE BeginFails(n)
  BY <1>2 DEF BeginFails, api, Ledger, TrackedPresent, Progress, Settled, Desired, NodeMatches
<1> QED BY <1>1, <1>2

\* What a step that goes on with the same reconcile leaves alone.
LEMMA SettledSame ==
    ASSUME Ledger, UNCHANGED <<nc, labelled, queue, up, tracked>>, work'.name = work.name
    PROVE  SettledTracked'
BY DEF Ledger, SettledTracked, Settled, Desired, NodeMatches

LEMMA LedgerAdd ==
    ASSUME TypeOK, Ledger, NEW c \in CIDR, AddOne(c)
    PROVE  Ledger'
<1>1. work \in Work /\ Progress
  BY NoWorkOrWork DEF AddOne, Ledger
<1>2. /\ UNCHANGED <<nc, labelled, queue, up, tracked>>
      /\ present' = [present EXCEPT ![work.phase] = @ \cup Range(Keys[work.phase][c])]
      /\ work' = [work EXCEPT !.todo = @ \ {c}] /\ work.stage = "add"
  BY DEF AddOne, api
<1>3. /\ work'.name = work.name /\ work'.want = work.want /\ work'.phase = work.phase
      /\ work'.stage = "add" /\ work'.todo = work.todo \ {c}
  BY <1>1, <1>2 DEF Work
<1>4. TrackedPresent'
  BY <1>1, <1>2, GrowKeeps DEF Ledger, Work
<1>5. KeysOf(work.phase, work.want[work.phase] \ (work.todo \ {c})) \subseteq present'[work.phase]
  <2>1. \A d \in work.want[work.phase] \ work.todo : Range(Keys[work.phase][d]) \subseteq present[work.phase]
    BY <1>1, <1>2 DEF Progress, KeysOf
  <2>2. present'[work.phase] = present[work.phase] \cup Range(Keys[work.phase][c])
    BY <1>1, <1>2 DEF Work, TypeOK
  <2>3. \A d \in work.want[work.phase] \ (work.todo \ {c}) :
           Range(Keys[work.phase][d]) \subseteq present'[work.phase]
    BY <2>1, <2>2
  <2> QED BY <2>3 DEF KeysOf
<1>6. Progress'
  <2>1. (up /\ (work.name \notin queue => work.want = Desired(work.name)))'
    BY <1>1, <1>2, <1>3 DEF Progress, Desired, NodeMatches
  <2>2. \A ph \in Behind(work'.phase) : tracked'[ph][work'.name] = work'.want[ph]
    BY <1>1, <1>2, <1>3 DEF Progress
  <2>3. KeysOf(work'.phase, work'.want[work'.phase] \ work'.todo) \subseteq present'[work'.phase]
    BY <1>3, <1>5
  <2>4. work'.stage # "remove"
    BY <1>3
  <2> QED BY <2>1, <2>2, <2>3, <2>4 DEF Progress
<1>7. SettledTracked'
  BY <1>2, <1>3, SettledSame
<1> QED BY <1>1, <1>2, <1>4, <1>6, <1>7 DEF Ledger, SettledTracked, Progress

LEMMA LedgerRemove ==
    ASSUME TypeOK, KeysApart, Ledger, NEW c \in CIDR, RemoveOne(c)
    PROVE  Ledger'
<1>1. work \in Work /\ Progress
  BY NoWorkOrWork DEF RemoveOne, Ledger
<1>2. /\ UNCHANGED <<nc, labelled, queue, up, tracked>>
      /\ present' = [present EXCEPT ![work.phase] = @ \ Range(Keys[work.phase][c])]
      /\ work' = [work EXCEPT !.todo = @ \ {c}] /\ work.stage = "remove" /\ c \in work.todo
  BY DEF RemoveOne, api
<1>3. /\ work'.name = work.name /\ work'.want = work.want /\ work'.phase = work.phase
      /\ work'.stage = "remove" /\ work'.todo = work.todo \ {c}
  BY <1>1, <1>2 DEF Work
<1>4. \A m \in Name : c \notin tracked[work.phase][m]
  BY <1>1, <1>2 DEF Progress
<1>5. TrackedPresent'
  BY <1>1, <1>2, <1>4, ShrinkKeeps DEF Ledger, Work
<1>6. Progress'
  <2>1. (up /\ (work.name \notin queue => work.want = Desired(work.name)))'
    BY <1>1, <1>2, <1>3 DEF Progress, Desired, NodeMatches
  <2>2. \A ph \in Behind(work'.phase) : tracked'[ph][work'.name] = work'.want[ph]
    BY <1>1, <1>2, <1>3 DEF Progress
  <2>3. /\ tracked'[work'.phase][work'.name] = work'.want[work'.phase]
        /\ \A m \in Name : work'.todo \cap tracked'[work'.phase][m] = {}
    BY <1>1, <1>2, <1>3 DEF Progress
  <2>4. work'.stage # "add"
    BY <1>3
  <2> QED BY <2>1, <2>2, <2>3, <2>4 DEF Progress
<1>7. SettledTracked'
  BY <1>2, <1>3, SettledSame
<1> QED BY <1>1, <1>2, <1>5, <1>6, <1>7 DEF Ledger, SettledTracked, Progress

LEMMA LedgerTrack ==
    ASSUME TypeOK, Ledger, Track
    PROVE  Ledger'
<1> DEFINE ph == work.phase
           n  == work.name
<1>1. work \in Work /\ Progress
  BY NoWorkOrWork DEF Track, Ledger
<1>2. /\ UNCHANGED <<nc, labelled, queue, up, present>> /\ work.stage = "add" /\ work.todo = {}
      /\ tracked' = [tracked EXCEPT ![ph][n] = work.want[ph]]
      /\ work' = [work EXCEPT !.stage = "remove", !.todo = Dropped(ph, n, work.want[ph])]
  BY DEF Track, api
<1>3. /\ work'.name = n /\ work'.want = work.want /\ work'.phase = ph
      /\ work'.stage = "remove" /\ work'.todo = Dropped(ph, n, work.want[ph])
  BY <1>1, <1>2 DEF Work
<1>4. ph \in Phase /\ n \in Name
  BY <1>1 DEF Work
<1>5. /\ tracked'[ph][n] = work.want[ph]
      /\ \A q \in Phase, m \in Name : q # ph \/ m # n => tracked'[q][m] = tracked[q][m]
  BY <1>2, <1>4 DEF TypeOK
<1>6. TrackedPresent'
  <2>1. KeysOf(ph, work.want[ph]) \subseteq present[ph]
    <3>1. work.want[ph] \ work.todo = work.want[ph]
      BY <1>2
    <3> QED BY <1>1, <1>2, <3>1 DEF Progress
  <2> QED BY <1>2, <1>5, <2>1 DEF Ledger, TrackedPresent
<1>7. \A m : Desired(m)' = Desired(m)
  BY <1>2 DEF Desired, NodeMatches
<1>8. \A m \in Name : work'.todo \cap tracked'[ph][m] = {}
  <2> SUFFICES ASSUME NEW m \in Name, NEW c \in work'.todo
               PROVE  c \notin tracked'[ph][m]
    OBVIOUS
  <2>1. c \notin work.want[ph] /\ \A o \in Name \ {n} : c \notin tracked[ph][o]
    BY <1>3 DEF Dropped, UsedByOther
  <2> QED BY <1>4, <1>5, <2>1
<1>9. \A q \in Behind(ph) : tracked'[q][n] = work.want[q]
  <2>1. Behind(ph) \subseteq Phase \ {ph}
    BY <1>4 DEF Behind, Phase
  <2> QED BY <1>1, <1>4, <1>5, <2>1 DEF Progress
<1>10. Progress'
  BY <1>1, <1>2, <1>3, <1>5, <1>7, <1>8, <1>9 DEF Progress
<1>11. SettledTracked'
  BY <1>2, <1>3, <1>5, <1>7 DEF Ledger, SettledTracked, Settled
<1> QED BY <1>1, <1>2, <1>6, <1>10, <1>11 DEF Ledger, SettledTracked, Progress

LEMMA LedgerAdvance ==
    ASSUME TypeOK, Ledger, Advance
    PROVE  Ledger'
<1> DEFINE n == work.name
<1>1. work \in Work /\ Progress /\ n \in Name
  BY NoWorkOrWork DEF Advance, Ledger, Work
<1>2. /\ UNCHANGED <<nc, labelled, queue, up, present, tracked>> /\ work.stage = "remove"
  BY DEF Advance, api
<1>3. \A m : Desired(m)' = Desired(m)
  BY <1>2 DEF Desired, NodeMatches
<1>4. TrackedPresent'
  BY <1>2 DEF Ledger, TrackedPresent
<1>5. ASSUME NEW ph \in Phase, work' = Enter(n, work.want, ph),
             \A q \in Behind(ph) : tracked[q][n] = work.want[q]
      PROVE  Ledger'
  <2>1. /\ work'.name = n /\ work'.want = work.want /\ work'.phase = ph
        /\ work'.stage = "add" /\ work'.todo = work.want[ph] \ tracked[ph][n]
    BY <1>5 DEF Enter
  <2>2. KeysOf(ph, work.want[ph] \cap tracked[ph][n]) \subseteq present[ph]
    BY <1>1, KeysOfEach DEF Ledger, TrackedPresent
  <2>3. work.want[ph] \ work'.todo = work.want[ph] \cap tracked[ph][n]
    BY <2>1
  <2>4. Progress'
    BY <1>1, <1>2, <1>3, <1>5, <2>1, <2>2, <2>3 DEF Progress
  <2>5. SettledTracked'
    BY <1>2, <2>1, SettledSame
  <2> QED BY <1>1, <1>2, <1>4, <2>4, <2>5 DEF Ledger, SettledTracked, Progress
<1>6. tracked[work.phase][n] = work.want[work.phase]
  BY <1>1, <1>2 DEF Progress
<1>7. CASE work.phase = "target"
  <2>1. \A q \in Behind("ext") : tracked[q][n] = work.want[q]
    BY <1>6, <1>7 DEF Behind
  <2> QED BY <1>5, <1>7, <2>1 DEF Advance, Phase
<1>8. CASE work.phase = "ext"
  <2>1. \A q \in Behind("route") : tracked[q][n] = work.want[q]
    BY <1>1, <1>6, <1>8 DEF Behind, Progress
  <2> QED BY <1>5, <1>8, <2>1 DEF Advance, Phase
<1>9. CASE work.phase = "route"
  <2>1. work' = NoWork
    BY <1>9 DEF Advance
  <2>2. \A q \in Phase : tracked[q][n] = work.want[q]
    BY <1>1, <1>6, <1>9 DEF Behind, Progress, Phase
  <2>3. SettledTracked'
    <3> SUFFICES ASSUME NEW m \in Name, NEW q \in Phase, Settled(m)'
                 PROVE  tracked[q][m] = Desired(m)[q]
      BY <1>2, <1>3 DEF SettledTracked
    <3>1. CASE m # n
      BY <1>2, <3>1 DEF Settled, Ledger
    <3>2. CASE m = n
      BY <1>1, <1>2, <2>2, <3>2 DEF Settled, Progress
    <3> QED BY <3>1, <3>2
  <2> QED BY <1>1, <1>2, <1>4, <2>1, <2>3 DEF Ledger, SettledTracked, Progress, NoWork
<1> QED BY <1>1, <1>7, <1>8, <1>9 DEF Work, Phase

LEMMA LedgerAbort ==
    ASSUME TypeOK, KeysApart, Ledger, NEW c \in CIDR, NEW k \in Nat,
           k <= Len(Keys[work.phase][c]), Abort(c, k)
    PROVE  Ledger'
<1> DEFINE ph == work.phase
           K  == Range(SubSeq(Keys[work.phase][c], 1, k))
<1>1. work \in Work /\ Progress /\ ph \in Phase
  BY NoWorkOrWork DEF Abort, Ledger, Work
<1>2. /\ UNCHANGED <<nc, labelled, up, tracked>> /\ work' = NoWork /\ c \in work.todo
      /\ queue' = queue \cup {work.name}
      /\ present' = [present EXCEPT ![ph] = IF work.stage = "add" THEN @ \cup K ELSE @ \ K]
  BY DEF Abort, api
<1>3. K \subseteq Range(Keys[ph][c])
  BY <1>1, SegmentKeys
<1>4. TrackedPresent'
  <2>1. CASE work.stage = "add"
    BY <1>1, <1>2, <2>1, GrowKeeps DEF Ledger
  <2>2. CASE work.stage = "remove"
    <3>1. \A m \in Name : c \notin tracked[ph][m]
      BY <1>1, <1>2, <2>2 DEF Progress
    <3>2. present' = [present EXCEPT ![ph] = @ \ K]
      BY <1>2, <2>2
    <3> QED BY <1>1, <1>2, <1>3, <3>1, <3>2, ShrinkKeeps DEF Ledger
  <2> QED BY <1>1, <2>1, <2>2 DEF Work
<1>5. SettledTracked'
  <2>1. \A m \in Name : Settled(m)' => Settled(m)
    BY <1>2 DEF Settled
  <2>2. \A m : Desired(m)' = Desired(m)
    BY <1>2 DEF Desired, NodeMatches
  <2> QED BY <1>2, <2>1, <2>2 DEF Ledger, SettledTracked
<1> QED BY <1>1, <1>2, <1>4, <1>5 DEF Ledger, SettledTracked, Progress, NoWork

LEMMA LedgerSame ==
    ASSUME Ledger, UNCHANGED <<nc, labelled, queue, up, tracked, work, present>>
    PROVE  Ledger'
<1>1. TrackedPresent'
  BY DEF Ledger, TrackedPresent
<1>2. \A m : Desired(m)' = Desired(m)
  BY DEF Desired, NodeMatches
<1>3. Progress => Progress'
  BY <1>2 DEF Progress
<1>4. SettledTracked'
  BY SettledSame
<1> QED BY <1>1, <1>3, <1>4 DEF Ledger, SettledTracked

LEMMA LedgerDaemon ==
    ASSUME TypeOK, Ledger, SpeakerStart \/ Stop \/ Start
    PROVE  Ledger'
<1>1. CASE SpeakerStart
  BY <1>1, LedgerSame DEF SpeakerStart, api
<1>2. CASE Stop
  <2>1. up' = FALSE /\ work' = NoWork /\ tracked' = NoTracked
    BY <1>2 DEF Stop
  <2>2. TrackedPresent'
    BY <2>1 DEF TrackedPresent, NoTracked, KeysOf
  <2> QED BY <2>1, <2>2 DEF Ledger, Settled
<1>3. CASE Start
  <2>1. /\ UNCHANGED <<nc, labelled, tracked, work, present>> /\ ~up /\ up'
        /\ queue' = {n \in Name : nc[n] # None}
    BY <1>3 DEF Start, api
  <2>2. work = NoWork /\ tracked = NoTracked
    BY <2>1 DEF Ledger, Progress
  <2>3. TrackedPresent'
    BY <2>1 DEF Ledger, TrackedPresent
  <2>4. SettledTracked'
    BY <2>1, <2>2 DEF SettledTracked, Settled, Desired, NoTracked
  <2> QED BY <2>1, <2>2, <2>3, <2>4 DEF Ledger, SettledTracked
<1> QED BY <1>1, <1>2, <1>3

\* A change of the API objects queues every NATConfig whose wishes it changes.
LEMMA LedgerEnv ==
    ASSUME TypeOK, Ledger, Relabel \/ \E n \in Name : Edit(n)
    PROVE  Ledger'
<1>1. /\ UNCHANGED <<up, tracked, work, present>> /\ queue \subseteq queue'
      /\ up => \A m \in Name : m \notin queue' => Desired(m)' = Desired(m)
  <2>1. CASE Relabel
    BY <2>1 DEF Relabel, EnvStep, Desired, NodeMatches
  <2>2. CASE \E n \in Name : Edit(n)
    BY <2>2 DEF Edit, EnvStep, Desired, NodeMatches, TypeOK
  <2> QED BY <2>1, <2>2
<1>2. TrackedPresent'
  BY <1>1 DEF Ledger, TrackedPresent
<1>3. SettledTracked'
  BY <1>1 DEF Ledger, SettledTracked, Settled
<1>4. work # NoWork => Progress'
  BY <1>1, NoWorkOrWork DEF Ledger, Progress, Work
<1> QED BY <1>1, <1>2, <1>3, <1>4 DEF Ledger, SettledTracked

LEMMA LedgerNext ==
    ASSUME KeysApart, TypeOK, Ledger, [Next]_vars
    PROVE  Ledger'
<1>1. CASE \E n \in Name : Begin(n) \/ BeginFails(n)
  BY <1>1, LedgerBegin
<1>2. CASE \E c \in CIDR : AddOne(c) \/ RemoveOne(c)
  BY <1>2, LedgerAdd, LedgerRemove
<1>3. CASE \E c \in CIDR : Refused(c) \/ Fails(c)
  BY <1>3, FailureShape, LedgerAbort
<1>4. CASE Track \/ Advance
  BY <1>4, LedgerTrack, LedgerAdvance
<1>5. CASE SpeakerStart \/ Stop \/ Start
  BY <1>5, LedgerDaemon
<1>6. CASE Relabel \/ \E n \in Name : Edit(n)
  BY <1>6, LedgerEnv
<1>7. CASE UNCHANGED vars
  BY <1>7, LedgerSame DEF vars
<1> QED BY <1>1, <1>2, <1>3, <1>4, <1>5, <1>6, <1>7 DEF Next, Step

-----------------------------------------------------------------------------
\* The controller's state has its type, whatever fails.
THEOREM RouteTypeCorrect == Safety => []TypeOK
<1>1. Init => TypeOK
  BY TypeInit
<1>2. TypeOK /\ [Next]_vars => TypeOK'
  BY TypeNext
<1> QED BY <1>1, <1>2, PTL DEF Safety

\* The tracking (ncTargetCIDRs, ncExtIPCIDRs, ncAdvertisedCIDRs) is a true
\* account of the maps and routes in every reachable state, for CIDRs that do
\* not overlap.
THEOREM LedgerHolds == KeysApart => (Safety => []Ledger)
<1> SUFFICES ASSUME KeysApart PROVE Safety => []Ledger
  OBVIOUS
<1>1. Init => TypeOK /\ Ledger
  BY TypeInit, LedgerInit
<1>2. TypeOK /\ Ledger /\ [Next]_vars => (TypeOK /\ Ledger)'
  BY TypeNext, LedgerNext
<1> QED BY <1>1, <1>2, PTL DEF Safety

\* A NATConfig that the daemon is done with is served, and stays so while
\* other NATConfigs that share its CIDRs are added, changed, deleted or fail.
THEOREM SettledServedHolds == KeysApart => (Safety => []SettledServed)
<1> SUFFICES ASSUME KeysApart PROVE Safety => []SettledServed
  OBVIOUS
<1>1. Ledger => SettledServed
  BY DEF Ledger, TrackedPresent, SettledServed, Served
<1>2. Safety => []Ledger
  BY LedgerHolds
<1> QED BY <1>1, <1>2, PTL

-----------------------------------------------------------------------------
(* Nothing is left behind.                                                 *)

\* The CIDRs of phase ph that the reconcile in progress answers for: those it
\* has added and not yet recorded, or has still to remove.
InHand(ph) ==
    IF work = NoWork THEN {} ELSE IF work.phase # ph THEN {}
    ELSE IF work.stage = "add" THEN work.want[ph] \ work.todo ELSE work.todo

Accounted(ph) == InHand(ph) \cup UNION {tracked[ph][n] : n \in Name}

\* Until something fails, every key belongs to a CIDR somebody answers for;
\* that the BGP server is not there yet is no failure, but then nothing is
\* advertised either.
Traced ==
    faults = 0 =>
        /\ up
        /\ \A ph \in Phase : present[ph] \subseteq KeysOf(ph, Accounted(ph))
        /\ ~speaker => present["route"] = {}

\* What is to be added is wanted.
TodoWanted == work # NoWork /\ work.stage = "add" => work.todo \subseteq work.want[work.phase]

\* A key stays accounted for when its CIDR does.
LEMMA StillAccounted ==
    ASSUME NEW ph, NEW P, NEW S, NEW T, P \subseteq KeysOf(ph, S), S \subseteq T
    PROVE  P \subseteq KeysOf(ph, T)
BY DEF KeysOf

LEMMA TracedInit == Init => Traced /\ TodoWanted
BY DEF Init, Traced, TodoWanted, Phase

LEMMA TodoNext ==
    ASSUME TypeOK, TodoWanted, [Next]_vars
    PROVE  TodoWanted'
<1>1. ASSUME NEW n, NEW want, NEW ph, work' = Enter(n, want, ph)
      PROVE  TodoWanted'
  BY <1>1 DEF Enter, TodoWanted
<1>2. CASE \E n \in Name : Begin(n) \/ BeginFails(n)
  BY <1>1, <1>2 DEF Begin, BeginFails, TodoWanted
<1>3. CASE \E c \in CIDR : AddOne(c)
  <2>1. work \in Work
    BY <1>3, NoWorkOrWork DEF AddOne
  <2> QED BY <1>3, <2>1 DEF AddOne, Work, TodoWanted
<1>4. CASE Track \/ \E c \in CIDR : RemoveOne(c)
  <2>1. work \in Work
    BY <1>4, NoWorkOrWork DEF Track, RemoveOne
  <2>2. work'.stage = "remove"
    BY <1>4, <2>1 DEF Track, RemoveOne, Work
  <2> QED BY <2>2 DEF TodoWanted
<1>5. CASE Advance
  <2>1. work \in Work
    BY <1>5, NoWorkOrWork DEF Advance
  <2>2. CASE work' = NoWork
    BY <2>2 DEF TodoWanted
  <2>3. CASE work' = Enter(work.name, work.want, "ext") \/ work' = Enter(work.name, work.want, "route")
    BY <1>1, <2>3
  <2> QED BY <1>5, <2>1, <2>2, <2>3 DEF Advance, Work, Phase
<1>6. CASE Stop \/ \E c \in CIDR : Refused(c) \/ Fails(c)
  BY <1>6 DEF Stop, Refused, Fails, Abort, TodoWanted
<1>7. CASE UNCHANGED work
  BY <1>7 DEF TodoWanted
<1> QED BY <1>2, <1>3, <1>4, <1>5, <1>6, <1>7
        DEF Next, Step, SpeakerStart, Start, Relabel, Edit, EnvStep, vars

\* Steps that leave the maps alone and drop no CIDR.
LEMMA TracedSame ==
    ASSUME TypeOK, Traced, UNCHANGED <<faults, up, present>>, speaker => speaker',
           \A ph \in Phase : Accounted(ph) \subseteq Accounted(ph)'
    PROVE  Traced'
<1> SUFFICES ASSUME faults' = 0
             PROVE  /\ up'
                    /\ \A ph \in Phase : present'[ph] \subseteq KeysOf(ph, Accounted(ph)')
                    /\ ~speaker' => present'["route"] = {}
  BY DEF Traced, KeysOf
<1>1. \A ph \in Phase : present[ph] \subseteq KeysOf(ph, Accounted(ph)')
  BY StillAccounted DEF Traced
<1> QED BY <1>1 DEF Traced

LEMMA TracedBegin ==
    ASSUME TypeOK, Traced, NEW n \in Name, Begin(n) \/ BeginFails(n)
    PROVE  Traced'
<1>1. CASE Begin(n)
  <2>1. work = NoWork /\ tracked' = tracked
    BY <1>1 DEF Begin
  <2>2. \A ph \in Phase : Accounted(ph) \subseteq Accounted(ph)'
    BY <2>1 DEF Accounted, InHand
  <2> QED BY <1>1, <2>2, TracedSame DEF Begin
<1>2. CASE BeginFails(n)
  BY <1>2 DEF BeginFails, Traced, TypeOK
<1> QED BY <1>1, <1>2

LEMMA TracedAdd ==
    ASSUME TypeOK, TodoWanted, Traced, NEW c \in CIDR, AddOne(c)
    PROVE  Traced'
<1> SUFFICES ASSUME faults = 0, NEW ph \in Phase
             PROVE  /\ up' /\ present'[ph] \subseteq KeysOf(ph, Accounted(ph)')
                    /\ ~speaker' => present'["route"] = {}
  BY DEF Traced, AddOne, KeysOf, Phase
<1>1. work \in Work
  BY NoWorkOrWork DEF AddOne
<1>2. /\ UNCHANGED <<up, speaker, tracked>> /\ work # NoWork
      /\ present' = [present EXCEPT ![work.phase] = @ \cup Range(Keys[work.phase][c])]
      /\ work' = [work EXCEPT !.todo = @ \ {c}] /\ work.stage = "add" /\ c \in work.todo
      /\ work.phase = "route" => speaker
  BY DEF AddOne, Works
<1>3. /\ work'.want = work.want /\ work'.phase = work.phase /\ work'.name = work.name
      /\ work'.stage = "add" /\ work'.todo = work.todo \ {c} /\ work' # NoWork
  BY <1>1, <1>2, RouteAssumption DEF Work, NoWork
<1>4. /\ present[ph] \subseteq KeysOf(ph, Accounted(ph)) /\ up
      /\ ~speaker => present["route"] = {}
  BY DEF Traced
<1>5. Accounted(ph) \subseteq Accounted(ph)'
  BY <1>2, <1>3 DEF Accounted, InHand
<1>6. CASE ph # work.phase
  BY <1>1, <1>2, <1>4, <1>5, <1>6, StillAccounted DEF TypeOK, Work, Phase
<1>7. CASE ph = work.phase
  <2>1. c \in Accounted(ph)'
    BY <1>2, <1>3, <1>7 DEF Accounted, InHand, TodoWanted
  <2> QED BY <1>1, <1>2, <1>4, <1>5, <1>7, <2>1, StillAccounted DEF TypeOK, Work, KeysOf, Phase
<1> QED BY <1>6, <1>7

LEMMA TracedRemove ==
    ASSUME TypeOK, Traced, NEW c \in CIDR, RemoveOne(c)
    PROVE  Traced'
<1> SUFFICES ASSUME faults = 0, NEW ph \in Phase
             PROVE  /\ up' /\ present'[ph] \subseteq KeysOf(ph, Accounted(ph)')
                    /\ ~speaker' => present'["route"] = {}
  BY DEF Traced, RemoveOne, KeysOf, Phase
<1>1. work \in Work
  BY NoWorkOrWork DEF RemoveOne
<1>2. /\ UNCHANGED <<up, speaker, tracked>> /\ work # NoWork
      /\ present' = [present EXCEPT ![work.phase] = @ \ Range(Keys[work.phase][c])]
      /\ work' = [work EXCEPT !.todo = @ \ {c}] /\ work.stage = "remove" /\ c \in work.todo
  BY DEF RemoveOne
<1>3. /\ work'.want = work.want /\ work'.phase = work.phase /\ work'.name = work.name
      /\ work'.stage = "remove" /\ work'.todo = work.todo \ {c} /\ work' # NoWork
  BY <1>1, <1>2, RouteAssumption DEF Work, NoWork
<1>4. /\ present[ph] \subseteq KeysOf(ph, Accounted(ph)) /\ up
      /\ ~speaker => present["route"] = {}
  BY DEF Traced
<1>5. ~speaker' => present'["route"] = {}
  BY <1>1, <1>2, <1>4 DEF TypeOK, Work, Phase
<1>6. CASE ph # work.phase
  <2>1. Accounted(ph) \subseteq Accounted(ph)'
    BY <1>2, <1>3, <1>6 DEF Accounted, InHand
  <2> QED BY <1>1, <1>2, <1>4, <1>5, <1>6, <2>1, StillAccounted DEF TypeOK, Work
<1>7. CASE ph = work.phase
  <2>1. Accounted(ph) \ {c} \subseteq Accounted(ph)'
    BY <1>2, <1>3, <1>7 DEF Accounted, InHand
  <2>2. present'[ph] = present[ph] \ Range(Keys[ph][c])
    BY <1>1, <1>2, <1>7 DEF TypeOK, Work
  <2>3. present'[ph] \subseteq KeysOf(ph, Accounted(ph)')
    BY <1>4, <2>1, <2>2 DEF KeysOf
  <2> QED BY <1>2, <1>4, <1>5, <2>3
<1> QED BY <1>6, <1>7

\* What a NATConfig no longer wants is in the hands of the reconcile or
\* tracked by another NATConfig.
LEMMA TracedTrack ==
    ASSUME TypeOK, Traced, Track
    PROVE  Traced'
<1>1. work \in Work
  BY NoWorkOrWork DEF Track
<1>2. /\ UNCHANGED <<faults, up, speaker, present>> /\ work # NoWork
      /\ work.stage = "add" /\ work.todo = {}
      /\ tracked' = [tracked EXCEPT ![work.phase][work.name] = work.want[work.phase]]
      /\ work' = [work EXCEPT !.stage = "remove",
                              !.todo = Dropped(work.phase, work.name, work.want[work.phase])]
  BY DEF Track
<1>3. /\ work'.want = work.want /\ work'.phase = work.phase /\ work'.name = work.name
      /\ work'.stage = "remove" /\ work' # NoWork
      /\ work'.todo = Dropped(work.phase, work.name, work.want[work.phase])
  BY <1>1, <1>2, RouteAssumption DEF Work, NoWork
<1>4. /\ tracked'[work.phase][work.name] = work.want[work.phase]
      /\ \A q \in Phase, m \in Name :
            q # work.phase \/ m # work.name => tracked'[q][m] = tracked[q][m]
  BY <1>1, <1>2 DEF TypeOK, Work
<1>5. ASSUME NEW ph \in Phase, NEW c \in Accounted(ph)
      PROVE  c \in Accounted(ph)'
  <2>1. CASE ph # work.phase
    BY <1>2, <1>3, <1>4, <1>5, <2>1 DEF Accounted, InHand
  <2>2. CASE ph = work.phase
    <3>1. c \in work.want[ph] => c \in Accounted(ph)'
      BY <1>1, <1>4, <2>2 DEF Accounted, Work
    <3>2. ASSUME NEW m \in Name, m # work.name, c \in tracked[ph][m]
          PROVE  c \in Accounted(ph)'
      BY <1>4, <3>2 DEF Accounted
    <3>3. CASE c \in InHand(ph)
      BY <1>2, <2>2, <3>1, <3>3 DEF InHand
    <3>4. CASE c \in tracked[ph][work.name] /\ c \notin work.want[ph] /\ ~UsedByOther(ph, work.name, c)
      <4>1. c \in work'.todo
        BY <1>3, <2>2, <3>4 DEF Dropped
      <4> QED BY <1>3, <2>2, <4>1 DEF Accounted, InHand
    <3> QED BY <1>5, <3>1, <3>2, <3>3, <3>4 DEF Accounted, UsedByOther
  <2> QED BY <2>1, <2>2
<1> QED BY <1>2, <1>5, TracedSame

LEMMA TracedAdvance ==
    ASSUME TypeOK, Traced, Advance
    PROVE  Traced'
<1>1. work # NoWork /\ work.stage = "remove" /\ work.todo = {} /\ tracked' = tracked
  BY DEF Advance
<1>2. \A ph \in Phase : InHand(ph) = {}
  BY <1>1 DEF InHand
<1>3. \A ph \in Phase : Accounted(ph) \subseteq Accounted(ph)'
  BY <1>1, <1>2 DEF Accounted
<1> QED BY <1>3, TracedSame DEF Advance

\* An operation that is refused without a failure found no BGP server, and
\* then nothing is advertised that could be left behind.
LEMMA TracedRefused ==
    ASSUME TypeOK, Traced, MaxFaults # 0, NEW c \in CIDR, Refused(c)
    PROVE  Traced'
<1> SUFFICES ASSUME faults' = 0, NEW ph \in Phase
             PROVE  /\ up' /\ present'[ph] \subseteq KeysOf(ph, Accounted(ph)')
                    /\ ~speaker' => present'["route"] = {}
  BY DEF Traced, KeysOf, Phase
<1>1. work \in Work /\ work # NoWork
  BY NoWorkOrWork DEF Refused
<1>2. faults = 0 /\ c \notin Bad
  BY RouteAssumption DEF Refused, TypeOK
<1>3. work.phase = "route" /\ ~speaker
  BY <1>2 DEF Refused, Works
<1>4. /\ UNCHANGED <<up, speaker, tracked>> /\ work' = NoWork
      /\ present' = [present EXCEPT ![work.phase] =
                        IF work.stage = "add" THEN @ \cup Range(SubSeq(Keys[work.phase][c], 1, 0))
                        ELSE @ \ Range(SubSeq(Keys[work.phase][c], 1, 0))]
  BY DEF Refused, Abort
<1>5. Range(SubSeq(Keys[work.phase][c], 1, 0)) = {}
  BY <1>1, RouteAssumption DEF Range, Work
<1>6. present'["route"] = present["route"] /\ (ph # "route" => present'[ph] = present[ph])
  BY <1>3, <1>4, <1>5 DEF TypeOK, Phase
<1>7. /\ present[ph] \subseteq KeysOf(ph, Accounted(ph)) /\ up
      /\ present["route"] = {}
  BY <1>2, <1>3 DEF Traced
<1>8. ph # "route" => Accounted(ph) \subseteq Accounted(ph)'
  BY <1>3, <1>4 DEF Accounted, InHand
<1>9. ph # "route" => present'[ph] \subseteq KeysOf(ph, Accounted(ph)')
  BY <1>6, <1>7, <1>8, StillAccounted
<1> QED BY <1>4, <1>6, <1>7, <1>9

LEMMA TracedRest ==
    ASSUME TypeOK, Traced,
           \/ \E c \in CIDR : Fails(c)
           \/ SpeakerStart \/ Stop \/ Start \/ Relabel \/ \E n \in Name : Edit(n)
           \/ UNCHANGED vars
    PROVE  Traced'
<1>1. CASE Stop \/ \E c \in CIDR : Fails(c)
  BY <1>1 DEF Stop, Fails, Traced, TypeOK
<1>2. CASE Start
  <2>1. faults' = faults /\ ~up
    BY <1>2 DEF Start
  <2> QED BY <2>1 DEF Traced
<1>3. CASE UNCHANGED <<faults, up, tracked, work, present>> /\ (speaker => speaker')
  <2>1. \A ph \in Phase : Accounted(ph) \subseteq Accounted(ph)'
    BY <1>3 DEF Accounted, InHand
  <2> QED BY <1>3, <2>1, TracedSame
<1> QED BY <1>1, <1>2, <1>3 DEF SpeakerStart, Relabel, Edit, EnvStep, vars

LEMMA TracedNext ==
    ASSUME MaxFaults # 0, TypeOK, TodoWanted, Traced, [Next]_vars
    PROVE  Traced'
<1>1. CASE \E n \in Name : Begin(n) \/ BeginFails(n)
  BY <1>1, TracedBegin
<1>2. CASE \E c \in CIDR : AddOne(c) \/ RemoveOne(c)
  BY <1>2, TracedAdd, TracedRemove
<1>3. CASE \E c \in CIDR : Refused(c)
  BY <1>3, TracedRefused
<1>4. CASE Track \/ Advance
  BY <1>4, TracedTrack, TracedAdvance
<1>5. CASE \/ \E c \in CIDR : Fails(c)
           \/ SpeakerStart \/ Stop \/ Start \/ Relabel \/ \E n \in Name : Edit(n)
           \/ UNCHANGED vars
  BY <1>5, TracedRest
<1> QED BY <1>1, <1>2, <1>3, <1>4, <1>5 DEF Next, Step

\* At rest the tracking is what the NATConfigs want, and it accounts for all
\* there is.
LEMMA TracedExact ==
    ASSUME TypeOK, Ledger, Traced
    PROVE  NoStrays
<1> SUFFICES ASSUME faults = 0, AtRest, NEW ph \in Phase
             PROVE  present[ph] = UNION {KeysOf(ph, Desired(n)[ph]) : n \in Name}
  BY DEF NoStrays, Exact
<1>1. work = NoWork /\ \A n \in Name : Settled(n)
  BY NoWorkOrWork DEF AtRest, Settled
<1>2. \A n \in Name : tracked[ph][n] = Desired(n)[ph]
  BY <1>1 DEF Ledger
<1>3. \A n \in Name : KeysOf(ph, Desired(n)[ph]) \subseteq present[ph]
  BY <1>2 DEF Ledger, TrackedPresent
<1>4. Accounted(ph) = UNION {Desired(n)[ph] : n \in Name}
  BY <1>1, <1>2 DEF Accounted, InHand
<1>5. present[ph] \subseteq KeysOf(ph, UNION {Desired(n)[ph] : n \in Name})
  BY <1>4 DEF Traced
<1> QED BY <1>3, <1>5 DEF KeysOf

\* As long as nothing has failed, the daemon leaves nothing behind: at rest
\* target_cidrs, dst_kind and the advertised routes hold what the NATConfigs
\* want and nothing else, for any number of them and of CIDRs that do not
\* overlap.  (A CIDR that does not parse is a failure, so failures have to
\* be counted: MaxFaults is not 0.)
THEOREM NoStraysHolds == KeysApart /\ MaxFaults # 0 => (Safety => []NoStrays)
<1> SUFFICES ASSUME KeysApart, MaxFaults # 0 PROVE Safety => []NoStrays
  OBVIOUS
<1> DEFINE I == TypeOK /\ Ledger /\ Traced /\ TodoWanted
<1>1. Init => I
  BY TypeInit, LedgerInit, TracedInit
<1>2. I /\ [Next]_vars => I'
  BY TypeNext, LedgerNext, TracedNext, TodoNext
<1>3. I => NoStrays
  BY TracedExact
<1> QED BY <1>1, <1>2, <1>3, PTL DEF Safety
=============================================================================
