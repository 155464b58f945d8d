-------------------------- MODULE DaemonSyncProof ---------------------------
(***************************************************************************)
(* Proofs about the NATPortRange sync of a daemon: TypeOK in every         *)
(* environment; NeverMisrouted, LiveMapped, KeptMapped, NoStrays and       *)
(* PodKindKept when the daemon keeps up with the API, whatever map calls   *)
(* fail.  A reconcile is looked at as the set of the operations that are   *)
(* still to be done, which Rank orders as far as their order matters.      *)
(***************************************************************************)
EXTENDS DaemonSync, FiniteSetTheorems, TLAPS

USE ZenonT(10), SMTT(30)
USE DEF LookupAdd, PortsAdd, PortsRemove, KindAdd, KindRemove

Rank(o) ==
    CASE o.op = "lookupRemove" -> 1 [] o.op = "lookupAdd" -> 2
      [] o.op = "portsRemove"  -> 3 [] o.op = "portsAdd"  -> 4
      [] o.op = "kindAdd"      -> 5
      [] o.op = "cfgRemove"    -> 6 [] o.op = "cfgUpsert" -> 7
      [] o.op = "kindRemove"   -> 8

\* The sequence s has each element of X once, by rank.
Lists(s, X) ==
    /\ s \in Seq(X)
    /\ \A x \in X : \E i \in 1 .. Len(s) : s[i] = x
    /\ \A i, j \in 1 .. Len(s) : s[i] = s[j] => i = j
    /\ \A i, j \in 1 .. Len(s) : i < j => Rank(s[i]) <= Rank(s[j])

\* SetToSeq goes through a finite set, each element once.
LEMMA SetToSeqFacts ==
    ASSUME NEW S, IsFiniteSet(S)
    PROVE  /\ SetToSeq(S) \in Seq(S)
           /\ \A x \in S : \E i \in 1 .. Len(SetToSeq(S)) : SetToSeq(S)[i] = x
           /\ \A i, j \in 1 .. Len(SetToSeq(S)) : SetToSeq(S)[i] = SetToSeq(S)[j] => i = j
<1> DEFINE n == Cardinality(S)
           f == SetToSeq(S)
<1>1. n \in Nat /\ ExistsBijection(1 .. n, S)
    BY FS_CardinalityType
<1>2. \E g \in [1 .. n -> S] : IsInjective(g)
    BY <1>1 DEF ExistsBijection, Bijection, Injection, IsInjective
<1>3. f \in [1 .. n -> S] /\ IsInjective(f)
    BY <1>2 DEF SetToSeq
<1>4. IsFiniteSet(1 .. n) /\ Cardinality(1 .. n) = n
    BY SMTT(30), <1>1, FS_Interval
<1>5. f \in Injection(1 .. n, S)
    BY <1>3 DEF Injection
<1>6. f \in Surjection(1 .. n, S)
    BY <1>4, <1>5, FS_Injection
<1> HIDE DEF f, n
<1>7. f \in Seq(S) /\ Len(f) = n
    BY SMTT(30), <1>1, <1>3
<1> QED
    BY <1>3, <1>6, <1>7 DEF Surjection, IsInjective, f

\* The operations of one loop of a reconcile are of one rank.
LEMMA ListsSet ==
    ASSUME NEW X, IsFiniteSet(X), NEW r \in Int, \A x \in X : Rank(x) = r
    PROVE  Lists(SetToSeq(X), X)
<1> DEFINE s == SetToSeq(X)
<1>1. /\ s \in Seq(X)
      /\ \A x \in X : \E i \in 1 .. Len(s) : s[i] = x
      /\ \A i, j \in 1 .. Len(s) : s[i] = s[j] => i = j
    BY SetToSeqFacts
<1> HIDE DEF s
<1>2. \A i \in 1 .. Len(s) : s[i] \in X
    BY SMTT(30), <1>1
<1>3. \A i, j \in 1 .. Len(s) : i < j => Rank(s[i]) <= Rank(s[j])
    BY SMTT(30), <1>2
<1> QED
    BY <1>1, <1>3 DEF Lists, s

LEMMA ListsEmpty == Lists(<< >>, {})
BY SMTT(30) DEF Lists

\* One loop after another.
LEMMA ListsJoin ==
    ASSUME NEW X, NEW Y, NEW s, NEW t, Lists(s, X), Lists(t, Y),
           \A x \in X, y \in Y : x # y /\ Rank(x) <= Rank(y)
    PROVE  Lists(s \o t, X \cup Y)
<1> DEFINE u == s \o t
<1>1. s \in Seq(X \cup Y) /\ t \in Seq(X \cup Y) /\ Len(s) \in Nat /\ Len(t) \in Nat
    BY SMTT(30) DEF Lists
<1>2. /\ u \in Seq(X \cup Y) /\ Len(u) = Len(s) + Len(t)
      /\ \A i \in 1 .. Len(s) : u[i] = s[i]
      /\ \A i \in Len(s) + 1 .. Len(u) : u[i] = t[i - Len(s)]
    BY SMTT(30), <1>1
<1>3. \A i \in 1 .. Len(t) : i + Len(s) \in Len(s) + 1 .. Len(u) /\ u[i + Len(s)] = t[i]
    <2> SUFFICES ASSUME NEW i \in 1 .. Len(t)
                 PROVE  i + Len(s) \in Len(s) + 1 .. Len(u) /\ u[i + Len(s)] = t[i]
        OBVIOUS
    <2>1. i + Len(s) \in Len(s) + 1 .. Len(u) /\ (i + Len(s)) - Len(s) = i
        BY SMTT(30), <1>1, <1>2
    <2> QED
        BY <1>2, <2>1
<1> HIDE DEF u
<1>4. /\ \A i \in 1 .. Len(s) : s[i] \in X
      /\ \A i \in 1 .. Len(t) : t[i] \in Y
    BY SMTT(30) DEF Lists
<1>5. \A x \in X \cup Y : \E i \in 1 .. Len(u) : u[i] = x
    <2>1. ASSUME NEW x \in X PROVE \E i \in 1 .. Len(u) : u[i] = x
        <3>1. PICK i \in 1 .. Len(s) : s[i] = x
            BY DEF Lists
        <3> QED
            BY SMTT(30), <3>1, <1>1, <1>2
    <2>2. ASSUME NEW x \in Y PROVE \E i \in 1 .. Len(u) : u[i] = x
        <3>1. PICK i \in 1 .. Len(t) : t[i] = x
            BY DEF Lists
        <3>2. i + Len(s) \in 1 .. Len(u)
            BY SMTT(30), <1>1, <1>2
        <3> QED
            BY <3>1, <3>2, <1>3
    <2> QED
        BY <2>1, <2>2
<1>6. ASSUME NEW i \in 1 .. Len(u), NEW j \in 1 .. Len(u)
      PROVE  (u[i] = u[j] => i = j) /\ (i < j => Rank(u[i]) <= Rank(u[j]))
    <2>1. CASE i <= Len(s) /\ j <= Len(s)
        <3>1. i \in 1 .. Len(s) /\ j \in 1 .. Len(s)
            BY SMTT(30), <2>1, <1>1
        <3>2. u[i] = s[i] /\ u[j] = s[j]
            BY <3>1, <1>2
        <3>3. (s[i] = s[j] => i = j) /\ (i < j => Rank(s[i]) <= Rank(s[j]))
            BY <3>1 DEF Lists
        <3> QED
            BY <3>2, <3>3
    <2>2. CASE i <= Len(s) /\ ~(j <= Len(s))
        <3>1. i \in 1 .. Len(s) /\ j - Len(s) \in 1 .. Len(t) /\ j \in Len(s) + 1 .. Len(u)
            BY SMTT(30), <2>2, <1>1, <1>2
        <3>2. u[i] \in X /\ u[j] \in Y
            BY <3>1, <1>2, <1>4
        <3> QED
            BY <3>2
    <2>3. CASE ~(i <= Len(s)) /\ j <= Len(s)
        <3>1. j \in 1 .. Len(s) /\ i - Len(s) \in 1 .. Len(t) /\ i \in Len(s) + 1 .. Len(u) /\ ~(i < j)
            BY SMTT(30), <2>3, <1>1, <1>2
        <3>2. u[j] \in X /\ u[i] \in Y
            BY <3>1, <1>2, <1>4
        <3> QED
            BY <3>1, <3>2
    <2>4. CASE ~(i <= Len(s)) /\ ~(j <= Len(s))
        <3>1. /\ i - Len(s) \in 1 .. Len(t) /\ i \in Len(s) + 1 .. Len(u)
              /\ j - Len(s) \in 1 .. Len(t) /\ j \in Len(s) + 1 .. Len(u)
            BY SMTT(30), <2>4, <1>1, <1>2
        <3>2. u[i] = t[i - Len(s)] /\ u[j] = t[j - Len(s)]
            BY <3>1, <1>2
        <3>3. (i - Len(s) = j - Len(s) => i = j) /\ (i < j => i - Len(s) < j - Len(s))
            BY SMTT(30), <1>1
        <3> QED
            BY ZenonT(60), <3>1, <3>2, <3>3 DEF Lists
    <2> QED
        BY <2>1, <2>2, <2>3, <2>4
<1> QED
    BY <1>2, <1>5, <1>6 DEF Lists, u

Ops(s) == {s[i] : i \in 1 .. Len(s)}

LEMMA ListsOps ==
    ASSUME NEW X, NEW s, Lists(s, X)
    PROVE  X = Ops(s) /\ Lists(s, Ops(s)) /\ (s = << >> <=> Ops(s) = {})
<1>1. X = Ops(s)
    BY SMTT(30) DEF Lists, Ops
<1>2. s \in Seq(X)
    BY DEF Lists
<1>3. s # << >> => 1 \in 1 .. Len(s)
    BY SMTT(30), <1>2
<1>4. s = << >> => 1 .. Len(s) = {}
    BY SMTT(30), <1>2
<1> QED
    BY <1>1, <1>3, <1>4 DEF Ops

\* Done with the first operation, the rest is still in order.
LEMMA ListsTail ==
    ASSUME NEW X, NEW s, Lists(s, X), s # << >>
    PROVE  /\ Head(s) \in X
           /\ Lists(Tail(s), X \ {Head(s)})
           /\ \A y \in X \ {Head(s)} : Rank(Head(s)) <= Rank(y)
<1> DEFINE t == Tail(s)
<1>1. /\ s \in Seq(X) /\ Len(s) \in Nat /\ Len(s) # 0 /\ Head(s) = s[1] /\ 1 \in 1 .. Len(s)
      /\ t \in Seq(X) /\ Len(t) = Len(s) - 1
      /\ \A i \in 1 .. Len(t) : t[i] = s[i + 1]
    BY SMTT(30) DEF Lists
<1> HIDE DEF t
<1>2. \A i \in 1 .. Len(t) : i + 1 \in 1 .. Len(s) /\ i + 1 # 1 /\ 1 < i + 1
    BY SMTT(30), <1>1
<1>3. \A i \in 1 .. Len(s) : s[i] \in X
    BY SMTT(30), <1>1
<1>a. \A i, j \in 1 .. Len(s) : s[i] = s[j] => i = j
    BY DEF Lists
<1>b. \A i, j \in 1 .. Len(s) : i < j => Rank(s[i]) <= Rank(s[j])
    BY DEF Lists
<1>4. ASSUME NEW i \in 1 .. Len(t) PROVE t[i] \in X \ {Head(s)}
    <2>1. i + 1 \in 1 .. Len(s) /\ i + 1 # 1 /\ t[i] = s[i + 1]
        BY <1>1, <1>2
    <2>2. s[i + 1] # s[1]
        BY <2>1, <1>a, <1>1
    <2> QED
        BY <2>1, <2>2, <1>1, <1>3
<1>5. t \in Seq(X \ {Head(s)})
    BY SMTT(30), <1>1, <1>4
<1>6. ASSUME NEW x \in X \ {Head(s)} PROVE \E i \in 1 .. Len(t) : t[i] = x
    <2>1. PICK i \in 1 .. Len(s) : s[i] = x
        BY DEF Lists
    <2>2. i # 1
        BY <2>1, <1>1
    <2>3. i - 1 \in 1 .. Len(t) /\ (i - 1) + 1 = i
        BY SMTT(30), <2>2, <1>1
    <2> QED
        BY <2>1, <2>3, <1>1
<1>7. ASSUME NEW i \in 1 .. Len(t), NEW j \in 1 .. Len(t)
      PROVE  (t[i] = t[j] => i = j) /\ (i < j => Rank(t[i]) <= Rank(t[j]))
    <2>1. (i + 1 = j + 1 => i = j) /\ (i < j => i + 1 < j + 1)
        BY SMTT(30), <1>1
    <2>2. i + 1 \in 1 .. Len(s) /\ j + 1 \in 1 .. Len(s) /\ t[i] = s[i + 1] /\ t[j] = s[j + 1]
        BY <1>1, <1>2
    <2>3. s[i + 1] = s[j + 1] => i + 1 = j + 1
        BY <2>2, <1>a
    <2>4. i + 1 < j + 1 => Rank(s[i + 1]) <= Rank(s[j + 1])
        BY <2>2, <1>b
    <2> QED
        BY <2>1, <2>2, <2>3, <2>4
<1>8. ASSUME NEW y \in X \ {Head(s)} PROVE Rank(Head(s)) <= Rank(y)
    <2>1. PICK i \in 1 .. Len(t) : t[i] = y
        BY <1>6
    <2>2. i + 1 \in 1 .. Len(s) /\ 1 < i + 1 /\ s[i + 1] = y
        BY <2>1, <1>1, <1>2
    <2>3. Rank(s[1]) <= Rank(s[i + 1])
        BY <2>2, <1>1, <1>b
    <2> QED
        BY <2>2, <2>3, <1>1
<1> QED
    BY SMTT(30), <1>1, <1>3, <1>5, <1>6, <1>7, <1>8 DEF Lists, t

-----------------------------------------------------------------------------
(* The operations of a reconcile.                                          *)

SlotOps(op, S)     == {[op |-> op, slot |-> s] : s \in S}
CfgRemoves(C, ips) == {[op |-> "cfgRemove", cidr |-> c, ips |-> ips] : c \in C}
CfgUpserts(C, S)   == {[op |-> "cfgUpsert", cidr |-> c, slot |-> s] : c \in C, s \in S}

LEMMA SlotOpsFinite ==
    ASSUME NEW op, NEW S, IsFiniteSet(S)
    PROVE  IsFiniteSet(SlotOps(op, S))
<1> DEFINE f == [s \in S |-> [op |-> op, slot |-> s]]
<1>1. f \in Surjection(S, SlotOps(op, S))
    BY DEF Surjection, SlotOps
<1> QED
    BY <1>1, FS_Surjection

LEMMA CfgRemovesFinite ==
    ASSUME NEW C, NEW ips, IsFiniteSet(C)
    PROVE  IsFiniteSet(CfgRemoves(C, ips))
<1> DEFINE f == [c \in C |-> [op |-> "cfgRemove", cidr |-> c, ips |-> ips]]
<1>1. f \in Surjection(C, CfgRemoves(C, ips))
    BY DEF Surjection, CfgRemoves
<1> QED
    BY <1>1, FS_Surjection

LEMMA CfgUpsertsFinite ==
    ASSUME NEW C, NEW S, IsFiniteSet(C), IsFiniteSet(S)
    PROVE  IsFiniteSet(CfgUpserts(C, S))
<1> DEFINE f == [x \in C \X S |-> [op |-> "cfgUpsert", cidr |-> x[1], slot |-> x[2]]]
<1>1. f \in [C \X S -> CfgUpserts(C, S)]
    BY SMTT(30) DEF CfgUpserts
<1>2. ASSUME NEW o \in CfgUpserts(C, S) PROVE \E x \in C \X S : f[x] = o
    <2>1. PICK c \in C, s \in S : o = [op |-> "cfgUpsert", cidr |-> c, slot |-> s]
        BY SMTT(30) DEF CfgUpserts
    <2>2. <<c, s>> \in C \X S /\ f[<<c, s>>] = o
        BY <2>1
    <2> QED
        BY <2>2
<1>3. f \in Surjection(C \X S, CfgUpserts(C, S))
    BY <1>1, <1>2 DEF Surjection
<1> QED
    BY SMTT(30), <1>3, FS_Product, FS_Surjection

\* What syncAlive does, from a cache with OA and OC to a spec with A and C.
AliveOps(n, A, C, OA, OC) ==
    (SlotOps("lookupRemove", OA \ A) \cup SlotOps("lookupAdd", A \ OA))
    \cup IF n \notin Local THEN {} ELSE
          (((((SlotOps("portsRemove", OA \ A) \cup SlotOps("portsAdd", A \ OA))
       \cup {[op |-> "kindAdd"]})
       \cup CfgRemoves(OC \ (C \cap OC), IPsOf(OA)))
       \cup (IF OA \ A = {} THEN {} ELSE CfgRemoves(C \cap OC, IPsOf(OA \ A))))
       \cup CfgUpserts(C \ (C \cap OC), A))
       \cup CfgUpserts(C \cap OC, A \ OA)

\* What syncStale does.
StaleOps(n, A, C, used) ==
    SlotOps("lookupRemove", A)
    \cup IF n \notin Local THEN {} ELSE
          (SlotOps("portsRemove", A) \cup CfgRemoves(C, IPsOf(A)))
       \cup IF used THEN {} ELSE {[op |-> "kindRemove"]}

LEMMA OpsIn ==
    ASSUME NEW o
    PROVE  /\ \A op, S : o \in SlotOps(op, S) <=> \E s \in S : o = [op |-> op, slot |-> s]
           /\ \A C, ips : o \in CfgRemoves(C, ips) <=>
                  \E c \in C : o = [op |-> "cfgRemove", cidr |-> c, ips |-> ips]
           /\ \A C, S : o \in CfgUpserts(C, S) <=>
                  \E c \in C, s \in S : o = [op |-> "cfgUpsert", cidr |-> c, slot |-> s]
BY SMTT(30) DEF SlotOps, CfgRemoves, CfgUpserts

LEMMA SlotOpsList ==
    ASSUME NEW op \in {"lookupRemove", "lookupAdd", "portsRemove", "portsAdd"},
           NEW S, IsFiniteSet(S)
    PROVE  /\ Lists(OnSlots(op, S), SlotOps(op, S))
           /\ \A x \in SlotOps(op, S) :
                 /\ x.op = op
                 /\ op = "lookupRemove" => Rank(x) = 1
                 /\ op = "lookupAdd" => Rank(x) = 2
                 /\ op = "portsRemove" => Rank(x) = 3
                 /\ op = "portsAdd" => Rank(x) = 4
<1>1. \A x \in SlotOps(op, S) : x.op = op
    BY SMTT(30) DEF SlotOps
<1>2. /\ op = "lookupRemove" => \A x \in SlotOps(op, S) : Rank(x) = 1
      /\ op = "lookupAdd" => \A x \in SlotOps(op, S) : Rank(x) = 2
      /\ op = "portsRemove" => \A x \in SlotOps(op, S) : Rank(x) = 3
      /\ op = "portsAdd" => \A x \in SlotOps(op, S) : Rank(x) = 4
    BY <1>1 DEF Rank
<1>3. \E r \in Int : \A x \in SlotOps(op, S) : Rank(x) = r
    BY SMTT(30), <1>2
<1>4. Lists(SetToSeq(SlotOps(op, S)), SlotOps(op, S))
    BY <1>3, SlotOpsFinite, ListsSet
<1>5. OnSlots(op, S) = SetToSeq(SlotOps(op, S))
    BY DEF OnSlots, SlotOps
<1> QED
    BY <1>1, <1>2, <1>4, <1>5

LEMMA CfgRemovesList ==
    ASSUME NEW C, NEW ips, IsFiniteSet(C)
    PROVE  /\ Lists(OnConfig(C, ips), CfgRemoves(C, ips))
           /\ \A x \in CfgRemoves(C, ips) : x.op = "cfgRemove" /\ x.cidr \in C /\ Rank(x) = 6
<1>1. \A x \in CfgRemoves(C, ips) : x.op = "cfgRemove" /\ x.cidr \in C
    BY SMTT(30) DEF CfgRemoves
<1>2. \A x \in CfgRemoves(C, ips) : Rank(x) = 6
    BY <1>1 DEF Rank
<1>3. Lists(SetToSeq(CfgRemoves(C, ips)), CfgRemoves(C, ips))
    BY SMTT(30), <1>2, CfgRemovesFinite, ListsSet
<1> QED
    BY <1>1, <1>2, <1>3 DEF OnConfig, CfgRemoves

LEMMA CfgUpsertsList ==
    ASSUME NEW C, NEW S, IsFiniteSet(C), IsFiniteSet(S)
    PROVE  /\ Lists(Upserts(C, S), CfgUpserts(C, S))
           /\ \A x \in CfgUpserts(C, S) : x.op = "cfgUpsert" /\ x.cidr \in C /\ Rank(x) = 7
<1>1. \A x \in CfgUpserts(C, S) : x.op = "cfgUpsert" /\ x.cidr \in C
    BY SMTT(30) DEF CfgUpserts
<1>2. \A x \in CfgUpserts(C, S) : Rank(x) = 7
    BY <1>1 DEF Rank
<1>3. Lists(SetToSeq(CfgUpserts(C, S)), CfgUpserts(C, S))
    BY SMTT(30), <1>2, CfgUpsertsFinite, ListsSet
<1> QED
    BY SMTT(30), <1>1, <1>2, <1>3 DEF Upserts, CfgUpserts

LEMMA KindList ==
    ASSUME NEW op \in {"kindAdd", "kindRemove"}
    PROVE  /\ Lists(<< [op |-> op] >>, {[op |-> op]})
           /\ \A x \in {[op |-> op]} : /\ x.op = op
                                       /\ op = "kindAdd" => Rank(x) = 5
                                       /\ op = "kindRemove" => Rank(x) = 8
<1> DEFINE k == [op |-> op]
<1>1. k.op = op /\ (op = "kindAdd" => Rank(k) = 5) /\ (op = "kindRemove" => Rank(k) = 8)
    BY DEF Rank
<1> HIDE DEF k
<1>2. Lists(<<k>>, {k})
    BY SMTT(30) DEF Lists
<1> QED
    BY <1>1, <1>2 DEF k

LEMMA AliveLists ==
    ASSUME NEW n,
           IsFiniteSet(npr[n].allocs), IsFiniteSet(npr[n].cidrs),
           IsFiniteSet(OldAllocs(n)), IsFiniteSet(OldCIDRs(n))
    PROVE  Lists(SyncAlive(n),
                 AliveOps(n, npr[n].allocs, npr[n].cidrs, OldAllocs(n), OldCIDRs(n)))
<1> DEFINE A == npr[n].allocs
           C == npr[n].cidrs
           OA == OldAllocs(n)
           OC == OldCIDRs(n)
           rem == OA \ A
           add == A \ OA
           same == C \cap OC
           S1 == OnSlots("lookupRemove", rem)
           S2 == OnSlots("lookupAdd", add)
           S3 == OnSlots("portsRemove", rem)
           S4 == OnSlots("portsAdd", add)
           S5 == << [op |-> "kindAdd"] >>
           S6 == OnConfig(OC \ same, IPsOf(OA))
           S7 == IF rem = {} THEN << >> ELSE OnConfig(same, IPsOf(rem))
           S8 == Upserts(C \ same, A)
           S9 == Upserts(same, add)
           X1 == SlotOps("lookupRemove", rem)
           X2 == SlotOps("lookupAdd", add)
           X3 == SlotOps("portsRemove", rem)
           X4 == SlotOps("portsAdd", add)
           X5 == {[op |-> "kindAdd"]}
           X6 == CfgRemoves(OC \ same, IPsOf(OA))
           X7 == IF rem = {} THEN {} ELSE CfgRemoves(same, IPsOf(rem))
           X8 == CfgUpserts(C \ same, A)
           X9 == CfgUpserts(same, add)
<1>1. /\ IsFiniteSet(rem) /\ IsFiniteSet(add) /\ IsFiniteSet(same)
      /\ IsFiniteSet(OC \ same) /\ IsFiniteSet(C \ same)
    BY FS_Subset
<1>2. Lists(S1, X1) /\ \A x \in X1 : x.op = "lookupRemove" /\ Rank(x) = 1
    BY <1>1, SlotOpsList
<1>3. Lists(S2, X2) /\ \A x \in X2 : x.op = "lookupAdd" /\ Rank(x) = 2
    BY <1>1, SlotOpsList
<1>4. Lists(S3, X3) /\ \A x \in X3 : x.op = "portsRemove" /\ Rank(x) = 3
    BY <1>1, SlotOpsList
<1>5. Lists(S4, X4) /\ \A x \in X4 : x.op = "portsAdd" /\ Rank(x) = 4
    BY <1>1, SlotOpsList
<1>6. Lists(S5, X5) /\ \A x \in X5 : x.op = "kindAdd" /\ Rank(x) = 5
    BY KindList
<1>7. Lists(S6, X6) /\ \A x \in X6 : x.op = "cfgRemove" /\ x.cidr \in OC \ same /\ Rank(x) = 6
    BY <1>1, CfgRemovesList
<1>8. Lists(S7, X7) /\ \A x \in X7 : x.op = "cfgRemove" /\ x.cidr \in same /\ Rank(x) = 6
    BY <1>1, CfgRemovesList, ListsEmpty
<1>9. Lists(S8, X8) /\ \A x \in X8 : x.op = "cfgUpsert" /\ x.cidr \in C \ same /\ Rank(x) = 7
    BY <1>1, CfgUpsertsList
<1>10. Lists(S9, X9) /\ \A x \in X9 : x.op = "cfgUpsert" /\ x.cidr \in same /\ Rank(x) = 7
    BY <1>1, CfgUpsertsList
<1>11. /\ SyncAlive(n) = (S1 \o S2) \o IF n \notin Local THEN << >> ELSE
                           (((((S3 \o S4) \o S5) \o S6) \o S7) \o S8) \o S9
       /\ AliveOps(n, A, C, OA, OC) = (X1 \cup X2) \cup IF n \notin Local THEN {} ELSE
                           (((((X3 \cup X4) \cup X5) \cup X6) \cup X7) \cup X8) \cup X9
    BY DEF SyncAlive, AliveOps
<1> HIDE DEF S1, S2, S3, S4, S5, S6, S7, S8, S9, X1, X2, X3, X4, X5, X6, X7, X8, X9, same
<1>12. Lists(S1 \o S2, X1 \cup X2)
    <2>1. \A x \in X1, y \in X2 : x # y /\ Rank(x) <= Rank(y)
        BY SMTT(30), <1>2, <1>3
    <2> QED
        BY <2>1, <1>2, <1>3, ListsJoin
<1>13. Lists(S3 \o S4, X3 \cup X4)
    <2>1. \A x \in X3, y \in X4 : x # y /\ Rank(x) <= Rank(y)
        BY SMTT(30), <1>4, <1>5
    <2> QED
        BY <2>1, <1>4, <1>5, ListsJoin
<1>14. Lists((S3 \o S4) \o S5, (X3 \cup X4) \cup X5)
    <2>1. \A x \in X3 \cup X4, y \in X5 : x # y /\ Rank(x) <= Rank(y)
        BY SMTT(30), <1>4, <1>5, <1>6
    <2> QED
        BY <2>1, <1>13, <1>6, ListsJoin
<1>15. Lists(((S3 \o S4) \o S5) \o S6, ((X3 \cup X4) \cup X5) \cup X6)
    <2>1. \A x \in (X3 \cup X4) \cup X5, y \in X6 : x # y /\ Rank(x) <= Rank(y)
        BY SMTT(30), <1>4, <1>5, <1>6, <1>7
    <2> QED
        BY <2>1, <1>14, <1>7, ListsJoin
<1>16. Lists((((S3 \o S4) \o S5) \o S6) \o S7, (((X3 \cup X4) \cup X5) \cup X6) \cup X7)
    <2>1. \A x \in ((X3 \cup X4) \cup X5) \cup X6, y \in X7 : x # y /\ Rank(x) <= Rank(y)
        BY SMTT(30), <1>4, <1>5, <1>6, <1>7, <1>8
    <2> QED
        BY <2>1, <1>15, <1>8, ListsJoin
<1>17. Lists(((((S3 \o S4) \o S5) \o S6) \o S7) \o S8,
             ((((X3 \cup X4) \cup X5) \cup X6) \cup X7) \cup X8)
    <2>1. \A x \in (((X3 \cup X4) \cup X5) \cup X6) \cup X7, y \in X8 :
              x # y /\ Rank(x) <= Rank(y)
        BY SMTT(30), <1>4, <1>5, <1>6, <1>7, <1>8, <1>9
    <2> QED
        BY <2>1, <1>16, <1>9, ListsJoin
<1>18. Lists((((((S3 \o S4) \o S5) \o S6) \o S7) \o S8) \o S9,
             (((((X3 \cup X4) \cup X5) \cup X6) \cup X7) \cup X8) \cup X9)
    <2>1. \A x \in ((((X3 \cup X4) \cup X5) \cup X6) \cup X7) \cup X8, y \in X9 :
              x # y /\ Rank(x) <= Rank(y)
        BY SMTT(30), <1>4, <1>5, <1>6, <1>7, <1>8, <1>9, <1>10
    <2> QED
        BY <2>1, <1>17, <1>10, ListsJoin
<1> DEFINE S == IF n \notin Local THEN << >> ELSE
                  (((((S3 \o S4) \o S5) \o S6) \o S7) \o S8) \o S9
           X == IF n \notin Local THEN {} ELSE
                  (((((X3 \cup X4) \cup X5) \cup X6) \cup X7) \cup X8) \cup X9
<1>19. Lists(S, X)
    BY <1>18, ListsEmpty
<1>20. \A x \in X1 \cup X2, y \in X : x # y /\ Rank(x) <= Rank(y)
    BY SMTT(30), <1>2, <1>3, <1>4, <1>5, <1>6, <1>7, <1>8, <1>9, <1>10
<1> HIDE DEF S, X
<1>21. Lists((S1 \o S2) \o S, (X1 \cup X2) \cup X)
    BY <1>12, <1>19, <1>20, ListsJoin
<1> QED
    BY <1>11, <1>21 DEF S, X

LEMMA StaleLists ==
    ASSUME NEW n, IsFiniteSet(npr[n].allocs), IsFiniteSet(npr[n].cidrs)
    PROVE  Lists(SyncStale(n), StaleOps(n, npr[n].allocs, npr[n].cidrs, StillUsed(n)))
<1> DEFINE A == npr[n].allocs
           C == npr[n].cidrs
           S1 == OnSlots("lookupRemove", A)
           S2 == OnSlots("portsRemove", A)
           S3 == OnConfig(C, IPsOf(A))
           S4 == IF StillUsed(n) THEN << >> ELSE << [op |-> "kindRemove"] >>
           X1 == SlotOps("lookupRemove", A)
           X2 == SlotOps("portsRemove", A)
           X3 == CfgRemoves(C, IPsOf(A))
           X4 == IF StillUsed(n) THEN {} ELSE {[op |-> "kindRemove"]}
<1>1. Lists(S1, X1) /\ \A x \in X1 : x.op = "lookupRemove" /\ Rank(x) = 1
    BY ZenonT(60), SlotOpsList
<1>2. Lists(S2, X2) /\ \A x \in X2 : x.op = "portsRemove" /\ Rank(x) = 3
    BY SlotOpsList
<1>3. Lists(S3, X3) /\ \A x \in X3 : x.op = "cfgRemove" /\ Rank(x) = 6
    BY CfgRemovesList
<1>4. Lists(S4, X4) /\ \A x \in X4 : x.op = "kindRemove" /\ Rank(x) = 8
    BY KindList, ListsEmpty
<1>5. /\ SyncStale(n) = S1 \o IF n \notin Local THEN << >> ELSE (S2 \o S3) \o S4
      /\ StaleOps(n, A, C, StillUsed(n)) =
            X1 \cup IF n \notin Local THEN {} ELSE (X2 \cup X3) \cup X4
    BY DEF SyncStale, StaleOps
<1> HIDE DEF S1, S2, S3, S4, X1, X2, X3, X4
<1>6. Lists(S2 \o S3, X2 \cup X3)
    <2>1. \A x \in X2, y \in X3 : x # y /\ Rank(x) <= Rank(y)
        BY SMTT(30), <1>2, <1>3
    <2> QED
        BY <2>1, <1>2, <1>3, ListsJoin
<1>7. Lists((S2 \o S3) \o S4, (X2 \cup X3) \cup X4)
    <2>1. \A x \in X2 \cup X3, y \in X4 : x # y /\ Rank(x) <= Rank(y)
        BY SMTT(30), <1>2, <1>3, <1>4
    <2> QED
        BY <2>1, <1>6, <1>4, ListsJoin
<1> DEFINE S == IF n \notin Local THEN << >> ELSE (S2 \o S3) \o S4
           X == IF n \notin Local THEN {} ELSE (X2 \cup X3) \cup X4
<1>8. Lists(S, X)
    BY <1>7, ListsEmpty
<1>9. \A x \in X1, y \in X : x # y /\ Rank(x) <= Rank(y)
    BY SMTT(30), <1>1, <1>2, <1>3, <1>4
<1> HIDE DEF S, X
<1>10. Lists(S1 \o S, X1 \cup X)
    BY <1>1, <1>8, <1>9, ListsJoin
<1> QED
    BY <1>5, <1>10 DEF S, X

-----------------------------------------------------------------------------
(* Types.                                                                  *)

Slotted == {"lookupRemove", "lookupAdd", "portsRemove", "portsAdd", "cfgUpsert"}

IsOp(o) ==
    /\ o.op \in Slotted \cup {"cfgRemove", "kindAdd", "kindRemove"}
    /\ o.op \in Slotted => o.slot \in Slot
    /\ o.op \in {"cfgRemove", "cfgUpsert"} => o.cidr \in CIDR
    /\ o.op = "cfgUpsert" => o = [op |-> "cfgUpsert", cidr |-> o.cidr, slot |-> o.slot]
    /\ o.op = "kindRemove" => o = [op |-> "kindRemove"]

WorkType ==
    \/ work = NoWork
    \/ /\ work = [name |-> work.name, todo |-> work.todo, then |-> work.then]
       /\ work.name \in Name
       /\ Lists(work.todo, Ops(work.todo))
       /\ \A o \in Ops(work.todo) : IsOp(o)
       /\ work.then \in Cached \cup {None}
       /\ work.then # None => work.then.allocs \subseteq PoolOf[work.name]

InPools ==
    \A n \in Name : /\ npr[n] # None => npr[n].allocs \subseteq PoolOf[n]
                    /\ synced[n] # None => synced[n].allocs \subseteq PoolOf[n]

SyncType ==
    /\ TypeOK /\ WorkType /\ InPools
    /\ npr \in [Name -> Object \cup {None}]
    /\ synced \in [Name -> Cached \cup {None}]

LEMMA SlotIsPair ==
    ASSUME NEW s \in Slot
    PROVE  s = <<s[1], s[2]>>
BY ZenonT(60), SyncAssumption DEF Slot

LEMMA SyncTypeInit == Init => SyncType
<1> SUFFICES ASSUME Init PROVE SyncType
    OBVIOUS
<1>1. work = NoWork /\ work.name = None
    BY DEF Init, NoWork
<1> QED
    BY SMTT(30), <1>1 DEF Init, SyncType, TypeOK, WorkType, InPools

LEMMA OldType ==
    ASSUME SyncType, NEW n \in Name
    PROVE  /\ OldAllocs(n) \subseteq PoolOf[n] /\ OldCIDRs(n) \subseteq CIDR
           /\ PoolOf[n] \subseteq Slot
           /\ IsFiniteSet(OldAllocs(n)) /\ IsFiniteSet(OldCIDRs(n))
           /\ npr[n] # None =>
                 /\ npr[n] \in Object /\ npr[n].allocs \subseteq PoolOf[n]
                 /\ npr[n].cidrs \subseteq CIDR /\ npr[n].stale \in BOOLEAN
                 /\ IsFiniteSet(npr[n].allocs) /\ IsFiniteSet(npr[n].cidrs)
<1>1. OldAllocs(n) \subseteq PoolOf[n]
    BY DEF SyncType, InPools, OldAllocs
<1>2. OldCIDRs(n) \subseteq CIDR
    BY DEF SyncType, OldCIDRs, Cached
<1>3. npr[n] # None => /\ npr[n] \in Object /\ npr[n].allocs \subseteq PoolOf[n]
                       /\ npr[n].cidrs \subseteq CIDR /\ npr[n].stale \in BOOLEAN
    BY DEF SyncType, InPools, Object
<1>4. IsFiniteSet(PoolOf[n]) /\ IsFiniteSet(CIDR)
    BY SyncAssumption
<1>5. PoolOf[n] \subseteq Slot
    BY DEF Slot
<1> QED
    BY <1>1, <1>2, <1>3, <1>4, <1>5, FS_Subset

LEMMA AliveOpsType ==
    ASSUME NEW n, NEW A \in SUBSET Slot, NEW C \in SUBSET CIDR,
           NEW OA \in SUBSET Slot, NEW OC \in SUBSET CIDR,
           NEW o \in AliveOps(n, A, C, OA, OC)
    PROVE  IsOp(o)
<1>1. \/ \E x \in {"lookupRemove", "lookupAdd", "portsRemove", "portsAdd"}, s \in Slot :
            o = [op |-> x, slot |-> s]
      \/ o = [op |-> "kindAdd"]
      \/ \E c \in CIDR, ips \in {IPsOf(OA), IPsOf(OA \ A)} : o = [op |-> "cfgRemove", cidr |-> c, ips |-> ips]
      \/ \E c \in CIDR, s \in Slot : o = [op |-> "cfgUpsert", cidr |-> c, slot |-> s]
    BY SMTT(30) DEF AliveOps, SlotOps, CfgRemoves, CfgUpserts
<1> QED
    BY SMTT(30), <1>1 DEF IsOp, Slotted

LEMMA StaleOpsType ==
    ASSUME NEW n, NEW A \in SUBSET Slot, NEW C \in SUBSET CIDR, NEW used,
           NEW o \in StaleOps(n, A, C, used)
    PROVE  IsOp(o)
<1>1. \/ \E x \in {"lookupRemove", "portsRemove"}, s \in Slot : o = [op |-> x, slot |-> s]
      \/ o = [op |-> "kindRemove"]
      \/ \E c \in CIDR : o = [op |-> "cfgRemove", cidr |-> c, ips |-> IPsOf(A)]
    BY DEF StaleOps, SlotOps, CfgRemoves
<1> QED
    BY SMTT(30), <1>1 DEF IsOp, Slotted

\* What a reconcile has to do at its beginning.
TodoOf(n) ==
    IF npr[n].stale
    THEN StaleOps(n, npr[n].allocs, npr[n].cidrs, StillUsed(n))
    ELSE AliveOps(n, npr[n].allocs, npr[n].cidrs, OldAllocs(n), OldCIDRs(n))

LEMMA BeginWork ==
    ASSUME SyncType, NEW n \in Name, Begin(n), npr[n] # None
    PROVE  /\ work' = [name |-> n, todo |-> work'.todo, then |-> work'.then]
           /\ work'.name = n
           /\ Ops(work'.todo) = TodoOf(n)
           /\ Lists(work'.todo, Ops(work'.todo))
           /\ \A o \in Ops(work'.todo) : IsOp(o)
           /\ work'.then = IF npr[n].stale THEN None
                           ELSE [allocs |-> npr[n].allocs, cidrs |-> npr[n].cidrs]
           /\ work'.then \in Cached \cup {None}
           /\ work'.then # None => work'.then.allocs \subseteq PoolOf[n]
<1> DEFINE t == IF npr[n].stale THEN SyncStale(n) ELSE SyncAlive(n)
           h == IF npr[n].stale THEN None
                ELSE [allocs |-> npr[n].allocs, cidrs |-> npr[n].cidrs]
<1>1. work' = [name |-> n, todo |-> t, then |-> h]
    BY DEF Begin
<1>2. work'.todo = t /\ work'.then = h /\ work'.name = n
    BY <1>1
<1>3. Lists(t, TodoOf(n))
    BY OldType, AliveLists, StaleLists DEF TodoOf
<1>4. \A o \in TodoOf(n) : IsOp(o)
    BY OldType, AliveOpsType, StaleOpsType DEF TodoOf
<1>5. npr[n] \in Object /\ npr[n].allocs \subseteq PoolOf[n]
    BY OldType
<1>6. h \in Cached \cup {None} /\ (h # None => h.allocs \subseteq PoolOf[n])
    BY <1>5 DEF Object, Cached
<1> HIDE DEF t, h
<1>7. TodoOf(n) = Ops(t) /\ Lists(t, Ops(t))
    BY <1>3, ListsOps
<1> QED
    BY <1>1, <1>2, <1>4, <1>6, <1>7 DEF h

\* Apply, with the maps as arguments.
LookupAfter(l, p, o) ==
    CASE o.op = "lookupRemove" -> IF l[o.slot] = p THEN [l EXCEPT ![o.slot] = None] ELSE l
      [] o.op = "lookupAdd"    -> [l EXCEPT ![o.slot] = p]
      [] OTHER -> l

PortsAfter(t, p, o) ==
    CASE o.op = "portsRemove" -> t \ {<<p, o.slot[2]>>}
      [] o.op = "portsAdd"    -> t \cup {<<p, o.slot[2]>>}
      [] OTHER -> t

KindAfter(k, p, o) ==
    CASE o.op = "kindRemove" -> k \ {p}
      [] o.op = "kindAdd"    -> k \cup {p}
      [] OTHER -> k

CfgAfter(g, p, o) ==
    CASE o.op = "cfgRemove" -> {e \in g : ~(e[1] = p /\ e[2] = o.cidr /\ e[3] \in o.ips)}
      [] o.op = "cfgUpsert" -> {e \in g : ~(e[1] = p /\ e[2] = o.cidr /\ e[3] = o.slot[1])}
                               \cup {<<p, o.cidr, o.slot[1], o.slot[2]>>}
      [] OTHER -> g

\* A step of a reconcile: the first operation is done, the others remain.
LEMMA WriteStep ==
    ASSUME SyncType, Write
    PROVE  \E n \in Name, o \in Ops(work.todo) :
              /\ work # NoWork /\ work.name = n /\ IsOp(o)
              /\ work' = [name |-> n, todo |-> work'.todo, then |-> work.then]
              /\ work'.name = n /\ work'.then = work.then
              /\ Lists(work'.todo, Ops(work'.todo)) /\ Ops(work'.todo) = Ops(work.todo) \ {o}
              /\ \A x \in Ops(work.todo) \ {o} : Rank(o) <= Rank(x)
              /\ work.todo # << >> /\ o = Head(work.todo) /\ work'.todo = Tail(work.todo)
              /\ lookup' = LookupAfter(lookup, PodOf[n], o)
              /\ ports' = PortsAfter(ports, PodOf[n], o)
              /\ kind' = KindAfter(kind, PodOf[n], o)
              /\ cfg' = CfgAfter(cfg, PodOf[n], o)
<1> DEFINE t == work.todo
           n == work.name
           o == Head(work.todo)
<1>1. /\ work # NoWork /\ t # << >>
      /\ Apply(PodOf[n], o) /\ work' = [work EXCEPT !.todo = Tail(t)]
    BY DEF Write
<1>2. /\ work = [name |-> n, todo |-> t, then |-> work.then] /\ n \in Name
      /\ Lists(t, Ops(t)) /\ \A x \in Ops(t) : IsOp(x)
    BY <1>1 DEF SyncType, WorkType
<1>3. work' = [name |-> n, todo |-> Tail(t), then |-> work.then]
    BY <1>1, <1>2
<1>4. work'.name = n /\ work'.todo = Tail(t) /\ work'.then = work.then
    BY <1>3
<1>5. /\ o \in Ops(t) /\ Lists(Tail(t), Ops(t) \ {o})
      /\ \A x \in Ops(t) \ {o} : Rank(o) <= Rank(x)
    BY <1>1, <1>2, ListsTail
<1>6. Ops(t) \ {o} = Ops(Tail(t)) /\ Lists(Tail(t), Ops(Tail(t)))
    BY <1>5, ListsOps
<1>7. /\ lookup' = LookupAfter(lookup, PodOf[n], o) /\ ports' = PortsAfter(ports, PodOf[n], o)
      /\ kind' = KindAfter(kind, PodOf[n], o) /\ cfg' = CfgAfter(cfg, PodOf[n], o)
    BY <1>1 DEF Apply, LookupRemove, CfgRemove, CfgUpsert, LookupAfter, PortsAfter, KindAfter, CfgAfter
<1> HIDE DEF n, o, t
<1>8. work' = [name |-> n, todo |-> work'.todo, then |-> work.then]
    BY <1>3, <1>4
<1> QED
    BY <1>1, <1>2, <1>4, <1>5, <1>6, <1>7, <1>8 DEF n, o, t

LEMMA WriteType ==
    ASSUME NEW p \in Pod, NEW o, IsOp(o),
           NEW l \in [Slot -> Pod \cup {None}], NEW t, NEW k \in SUBSET Pod, NEW g,
           t \subseteq Pod \X {s[2] : s \in Slot},
           g \subseteq {<<q, c, s[1], s[2]>> : q \in Pod, c \in CIDR, s \in Slot}
    PROVE  /\ LookupAfter(l, p, o) \in [Slot -> Pod \cup {None}]
           /\ PortsAfter(t, p, o) \subseteq Pod \X {s[2] : s \in Slot}
           /\ KindAfter(k, p, o) \subseteq Pod
           /\ CfgAfter(g, p, o)
                 \subseteq {<<q, c, s[1], s[2]>> : q \in Pod, c \in CIDR, s \in Slot}
<1>1. LookupAfter(l, p, o) \in [Slot -> Pod \cup {None}]
    BY DEF LookupAfter, IsOp, Slotted
<1>2. PortsAfter(t, p, o) \subseteq Pod \X {s[2] : s \in Slot}
    BY SMTT(30) DEF PortsAfter, IsOp, Slotted
<1>3. KindAfter(k, p, o) \subseteq Pod
    BY DEF KindAfter
<1>4. CfgAfter(g, p, o) \subseteq {<<q, c, s[1], s[2]>> : q \in Pod, c \in CIDR, s \in Slot}
    BY SMTT(30) DEF CfgAfter, IsOp, Slotted
<1> QED
    BY SMTT(30), <1>1, <1>2, <1>3, <1>4

LEMMA ChangeType ==
    ASSUME SyncType, NEW n \in Name, NEW v, Change(n, v),
           v \in Object \cup {None}, v # None => v.allocs \subseteq PoolOf[n]
    PROVE  SyncType'
<1>1. npr' = [npr EXCEPT ![n] = v] /\ queue' = (IF up THEN queue \cup {n} ELSE queue)
    BY DEF Change
<1>2. UNCHANGED <<up, synced, work, lookup, ports, kind, cfg>>
    BY DEF Change, maps
<1>3. npr' \in [Name -> Object \cup {None}]
    BY <1>1 DEF SyncType
<1>4. WorkType'
    BY <1>2 DEF SyncType, WorkType
<1>5. InPools'
    BY <1>1, <1>2 DEF SyncType, InPools
<1>6. TypeOK'
    BY SMTT(30), <1>1, <1>2, <1>3 DEF SyncType, TypeOK
<1> QED
    BY <1>2, <1>3, <1>4, <1>5, <1>6 DEF SyncType

LEMMA EnvType ==
    ASSUME SyncType, NEW n \in Name, Create(n) \/ Update(n) \/ MarkStale(n) \/ Delete(n)
    PROVE  SyncType'
<1>0. PoolOf[n] \subseteq Slot
    BY DEF Slot
<1>1. CASE Create(n)
    <2>1. PICK S \in SUBSET (PoolOf[n] \ Held(n)), C \in (SUBSET CIDR) \ {{}} :
              Change(n, [allocs |-> S, cidrs |-> C, stale |-> FALSE])
        BY <1>1 DEF Create
    <2> DEFINE v == [allocs |-> S, cidrs |-> C, stale |-> FALSE]
    <2>2. v \in Object /\ v.allocs \subseteq PoolOf[n]
        BY <1>0 DEF Object
    <2> QED
        BY <2>1, <2>2, ChangeType
<1>2. CASE Update(n)
    <2>1. PICK S \in SUBSET (PoolOf[n] \ Held(n)), C \in (SUBSET CIDR) \ {{}} :
              npr[n] # None /\ Change(n, [npr[n] EXCEPT !.allocs = S, !.cidrs = C])
        BY <1>2 DEF Update
    <2>2. PICK v : v = [npr[n] EXCEPT !.allocs = S, !.cidrs = C]
        OBVIOUS
    <2>3. v \in Object /\ v.allocs \subseteq PoolOf[n]
        BY <2>1, <2>2, <1>0, OldType DEF Object
    <2>4. Change(n, v)
        BY <2>1, <2>2 DEF Change
    <2> QED
        BY <2>3, <2>4, ChangeType
<1>3. CASE MarkStale(n)
    <2>1. npr[n] # None /\ Change(n, [npr[n] EXCEPT !.stale = TRUE])
        BY <1>3 DEF MarkStale
    <2>2. PICK v : v = [npr[n] EXCEPT !.stale = TRUE]
        OBVIOUS
    <2>3. v \in Object /\ v.allocs \subseteq PoolOf[n]
        BY <2>1, <2>2, OldType DEF Object
    <2>4. Change(n, v)
        BY <2>1, <2>2 DEF Change
    <2> QED
        BY <2>3, <2>4, ChangeType
<1>4. CASE Delete(n)
    <2>1. Change(n, None)
        BY <1>4 DEF Delete
    <2> QED
        BY <2>1, ChangeType
<1> QED
    BY <1>1, <1>2, <1>3, <1>4

LEMMA BeginType ==
    ASSUME SyncType, NEW n \in Name, Begin(n)
    PROVE  SyncType'
<1>1. queue' = queue \ {n} /\ UNCHANGED <<npr, up, lookup, ports, kind, cfg>>
    BY DEF Begin, api, maps
<1>2. CASE npr[n] = None
    <2>1. synced' = [synced EXCEPT ![n] = None] /\ work' = work
        BY <1>2 DEF Begin
    <2>2. synced' \in [Name -> Cached \cup {None}]
        BY <2>1 DEF SyncType
    <2>3. WorkType'
        BY <2>1 DEF SyncType, WorkType
    <2>4. InPools'
        BY <1>1, <2>1 DEF SyncType, InPools
    <2>5. TypeOK'
        BY SMTT(30), <1>1, <2>1, <2>2 DEF SyncType, TypeOK
    <2> QED
        BY <1>1, <2>2, <2>3, <2>4, <2>5 DEF SyncType
<1>3. CASE npr[n] # None
    <2>1. synced' = synced
        BY <1>3 DEF Begin
    <2>2. WorkType' /\ work'.name = n
        BY <1>3, BeginWork DEF WorkType
    <2>3. InPools'
        BY <1>1, <2>1 DEF SyncType, InPools
    <2>4. TypeOK'
        BY SMTT(30), <1>1, <2>1, <2>2 DEF SyncType, TypeOK
    <2> QED
        BY <1>1, <2>1, <2>2, <2>3, <2>4 DEF SyncType
<1> QED
    BY <1>2, <1>3

LEMMA WriteKeepsType ==
    ASSUME SyncType, Write
    PROVE  SyncType'
<1>1. PICK n \in Name, o \in Ops(work.todo) :
              /\ work # NoWork /\ work.name = n /\ IsOp(o)
              /\ work' = [name |-> n, todo |-> work'.todo, then |-> work.then]
              /\ work'.name = n /\ work'.then = work.then
              /\ Lists(work'.todo, Ops(work'.todo)) /\ Ops(work'.todo) = Ops(work.todo) \ {o}
              /\ lookup' = LookupAfter(lookup, PodOf[n], o)
              /\ ports' = PortsAfter(ports, PodOf[n], o)
              /\ kind' = KindAfter(kind, PodOf[n], o)
              /\ cfg' = CfgAfter(cfg, PodOf[n], o)
    BY WriteStep
<1>2. UNCHANGED <<npr, queue, up, synced>>
    BY DEF Write, api
<1>3. WorkType'
    BY <1>1 DEF SyncType, WorkType
<1>4. InPools'
    BY <1>2 DEF SyncType, InPools
<1>5. PodOf[n] \in Pod
    BY DEF Pod
<1>6. /\ lookup' \in [Slot -> Pod \cup {None}]
      /\ ports' \subseteq Pod \X {s[2] : s \in Slot} /\ kind' \subseteq Pod
      /\ cfg' \subseteq {<<q, c, s[1], s[2]>> : q \in Pod, c \in CIDR, s \in Slot}
    BY SMTT(30), <1>1, <1>5, WriteType DEF SyncType, TypeOK
<1>7. TypeOK'
    BY SMTT(30), <1>1, <1>2, <1>6 DEF SyncType, TypeOK
<1> QED
    BY <1>2, <1>3, <1>4, <1>7 DEF SyncType

LEMMA SyncTypeStep ==
    ASSUME SyncType, [Next]_vars
    PROVE  SyncType'
<1>1. ASSUME NEW n \in Name, Begin(n) PROVE SyncType'
    BY <1>1, BeginType
<1>2. CASE Write
    BY <1>2, WriteKeepsType
<1>3. CASE work # NoWork /\ Abort
    <2>1. /\ queue' = queue \cup {work.name} /\ work' = NoWork
          /\ UNCHANGED <<npr, up, synced, lookup, ports, kind, cfg>>
        BY <1>3 DEF Abort, api, maps
    <2>2. work.name \in Name /\ work'.name = None
        BY <1>3, <2>1 DEF SyncType, WorkType, NoWork
    <2>3. WorkType' /\ InPools'
        BY <2>1 DEF SyncType, WorkType, InPools, NoWork
    <2>4. TypeOK'
        BY SMTT(30), <2>1, <2>2 DEF SyncType, TypeOK
    <2> QED
        BY <2>1, <2>3, <2>4 DEF SyncType
<1>4. CASE Finish
    <2>1. /\ work # NoWork /\ synced' = [synced EXCEPT ![work.name] = work.then] /\ work' = NoWork
          /\ UNCHANGED <<npr, queue, up, lookup, ports, kind, cfg>>
        BY <1>4 DEF Finish, api, maps
    <2>2. /\ work.name \in Name /\ work'.name = None /\ work.then \in Cached \cup {None}
          /\ work.then # None => work.then.allocs \subseteq PoolOf[work.name]
        BY <2>1 DEF SyncType, WorkType, NoWork
    <2>3. synced' \in [Name -> Cached \cup {None}]
        BY <2>1, <2>2 DEF SyncType
    <2>4. WorkType' /\ InPools'
        BY <2>1, <2>2 DEF SyncType, WorkType, InPools, NoWork
    <2>5. TypeOK'
        BY SMTT(30), <2>1, <2>2, <2>3 DEF SyncType, TypeOK
    <2> QED
        BY <2>1, <2>3, <2>4, <2>5 DEF SyncType
<1>5. CASE Stop
    <2>1. /\ up' = FALSE /\ queue' = {} /\ work' = NoWork /\ synced' = [n \in Name |-> None]
          /\ UNCHANGED <<npr, lookup, ports, kind, cfg>>
        BY <1>5 DEF Stop, api, maps
    <2>2. work'.name = None
        BY <2>1 DEF NoWork
    <2>3. WorkType' /\ InPools'
        BY <2>1 DEF SyncType, WorkType, InPools, NoWork
    <2>4. synced' \in [Name -> Cached \cup {None}]
        BY <2>1
    <2>5. npr' \in [Name -> Object \cup {None}]
        BY <2>1 DEF SyncType
    <2>6. \A n \in Name : npr'[n] \in Object \cup {None} /\ synced'[n] \in Cached \cup {None}
        BY <2>4, <2>5
    <2>7. up' \in BOOLEAN
        BY <2>1
    <2>8. /\ queue' \subseteq Name /\ work'.name \in Name \cup {None}
          /\ lookup' \in [Slot -> Pod \cup {None}]
          /\ ports' \subseteq Pod \X {s[2] : s \in Slot} /\ kind' \subseteq Pod
          /\ cfg' \subseteq {<<p, c, s[1], s[2]>> : p \in Pod, c \in CIDR, s \in Slot}
        BY SMTT(30), <2>1, <2>2 DEF SyncType, TypeOK
    <2> QED
        BY SMTT(30), <2>3, <2>4, <2>5, <2>6, <2>7, <2>8 DEF SyncType, TypeOK
<1>6. CASE Start
    <2>1. /\ up' = TRUE /\ queue' = {n \in Name : npr[n] # None}
          /\ UNCHANGED <<npr, synced, work, lookup, ports, kind, cfg>>
        BY <1>6 DEF Start, api, maps
    <2>2. WorkType' /\ InPools'
        BY <2>1 DEF SyncType, WorkType, InPools
    <2>3. TypeOK'
        BY SMTT(30), <2>1 DEF SyncType, TypeOK
    <2> QED
        BY <2>1, <2>2, <2>3 DEF SyncType
<1>7. CASE EnvStep
    BY <1>7, EnvType DEF EnvStep
<1>8. CASE UNCHANGED vars
    BY SMTT(30), <1>8 DEF vars, SyncType, TypeOK, WorkType, InPools
<1> QED
    BY <1>1, <1>2, <1>3, <1>4, <1>5, <1>6, <1>7, <1>8 DEF Next, Step, Refused, WriteFails

\* The cache, the queue and the four maps hold what they are for, in every
\* environment: also with a daemon that is restarted or behind the API.
THEOREM SyncTypeCorrect == Spec => []TypeOK
<1>1. Init => SyncType
    BY SyncTypeInit
<1>2. SyncType /\ [Next]_vars => SyncType'
    BY SyncTypeStep
<1>3. SyncType => TypeOK
    BY DEF SyncType
<1> QED
    BY <1>1, <1>2, <1>3, PTL DEF Spec

-----------------------------------------------------------------------------
(* The maps as sets of entries <<map, key, value>>.  Entries of nat_config *)
(* and pod_nat_ports can be told apart by their owner only when            *)
(* BlocksApart: one block on each IP of a NATPortRange, and no IP and no   *)
(* block index common to two local NATPortRanges of a pod.  Without it     *)
(* only the entries of port_range_lookup are looked at.                    *)

BlocksApart ==
    /\ "ranges" \notin Env
    /\ \A n, m \in Local : n # m /\ PodOf[n] = PodOf[m] =>
          \A s \in PoolOf[n], t \in PoolOf[m] : s[1] # t[1] /\ s[2] # t[2]

ContentOf(l, t, g) ==
    {<<"lookup", s, l[s]>> : s \in {x \in Slot : l[x] # None}}
    \cup IF ~BlocksApart THEN {} ELSE
            {<<"ports", e, "set">> : e \in t}
            \cup {<<"cfg", <<e[1], e[2], e[3]>>, e[4]>> : e \in g}

\* The entries of n with the slots A and the target CIDRs C.
Want(n, A, C) ==
    {<<"lookup", s, PodOf[n]>> : s \in A}
    \cup IF n \notin Local \/ ~BlocksApart THEN {} ELSE
            {<<"ports", <<PodOf[n], s[2]>>, "set">> : s \in A}
            \cup {<<"cfg", <<PodOf[n], c, s[1]>>, s[2]>> : c \in C, s \in A}

\* What an operation writes, and what it removes or overwrites.
Adds(p, o) ==
    CASE o.op = "lookupAdd" -> {<<"lookup", o.slot, p>>}
      [] o.op = "portsAdd" /\ BlocksApart -> {<<"ports", <<p, o.slot[2]>>, "set">>}
      [] o.op = "cfgUpsert" /\ BlocksApart ->
            {<<"cfg", <<p, o.cidr, o.slot[1]>>, o.slot[2]>>}
      [] OTHER -> {}

Drops(p, o, e) ==
    CASE o.op = "lookupRemove" -> e = <<"lookup", o.slot, p>>
      [] o.op = "lookupAdd"    -> e[1] = "lookup" /\ e[2] = o.slot
      [] o.op = "portsRemove"  -> e = <<"ports", <<p, o.slot[2]>>, "set">>
      [] o.op = "cfgRemove"    -> e[1] = "cfg" /\ \E ip \in o.ips : e[2] = <<p, o.cidr, ip>>
      [] o.op = "cfgUpsert"    -> e[1] = "cfg" /\ e[2] = <<p, o.cidr, o.slot[1]>>
      [] OTHER -> FALSE

\* The operation is about slots of S.
OpMine(n, S, o) ==
    /\ o.op \in Slotted => o.slot \in S
    /\ o.op = "cfgRemove" => o.ips \subseteq IPsOf(S)
    /\ o.op \notin {"lookupRemove", "lookupAdd"} => n \in Local

\* The operations T lead to the entries G, without touching the entries K on
\* the way, and what one of them removes of G a later one writes again.
Proper(T, n, G, K, S) ==
    \A o \in T :
        /\ OpMine(n, S, o)
        /\ Adds(PodOf[n], o) \subseteq G
        /\ \A e \in G : Drops(PodOf[n], o, e) /\ e \notin Adds(PodOf[n], o) =>
              e \notin K /\ \E x \in T : Rank(o) < Rank(x) /\ e \in Adds(PodOf[n], x)

\* T writes what is missing of G, and removes what else there is of P.
Pending(T, n, M, G, P) ==
    /\ \A e \in G \ M : \E o \in T : e \in Adds(PodOf[n], o)
    /\ \A e \in (M \cap P) \ G : \E o \in T : Drops(PodOf[n], o, e)

\* M becomes N by the operation o, which is a first one of T.
Becomes(M, N, p, o) == \A e : e \in N <=> e \in Adds(p, o) \/ (e \in M /\ ~Drops(p, o, e))

First(T, o) ==
    /\ \A x \in T : Rank(x) \in Int
    /\ \A x \in T \ {o} : Rank(o) <= Rank(x)

\* One operation, seen from the NATPortRange that is reconciled.
LEMMA WriteOwn ==
    ASSUME NEW n, NEW T, NEW o \in T, NEW M, NEW N, NEW G, NEW K, NEW P, NEW S,
           Proper(T, n, G, K, S), Pending(T, n, M, G, P), K \subseteq M, K \subseteq G,
           First(T, o), Becomes(M, N, PodOf[n], o)
    PROVE  Proper(T \ {o}, n, G, K, S) /\ Pending(T \ {o}, n, N, G, P) /\ K \subseteq N
<1> USE DEF First, Becomes
<1>1. ASSUME NEW x \in T, NEW y \in T, Rank(x) < Rank(y) PROVE y # o
    <2>1. Rank(x) \in Int /\ Rank(y) \in Int /\ (x # o => Rank(o) <= Rank(x))
        OBVIOUS
    <2> QED
        BY SMTT(30), <1>1, <2>1
<1>2. Proper(T \ {o}, n, G, K, S)
    BY <1>1 DEF Proper
<1>3. ASSUME NEW e \in G \ N PROVE \E x \in T \ {o} : e \in Adds(PodOf[n], x)
    <2>1. CASE e \in M
        <3>1. Drops(PodOf[n], o, e) /\ e \notin Adds(PodOf[n], o)
            BY <2>1
        <3>2. PICK x \in T : Rank(o) < Rank(x) /\ e \in Adds(PodOf[n], x)
            BY <3>1 DEF Proper
        <3> QED
            BY <3>2, <1>1
    <2>2. CASE e \notin M
        BY <2>2 DEF Pending
    <2> QED
        BY <2>1, <2>2
<1>4. ASSUME NEW e \in (N \cap P) \ G PROVE \E x \in T \ {o} : Drops(PodOf[n], x, e)
    <2>1. e \notin Adds(PodOf[n], o)
        BY DEF Proper
    <2>2. e \in M /\ ~Drops(PodOf[n], o, e)
        BY <2>1
    <2> QED
        BY <2>2 DEF Pending
<1>5. K \subseteq N
    BY DEF Proper
<1> QED
    BY <1>2, <1>3, <1>4, <1>5 DEF Pending

InLookup(l, e) == \E s \in Slot : l[s] # None /\ e = <<"lookup", s, l[s]>>
InPorts(t, e)  == BlocksApart /\ \E x \in t : e = <<"ports", x, "set">>
InCfg(g, e)    == BlocksApart /\ \E x \in g : e = <<"cfg", <<x[1], x[2], x[3]>>, x[4]>>

LEMMA ContentIn ==
    ASSUME NEW l, NEW t, NEW g, NEW e
    PROVE  /\ e \in ContentOf(l, t, g) <=> InLookup(l, e) \/ InPorts(t, e) \/ InCfg(g, e)
           /\ InLookup(l, e) => e[1] = "lookup"
           /\ InPorts(t, e) => e[1] = "ports"
           /\ InCfg(g, e) => e[1] = "cfg"
<1>1. /\ InLookup(l, e) => e[1] = "lookup"
      /\ InPorts(t, e) => e[1] = "ports"
      /\ InCfg(g, e) => e[1] = "cfg"
    BY SMTT(30) DEF InLookup, InPorts, InCfg
<1>2. InLookup(l, e) <=> e \in {<<"lookup", s, l[s]>> : s \in {x \in Slot : l[x] # None}}
    BY DEF InLookup
<1>3. BlocksApart => (InPorts(t, e) <=> e \in {<<"ports", x, "set">> : x \in t})
    BY DEF InPorts
<1>4. BlocksApart =>
        (InCfg(g, e) <=> e \in {<<"cfg", <<x[1], x[2], x[3]>>, x[4]>> : x \in g})
    BY DEF InCfg
<1>5. ~BlocksApart => ~InPorts(t, e) /\ ~InCfg(g, e)
    BY DEF InPorts, InCfg
<1> QED
    BY <1>1, <1>2, <1>3, <1>4, <1>5 DEF ContentOf

\* What a map operation does, in terms of entries.
LEMMA ContentAfter ==
    ASSUME NEW p \in Pod, NEW o, IsOp(o),
           NEW l \in [Slot -> Pod \cup {None}], NEW t, NEW g,
           t \subseteq Pod \X {s[2] : s \in Slot},
           g \subseteq {<<q, c, s[1], s[2]>> : q \in Pod, c \in CIDR, s \in Slot},
           NEW e
    PROVE  e \in ContentOf(LookupAfter(l, p, o), PortsAfter(t, p, o), CfgAfter(g, p, o))
              <=> e \in Adds(p, o) \/ (e \in ContentOf(l, t, g) /\ ~Drops(p, o, e))
<1> DEFINE M == ContentOf(l, t, g)
           N == ContentOf(LookupAfter(l, p, o), PortsAfter(t, p, o), CfgAfter(g, p, o))
<1>0. p # None
    BY SyncAssumption
<1>1. CASE o.op = "lookupRemove"
    <2>1. o.slot \in Slot /\ PortsAfter(t, p, o) = t /\ CfgAfter(g, p, o) = g /\ Adds(p, o) = {}
        BY <1>1 DEF IsOp, Slotted, PortsAfter, CfgAfter, Adds
    <2>2. \A s \in Slot : LookupAfter(l, p, o)[s] = IF s = o.slot /\ l[s] = p THEN None ELSE l[s]
        BY <1>1, <2>1 DEF LookupAfter
    <2>3. Drops(p, o, e) <=> e = <<"lookup", o.slot, p>>
        BY <1>1 DEF Drops
    <2>4. InLookup(LookupAfter(l, p, o), e) <=> InLookup(l, e) /\ ~Drops(p, o, e)
        BY SMTT(30), <2>1, <2>2, <2>3, <1>0 DEF InLookup
    <2>5. Drops(p, o, e) => e[1] = "lookup"
        BY SMTT(30), <2>3
    <2> QED
        BY <2>1, <2>4, <2>5, ContentIn
<1>2. CASE o.op = "lookupAdd"
    <2>1. o.slot \in Slot /\ PortsAfter(t, p, o) = t /\ CfgAfter(g, p, o) = g
          /\ Adds(p, o) = {<<"lookup", o.slot, p>>}
        BY <1>2 DEF IsOp, Slotted, PortsAfter, CfgAfter, Adds
    <2>2. \A s \in Slot : LookupAfter(l, p, o)[s] = IF s = o.slot THEN p ELSE l[s]
        BY <1>2, <2>1 DEF LookupAfter
    <2>3. Drops(p, o, e) <=> e[1] = "lookup" /\ e[2] = o.slot
        BY <1>2 DEF Drops
    <2>4. InLookup(LookupAfter(l, p, o), e) <=>
            e = <<"lookup", o.slot, p>> \/ (InLookup(l, e) /\ ~Drops(p, o, e))
        BY SMTT(30), <2>1, <2>2, <2>3, <1>0 DEF InLookup
    <2> QED
        BY <2>1, <2>3, <2>4, ContentIn
<1>3. CASE o.op = "portsRemove"
    <2>1. /\ LookupAfter(l, p, o) = l /\ CfgAfter(g, p, o) = g /\ Adds(p, o) = {}
          /\ PortsAfter(t, p, o) = t \ {<<p, o.slot[2]>>}
          /\ Drops(p, o, e) <=> e = <<"ports", <<p, o.slot[2]>>, "set">>
        BY <1>3 DEF LookupAfter, PortsAfter, CfgAfter, Adds, Drops
    <2>2. InPorts(PortsAfter(t, p, o), e) <=> InPorts(t, e) /\ ~Drops(p, o, e)
        BY SMTT(30), <2>1 DEF InPorts
    <2>3. Drops(p, o, e) => e[1] = "ports"
        BY SMTT(30), <2>1
    <2> QED
        BY <2>1, <2>2, <2>3, ContentIn
<1>4. CASE o.op = "portsAdd"
    <2>1. /\ LookupAfter(l, p, o) = l /\ CfgAfter(g, p, o) = g
          /\ Adds(p, o) = IF BlocksApart THEN {<<"ports", <<p, o.slot[2]>>, "set">>} ELSE {}
          /\ PortsAfter(t, p, o) = t \cup {<<p, o.slot[2]>>}
          /\ ~Drops(p, o, e)
        BY <1>4 DEF LookupAfter, PortsAfter, CfgAfter, Adds, Drops
    <2>2. InPorts(PortsAfter(t, p, o), e) <=> e \in Adds(p, o) \/ InPorts(t, e)
        BY <2>1 DEF InPorts
    <2> QED
        BY <2>1, <2>2, ContentIn
<1>5. CASE o.op \in {"kindAdd", "kindRemove"}
    <2>1. /\ LookupAfter(l, p, o) = l /\ CfgAfter(g, p, o) = g /\ PortsAfter(t, p, o) = t
          /\ Adds(p, o) = {} /\ ~Drops(p, o, e)
        BY <1>5 DEF LookupAfter, PortsAfter, CfgAfter, Adds, Drops
    <2> QED
        BY <2>1
<1>6. CASE o.op = "cfgRemove"
    <2>1. /\ LookupAfter(l, p, o) = l /\ PortsAfter(t, p, o) = t /\ Adds(p, o) = {}
          /\ CfgAfter(g, p, o) = {x \in g : ~(x[1] = p /\ x[2] = o.cidr /\ x[3] \in o.ips)}
          /\ Drops(p, o, e) <=> e[1] = "cfg" /\ \E ip \in o.ips : e[2] = <<p, o.cidr, ip>>
        BY <1>6 DEF LookupAfter, PortsAfter, CfgAfter, Adds, Drops
    <2>2. InCfg(CfgAfter(g, p, o), e) <=> InCfg(g, e) /\ ~Drops(p, o, e)
        BY SMTT(30), <2>1 DEF InCfg
    <2> QED
        BY <2>1, <2>2, ContentIn
<1>7. CASE o.op = "cfgUpsert"
    <2>1. /\ LookupAfter(l, p, o) = l /\ PortsAfter(t, p, o) = t
          /\ Adds(p, o) = IF BlocksApart
                          THEN {<<"cfg", <<p, o.cidr, o.slot[1]>>, o.slot[2]>>} ELSE {}
          /\ CfgAfter(g, p, o) = {x \in g : ~(x[1] = p /\ x[2] = o.cidr /\ x[3] = o.slot[1])}
                                 \cup {<<p, o.cidr, o.slot[1], o.slot[2]>>}
          /\ Drops(p, o, e) <=> e[1] = "cfg" /\ e[2] = <<p, o.cidr, o.slot[1]>>
        BY <1>7 DEF LookupAfter, PortsAfter, CfgAfter, Adds, Drops
    <2> DEFINE H == {x \in g : ~(x[1] = p /\ x[2] = o.cidr /\ x[3] = o.slot[1])}
               a == <<p, o.cidr, o.slot[1], o.slot[2]>>
    <2>3. InCfg(CfgAfter(g, p, o), e) <=> InCfg(H, e) \/ InCfg({a}, e)
        BY <2>1 DEF InCfg
    <2>4. InCfg({a}, e) <=> e \in Adds(p, o)
        BY SMTT(30), <2>1 DEF InCfg
    <2>5. InCfg(H, e) <=> InCfg(g, e) /\ ~Drops(p, o, e)
        BY SMTT(30), <2>1 DEF InCfg
    <2>2. InCfg(CfgAfter(g, p, o), e) <=> e \in Adds(p, o) \/ (InCfg(g, e) /\ ~Drops(p, o, e))
        BY <2>3, <2>4, <2>5
    <2> QED
        BY <2>1, <2>2, ContentIn
<1> QED
    BY <1>1, <1>2, <1>3, <1>4, <1>5, <1>6, <1>7 DEF IsOp, Slotted

WantsLookup(n, A, e) == \E s \in A : e = <<"lookup", s, PodOf[n]>>
WantsPorts(n, A, e)  == \E s \in A : e = <<"ports", <<PodOf[n], s[2]>>, "set">>
WantsCfg(n, A, C, e) == \E c \in C, s \in A : e = <<"cfg", <<PodOf[n], c, s[1]>>, s[2]>>

LEMMA WantIn ==
    ASSUME NEW n, NEW A, NEW C, NEW e
    PROVE  /\ e \in Want(n, A, C) <=>
                 \/ WantsLookup(n, A, e)
                 \/ n \in Local /\ BlocksApart /\ (WantsPorts(n, A, e) \/ WantsCfg(n, A, C, e))
           /\ WantsLookup(n, A, e) => e[1] = "lookup"
           /\ WantsPorts(n, A, e) => e[1] = "ports"
           /\ WantsCfg(n, A, C, e) => e[1] = "cfg"
<1>1. WantsLookup(n, A, e) <=> e \in {<<"lookup", s, PodOf[n]>> : s \in A}
    BY DEF WantsLookup
<1>2. WantsPorts(n, A, e) <=> e \in {<<"ports", <<PodOf[n], s[2]>>, "set">> : s \in A}
    BY DEF WantsPorts
<1>3. WantsCfg(n, A, C, e)
        <=> e \in {<<"cfg", <<PodOf[n], c, s[1]>>, s[2]>> : c \in C, s \in A}
    BY SMTT(30) DEF WantsCfg
<1>4. e \in Want(n, A, C) <=>
                 \/ WantsLookup(n, A, e)
                 \/ n \in Local /\ BlocksApart /\ (WantsPorts(n, A, e) \/ WantsCfg(n, A, C, e))
    BY SMTT(30), <1>1, <1>2, <1>3 DEF Want
<1>5. /\ WantsLookup(n, A, e) => e[1] = "lookup"
      /\ WantsPorts(n, A, e) => e[1] = "ports"
      /\ WantsCfg(n, A, C, e) => e[1] = "cfg"
    BY SMTT(30) DEF WantsLookup, WantsPorts, WantsCfg
<1> QED
    BY <1>4, <1>5

LEMMA WantMono ==
    ASSUME NEW n, NEW A, NEW C, NEW B, NEW D, A \subseteq B, C \subseteq D
    PROVE  Want(n, A, C) \subseteq Want(n, B, D)
<1> SUFFICES ASSUME NEW e \in Want(n, A, C) PROVE e \in Want(n, B, D)
    OBVIOUS
<1>1. /\ WantsLookup(n, A, e) => WantsLookup(n, B, e)
      /\ WantsPorts(n, A, e) => WantsPorts(n, B, e)
      /\ WantsCfg(n, A, C, e) => WantsCfg(n, B, D, e)
    BY DEF WantsLookup, WantsPorts, WantsCfg
<1> QED
    BY <1>1, WantIn

LEMMA WantNothing ==
    ASSUME NEW n, NEW C
    PROVE  Want(n, {}, C) = {}
BY SMTT(30), WantIn DEF WantsLookup, WantsPorts, WantsCfg

\* With one block on each IP and each index once.
OneEach(A) == \A s, t \in A : s[1] = t[1] \/ s[2] = t[2] => s = t

\* What becomes of an entry that an operation of syncAlive removes.
Rewritten(T, n, o, G, K) ==
    \A e \in G : Drops(PodOf[n], o, e) /\ e \notin Adds(PodOf[n], o) =>
        e \notin K /\ \E x \in T : Rank(o) < Rank(x) /\ e \in Adds(PodOf[n], x)

\* syncAlive, one kind of operation after the other.
LEMMA AliveProper ==
    ASSUME NEW n, NEW A \in SUBSET Slot, NEW OA \in SUBSET Slot, NEW C, NEW OC,
           BlocksApart => OneEach(A) /\ OneEach(OA)
    PROVE  Proper(AliveOps(n, A, C, OA, OC), n, Want(n, A, C),
                  Want(n, A \cap OA, C \cap OC), A \cup OA)
<1> DEFINE T == AliveOps(n, A, C, OA, OC)
           p == PodOf[n]
           G == Want(n, A, C)
           K == Want(n, A \cap OA, C \cap OC)
<1> SUFFICES ASSUME NEW o \in T
             PROVE  OpMine(n, A \cup OA, o) /\ Adds(p, o) \subseteq G /\ Rewritten(T, n, o, G, K)
    BY DEF Proper, Rewritten
<1>1. CASE \E s \in OA \ A : o = [op |-> "lookupRemove", slot |-> s]
    <2>1. PICK s \in OA \ A : o = [op |-> "lookupRemove", slot |-> s]
        BY <1>1
    <2>2. OpMine(n, A \cup OA, o) /\ Adds(p, o) = {}
        BY <2>1 DEF OpMine, Slotted, Adds
    <2>3. \A e : Drops(p, o, e) <=> e = <<"lookup", s, p>>
        BY <2>1 DEF Drops
    <2>4. <<"lookup", s, p>> \notin G
        BY SMTT(30), WantIn DEF WantsLookup
    <2> QED
        BY <2>2, <2>3, <2>4 DEF Rewritten
<1>2. CASE \E s \in A \ OA : o = [op |-> "lookupAdd", slot |-> s]
    <2>1. PICK s \in A \ OA : o = [op |-> "lookupAdd", slot |-> s]
        BY <1>2
    <2>2. OpMine(n, A \cup OA, o) /\ Adds(p, o) = {<<"lookup", s, p>>}
        BY <2>1 DEF OpMine, Slotted, Adds
    <2>3. \A e : Drops(p, o, e) <=> e[1] = "lookup" /\ e[2] = s
        BY <2>1 DEF Drops
    <2>4. <<"lookup", s, p>> \in G
        BY WantIn DEF WantsLookup
    <2>5. ASSUME NEW e \in G, e[1] = "lookup" /\ e[2] = s PROVE e = <<"lookup", s, p>>
        BY SMTT(30), <2>5, WantIn DEF WantsLookup
    <2> QED
        BY <2>2, <2>3, <2>4, <2>5 DEF Rewritten
<1>3. CASE \E s \in OA \ A : n \in Local /\ o = [op |-> "portsRemove", slot |-> s]
    <2>1. PICK s \in OA \ A : n \in Local /\ o = [op |-> "portsRemove", slot |-> s]
        BY <1>3
    <2>2. OpMine(n, A \cup OA, o) /\ Adds(p, o) = {} /\ Rank(o) = 3
        BY <2>1 DEF OpMine, Slotted, Adds, Rank
    <2>3. \A e : Drops(p, o, e) <=> e = <<"ports", <<p, s[2]>>, "set">>
        BY <2>1 DEF Drops
    <2> DEFINE e == <<"ports", <<p, s[2]>>, "set">>
    <2>4. ASSUME e \in G
          PROVE  e \notin K /\ \E x \in T : Rank(o) < Rank(x) /\ e \in Adds(p, x)
        <3>1. BlocksApart /\ OneEach(OA) /\ \E r \in A : r[2] = s[2]
            BY SMTT(30), <2>4, WantIn DEF WantsPorts
        <3>2. PICK r \in A : r[2] = s[2]
            BY <3>1
        <3>3. r \notin OA
            BY <3>1, <3>2 DEF OneEach
        <3>4. e \notin K
            <4>1. ~\E q \in A \cap OA : q[2] = s[2]
                BY <3>1 DEF OneEach
            <4> QED
                BY SMTT(30), <4>1, WantIn DEF WantsPorts
        <3> DEFINE x == [op |-> "portsAdd", slot |-> r]
        <3>5. x \in T
            BY <2>1, <3>3 DEF AliveOps, SlotOps
        <3>6. Rank(x) = 4 /\ Adds(p, x) = {e}
            BY <3>1, <3>2 DEF Rank, Adds
        <3> QED
            BY SMTT(30), <3>4, <3>5, <3>6, <2>2
    <2> QED
        BY <2>2, <2>3, <2>4 DEF Rewritten
<1>4. CASE \E s \in A \ OA : n \in Local /\ o = [op |-> "portsAdd", slot |-> s]
    <2>1. PICK s \in A \ OA : n \in Local /\ o = [op |-> "portsAdd", slot |-> s]
        BY <1>4
    <2>2. /\ OpMine(n, A \cup OA, o) /\ \A e : ~Drops(p, o, e)
          /\ Adds(p, o) = IF BlocksApart THEN {<<"ports", <<p, s[2]>>, "set">>} ELSE {}
        BY <2>1 DEF OpMine, Slotted, Adds, Drops
    <2>3. BlocksApart => <<"ports", <<p, s[2]>>, "set">> \in G
        BY <2>1, WantIn DEF WantsPorts
    <2> QED
        BY <2>2, <2>3 DEF Rewritten
<1>5. CASE n \in Local /\ o = [op |-> "kindAdd"]
    <2>1. OpMine(n, A \cup OA, o) /\ (\A e : ~Drops(p, o, e)) /\ Adds(p, o) = {}
        BY <1>5 DEF OpMine, Slotted, Adds, Drops
    <2> QED
        BY <2>1 DEF Rewritten
<1>6. CASE n \in Local /\ \E c \in OC \ C : o = [op |-> "cfgRemove", cidr |-> c, ips |-> IPsOf(OA)]
    <2>1. PICK c \in OC \ C : n \in Local /\ o = [op |-> "cfgRemove", cidr |-> c, ips |-> IPsOf(OA)]
        BY <1>6
    <2>2. OpMine(n, A \cup OA, o) /\ Adds(p, o) = {}
        BY <2>1 DEF OpMine, Slotted, Adds, IPsOf
    <2>3. \A e : Drops(p, o, e) => e[1] = "cfg" /\ \E ip \in IPsOf(OA) : e[2] = <<p, c, ip>>
        BY <2>1 DEF Drops
    <2>4. ASSUME NEW e \in G, Drops(p, o, e) PROVE FALSE
        <3>1. PICK d \in C, s \in A : e = <<"cfg", <<p, d, s[1]>>, s[2]>>
            BY SMTT(30), <2>3, <2>4, WantIn DEF WantsCfg
        <3>2. d = c
            BY SMTT(30), <3>1, <2>3, <2>4
        <3> QED
            BY <3>2
    <2> QED
        BY <2>2, <2>4 DEF Rewritten
<1>7. CASE n \in Local /\ \E c \in C \cap OC : o = [op |-> "cfgRemove", cidr |-> c, ips |-> IPsOf(OA \ A)]
    <2>1. PICK c \in C \cap OC :
              n \in Local /\ o = [op |-> "cfgRemove", cidr |-> c, ips |-> IPsOf(OA \ A)]
        BY <1>7
    <2>2. OpMine(n, A \cup OA, o) /\ Adds(p, o) = {} /\ Rank(o) = 6
        BY <2>1 DEF OpMine, Slotted, Adds, IPsOf, Rank
    <2>3. \A e : Drops(p, o, e) => e[1] = "cfg" /\ \E r \in OA \ A : e[2] = <<p, c, r[1]>>
        BY <2>1 DEF Drops, IPsOf
    <2>4. ASSUME NEW e \in G, Drops(p, o, e)
          PROVE  e \notin K /\ \E x \in T : Rank(o) < Rank(x) /\ e \in Adds(p, x)
        <3>1. PICK d \in C, s \in A : e = <<"cfg", <<p, d, s[1]>>, s[2]>>
            BY SMTT(30), <2>3, <2>4, WantIn DEF WantsCfg
        <3>2. PICK r \in OA \ A : e[2] = <<p, c, r[1]>>
            BY <2>3, <2>4
        <3>3. d = c /\ s[1] = r[1]
            BY <3>1, <3>2
        <3>4. BlocksApart /\ OneEach(OA)
            BY <2>3, <2>4, WantIn
        <3>5. s \notin OA /\ ~\E q \in A \cap OA : q[1] = s[1]
            BY <3>3, <3>4 DEF OneEach
        <3>6. e \notin K
            BY SMTT(30), <3>1, <3>5, WantIn DEF WantsCfg
        <3> DEFINE x == [op |-> "cfgUpsert", cidr |-> c, slot |-> s]
        <3>7. x \in T
            BY SMTT(30), <2>1, <3>5 DEF AliveOps, CfgUpserts
        <3>8. Rank(x) = 7 /\ Adds(p, x) = {e}
            BY <3>1, <3>3, <3>4 DEF Rank, Adds
        <3> QED
            BY SMTT(30), <3>6, <3>7, <3>8, <2>2
    <2> QED
        BY <2>2, <2>4 DEF Rewritten
<1>8. CASE n \in Local /\ \E c \in C, s \in A : o = [op |-> "cfgUpsert", cidr |-> c, slot |-> s]
    <2>1. PICK c \in C, s \in A : n \in Local /\ o = [op |-> "cfgUpsert", cidr |-> c, slot |-> s]
        BY <1>8
    <2>2. /\ OpMine(n, A \cup OA, o)
          /\ Adds(p, o) = IF BlocksApart THEN {<<"cfg", <<p, c, s[1]>>, s[2]>>} ELSE {}
        BY <2>1 DEF OpMine, Slotted, Adds
    <2>3. \A e : Drops(p, o, e) => e[1] = "cfg" /\ e[2] = <<p, c, s[1]>>
        BY <2>1 DEF Drops
    <2>4. BlocksApart => <<"cfg", <<p, c, s[1]>>, s[2]>> \in G
        BY <2>1, WantIn DEF WantsCfg
    <2>5. ASSUME NEW e \in G, Drops(p, o, e) PROVE e \in Adds(p, o)
        <3>1. PICK d \in C, r \in A : e = <<"cfg", <<p, d, r[1]>>, r[2]>>
            BY SMTT(30), <2>3, <2>5, WantIn DEF WantsCfg
        <3>2. d = c /\ r[1] = s[1]
            BY SMTT(30), <3>1, <2>3, <2>5
        <3>3. BlocksApart /\ OneEach(A)
            BY <2>3, <2>5, WantIn
        <3>4. r = s
            BY <3>2, <3>3 DEF OneEach
        <3> QED
            BY <3>1, <3>2, <3>3, <3>4, <2>2
    <2> QED
        BY <2>2, <2>4, <2>5 DEF Rewritten
<1>9. CASE o \in SlotOps("lookupRemove", OA \ A) \cup SlotOps("lookupAdd", A \ OA)
    <2>1. o \in SlotOps("lookupRemove", OA \ A) \/ o \in SlotOps("lookupAdd", A \ OA)
        BY <1>9
    <2>2. CASE o \in SlotOps("lookupRemove", OA \ A)
        BY <1>1, <2>2, OpsIn
    <2>3. CASE o \in SlotOps("lookupAdd", A \ OA)
        BY <1>2, <2>3, OpsIn
    <2> QED
        BY <2>1, <2>2, <2>3
<1>10. CASE n \in Local /\ o \in SlotOps("portsRemove", OA \ A) \cup SlotOps("portsAdd", A \ OA)
    <2>1. o \in SlotOps("portsRemove", OA \ A) \/ o \in SlotOps("portsAdd", A \ OA)
        BY <1>10
    <2>2. CASE o \in SlotOps("portsRemove", OA \ A)
        BY <1>3, <1>10, <2>2, OpsIn
    <2>3. CASE o \in SlotOps("portsAdd", A \ OA)
        BY <1>4, <1>10, <2>3, OpsIn
    <2> QED
        BY <2>1, <2>2, <2>3
<1>11. CASE n \in Local /\ o \in CfgRemoves(OC \ (C \cap OC), IPsOf(OA))
    BY SMTT(30), <1>6, <1>11, OpsIn
<1>12. CASE n \in Local /\ o \in CfgRemoves(C \cap OC, IPsOf(OA \ A))
    BY SMTT(30), <1>7, <1>12, OpsIn
<1>13. CASE n \in Local /\ o \in CfgUpserts(C \ (C \cap OC), A) \cup CfgUpserts(C \cap OC, A \ OA)
    BY SMTT(30), <1>8, <1>13, OpsIn
<1> QED
    BY <1>5, <1>9, <1>10, <1>11, <1>12, <1>13 DEF AliveOps

\* syncAlive misses nothing, if what the cache has and the spec still wants is
\* in the maps.
LEMMA AlivePending ==
    ASSUME NEW n, NEW A, NEW OA, NEW C, NEW OC, NEW M,
           Want(n, A \cap OA, C \cap OC) \subseteq M
    PROVE  Pending(AliveOps(n, A, C, OA, OC), n, M, Want(n, A, C), Want(n, OA, OC))
<1> DEFINE T == AliveOps(n, A, C, OA, OC)
           p == PodOf[n]
           G == Want(n, A, C)
           K == Want(n, A \cap OA, C \cap OC)
<1>1. ASSUME NEW e \in G \ M PROVE \E o \in T : e \in Adds(p, o)
    <2>1. e \notin K
        OBVIOUS
    <2>2. CASE WantsLookup(n, A, e)
        <3>1. PICK s \in A : e = <<"lookup", s, p>>
            BY <2>2 DEF WantsLookup
        <3>2. s \notin OA
            BY <3>1, <2>1, WantIn DEF WantsLookup
        <3> DEFINE o == [op |-> "lookupAdd", slot |-> s]
        <3>3. o \in T /\ e \in Adds(p, o)
            BY <3>1, <3>2 DEF AliveOps, SlotOps, Adds
        <3> QED
            BY <3>3
    <2>3. CASE n \in Local /\ BlocksApart /\ WantsPorts(n, A, e)
        <3>1. PICK s \in A : e = <<"ports", <<p, s[2]>>, "set">>
            BY <2>3 DEF WantsPorts
        <3>2. s \notin OA
            BY <3>1, <2>1, <2>3, WantIn DEF WantsPorts
        <3> DEFINE o == [op |-> "portsAdd", slot |-> s]
        <3>3. o \in T
            BY <3>2, <2>3 DEF AliveOps, SlotOps
        <3>4. e \in Adds(p, o)
            BY <3>1, <2>3 DEF Adds
        <3> QED
            BY <3>3, <3>4
    <2>4. CASE n \in Local /\ BlocksApart /\ WantsCfg(n, A, C, e)
        <3>1. PICK c \in C, s \in A : e = <<"cfg", <<p, c, s[1]>>, s[2]>>
            BY <2>4 DEF WantsCfg
        <3>2. ~(s \in OA /\ c \in OC)
            BY ZenonT(60), <3>1, <2>1, <2>4, WantIn DEF WantsCfg
        <3> DEFINE o == [op |-> "cfgUpsert", cidr |-> c, slot |-> s]
        <3>3. o \in T
            BY SMTT(30), <3>2, <2>4 DEF AliveOps, CfgUpserts
        <3>4. e \in Adds(p, o)
            BY <3>1, <2>4 DEF Adds
        <3> QED
            BY <3>3, <3>4
    <2> QED
        BY <2>2, <2>3, <2>4, WantIn
<1>2. ASSUME NEW e \in Want(n, OA, OC) \ G PROVE \E o \in T : Drops(p, o, e)
    <2>2. CASE WantsLookup(n, OA, e)
        <3>1. PICK s \in OA : e = <<"lookup", s, p>>
            BY <2>2 DEF WantsLookup
        <3>2. s \notin A
            BY <3>1, <1>2, WantIn DEF WantsLookup
        <3> DEFINE o == [op |-> "lookupRemove", slot |-> s]
        <3>3. o \in T /\ Drops(p, o, e)
            BY <3>1, <3>2 DEF AliveOps, SlotOps, Drops
        <3> QED
            BY <3>3
    <2>3. CASE n \in Local /\ BlocksApart /\ WantsPorts(n, OA, e)
        <3>1. PICK s \in OA : e = <<"ports", <<p, s[2]>>, "set">>
            BY <2>3 DEF WantsPorts
        <3>2. s \notin A
            BY <3>1, <2>3, <1>2, WantIn DEF WantsPorts
        <3> DEFINE o == [op |-> "portsRemove", slot |-> s]
        <3>3. o \in T
            BY <3>2, <2>3 DEF AliveOps, SlotOps
        <3>4. Drops(p, o, e)
            BY <3>1 DEF Drops
        <3> QED
            BY <3>3, <3>4
    <2>4. CASE n \in Local /\ BlocksApart /\ WantsCfg(n, OA, OC, e)
        <3>1. PICK c \in OC, s \in OA : e = <<"cfg", <<p, c, s[1]>>, s[2]>>
            BY <2>4 DEF WantsCfg
        <3>2. CASE c \notin C
            <4> DEFINE o == [op |-> "cfgRemove", cidr |-> c, ips |-> IPsOf(OA)]
            <4>1. o \in T
                BY <3>2, <2>4 DEF AliveOps, CfgRemoves
            <4>2. s[1] \in IPsOf(OA)
                BY DEF IPsOf
            <4>3. Drops(p, o, e)
                BY <3>1, <4>2 DEF Drops
            <4> QED
                BY <4>1, <4>3
        <3>3. CASE c \in C
            <4> DEFINE o == [op |-> "cfgRemove", cidr |-> c, ips |-> IPsOf(OA \ A)]
            <4>0. s \notin A
                BY <3>1, <3>3, <2>4, <1>2, WantIn DEF WantsCfg
            <4>1. o \in T
                BY <3>3, <2>4, <4>0 DEF AliveOps, CfgRemoves
            <4>2. s[1] \in IPsOf(OA \ A)
                BY <4>0 DEF IPsOf
            <4>3. Drops(p, o, e)
                BY <3>1, <4>2 DEF Drops
            <4> QED
                BY <4>1, <4>3
        <3> QED
            BY <3>2, <3>3
    <2> QED
        BY <2>2, <2>3, <2>4, WantIn
<1> QED
    BY <1>1, <1>2 DEF Pending

\* syncStale writes nothing, and removes all.
LEMMA StaleProper ==
    ASSUME NEW n, NEW A, NEW C, NEW used, NEW S, A \subseteq S
    PROVE  Proper(StaleOps(n, A, C, used), n, {}, {}, S)
<1> SUFFICES ASSUME NEW o \in StaleOps(n, A, C, used)
             PROVE  OpMine(n, S, o) /\ Adds(PodOf[n], o) = {}
    BY DEF Proper
<1>1. CASE \E s \in A : o = [op |-> "lookupRemove", slot |-> s]
    BY SMTT(30), <1>1 DEF OpMine, Slotted, Adds
<1>2. CASE n \in Local /\ \E s \in A : o = [op |-> "portsRemove", slot |-> s]
    BY SMTT(30), <1>2 DEF OpMine, Slotted, Adds
<1>3. CASE n \in Local /\ \E c \in C : o = [op |-> "cfgRemove", cidr |-> c, ips |-> IPsOf(A)]
    BY SMTT(30), <1>3 DEF OpMine, Slotted, Adds, IPsOf
<1>4. CASE n \in Local /\ o = [op |-> "kindRemove"]
    BY <1>4 DEF OpMine, Slotted, Adds
<1> QED
    BY <1>1, <1>2, <1>3, <1>4 DEF StaleOps, SlotOps, CfgRemoves

LEMMA StalePending ==
    ASSUME NEW n, NEW A, NEW C, NEW used, NEW M, NEW P, P \subseteq Want(n, A, C)
    PROVE  Pending(StaleOps(n, A, C, used), n, M, {}, P)
<1> DEFINE T == StaleOps(n, A, C, used)
           p == PodOf[n]
<1> SUFFICES ASSUME NEW e \in Want(n, A, C) PROVE \E o \in T : Drops(p, o, e)
    BY DEF Pending
<1>1. CASE WantsLookup(n, A, e)
    <2>1. PICK s \in A : e = <<"lookup", s, p>>
        BY <1>1 DEF WantsLookup
    <2> DEFINE o == [op |-> "lookupRemove", slot |-> s]
    <2>2. o \in T /\ Drops(p, o, e)
        BY <2>1 DEF StaleOps, SlotOps, Drops
    <2> QED
        BY <2>2
<1>2. CASE n \in Local /\ WantsPorts(n, A, e)
    <2>1. PICK s \in A : e = <<"ports", <<p, s[2]>>, "set">>
        BY <1>2 DEF WantsPorts
    <2> DEFINE o == [op |-> "portsRemove", slot |-> s]
    <2>2. o \in T /\ Drops(p, o, e)
        BY <2>1, <1>2 DEF StaleOps, SlotOps, Drops
    <2> QED
        BY <2>2
<1>3. CASE n \in Local /\ WantsCfg(n, A, C, e)
    <2>1. PICK c \in C, s \in A : e = <<"cfg", <<p, c, s[1]>>, s[2]>>
        BY <1>3 DEF WantsCfg
    <2> DEFINE o == [op |-> "cfgRemove", cidr |-> c, ips |-> IPsOf(A)]
    <2>2. o \in T
        BY <1>3 DEF StaleOps, CfgRemoves
    <2>3. s[1] \in IPsOf(A)
        BY DEF IPsOf
    <2>4. Drops(p, o, e)
        BY <2>1, <2>3 DEF Drops
    <2> QED
        BY <2>2, <2>4
<1> QED
    BY <1>1, <1>2, <1>3, WantIn

\* The entries of two NATPortRanges are different ones.
LEMMA WantApart ==
    ASSUME NEW n, NEW m, n # m,
           NEW S \in SUBSET PoolOf[n], NEW R \in SUBSET PoolOf[m], S \cap R = {},
           NEW C, NEW D, NEW e \in Want(n, S, C)
    PROVE  e \notin Want(m, R, D)
<1> SUFFICES ASSUME e \in Want(m, R, D) PROVE FALSE
    OBVIOUS
<1>1. CASE WantsLookup(n, S, e)
    <2>1. PICK s \in S : e = <<"lookup", s, PodOf[n]>>
        BY <1>1 DEF WantsLookup
    <2>2. \E r \in R : e = <<"lookup", r, PodOf[m]>>
        BY SMTT(30), <2>1, WantIn DEF WantsLookup
    <2> QED
        BY <2>1, <2>2
<1>2. CASE n \in Local /\ BlocksApart /\ WantsPorts(n, S, e)
    <2>1. PICK s \in S : e = <<"ports", <<PodOf[n], s[2]>>, "set">>
        BY <1>2 DEF WantsPorts
    <2>2. m \in Local /\ \E r \in R : e = <<"ports", <<PodOf[m], r[2]>>, "set">>
        BY SMTT(30), <2>1, WantIn DEF WantsPorts
    <2>3. PICK r \in R : PodOf[m] = PodOf[n] /\ r[2] = s[2]
        BY <2>1, <2>2
    <2> QED
        BY <2>2, <2>3, <1>2 DEF BlocksApart
<1>3. CASE n \in Local /\ BlocksApart /\ WantsCfg(n, S, C, e)
    <2>1. PICK c \in C, s \in S : e = <<"cfg", <<PodOf[n], c, s[1]>>, s[2]>>
        BY <1>3 DEF WantsCfg
    <2>2. m \in Local /\ \E d \in D, r \in R : e = <<"cfg", <<PodOf[m], d, r[1]>>, r[2]>>
        BY SMTT(30), <2>1, WantIn DEF WantsCfg
    <2>3. PICK r \in R : PodOf[m] = PodOf[n] /\ r[1] = s[1]
        BY <2>1, <2>2
    <2> QED
        BY <2>2, <2>3, <1>3 DEF BlocksApart
<1> QED
    BY <1>1, <1>2, <1>3, WantIn

\* An operation for n leaves the entries of another NATPortRange alone.
LEMMA OthersKept ==
    ASSUME NEW n, NEW m, n # m,
           NEW S \in SUBSET PoolOf[n], NEW R \in SUBSET PoolOf[m], S \cap R = {},
           NEW D, NEW e \in Want(m, R, D), NEW o, OpMine(n, S, o), IsOp(o)
    PROVE  ~Drops(PodOf[n], o, e)
<1> SUFFICES ASSUME Drops(PodOf[n], o, e) PROVE FALSE
    OBVIOUS
<1>1. CASE o.op \in {"lookupRemove", "lookupAdd"}
    <2>1. o.slot \in S
        BY <1>1 DEF OpMine, Slotted
    <2>2. e[1] = "lookup" /\ e[2] = o.slot
        BY SMTT(30), <1>1 DEF Drops
    <2>3. \E r \in R : e = <<"lookup", r, PodOf[m]>>
        BY SMTT(30), <2>2, WantIn DEF WantsLookup
    <2> QED
        BY SMTT(30), <2>1, <2>2, <2>3
<1>2. CASE o.op = "portsRemove"
    <2>1. o.slot \in S /\ n \in Local
        BY <1>2 DEF OpMine, Slotted
    <2>2. e = <<"ports", <<PodOf[n], o.slot[2]>>, "set">>
        BY <1>2 DEF Drops
    <2>3. BlocksApart /\ m \in Local /\ \E r \in R : e = <<"ports", <<PodOf[m], r[2]>>, "set">>
        BY SMTT(30), <2>2, WantIn DEF WantsPorts
    <2>4. PICK r \in R : PodOf[m] = PodOf[n] /\ r[2] = o.slot[2]
        BY <2>2, <2>3
    <2> QED
        BY <2>1, <2>3, <2>4 DEF BlocksApart
<1>3. CASE o.op \in {"cfgRemove", "cfgUpsert"}
    <2>1. n \in Local
        BY <1>3 DEF OpMine
    <2>2. \E s \in S : e[1] = "cfg" /\ e[2] = <<PodOf[n], o.cidr, s[1]>>
        <3>1. CASE o.op = "cfgRemove"
            <4>1. o.ips \subseteq IPsOf(S)
                BY <3>1 DEF OpMine
            <4>2. e[1] = "cfg" /\ \E ip \in o.ips : e[2] = <<PodOf[n], o.cidr, ip>>
                BY <3>1 DEF Drops
            <4> QED
                BY <4>1, <4>2 DEF IPsOf
        <3>2. CASE o.op = "cfgUpsert"
            <4>1. o.slot \in S
                BY <3>2 DEF OpMine, Slotted
            <4>2. e[1] = "cfg" /\ e[2] = <<PodOf[n], o.cidr, o.slot[1]>>
                BY <3>2 DEF Drops
            <4> QED
                BY <4>1, <4>2
        <3> QED
            BY <3>1, <3>2, <1>3
    <2>3. PICK s \in S : e[1] = "cfg" /\ e[2] = <<PodOf[n], o.cidr, s[1]>>
        BY <2>2
    <2>4. /\ BlocksApart /\ m \in Local
          /\ \E d \in D, r \in R : e = <<"cfg", <<PodOf[m], d, r[1]>>, r[2]>>
        BY SMTT(30), <2>3, WantIn DEF WantsCfg
    <2>5. PICK d \in D, r \in R : e = <<"cfg", <<PodOf[m], d, r[1]>>, r[2]>>
        BY <2>4
    <2>6. PodOf[m] = PodOf[n] /\ r[1] = s[1]
        BY <2>3, <2>5
    <2> QED
        BY <2>1, <2>4, <2>6 DEF BlocksApart
<1>4. CASE o.op \in {"portsAdd", "kindAdd", "kindRemove"}
    BY <1>4 DEF Drops
<1> QED
    BY <1>1, <1>2, <1>3, <1>4 DEF IsOp, Slotted

-----------------------------------------------------------------------------
(* A daemon that keeps up with the API while it runs, and one that, with   *)
(* that, runs on.                                                          *)

KeepsUp == "lag" \notin Env
Calm    == KeepsUp /\ "restart" \notin Env

SpecOf(n) == [allocs |-> npr[n].allocs, cidrs |-> npr[n].cidrs]

\* No index twice, in the objects and in the cache.
AllAllowed ==
    \A n \in Name : /\ npr[n] # None => Allowed(npr[n].allocs)
                    /\ synced[n] # None => Allowed(synced[n].allocs)

\* What the cache has of a NATPortRange, by how far its reconcile has come.
Status ==
    /\ up \/ "restart" \in Env
    /\ ~up => work = NoWork /\ \A n \in Name : synced[n] = None
    /\ \A n \in Name :
          /\ npr[n] = None => synced[n] = None /\ work.name # n
          /\ Alive(n) /\ CaughtUp(n) => synced[n] = SpecOf(n)
          /\ npr[n] # None /\ npr[n].stale =>
                synced[n] \in {None, SpecOf(n)} /\ (CaughtUp(n) => synced[n] = None)
          /\ npr[n] # None /\ work.name = n =>
                work.then = IF npr[n].stale THEN None ELSE SpecOf(n)

Claim(n) == OldAllocs(n) \cup IF npr[n] = None THEN {} ELSE npr[n].allocs

Disjoint == \A n, m \in Name : n # m => Claim(n) \cap Claim(m) = {}

\* The entries that n is to have, that it had when it was last reconciled, and
\* those that are in both and stay where they are.
Content == ContentOf(lookup, ports, cfg)
Goal(n) == IF Alive(n) THEN Want(n, npr[n].allocs, npr[n].cidrs) ELSE {}
Past(n) == Want(n, OldAllocs(n), OldCIDRs(n))
Kept(n) == IF Alive(n) THEN Want(n, npr[n].allocs \cap OldAllocs(n),
                                    npr[n].cidrs \cap OldCIDRs(n)) ELSE {}

\* A restart forgets what the cache had.
Covered == "restart" \notin Env =>
               \A e \in Content : \E n \in Name : e \in Goal(n) \cup Past(n)
KeptIn  == \A n \in Name : Kept(n) \subseteq Content
Working ==
    \A n \in Name : work.name = n =>
        /\ Proper(Ops(work.todo), n, Goal(n), Kept(n), Claim(n))
        /\ Pending(Ops(work.todo), n, Content, Goal(n), Past(n))

SyncInv ==
    SyncType /\ AllAllowed /\ Status /\ Disjoint /\ Covered /\ KeptIn /\ Working

LEMMA SyncInvInit == Init => SyncInv
<1> SUFFICES ASSUME Init PROVE SyncInv
    OBVIOUS
<1>1. SyncType
    BY SyncTypeInit
<1>2. /\ \A n \in Name : npr[n] = None /\ synced[n] = None
      /\ work.name = None /\ up /\ ports = {} /\ cfg = {} /\ \A s \in Slot : lookup[s] = None
    BY DEF Init, NoWork
<1>3. Content = {}
    BY <1>2 DEF Content, ContentOf
<1>4. \A n \in Name : ~Alive(n) /\ Claim(n) = {} /\ Kept(n) = {}
    BY <1>2 DEF Alive, Claim, OldAllocs, Kept
<1>5. AllAllowed /\ Disjoint /\ Covered /\ KeptIn
    BY <1>2, <1>3, <1>4 DEF AllAllowed, Disjoint, Covered, KeptIn
<1>6. Status /\ Working
    BY <1>2, SyncAssumption DEF Status, Working, Alive
<1> QED
    BY <1>1, <1>5, <1>6 DEF SyncInv

\* The four changes of the API, for a name that the daemon is done with or
\* while there is no daemon.
Changed(n, v) ==
    /\ CaughtUp(n) \/ ~up
    /\ Change(n, v)
    /\ \/ v = None /\ npr[n] # None /\ npr[n].stale
       \/ /\ v \in Object /\ ~v.stale /\ Allowed(v.allocs) /\ v.cidrs # {}
          /\ v.allocs \subseteq PoolOf[n] /\ v.allocs \cap Held(n) = {}
          /\ npr[n] = None \/ Alive(n)
       \/ /\ v \in Object /\ v.stale /\ Alive(n)
          /\ v.allocs = npr[n].allocs /\ v.cidrs = npr[n].cidrs

LEMMA EnvChange ==
    ASSUME KeepsUp, SyncType, NEW n \in Name,
           Create(n) \/ Update(n) \/ MarkStale(n) \/ Delete(n)
    PROVE  \E v : Changed(n, v)
<1>0. PoolOf[n] \subseteq Slot
    BY DEF Slot
<1>a. ASSUME NEW v, Change(n, v) PROVE CaughtUp(n) \/ ~up
    BY <1>a DEF Change, KeepsUp
<1>1. CASE Create(n)
    <2>1. PICK S \in SUBSET (PoolOf[n] \ Held(n)), C \in (SUBSET CIDR) \ {{}} :
              /\ npr[n] = None /\ Allowed(S)
              /\ Change(n, [allocs |-> S, cidrs |-> C, stale |-> FALSE])
        BY <1>1 DEF Create
    <2> DEFINE v == [allocs |-> S, cidrs |-> C, stale |-> FALSE]
    <2>2. v \in Object /\ ~v.stale /\ v.allocs = S /\ v.cidrs = C
        BY <1>0 DEF Object
    <2>4. Change(n, v) /\ (CaughtUp(n) \/ ~up)
        BY <2>1, <1>a
    <2> HIDE DEF v
    <2>5. /\ Allowed(v.allocs) /\ v.cidrs # {}
          /\ v.allocs \subseteq PoolOf[n] /\ v.allocs \cap Held(n) = {}
        <3>1. Allowed(S) /\ v.allocs = S /\ v.cidrs = C
            BY <2>1, <2>2
        <3>2. Allowed(v.allocs)
            BY <3>1, Zenon
        <3>3. C # {} /\ S \subseteq PoolOf[n] /\ S \cap Held(n) = {}
            OBVIOUS
        <3> QED
            BY <3>1, <3>2, <3>3
    <2>3. Changed(n, v)
        BY <2>1, <2>2, <2>4, <2>5 DEF Changed
    <2> QED
        BY <2>3
<1>2. CASE Update(n)
    <2>1. PICK S \in SUBSET (PoolOf[n] \ Held(n)), C \in (SUBSET CIDR) \ {{}} :
              /\ npr[n] # None /\ ~npr[n].stale /\ Allowed(S)
              /\ Change(n, [npr[n] EXCEPT !.allocs = S, !.cidrs = C])
        BY <1>2 DEF Update
    <2>2. PICK v : v = [npr[n] EXCEPT !.allocs = S, !.cidrs = C]
        OBVIOUS
    <2>3. v \in Object /\ ~v.stale /\ v.allocs = S /\ v.cidrs = C
        BY <2>1, <2>2, <1>0, OldType DEF Object
    <2>4. Change(n, v)
        BY <2>1, <2>2 DEF Change
    <2>6. /\ Allowed(v.allocs) /\ v.cidrs # {}
          /\ v.allocs \subseteq PoolOf[n] /\ v.allocs \cap Held(n) = {}
        <3>1. Allowed(S) /\ v.allocs = S /\ v.cidrs = C
            BY <2>1, <2>3
        <3>2. Allowed(v.allocs)
            BY <3>1, Zenon
        <3>3. C # {} /\ S \subseteq PoolOf[n] /\ S \cap Held(n) = {}
            OBVIOUS
        <3> QED
            BY <3>1, <3>2, <3>3
    <2>5. Changed(n, v)
        BY <2>1, <2>3, <2>4, <2>6, <1>a DEF Changed, Alive
    <2> QED
        BY <2>5
<1>3. CASE MarkStale(n)
    <2>1. npr[n] # None /\ ~npr[n].stale /\ Change(n, [npr[n] EXCEPT !.stale = TRUE])
        BY <1>3 DEF MarkStale
    <2>2. PICK v : v = [npr[n] EXCEPT !.stale = TRUE]
        OBVIOUS
    <2>3. v \in Object /\ v.stale /\ v.allocs = npr[n].allocs /\ v.cidrs = npr[n].cidrs
        BY <2>1, <2>2, OldType DEF Object
    <2>4. Change(n, v)
        BY <2>1, <2>2 DEF Change
    <2>5. Changed(n, v)
        BY <2>1, <2>3, <2>4, <1>a DEF Changed, Alive
    <2> QED
        BY <2>5
<1>4. CASE Delete(n)
    <2>1. npr[n] # None /\ npr[n].stale /\ Change(n, None)
        BY <1>4 DEF Delete
    <2>2. Changed(n, None)
        BY <2>1, <1>a DEF Changed
    <2> QED
        BY <2>2
<1> QED
    BY <1>1, <1>2, <1>3, <1>4

\* What a change leaves as it was.
LEMMA ChangedElse ==
    ASSUME SyncInv, NEW n \in Name, NEW v, Changed(n, v)
    PROVE  /\ UNCHANGED <<up, synced, work, lookup, ports, kind, cfg>>
           /\ npr'[n] = v /\ work.name # n
           /\ \A m \in Name : OldAllocs(m)' = OldAllocs(m) /\ OldCIDRs(m)' = OldCIDRs(m)
           /\ \A m \in Name \ {n} : npr'[m] = npr[m] /\ CaughtUp(m)' = CaughtUp(m)
           /\ ~CaughtUp(n)'
<1>0. work.name # n
    BY SyncAssumption DEF Changed, CaughtUp, SyncInv, Status, NoWork
<1>1. /\ UNCHANGED <<up, synced, work, lookup, ports, kind, cfg>>
      /\ npr' = [npr EXCEPT ![n] = v] /\ queue' = IF up THEN queue \cup {n} ELSE queue
    BY DEF Changed, Change, maps
<1>2. npr'[n] = v /\ \A m \in Name \ {n} : npr'[m] = npr[m]
    BY <1>1 DEF SyncInv, SyncType
<1>3. \A m \in Name : OldAllocs(m)' = OldAllocs(m) /\ OldCIDRs(m)' = OldCIDRs(m)
    BY <1>1 DEF OldAllocs, OldCIDRs
<1>4. \A m \in Name \ {n} : CaughtUp(m)' = CaughtUp(m)
    BY <1>1 DEF CaughtUp
<1>5. ~CaughtUp(n)'
    BY <1>1 DEF CaughtUp
<1> QED
    BY <1>0, <1>1, <1>2, <1>3, <1>4, <1>5

LEMMA HeldClaim ==
    ASSUME KeepsUp, NEW n \in Name, NEW m \in Name, n # m
    PROVE  Claim(m) \subseteq Held(n)
BY DEF KeepsUp, Claim, Held

LEMMA ClaimInPool ==
    ASSUME SyncType, NEW n \in Name
    PROVE  /\ Claim(n) \subseteq PoolOf[n]
           /\ OldAllocs(n) \subseteq Claim(n)
           /\ npr[n] # None => npr[n].allocs \subseteq Claim(n)
BY OldType DEF Claim

\* The entries of n are those of its claim.
LEMMA OwnEntries ==
    ASSUME SyncType, NEW n \in Name
    PROVE  /\ Goal(n) \cup Past(n) \subseteq Want(n, Claim(n), CIDR)
           /\ Kept(n) \subseteq Goal(n) /\ Kept(n) \subseteq Past(n)
<1>1. /\ OldAllocs(n) \subseteq Claim(n) /\ OldCIDRs(n) \subseteq CIDR
      /\ Alive(n) => npr[n].allocs \subseteq Claim(n) /\ npr[n].cidrs \subseteq CIDR
    BY OldType, ClaimInPool DEF Alive
<1>2. Past(n) \subseteq Want(n, Claim(n), CIDR)
    BY <1>1, WantMono DEF Past
<1>3. Goal(n) \subseteq Want(n, Claim(n), CIDR)
    BY SMTT(30), <1>1, WantMono DEF Goal
<1> DEFINE A == npr[n].allocs \cap OldAllocs(n)
           C == npr[n].cidrs \cap OldCIDRs(n)
<1>4. Want(n, A, C) \subseteq Want(n, npr[n].allocs, npr[n].cidrs)
    BY SMTT(30), WantMono
<1>5. Want(n, A, C) \subseteq Want(n, OldAllocs(n), OldCIDRs(n))
    BY SMTT(30), WantMono
<1> QED
    BY <1>2, <1>3, <1>4, <1>5 DEF Goal, Past, Kept

\* A NATPortRange that the daemon is done with has what the cache says.
LEMMA AtRestOne ==
    ASSUME SyncType, Status, NEW n \in Name, CaughtUp(n)
    PROVE  /\ Alive(n) => /\ OldAllocs(n) = npr[n].allocs /\ OldCIDRs(n) = npr[n].cidrs
                          /\ Goal(n) = Past(n) /\ Kept(n) = Past(n) /\ synced[n] # None
           /\ ~Alive(n) => /\ synced[n] = None /\ OldAllocs(n) = {}
                           /\ Goal(n) = {} /\ Past(n) = {}
<1>1. CASE Alive(n)
    <2>1. synced[n] = SpecOf(n) /\ npr[n] # None
        BY <1>1 DEF Status, Alive
    <2>2. SpecOf(n) \in Cached
        BY <2>1, OldType DEF SpecOf, Cached, Object
    <2>3. synced[n] # None
        BY <2>1, <2>2, SyncAssumption
    <2>4. OldAllocs(n) = npr[n].allocs /\ OldCIDRs(n) = npr[n].cidrs
        BY SMTT(30), <2>1, <2>3 DEF OldAllocs, OldCIDRs, SpecOf
    <2>5. npr[n].allocs \cap OldAllocs(n) = npr[n].allocs /\ npr[n].cidrs \cap OldCIDRs(n) = npr[n].cidrs
        BY <2>4
    <2> QED
        BY <1>1, <2>3, <2>4, <2>5 DEF Goal, Past, Kept
<1>2. CASE ~Alive(n)
    <2>1. synced[n] = None
        BY <1>2 DEF Status, Alive
    <2>2. OldAllocs(n) = {}
        BY <2>1 DEF OldAllocs
    <2> QED
        BY <1>2, <2>1, <2>2, WantNothing DEF Goal, Past
<1> QED
    BY <1>1, <1>2

LEMMA ChangedStatus ==
    ASSUME SyncInv, NEW n \in Name, NEW v, Changed(n, v)
    PROVE  Status' /\ AllAllowed'
<1>1. /\ UNCHANGED <<up, synced, work>> /\ npr'[n] = v /\ work.name # n
      /\ \A m \in Name \ {n} : npr'[m] = npr[m] /\ CaughtUp(m)' = CaughtUp(m)
      /\ ~CaughtUp(n)'
    BY ChangedElse
<1>2. SyncType /\ Status /\ AllAllowed
    BY DEF SyncInv
<1>3. CaughtUp(n) \/ synced[n] = None
    BY <1>2 DEF Changed, Status
<1>4. \A m \in Name \ {n} : SpecOf(m)' = SpecOf(m) /\ Alive(m)' = Alive(m)
    BY <1>1 DEF SpecOf, Alive
<1>5. ASSUME NEW m \in Name \ {n}
      PROVE  /\ npr'[m] = None => synced'[m] = None /\ work'.name # m
             /\ Alive(m)' /\ CaughtUp(m)' => synced'[m] = SpecOf(m)'
             /\ npr'[m] # None /\ npr'[m].stale =>
                   synced'[m] \in {None, SpecOf(m)'} /\ (CaughtUp(m)' => synced'[m] = None)
             /\ npr'[m] # None /\ work'.name = m =>
                   work'.then = IF npr'[m].stale THEN None ELSE SpecOf(m)'
    BY <1>1, <1>2, <1>4 DEF Status
<1>6. v = None => synced[n] = None
    <2>1. v = None => ~Alive(n)
        BY SyncAssumption DEF Changed, Alive
    <2> QED
        BY <2>1, <1>2, <1>3, AtRestOne
<1>7. ASSUME v # None, v.stale PROVE synced[n] \in {None, SpecOf(n)'}
    <2>1. Alive(n) /\ v.allocs = npr[n].allocs /\ v.cidrs = npr[n].cidrs
        BY <1>7 DEF Changed
    <2>2. synced[n] \in {None, SpecOf(n)}
        BY <2>1, <1>2, <1>3 DEF Status
    <2> QED
        BY <2>1, <2>2, <1>1 DEF SpecOf
<1>8. /\ npr'[n] = None => synced'[n] = None /\ work'.name # n
      /\ Alive(n)' /\ CaughtUp(n)' => synced'[n] = SpecOf(n)'
      /\ npr'[n] # None /\ npr'[n].stale =>
            synced'[n] \in {None, SpecOf(n)'} /\ (CaughtUp(n)' => synced'[n] = None)
      /\ npr'[n] # None /\ work'.name = n =>
            work'.then = IF npr'[n].stale THEN None ELSE SpecOf(n)'
    BY <1>1, <1>6, <1>7
<1>9. /\ up' \/ "restart" \in Env
      /\ ~up' => work' = NoWork /\ \A m \in Name : synced'[m] = None
    BY <1>1, <1>2 DEF Status
<1>10. Status'
    BY <1>5, <1>8, <1>9 DEF Status
<1>11. v # None => Allowed(v.allocs)
    BY <1>2 DEF Changed, Alive, AllAllowed
<1>12. AllAllowed'
    BY <1>1, <1>2, <1>11 DEF AllAllowed
<1> QED
    BY <1>10, <1>12

LEMMA ChangedDisjoint ==
    ASSUME KeepsUp, SyncInv, NEW n \in Name, NEW v, Changed(n, v)
    PROVE  Disjoint'
<1>1. /\ npr'[n] = v /\ \A m \in Name : OldAllocs(m)' = OldAllocs(m)
      /\ \A m \in Name \ {n} : npr'[m] = npr[m]
    BY ChangedElse
<1>2. \A m \in Name \ {n} : Claim(m)' = Claim(m)
    BY <1>1 DEF Claim
<1>3. Disjoint
    BY DEF SyncInv
<1>4. ASSUME NEW m \in Name \ {n} PROVE Claim(n)' \cap Claim(m) = {}
    <2>1. Claim(n)' = OldAllocs(n) \cup IF v = None THEN {} ELSE v.allocs
        BY <1>1 DEF Claim
    <2>2. Claim(n) \cap Claim(m) = {} /\ OldAllocs(n) \subseteq Claim(n)
        BY <1>3 DEF Disjoint, Claim
    <2>3. v = None \/ v.allocs \cap Held(n) = {} \/ v.allocs \subseteq Claim(n)
        BY DEF Changed, Claim, Alive
    <2>4. Claim(m) \subseteq Held(n)
        BY HeldClaim
    <2> QED
        BY <2>1, <2>2, <2>3, <2>4
<1> QED
    BY SMTT(30), <1>2, <1>3, <1>4 DEF Disjoint

LEMMA ChangedMaps ==
    ASSUME SyncInv, NEW n \in Name, NEW v, Changed(n, v)
    PROVE  Covered' /\ KeptIn' /\ Working'
<1>1. /\ UNCHANGED <<work, lookup, ports, cfg>> /\ npr'[n] = v /\ work.name # n
      /\ \A m \in Name : OldAllocs(m)' = OldAllocs(m) /\ OldCIDRs(m)' = OldCIDRs(m)
      /\ \A m \in Name \ {n} : npr'[m] = npr[m]
    BY ChangedElse
<1>2. SyncType /\ Status /\ (CaughtUp(n) \/ ~up) /\ Covered /\ KeptIn /\ Working
    BY DEF SyncInv, Changed
<1>3. /\ Content' = Content
      /\ \A m \in Name : Past(m)' = Past(m)
      /\ \A m \in Name \ {n} : /\ Goal(m)' = Goal(m) /\ Kept(m)' = Kept(m)
                               /\ Claim(m)' = Claim(m)
    BY <1>1 DEF Content, Past, Goal, Kept, Claim, Alive
<1>4. ASSUME CaughtUp(n)
      PROVE  Goal(n) \subseteq Past(n) /\ (Alive(n) => Kept(n) = Past(n)) /\ (~Alive(n) => Past(n) = {})
    BY <1>2, <1>4, AtRestOne
<1>5. Covered'
    <2> SUFFICES ASSUME "restart" \notin Env, NEW e \in Content
                 PROVE  \E m \in Name : e \in Goal(m)' \cup Past(m)'
        BY <1>3 DEF Covered
    <2>1. PICK m \in Name : e \in Goal(m) \cup Past(m)
        BY <1>2 DEF Covered
    <2>2. CaughtUp(n)
        BY <1>2 DEF Status
    <2> QED
        BY <2>1, <2>2, <1>3, <1>4
<1>6. Kept(n)' \subseteq Past(n)
    <2>1. Want(n, v.allocs \cap OldAllocs(n), v.cidrs \cap OldCIDRs(n))
            \subseteq Want(n, OldAllocs(n), OldCIDRs(n))
        BY SMTT(30), WantMono
    <2> QED
        BY <1>1, <2>1 DEF Kept, Past
<1>7. Past(n) \subseteq Content
    <2>1. CASE CaughtUp(n)
        BY <2>1, <1>2, <1>4 DEF KeptIn
    <2>2. CASE ~up
        <3>1. OldAllocs(n) = {}
            BY <2>2, <1>2 DEF Status, OldAllocs
        <3> QED
            BY <3>1, WantNothing DEF Past
    <2> QED
        BY <2>1, <2>2, <1>2
<1>8. KeptIn'
    BY <1>2, <1>3, <1>6, <1>7 DEF KeptIn
<1>9. Working'
    <2> SUFFICES ASSUME NEW m \in Name, work'.name = m
                 PROVE  /\ Proper(Ops(work'.todo), m, Goal(m)', Kept(m)', Claim(m)')
                        /\ Pending(Ops(work'.todo), m, Content', Goal(m)', Past(m)')
        BY DEF Working
    <2>1. m # n /\ work' = work
        BY <1>1
    <2> QED
        BY <2>1, <1>2, <1>3 DEF Working
<1> QED
    BY <1>5, <1>8, <1>9

\* A reconcile begins: the differences to the cache are what has to be done.
LEMMA BeginInv ==
    ASSUME SyncInv, NEW n \in Name, Begin(n)
    PROVE  SyncInv'
<1>1. SyncType /\ Status /\ Disjoint /\ Covered /\ KeptIn /\ Working /\ AllAllowed
    BY DEF SyncInv
<1>2. /\ up /\ up' /\ work = NoWork /\ n \in queue /\ queue' = queue \ {n}
      /\ UNCHANGED <<npr, lookup, ports, kind, cfg>>
    BY DEF Begin, api, maps
<1>3. synced' = synced
    <2>1. CASE npr[n] = None
        <3>1. synced' = [synced EXCEPT ![n] = None] /\ synced[n] = None
            BY <2>1, <1>1 DEF Begin, Status
        <3> QED
            BY <3>1, <1>1 DEF SyncType
    <2>2. CASE npr[n] # None
        BY <2>2 DEF Begin
    <2> QED
        BY <2>1, <2>2
<1>4. SyncType'
    BY <1>1, BeginType
<1>5. /\ Content' = Content
      /\ \A m \in Name : /\ Past(m)' = Past(m) /\ Goal(m)' = Goal(m) /\ Kept(m)' = Kept(m)
                         /\ Claim(m)' = Claim(m) /\ SpecOf(m)' = SpecOf(m)
                         /\ Alive(m)' = Alive(m)
    BY <1>2, <1>3 DEF Content, Past, Goal, Kept, Claim, Alive, OldAllocs, OldCIDRs, SpecOf
<1>6. AllAllowed' /\ Disjoint' /\ Covered' /\ KeptIn'
    BY <1>1, <1>2, <1>3, <1>5 DEF AllAllowed, Disjoint, Covered, KeptIn
<1>7. work.name = None
    BY <1>2 DEF NoWork
<1>8. CASE npr[n] = None
    <2>1. work' = work
        BY <1>8 DEF Begin
    <2>2. work'.name = None
        BY <1>7, <2>1
    <2>3. Working'
        BY <2>2, SyncAssumption DEF Working
    <2>4. \A m \in Name \ {n} : CaughtUp(m)' = CaughtUp(m)
        BY <1>2, <2>1 DEF CaughtUp
    <2>5. synced[n] = None /\ ~Alive(n)
        BY <1>8, <1>1 DEF Status, Alive
    <2>6. Status'
        BY ZenonT(60), <1>1, <1>2, <1>3, <1>5, <1>8, <2>2, <2>4, <2>5, SyncAssumption DEF Status
    <2> QED
        BY <1>4, <1>6, <2>3, <2>6 DEF SyncInv
<1>9. CASE npr[n] # None
    <2>1. /\ work'.name = n /\ Ops(work'.todo) = TodoOf(n)
          /\ work'.then = IF npr[n].stale THEN None ELSE SpecOf(n)
        BY <1>1, <1>9, BeginWork DEF SpecOf
    <2>2. ~CaughtUp(n)' /\ \A m \in Name \ {n} : CaughtUp(m)' = CaughtUp(m)
        BY <1>2, <1>7, <2>1, SyncAssumption DEF CaughtUp
    <2>3. Status'
        BY ZenonT(60), <1>1, <1>2, <1>3, <1>5, <1>9, <2>1, <2>2 DEF Status
    <2>4. /\ Proper(TodoOf(n), n, Goal(n), Kept(n), Claim(n))
          /\ Pending(TodoOf(n), n, Content, Goal(n), Past(n))
        <3> DEFINE A == npr[n].allocs
                   C == npr[n].cidrs
                   OA == OldAllocs(n)
                   OC == OldCIDRs(n)
        <3>0. A \subseteq Slot /\ OA \subseteq Slot /\ A \subseteq Claim(n)
            BY <1>1, <1>9, OldType, ClaimInPool
        <3>1. CASE npr[n].stale
            <4>1. TodoOf(n) = StaleOps(n, A, C, StillUsed(n)) /\ Goal(n) = {} /\ Kept(n) = {}
                BY <3>1 DEF TodoOf, Goal, Kept, Alive
            <4>2. synced[n] = None \/ synced[n] = SpecOf(n)
                BY <1>1, <1>9, <3>1 DEF Status
            <4>3. Past(n) \subseteq Want(n, A, C)
                <5>1. CASE synced[n] = None
                    BY <5>1, WantNothing DEF Past, OldAllocs
                <5>2. CASE synced[n] # None
                    BY SMTT(30), <4>2, <5>2 DEF Past, OldAllocs, OldCIDRs, SpecOf
                <5> QED
                    BY <5>1, <5>2
            <4> QED
                BY <3>0, <4>1, <4>3, StaleProper, StalePending
        <3>2. CASE ~npr[n].stale
            <4>1. /\ TodoOf(n) = AliveOps(n, A, C, OA, OC) /\ Goal(n) = Want(n, A, C)
                  /\ Kept(n) = Want(n, A \cap OA, C \cap OC) /\ Past(n) = Want(n, OA, OC)
                BY <1>9, <3>2 DEF TodoOf, Goal, Kept, Alive, Past
            <4>2. BlocksApart => OneEach(A) /\ OneEach(OA)
                BY <1>1, <1>9 DEF BlocksApart, OneEach, AllAllowed, Allowed, OldAllocs
            <4>3. Kept(n) \subseteq Content
                BY <1>1 DEF KeptIn
            <4>4. Claim(n) = A \cup OA
                BY <1>9 DEF Claim
            <4>5. Proper(AliveOps(n, A, C, OA, OC), n, Want(n, A, C),
                         Want(n, A \cap OA, C \cap OC), A \cup OA)
                BY <3>0, <4>2, AliveProper
            <4>6. Pending(AliveOps(n, A, C, OA, OC), n, Content, Want(n, A, C), Want(n, OA, OC))
                BY <4>1, <4>3, AlivePending
            <4> QED
                BY <4>1, <4>4, <4>5, <4>6
        <3> QED
            BY <3>1, <3>2
    <2>5. Working'
        <3> SUFFICES ASSUME NEW m \in Name, work'.name = m
                     PROVE  /\ Proper(Ops(work'.todo), m, Goal(m)', Kept(m)', Claim(m)')
                            /\ Pending(Ops(work'.todo), m, Content', Goal(m)', Past(m)')
            BY DEF Working
        <3>1. m = n
            BY <2>1
        <3> QED
            BY <3>1, <2>1, <2>4, <1>5
    <2> QED
        BY <1>4, <1>6, <2>3, <2>5 DEF SyncInv
<1> QED
    BY <1>8, <1>9

\* What an operation of a reconcile changes in the maps.
LEMMA ContentStep ==
    ASSUME SyncType, NEW n \in Name, NEW o, IsOp(o),
           lookup' = LookupAfter(lookup, PodOf[n], o),
           ports' = PortsAfter(ports, PodOf[n], o), cfg' = CfgAfter(cfg, PodOf[n], o)
    PROVE  Becomes(Content, Content', PodOf[n], o)
<1> DEFINE p == PodOf[n]
<1>1. p \in Pod
    BY DEF Pod
<1>2. Content' = ContentOf(LookupAfter(lookup, p, o), PortsAfter(ports, p, o), CfgAfter(cfg, p, o))
    BY DEF Content
<1>3. /\ lookup \in [Slot -> Pod \cup {None}] /\ ports \subseteq Pod \X {s[2] : s \in Slot}
      /\ cfg \subseteq {<<q, c, s[1], s[2]>> : q \in Pod, c \in CIDR, s \in Slot}
    BY SMTT(30) DEF SyncType, TypeOK
<1> HIDE DEF p
<1>4. \A e : e \in Content' <=> e \in Adds(p, o) \/ (e \in Content /\ ~Drops(p, o, e))
    BY SMTT(30), <1>1, <1>2, <1>3, ContentAfter DEF Content
<1> QED
    BY <1>4 DEF Becomes, p

\* A map operation: one thing less to do for its NATPortRange, and nothing to
\* the others.
LEMMA WriteInv ==
    ASSUME SyncInv, Write
    PROVE  SyncInv'
<1>1. SyncType /\ Status /\ Disjoint /\ Covered /\ KeptIn /\ Working /\ AllAllowed
    BY DEF SyncInv
<1>2. PICK n \in Name, o \in Ops(work.todo) :
              /\ work # NoWork /\ work.name = n /\ IsOp(o)
              /\ work'.name = n /\ work'.then = work.then
              /\ Ops(work'.todo) = Ops(work.todo) \ {o}
              /\ \A x \in Ops(work.todo) \ {o} : Rank(o) <= Rank(x)
              /\ lookup' = LookupAfter(lookup, PodOf[n], o)
              /\ ports' = PortsAfter(ports, PodOf[n], o)
              /\ cfg' = CfgAfter(cfg, PodOf[n], o)
    BY <1>1, WriteStep
<1>3. UNCHANGED <<npr, queue, up, synced>>
    BY DEF Write, api
<1>4. SyncType'
    BY <1>1, WriteKeepsType
<1>5. \A m \in Name : /\ Past(m)' = Past(m) /\ Goal(m)' = Goal(m) /\ Kept(m)' = Kept(m)
                      /\ Claim(m)' = Claim(m) /\ SpecOf(m)' = SpecOf(m)
                      /\ Alive(m)' = Alive(m) /\ CaughtUp(m)' = CaughtUp(m)
    BY <1>2, <1>3 DEF Past, Goal, Kept, Claim, Alive, OldAllocs, OldCIDRs, SpecOf, CaughtUp
<1>6. AllAllowed' /\ Disjoint'
    BY <1>1, <1>3, <1>5 DEF AllAllowed, Disjoint
<1>7. Status'
    <2>1. up /\ up'
        BY <1>1, <1>2, <1>3 DEF Status
    <2> QED
        BY <1>1, <1>2, <1>3, <1>5, <2>1 DEF Status
<1> DEFINE p == PodOf[n]
<1>8. \A e : e \in Content' <=> e \in Adds(p, o) \/ (e \in Content /\ ~Drops(p, o, e))
    BY <1>1, <1>2, ContentStep DEF Becomes
<1>9. /\ Proper(Ops(work.todo), n, Goal(n), Kept(n), Claim(n))
      /\ Pending(Ops(work.todo), n, Content, Goal(n), Past(n))
    BY <1>1, <1>2 DEF Working
<1>10. \A x \in Ops(work.todo) : Rank(x) \in Int
    <2>1. \A x \in Ops(work.todo) : IsOp(x)
        BY <1>1, <1>2 DEF SyncType, WorkType
    <2> QED
        BY SMTT(30), <2>1 DEF IsOp, Slotted, Rank
<1>11. Kept(n) \subseteq Content /\ Kept(n) \subseteq Goal(n)
    BY <1>1, OwnEntries DEF KeptIn
<1>12. /\ Proper(Ops(work.todo) \ {o}, n, Goal(n), Kept(n), Claim(n))
       /\ Pending(Ops(work.todo) \ {o}, n, Content', Goal(n), Past(n))
       /\ Kept(n) \subseteq Content'
    <2> DEFINE T == Ops(work.todo)
               M == Content
               N == Content'
               G == Goal(n)
               K == Kept(n)
               P == Past(n)
               S == Claim(n)
    <2>1. /\ o \in T /\ Proper(T, n, G, K, S) /\ Pending(T, n, M, G, P)
          /\ K \subseteq M /\ K \subseteq G
        BY <1>2, <1>9, <1>11
    <2>2. First(T, o)
        BY <1>2, <1>10 DEF First
    <2>3. Becomes(M, N, PodOf[n], o)
        BY <1>8 DEF Becomes
    <2> HIDE DEF T, M, N, G, K, P, S
    <2>4. Proper(T \ {o}, n, G, K, S) /\ Pending(T \ {o}, n, N, G, P) /\ K \subseteq N
        BY <2>1, <2>2, <2>3, WriteOwn
    <2> QED
        BY <2>4 DEF T, M, N, G, K, P, S
<1>13. Working'
    <2> SUFFICES ASSUME NEW m \in Name, work'.name = m
                 PROVE  /\ Proper(Ops(work'.todo), m, Goal(m)', Kept(m)', Claim(m)')
                        /\ Pending(Ops(work'.todo), m, Content', Goal(m)', Past(m)')
        BY DEF Working
    <2>1. m = n
        BY <1>2
    <2> QED
        BY <2>1, <1>2, <1>5, <1>12
<1>14. Adds(p, o) \subseteq Goal(n) /\ OpMine(n, Claim(n), o)
    BY <1>2, <1>9 DEF Proper
<1>15. Covered'
    BY <1>1, <1>5, <1>8, <1>14 DEF Covered
<1>16. ASSUME NEW m \in Name, m # n PROVE Kept(m) \subseteq Content'
    <2> SUFFICES ASSUME NEW e \in Kept(m) PROVE e \in Content'
        OBVIOUS
    <2>1. e \in Content
        BY <1>1 DEF KeptIn
    <2>2. e \in Want(m, Claim(m), CIDR)
        BY <1>1, OwnEntries
    <2>3. Claim(n) \subseteq PoolOf[n] /\ Claim(m) \subseteq PoolOf[m] /\ Claim(n) \cap Claim(m) = {}
        BY <1>1, <1>16, ClaimInPool DEF Disjoint
    <2>4. ~Drops(p, o, e)
        BY ZenonT(60), <1>2, <1>14, <1>16, <2>2, <2>3, OthersKept
    <2> QED
        BY <1>8, <2>1, <2>4
<1>17. KeptIn'
    BY <1>5, <1>12, <1>16 DEF KeptIn
<1> QED
    BY ZenonT(60), <1>4, <1>6, <1>7, <1>13, <1>15, <1>17 DEF SyncInv

LEMMA AbortInv ==
    ASSUME SyncInv, SyncType', work # NoWork, Abort
    PROVE  SyncInv'
<1>1. SyncType /\ Status /\ Disjoint /\ Covered /\ KeptIn /\ Working /\ AllAllowed
    BY DEF SyncInv
<1>2. PICK n \in Name : work.name = n
    BY <1>1 DEF SyncType, WorkType
<1>3. /\ queue' = queue \cup {n} /\ work' = NoWork
      /\ UNCHANGED <<npr, up, synced, lookup, ports, kind, cfg>>
    BY <1>2 DEF Abort, api, maps
<1>4. work'.name = None
    BY <1>3 DEF NoWork
<1>5. /\ Content' = Content
      /\ \A m \in Name : /\ Past(m)' = Past(m) /\ Goal(m)' = Goal(m) /\ Kept(m)' = Kept(m)
                         /\ Claim(m)' = Claim(m) /\ SpecOf(m)' = SpecOf(m)
                         /\ Alive(m)' = Alive(m)
    BY <1>3 DEF Content, Past, Goal, Kept, Claim, Alive, OldAllocs, OldCIDRs, SpecOf
<1>6. ~CaughtUp(n)' /\ \A m \in Name \ {n} : CaughtUp(m)' = CaughtUp(m)
    BY <1>2, <1>3, <1>4, SyncAssumption DEF CaughtUp
<1>7. AllAllowed' /\ Disjoint' /\ Covered' /\ KeptIn'
    BY <1>1, <1>3, <1>5 DEF AllAllowed, Disjoint, Covered, KeptIn
<1>8. Working'
    BY <1>4, SyncAssumption DEF Working
<1>9. Status'
    <2>1. up'
        BY <1>1, <1>3 DEF Status
    <2> QED
        BY ZenonT(60), <1>1, <1>3, <1>4, <1>5, <1>6, <2>1, SyncAssumption DEF Status
<1> QED
    BY <1>7, <1>8, <1>9 DEF SyncInv

\* The cache is written when all is done: what it had of the NATPortRange and
\* the spec has not is gone from the maps, what the spec has is there.
LEMMA FinishInv ==
    ASSUME SyncInv, SyncType', Finish
    PROVE  SyncInv'
<1>1. SyncType /\ Status /\ Disjoint /\ Covered /\ KeptIn /\ Working /\ AllAllowed
    BY DEF SyncInv
<1>2. /\ work # NoWork /\ work.todo = << >> /\ work' = NoWork
      /\ synced' = [synced EXCEPT ![work.name] = work.then]
      /\ UNCHANGED <<npr, queue, up, lookup, ports, kind, cfg>>
    BY DEF Finish, api, maps
<1>3. PICK n \in Name : work.name = n
    BY <1>1, <1>2 DEF SyncType, WorkType
<1>4. npr[n] # None /\ work.then = IF npr[n].stale THEN None ELSE SpecOf(n)
    BY <1>1, <1>3 DEF Status
<1>5. synced'[n] = work.then /\ \A m \in Name \ {n} : synced'[m] = synced[m]
    BY <1>1, <1>2, <1>3 DEF SyncType
<1>6. work'.name = None
    BY <1>2 DEF NoWork
<1>7. /\ Content' = Content
      /\ \A m \in Name : Goal(m)' = Goal(m) /\ SpecOf(m)' = SpecOf(m) /\ Alive(m)' = Alive(m)
      /\ \A m \in Name \ {n} : /\ Past(m)' = Past(m) /\ Kept(m)' = Kept(m)
                               /\ Claim(m)' = Claim(m)
    <2>1. \A m \in Name : Goal(m)' = Goal(m) /\ SpecOf(m)' = SpecOf(m) /\ Alive(m)' = Alive(m)
        BY <1>2 DEF Goal, SpecOf, Alive
    <2>2. Content' = Content
        BY <1>2 DEF Content
    <2>3. ASSUME NEW m \in Name \ {n}
          PROVE  Past(m)' = Past(m) /\ Kept(m)' = Kept(m) /\ Claim(m)' = Claim(m)
        <3>1. OldAllocs(m)' = OldAllocs(m) /\ OldCIDRs(m)' = OldCIDRs(m)
            BY <1>5 DEF OldAllocs, OldCIDRs
        <3> QED
            BY <1>2, <2>1, <3>1 DEF Past, Kept, Claim
    <2> QED
        BY <2>1, <2>2, <2>3
<1>8. CaughtUp(n)' => n \notin queue
    BY <1>2 DEF CaughtUp
<1>9. \A m \in Name \ {n} : CaughtUp(m)' = CaughtUp(m)
    BY <1>2, <1>3, <1>6, SyncAssumption DEF CaughtUp
<1>10. Goal(n) \subseteq Content /\ Content \cap Past(n) \subseteq Goal(n)
    <2>1. Ops(work.todo) = {}
        BY SMTT(30), <1>2 DEF Ops
    <2> QED
        BY <1>1, <1>3, <2>1 DEF Working, Pending
<1>11. SpecOf(n) # None
    <2>1. SpecOf(n) \in Cached
        BY <1>1, <1>4, OldType DEF SpecOf, Cached, Object
    <2> QED
        BY <2>1, SyncAssumption
<1>12. /\ Kept(n)' \subseteq Goal(n) /\ Claim(n)' \subseteq Claim(n)
       /\ npr[n].stale => synced'[n] = None
       /\ ~npr[n].stale => synced'[n] = SpecOf(n)
    <2>1. CASE npr[n].stale
        <3>1. synced'[n] = None
            BY <1>4, <1>5, <2>1
        <3>2. OldAllocs(n)' = {}
            BY <3>1 DEF OldAllocs
        <3>3. Kept(n)' = {}
            BY <1>2, <2>1 DEF Kept, Alive
        <3> QED
            BY <1>2, <1>4, <2>1, <3>1, <3>2, <3>3 DEF Claim
    <2>2. CASE ~npr[n].stale
        <3>1. synced'[n] = SpecOf(n)
            BY ZenonT(60), <1>4, <1>5, <2>2
        <3>2. OldAllocs(n)' = npr[n].allocs /\ OldCIDRs(n)' = npr[n].cidrs
            BY SMTT(30), <3>1, <1>11 DEF OldAllocs, OldCIDRs, SpecOf
        <3>3. npr[n].allocs \cap npr[n].allocs = npr[n].allocs
              /\ npr[n].cidrs \cap npr[n].cidrs = npr[n].cidrs
            OBVIOUS
        <3>4. Kept(n)' = Goal(n)
            BY <1>2, <1>4, <2>2, <3>2, <3>3 DEF Kept, Goal, Alive
        <3>5. Claim(n)' \subseteq Claim(n)
            BY <1>2, <1>4, <3>2 DEF Claim
        <3> QED
            BY <2>2, <3>1, <3>4, <3>5
    <2> QED
        BY <2>1, <2>2
<1>13. Covered'
    BY <1>1, <1>7, <1>10 DEF Covered
<1>14. KeptIn'
    BY <1>1, <1>7, <1>10, <1>12 DEF KeptIn
<1>15. Disjoint'
    BY ZenonT(60), <1>1, <1>7, <1>12 DEF Disjoint
<1>16. Working'
    BY <1>6, SyncAssumption DEF Working
<1>17. AllAllowed'
    BY SMTT(30), <1>1, <1>2, <1>4, <1>5, <1>12 DEF AllAllowed, SpecOf
<1>18. Status'
    <2>1. up'
        BY <1>1, <1>2 DEF Status
    <2> QED
        BY ZenonT(60), <1>1, <1>2, <1>4, <1>5, <1>6, <1>7, <1>9, <1>12, <2>1, SyncAssumption DEF Status, Alive
<1> QED
    BY ZenonT(60), <1>13, <1>14, <1>15, <1>16, <1>17, <1>18 DEF SyncInv

\* The cache is lost, with all that it said was in the maps.
LEMMA StopInv ==
    ASSUME SyncInv, SyncType', Stop
    PROVE  SyncInv'
<1>1. SyncType /\ Status /\ Disjoint /\ AllAllowed
    BY DEF SyncInv
<1>2. /\ "restart" \in Env /\ ~up' /\ work' = NoWork /\ npr' = npr
      /\ \A n \in Name : synced'[n] = None
    BY DEF Stop, api
<1>3. work'.name = None
    BY <1>2 DEF NoWork
<1>4. \A n \in Name : OldAllocs(n)' = {}
    BY <1>2 DEF OldAllocs
<1>5. \A n \in Name : Kept(n)' = {}
    <2> SUFFICES ASSUME NEW n \in Name PROVE Kept(n)' = {}
        OBVIOUS
    <2>1. npr'[n].allocs \cap OldAllocs(n)' = {}
        BY <1>4
    <2>2. Want(n, {}, npr'[n].cidrs \cap OldCIDRs(n)') = {}
        BY WantNothing
    <2> QED
        BY <2>1, <2>2 DEF Kept
<1>6. KeptIn' /\ Covered'
    BY <1>2, <1>5 DEF KeptIn, Covered
<1>7. Disjoint'
    <2>1. \A n \in Name : Claim(n)' \subseteq Claim(n)
        BY <1>2, <1>4 DEF Claim
    <2> QED
        BY <1>1, <2>1 DEF Disjoint
<1>8. Working'
    BY <1>3, SyncAssumption DEF Working
<1>9. AllAllowed'
    BY <1>1, <1>2 DEF AllAllowed
<1>10. Status'
    BY <1>2, <1>3, SyncAssumption DEF Status, CaughtUp
<1> QED
    BY <1>6, <1>7, <1>8, <1>9, <1>10 DEF SyncInv

\* The daemon starts with an empty cache, and has to look at all there is.
LEMMA StartInv ==
    ASSUME SyncInv, SyncType', Start
    PROVE  SyncInv'
<1>1. SyncType /\ Status /\ Disjoint /\ Covered /\ KeptIn /\ Working /\ AllAllowed
    BY DEF SyncInv
<1>2. /\ ~up /\ up' /\ queue' = {n \in Name : npr[n] # None}
      /\ UNCHANGED <<npr, synced, work, lookup, ports, cfg>>
    BY DEF Start, api, maps
<1>3. /\ work = NoWork /\ work.name = None
      /\ \A n \in Name : synced[n] = None
    BY <1>1, <1>2 DEF Status, NoWork
<1>4. /\ Content' = Content
      /\ \A n \in Name : /\ Past(n)' = Past(n) /\ Goal(n)' = Goal(n) /\ Kept(n)' = Kept(n)
                         /\ Claim(n)' = Claim(n)
    BY <1>2 DEF Content, Past, Goal, Kept, Claim, Alive, OldAllocs, OldCIDRs
<1>5. AllAllowed' /\ Disjoint' /\ Covered' /\ KeptIn'
    BY <1>1, <1>2, <1>4 DEF AllAllowed, Disjoint, Covered, KeptIn
<1>6. Working'
    BY <1>2, <1>3, SyncAssumption DEF Working
<1>7. \A n \in Name : npr'[n] # None => ~CaughtUp(n)'
    BY <1>2 DEF CaughtUp
<1>8. Status'
    BY <1>2, <1>3, <1>7, SyncAssumption DEF Status, Alive
<1> QED
    BY <1>5, <1>6, <1>8 DEF SyncInv

LEMMA SyncInvStep ==
    ASSUME KeepsUp, SyncInv, [Next]_vars
    PROVE  SyncInv'
<1>0. SyncType'
    BY SyncTypeStep DEF SyncInv
<1>1. ASSUME NEW n \in Name, Begin(n) PROVE SyncInv'
    BY <1>1, BeginInv
<1>2. CASE Write
    BY <1>2, WriteInv
<1>3. CASE work # NoWork /\ Abort
    BY <1>0, <1>3, AbortInv
<1>4. CASE Finish
    BY <1>0, <1>4, FinishInv
<1>5. CASE Stop \/ Start
    BY <1>0, <1>5, StopInv, StartInv
<1>6. CASE EnvStep
    <2>1. PICK n \in Name : Create(n) \/ Update(n) \/ MarkStale(n) \/ Delete(n)
        BY <1>6 DEF EnvStep
    <2>2. PICK v : Changed(n, v)
        BY <2>1, EnvChange DEF SyncInv
    <2> QED
        BY <1>0, <2>2, ChangedStatus, ChangedDisjoint, ChangedMaps DEF SyncInv
<1>7. CASE UNCHANGED vars
    BY ZenonT(60), <1>0, <1>7 DEF vars, SyncInv, AllAllowed, Status, Disjoint, Covered, KeptIn, Working,
       Alive, CaughtUp, SpecOf, Claim, OldAllocs, OldCIDRs, Content, Goal, Past, Kept
<1> QED
    BY ZenonT(60), <1>1, <1>2, <1>3, <1>4, <1>5, <1>6, <1>7 DEF Next, Step, Refused, WriteFails

\* With a daemon that runs on and keeps up with the API, whatever map
\* operations fail, a slot that an alive NATPortRange holds never leads to
\* another pod.
THEOREM NeverMisroutedHolds == Calm => (Spec => []NeverMisrouted)
<1> SUFFICES ASSUME Calm PROVE Spec => []NeverMisrouted
    OBVIOUS
<1>1. Init => SyncInv
    BY SyncInvInit
<1>2. SyncInv /\ [Next]_vars => SyncInv'
    BY SyncInvStep DEF Calm
<1>3. SyncInv => NeverMisrouted
    <2> SUFFICES ASSUME SyncInv, NEW n \in Name, Alive(n), NEW s \in npr[n].allocs,
                        lookup[s] # None
                 PROVE  lookup[s] = PodOf[n]
        BY DEF NeverMisrouted
    <2>1. SyncType /\ Disjoint /\ Covered
        BY DEF SyncInv
    <2>2. s \in Claim(n) /\ s \in Slot
        BY <2>1, ClaimInPool, OldType DEF Alive
    <2> DEFINE e == <<"lookup", s, lookup[s]>>
    <2>3. e \in Content
        BY <2>2 DEF Content, ContentOf
    <2>4. PICK m \in Name : e \in Want(m, Claim(m), CIDR)
        BY <2>1, <2>3, OwnEntries DEF Covered, Calm
    <2>5. s \in Claim(m) /\ lookup[s] = PodOf[m]
        BY SMTT(30), <2>4, WantIn DEF WantsLookup
    <2>6. m = n
        BY <2>1, <2>2, <2>5 DEF Disjoint
    <2> QED
        BY <2>5, <2>6
<1> QED
    BY <1>1, <1>2, <1>3, PTL DEF Spec

-----------------------------------------------------------------------------
(* dst_kind.                                                               *)

HasOp(x) == \E o \in Ops(work.todo) : o.op = x

KindKept ==
    \A n \in Local : synced[n] # None =>
        PodOf[n] \in kind \/ (work.name = n /\ ~Alive(n) /\ work.todo = << >>)

KindComes ==
    \A n \in Local : work.name = n /\ Alive(n) => PodOf[n] \in kind \/ HasOp("kindAdd")

KindNeeded ==
    "restart" \notin Env => \A p \in kind : \E n \in Local :
        PodOf[n] = p /\ (synced[n] # None \/ (Alive(n) /\ ~CaughtUp(n)))

KindGoes ==
    \A n \in Local : work.name = n /\ ~Alive(n) /\ PodOf[n] \in kind =>
        HasOp("kindRemove") \/ StillUsed(n)

KindOps ==
    \A n \in Name : work.name = n => \A o \in Ops(work.todo) :
        /\ o.op = "kindAdd" => n \in Local /\ Alive(n)
        /\ o.op = "kindRemove" => n \in Local /\ ~Alive(n) /\ ~StillUsed(n)

\* A pod IP is in dst_kind when an entry of the cache needs it and, without
\* restarts, only when one does or one is being written.
Kinds == KindKept /\ KindComes /\ KindNeeded /\ KindGoes /\ KindOps

LEMMA KindsInit == Init => Kinds
<1> SUFFICES ASSUME Init PROVE Kinds
    OBVIOUS
<1>1. kind = {} /\ work.name = None /\ \A n \in Name : synced[n] = None
    BY DEF Init, NoWork
<1> QED
    BY <1>1, SyncAssumption DEF Kinds, KindKept, KindComes, KindNeeded, KindGoes, KindOps

LEMMA ChangedKinds ==
    ASSUME SyncInv, Kinds, NEW n \in Name, NEW v, Changed(n, v)
    PROVE  Kinds'
<1>1. /\ UNCHANGED <<synced, work, kind>> /\ work.name # n
      /\ \A m \in Name \ {n} : npr'[m] = npr[m] /\ CaughtUp(m)' = CaughtUp(m)
    BY ChangedElse
<1>2. \A m \in Name \ {n} : Alive(m)' = Alive(m)
    BY <1>1 DEF Alive
<1>3. \A m \in Name : StillUsed(m)' = StillUsed(m)
    BY <1>1 DEF StillUsed
<1>4. \A x : HasOp(x)' = HasOp(x)
    BY <1>1 DEF HasOp
<1>5. Local \subseteq Name /\ ("restart" \notin Env => CaughtUp(n))
    BY SyncAssumption DEF Changed, SyncInv, Status
<1>6. KindKept' /\ KindComes' /\ KindGoes' /\ KindOps'
    BY <1>1, <1>2, <1>3, <1>4, <1>5 DEF Kinds, KindKept, KindComes, KindGoes, KindOps
<1>7. KindNeeded'
    BY ZenonT(60), <1>1, <1>2, <1>5 DEF Kinds, KindNeeded
<1> QED
    BY <1>6, <1>7 DEF Kinds

LEMMA BeginKinds ==
    ASSUME SyncInv, Kinds, NEW n \in Name, Begin(n)
    PROVE  Kinds'
<1>1. SyncType /\ Status /\ Local \subseteq Name
    BY SyncAssumption DEF SyncInv
<1>2. /\ work = NoWork /\ n \in queue /\ queue' = queue \ {n}
      /\ UNCHANGED <<npr, up, kind>>
    BY DEF Begin, api, maps
<1>3. synced' = synced
    <2>1. CASE npr[n] = None
        <3>1. synced' = [synced EXCEPT ![n] = None] /\ synced[n] = None
            BY <2>1, <1>1 DEF Begin, Status
        <3> QED
            BY <3>1, <1>1 DEF SyncType
    <2>2. CASE npr[n] # None
        BY <2>2 DEF Begin
    <2> QED
        BY <2>1, <2>2
<1>4. work.name = None
    BY <1>2 DEF NoWork
<1>5. \A m \in Name : Alive(m)' = Alive(m) /\ StillUsed(m)' = StillUsed(m)
    BY <1>2, <1>3 DEF Alive, StillUsed
<1>6. \A m \in Local : synced[m] # None => PodOf[m] \in kind
    BY <1>1, <1>4, SyncAssumption DEF Kinds, KindKept
<1>7. KindKept'
    BY <1>2, <1>3, <1>6 DEF KindKept
<1>8. CASE npr[n] = None
    <2>1. work'.name = None
        BY <1>4, <1>8 DEF Begin
    <2>2. KindComes' /\ KindGoes' /\ KindOps'
        BY <2>1, <1>1, SyncAssumption DEF KindComes, KindGoes, KindOps
    <2>3. \A m \in Name \ {n} : CaughtUp(m)' = CaughtUp(m)
        BY <1>2, <1>4, <2>1 DEF CaughtUp
    <2>4. ~Alive(n)
        BY <1>8 DEF Alive
    <2>5. KindNeeded'
        BY <1>1, <1>2, <1>3, <1>5, <2>3, <2>4 DEF Kinds, KindNeeded
    <2> QED
        BY <1>7, <2>2, <2>5 DEF Kinds
<1>9. CASE npr[n] # None
    <2>1. work'.name = n /\ Ops(work'.todo) = TodoOf(n)
        BY <1>1, <1>9, BeginWork
    <2>2. ~CaughtUp(n)' /\ \A m \in Name \ {n} : CaughtUp(m)' = CaughtUp(m)
        BY <1>2, <1>4, <2>1, SyncAssumption DEF CaughtUp
    <2>3. KindNeeded'
        BY <1>1, <1>2, <1>3, <1>5, <2>2 DEF Kinds, KindNeeded
    <2>4. CASE npr[n].stale
        <3>1. ~Alive(n) /\ TodoOf(n) = StaleOps(n, npr[n].allocs, npr[n].cidrs, StillUsed(n))
            BY <2>4 DEF Alive, TodoOf
        <3>2. \A o \in TodoOf(n) : /\ o.op # "kindAdd"
                                   /\ o.op = "kindRemove" => n \in Local /\ ~StillUsed(n)
            BY SMTT(30), <3>1 DEF StaleOps, SlotOps, CfgRemoves
        <3>3. n \in Local /\ ~StillUsed(n) => \E o \in TodoOf(n) : o.op = "kindRemove"
            <4>1. n \in Local /\ ~StillUsed(n) => [op |-> "kindRemove"] \in TodoOf(n)
                BY <3>1 DEF StaleOps
            <4> QED
                BY <4>1
        <3>4. KindComes' /\ KindGoes' /\ KindOps'
            BY ZenonT(60), <1>1, <1>5, <2>1, <3>1, <3>2, <3>3 DEF KindComes, KindGoes, KindOps, HasOp
        <3> QED
            BY <1>7, <2>3, <3>4 DEF Kinds
    <2>5. CASE ~npr[n].stale
        <3>1. /\ Alive(n)
              /\ TodoOf(n) = AliveOps(n, npr[n].allocs, npr[n].cidrs, OldAllocs(n), OldCIDRs(n))
            BY ZenonT(60), <1>9, <2>5 DEF Alive, TodoOf
        <3>2. \A o \in TodoOf(n) : o.op # "kindRemove" /\ (o.op = "kindAdd" => n \in Local)
            BY SMTT(30), <3>1 DEF AliveOps, SlotOps, CfgRemoves, CfgUpserts
        <3>3. n \in Local => \E o \in TodoOf(n) : o.op = "kindAdd"
            <4>1. n \in Local => [op |-> "kindAdd"] \in TodoOf(n)
                BY <3>1 DEF AliveOps
            <4> QED
                BY ZenonT(60), <4>1
        <3>4. KindComes' /\ KindGoes' /\ KindOps'
            BY ZenonT(60), <1>1, <1>5, <2>1, <3>1, <3>2, <3>3 DEF KindComes, KindGoes, KindOps, HasOp
        <3> QED
            BY <1>7, <2>3, <3>4 DEF Kinds
    <2> QED
        BY <2>4, <2>5
<1> QED
    BY <1>8, <1>9

LEMMA WriteKinds ==
    ASSUME SyncInv, Kinds, Write
    PROVE  Kinds'
<1>1. SyncType /\ Status /\ Local \subseteq Name
    BY SyncAssumption DEF SyncInv
<1>2. PICK n \in Name, o \in Ops(work.todo) :
              /\ work # NoWork /\ work.name = n /\ IsOp(o) /\ work'.name = n
              /\ Lists(work'.todo, Ops(work'.todo)) /\ Ops(work'.todo) = Ops(work.todo) \ {o}
              /\ \A x \in Ops(work.todo) \ {o} : Rank(o) <= Rank(x)
              /\ work.todo # << >>
              /\ kind' = KindAfter(kind, PodOf[n], o)
    BY <1>1, WriteStep
<1>3. UNCHANGED <<npr, queue, up, synced>>
    BY DEF Write, api
<1>4. \A m \in Name : /\ Alive(m)' = Alive(m) /\ StillUsed(m)' = StillUsed(m)
                      /\ CaughtUp(m)' = CaughtUp(m)
    BY <1>2, <1>3 DEF Alive, StillUsed, CaughtUp
<1>5. \A m \in Local : synced[m] # None => PodOf[m] \in kind
    BY <1>2 DEF Kinds, KindKept
<1>6. /\ o.op = "kindAdd" => n \in Local /\ Alive(n)
      /\ o.op = "kindRemove" => n \in Local /\ ~Alive(n) /\ ~StillUsed(n)
    BY <1>2 DEF Kinds, KindOps
<1>7. KindOps'
    BY <1>2, <1>4 DEF Kinds, KindOps
<1>8. ~CaughtUp(n)
    BY <1>2 DEF CaughtUp
<1>9. CASE o.op = "kindAdd"
    <2>1. kind' = kind \cup {PodOf[n]}
        BY <1>2, <1>9 DEF KindAfter
    <2>2. KindKept' /\ KindComes'
        BY <1>2, <1>3, <1>4, <1>5, <2>1 DEF KindKept, KindComes
    <2>3. KindGoes'
        BY <1>1, <1>2, <1>4, <1>6, <1>9 DEF KindGoes
    <2>4. KindNeeded'
        BY ZenonT(60), <1>1, <1>3, <1>4, <1>6, <1>8, <1>9, <2>1 DEF Kinds, KindNeeded
    <2> QED
        BY <1>7, <2>2, <2>3, <2>4 DEF Kinds
<1>10. CASE o.op = "kindRemove"
    <2>1. kind' = kind \ {PodOf[n]}
        BY <1>2, <1>10 DEF KindAfter
    <2>2. ASSUME NEW x \in Ops(work.todo) \ {o} PROVE FALSE
        <3>1. IsOp(x)
            BY <1>1, <1>2 DEF SyncType, WorkType
        <3>2. Rank(o) = 8 /\ Rank(o) <= Rank(x)
            BY <1>2, <1>10 DEF Rank
        <3>3. x.op = "kindRemove"
            <4> SUFFICES ASSUME x.op # "kindRemove" PROVE Rank(x) \in 1 .. 7
                BY SMTT(30), <3>2
            <4>1. x.op \in {"lookupRemove", "lookupAdd", "portsRemove", "portsAdd",
                            "kindAdd", "cfgRemove", "cfgUpsert"}
                BY <3>1 DEF IsOp, Slotted
            <4> QED
                BY SMTT(30), <4>1 DEF Rank
        <3> QED
            BY <1>2, <1>10, <3>1, <3>3 DEF IsOp
    <2>3. work'.todo = << >>
        BY <1>2, <2>2, ListsOps
    <2>4. \A m \in Local \ {n} : synced[m] # None => PodOf[m] # PodOf[n]
        BY <1>6, <1>10 DEF StillUsed
    <2>5. KindKept'
        BY ZenonT(60), <1>1, <1>2, <1>3, <1>4, <1>5, <1>6, <1>10, <2>1, <2>3, <2>4 DEF KindKept
    <2>6. KindComes' /\ KindGoes'
        BY ZenonT(60), <1>1, <1>2, <1>4, <1>6, <1>10, <2>1 DEF KindComes, KindGoes
    <2>7. KindNeeded'
        BY <1>1, <1>3, <1>4, <2>1 DEF Kinds, KindNeeded
    <2> QED
        BY <1>7, <2>5, <2>6, <2>7 DEF Kinds
<1>11. CASE o.op \notin {"kindAdd", "kindRemove"}
    <2>1. kind' = kind
        BY <1>2, <1>11 DEF KindAfter
    <2>2. HasOp("kindAdd")' = HasOp("kindAdd") /\ HasOp("kindRemove")' = HasOp("kindRemove")
        BY <1>2, <1>11 DEF HasOp
    <2>3. KindKept' /\ KindNeeded'
        BY <1>1, <1>3, <1>4, <1>5, <2>1 DEF Kinds, KindKept, KindNeeded
    <2>4. KindComes' /\ KindGoes'
        BY ZenonT(60), <1>1, <1>2, <1>4, <2>1, <2>2 DEF Kinds, KindComes, KindGoes
    <2> QED
        BY <1>7, <2>3, <2>4 DEF Kinds
<1> QED
    BY <1>9, <1>10, <1>11

LEMMA AbortKinds ==
    ASSUME SyncInv, Kinds, work # NoWork, work.todo # << >>, Abort
    PROVE  Kinds'
<1>1. SyncType /\ Local \subseteq Name
    BY SyncAssumption DEF SyncInv
<1>2. PICK n \in Name : work.name = n
    BY <1>1 DEF SyncType, WorkType
<1>3. /\ queue' = queue \cup {n} /\ work' = NoWork
      /\ UNCHANGED <<npr, up, synced, kind>>
    BY <1>2 DEF Abort, api, maps
<1>4. work'.name = None
    BY <1>3 DEF NoWork
<1>5. \A m \in Name : Alive(m)' = Alive(m)
    BY <1>3 DEF Alive
<1>6. ~CaughtUp(n)' /\ \A m \in Name \ {n} : CaughtUp(m)' = CaughtUp(m)
    BY <1>2, <1>3, <1>4, SyncAssumption DEF CaughtUp
<1>7. KindKept' /\ KindNeeded'
    BY ZenonT(60), <1>1, <1>3, <1>5, <1>6 DEF Kinds, KindKept, KindNeeded
<1>8. KindComes' /\ KindGoes' /\ KindOps'
    BY <1>1, <1>4, SyncAssumption DEF KindComes, KindGoes, KindOps
<1> QED
    BY <1>7, <1>8 DEF Kinds

LEMMA FinishKinds ==
    ASSUME SyncInv, Kinds, Finish
    PROVE  Kinds'
<1>1. SyncType /\ Status /\ Local \subseteq Name
    BY SyncAssumption DEF SyncInv
<1>2. /\ work # NoWork /\ work.todo = << >> /\ work' = NoWork
      /\ synced' = [synced EXCEPT ![work.name] = work.then]
      /\ UNCHANGED <<npr, queue, up, kind>>
    BY DEF Finish, api, maps
<1>3. PICK n \in Name : work.name = n
    BY <1>1, <1>2 DEF SyncType, WorkType
<1>4. npr[n] # None /\ work.then = IF npr[n].stale THEN None ELSE SpecOf(n)
    BY <1>1, <1>3 DEF Status
<1>5. synced'[n] = work.then /\ \A m \in Name \ {n} : synced'[m] = synced[m]
    BY <1>1, <1>2, <1>3 DEF SyncType
<1>6. work'.name = None /\ \A x : ~HasOp(x)
    BY SMTT(30), <1>2 DEF NoWork, HasOp, Ops
<1>7. \A m \in Name : Alive(m)' = Alive(m)
    BY <1>2 DEF Alive
<1>8. \A m \in Name \ {n} : CaughtUp(m)' = CaughtUp(m)
    BY <1>2, <1>3, <1>6, SyncAssumption DEF CaughtUp
<1>9. SpecOf(n) # None
    <2>1. SpecOf(n) \in Cached
        BY <1>1, <1>4, OldType DEF SpecOf, Cached, Object
    <2> QED
        BY <2>1, SyncAssumption
<1>10. (Alive(n) => synced'[n] # None) /\ (~Alive(n) => synced'[n] = None)
    BY <1>4, <1>5, <1>9 DEF Alive
<1>11. KindComes' /\ KindGoes' /\ KindOps'
    BY <1>1, <1>6, SyncAssumption DEF KindComes, KindGoes, KindOps
<1>12. KindKept'
    <2> SUFFICES ASSUME NEW m \in Local, synced'[m] # None PROVE PodOf[m] \in kind'
        BY DEF KindKept
    <2>1. CASE m = n
        BY <1>2, <1>3, <1>6, <1>10, <2>1 DEF Kinds, KindComes
    <2>2. CASE m # n
        BY <1>1, <1>2, <1>3, <1>5, <2>2 DEF Kinds, KindKept
    <2> QED
        BY <2>1, <2>2
<1>13. KindNeeded'
    <2> SUFFICES ASSUME "restart" \notin Env, NEW p \in kind
                 PROVE  \E m \in Local : PodOf[m] = p /\ (synced'[m] # None \/ (Alive(m)' /\ ~CaughtUp(m)'))
        BY <1>2 DEF KindNeeded
    <2>1. PICK m \in Local : PodOf[m] = p /\ (synced[m] # None \/ (Alive(m) /\ ~CaughtUp(m)))
        BY DEF Kinds, KindNeeded
    <2>2. CASE m # n
        BY <1>1, <1>5, <1>7, <1>8, <2>1, <2>2
    <2>3. CASE m = n /\ Alive(n)
        BY <1>10, <2>1, <2>3
    <2>4. CASE m = n /\ ~Alive(n)
        <3>1. StillUsed(n)
            BY <1>3, <1>6, <2>1, <2>4 DEF Kinds, KindGoes
        <3> QED
            BY <1>1, <1>5, <2>1, <2>4, <3>1 DEF StillUsed
    <2> QED
        BY <2>2, <2>3, <2>4
<1> QED
    BY <1>11, <1>12, <1>13 DEF Kinds

LEMMA StopStartKinds ==
    ASSUME SyncInv, Kinds, Stop \/ Start
    PROVE  Kinds'
<1>1. Status /\ Local \subseteq Name
    BY SyncAssumption DEF SyncInv
<1>2. /\ "restart" \in Env /\ work' = NoWork
      /\ \A n \in Name : synced'[n] = None
    BY <1>1 DEF Stop, Start, Status
<1>3. work'.name = None
    BY <1>2 DEF NoWork
<1> QED
    BY <1>1, <1>2, <1>3, SyncAssumption
       DEF Kinds, KindKept, KindComes, KindNeeded, KindGoes, KindOps

LEMMA KindsStep ==
    ASSUME KeepsUp, SyncInv, Kinds, [Next]_vars
    PROVE  Kinds'
<1>1. ASSUME NEW n \in Name, Begin(n) PROVE Kinds'
    BY <1>1, BeginKinds
<1>2. CASE Write
    BY <1>2, WriteKinds
<1>3. CASE work # NoWork /\ work.todo # << >> /\ Abort
    BY <1>3, AbortKinds
<1>4. CASE Finish
    BY <1>4, FinishKinds
<1>5. CASE Stop \/ Start
    BY <1>5, StopStartKinds
<1>6. CASE EnvStep
    <2>1. PICK n \in Name : Create(n) \/ Update(n) \/ MarkStale(n) \/ Delete(n)
        BY <1>6 DEF EnvStep
    <2>2. PICK v : Changed(n, v)
        BY ZenonT(60), <2>1, EnvChange DEF SyncInv
    <2> QED
        BY <2>2, ChangedKinds
<1>7. CASE UNCHANGED vars
    BY SMTT(30), <1>7 DEF vars, Kinds, KindKept, KindComes, KindNeeded, KindGoes, KindOps, HasOp,
       Alive, CaughtUp, StillUsed
<1> QED
    BY ZenonT(60), <1>1, <1>2, <1>3, <1>4, <1>5, <1>6, <1>7 DEF Next, Step, Refused, WriteFails

LEMMA LiveMappedFrom ==
    ASSUME SyncInv, Kinds, BlocksApart
    PROVE  LiveMapped
<1> SUFFICES ASSUME AtRest, NEW n \in Name, Alive(n) PROVE Mapped(n)
    BY DEF LiveMapped
<1>1. SyncType /\ Status /\ KeptIn
    BY DEF SyncInv
<1>2. CaughtUp(n) /\ work.name = None
    BY SyncAssumption DEF AtRest, CaughtUp, NoWork
<1>3. Goal(n) \subseteq Content /\ synced[n] # None
    BY <1>1, <1>2, AtRestOne DEF KeptIn
<1>4. Goal(n) = Want(n, npr[n].allocs, npr[n].cidrs)
    BY DEF Goal
<1>5. npr[n].allocs \subseteq Slot
    BY <1>1, OldType DEF Alive
<1>6. ASSUME NEW s \in npr[n].allocs PROVE lookup[s] = PodOf[n]
    <2> DEFINE e == <<"lookup", s, PodOf[n]>>
    <2>1. e \in Content
        BY SMTT(30), <1>3, <1>4, WantIn DEF WantsLookup
    <2>2. InLookup(lookup, e)
        BY SMTT(30), <2>1, ContentIn DEF Content
    <2> QED
        BY <2>2 DEF InLookup
<1>7. ASSUME n \in Local PROVE PodOf[n] \in kind
    BY <1>2, <1>3, <1>7, SyncAssumption DEF Kinds, KindKept
<1>8. ASSUME n \in Local, NEW s \in npr[n].allocs PROVE <<PodOf[n], s[2]>> \in ports
    <2> DEFINE e == <<"ports", <<PodOf[n], s[2]>>, "set">>
    <2>1. e \in Content
        BY SMTT(30), <1>3, <1>4, <1>8, WantIn DEF WantsPorts
    <2>2. InPorts(ports, e)
        BY SMTT(30), <2>1, ContentIn DEF Content
    <2> QED
        BY <2>2 DEF InPorts
<1>9. ASSUME n \in Local, NEW c \in npr[n].cidrs, NEW s \in npr[n].allocs
      PROVE  <<PodOf[n], c, s[1], s[2]>> \in cfg
    <2> DEFINE e == <<"cfg", <<PodOf[n], c, s[1]>>, s[2]>>
    <2>1. e \in Content
        BY SMTT(30), <1>3, <1>4, <1>9, WantIn DEF WantsCfg
    <2>2. InCfg(cfg, e)
        BY SMTT(30), <2>1, ContentIn DEF Content
    <2>3. PICK x \in cfg : e = <<"cfg", <<x[1], x[2], x[3]>>, x[4]>>
        BY <2>2 DEF InCfg
    <2>4. \E p \in Pod, d \in CIDR, r \in Slot : x = <<p, d, r[1], r[2]>>
        BY SMTT(30), <1>1 DEF SyncType, TypeOK
    <2> QED
        BY SMTT(30), <2>3, <2>4
<1> QED
    BY SMTT(30), <1>6, <1>7, <1>8, <1>9 DEF Mapped, Wanted

LEMMA KeptMappedFrom ==
    ASSUME SyncInv, BlocksApart
    PROVE  KeptMapped
<1> SUFFICES ASSUME NEW n \in Name, Alive(n), NEW s \in npr[n].allocs \cap OldAllocs(n)
             PROVE  /\ lookup[s] = PodOf[n]
                    /\ n \in Local =>
                         /\ <<PodOf[n], s[2]>> \in ports
                         /\ \A c \in npr[n].cidrs \cap OldCIDRs(n) :
                               <<PodOf[n], c, s[1], s[2]>> \in cfg
    BY DEF KeptMapped
<1>1. SyncType /\ KeptIn
    BY DEF SyncInv
<1> DEFINE A == npr[n].allocs \cap OldAllocs(n)
           C == npr[n].cidrs \cap OldCIDRs(n)
<1>2. Want(n, A, C) \subseteq Content
    BY <1>1 DEF KeptIn, Kept
<1> HIDE DEF C
<1>3. lookup[s] = PodOf[n]
    <2> DEFINE e == <<"lookup", s, PodOf[n]>>
    <2>1. e \in Content
        BY SMTT(30), <1>2, WantIn DEF WantsLookup
    <2>2. InLookup(lookup, e)
        BY SMTT(30), <2>1, ContentIn DEF Content
    <2> QED
        BY <2>2 DEF InLookup
<1>4. ASSUME n \in Local PROVE <<PodOf[n], s[2]>> \in ports
    <2> DEFINE e == <<"ports", <<PodOf[n], s[2]>>, "set">>
    <2>1. e \in Content
        BY SMTT(30), <1>2, <1>4, WantIn DEF WantsPorts
    <2>2. InPorts(ports, e)
        BY SMTT(30), <2>1, ContentIn DEF Content
    <2> QED
        BY <2>2 DEF InPorts
<1>5. ASSUME n \in Local, NEW c \in C PROVE <<PodOf[n], c, s[1], s[2]>> \in cfg
    <2> DEFINE e == <<"cfg", <<PodOf[n], c, s[1]>>, s[2]>>
    <2>1. e \in Content
        BY SMTT(30), <1>2, <1>5, WantIn DEF WantsCfg
    <2>2. InCfg(cfg, e)
        BY SMTT(30), <2>1, ContentIn DEF Content
    <2>3. PICK x \in cfg : e = <<"cfg", <<x[1], x[2], x[3]>>, x[4]>>
        BY <2>2 DEF InCfg
    <2>4. \E p \in Pod, d \in CIDR, r \in Slot : x = <<p, d, r[1], r[2]>>
        BY SMTT(30), <1>1 DEF SyncType, TypeOK
    <2> QED
        BY SMTT(30), <2>3, <2>4
<1> QED
    BY <1>3, <1>4, <1>5 DEF C

LEMMA NoStraysFrom ==
    ASSUME Calm, SyncInv, Kinds, BlocksApart
    PROVE  NoStrays
<1> DEFINE L == {n \in Local : Alive(n)}
<1> SUFFICES ASSUME AtRest
             PROVE  /\ \A s \in Slot : lookup[s] # None =>
                          \E n \in Name : Alive(n) /\ s \in npr[n].allocs
                    /\ kind \subseteq {PodOf[n] : n \in L}
                    /\ ports \subseteq UNION {{<<PodOf[n], s[2]>> : s \in npr[n].allocs} : n \in L}
                    /\ cfg \subseteq UNION {Wanted(n) : n \in L}
    BY DEF NoStrays
<1>1. SyncType /\ Status /\ Covered /\ Local \subseteq Name
    BY SyncAssumption DEF SyncInv
<1>2. \A n \in Name : CaughtUp(n)
    BY SyncAssumption DEF AtRest, CaughtUp, NoWork
<1>3. ASSUME NEW e \in Content
      PROVE  \E n \in Name : Alive(n) /\ e \in Want(n, npr[n].allocs, npr[n].cidrs)
    <2>1. PICK n \in Name : e \in Goal(n) \cup Past(n)
        BY <1>1 DEF Covered, Calm
    <2>2. Alive(n) /\ e \in Goal(n)
        BY <1>1, <1>2, <2>1, AtRestOne
    <2> QED
        BY <2>2 DEF Goal
<1>4. ASSUME NEW s \in Slot, lookup[s] # None
      PROVE  \E n \in Name : Alive(n) /\ s \in npr[n].allocs
    <2> DEFINE e == <<"lookup", s, lookup[s]>>
    <2>1. e \in Content
        BY <1>4 DEF Content, ContentOf
    <2>2. PICK n \in Name : Alive(n) /\ e \in Want(n, npr[n].allocs, npr[n].cidrs)
        BY <1>3, <2>1
    <2> QED
        BY SMTT(30), <2>2, WantIn DEF WantsLookup
<1>5. ASSUME NEW p \in kind PROVE \E n \in L : p = PodOf[n]
    <2>1. PICK n \in Local : PodOf[n] = p /\ synced[n] # None
        BY <1>1, <1>2 DEF Kinds, KindNeeded, Calm
    <2>2. Alive(n)
        BY <1>1, <1>2, <2>1, AtRestOne
    <2> QED
        BY <2>1, <2>2
<1>6. ASSUME NEW x \in ports
      PROVE  \E n \in L : \E s \in npr[n].allocs : x = <<PodOf[n], s[2]>>
    <2> DEFINE e == <<"ports", x, "set">>
    <2>0. InPorts(ports, e)
        BY DEF InPorts
    <2>1. e \in Content
        BY <2>0, ContentIn DEF Content
    <2>2. PICK n \in Name : Alive(n) /\ e \in Want(n, npr[n].allocs, npr[n].cidrs)
        BY <1>3, <2>1
    <2>3. n \in Local /\ WantsPorts(n, npr[n].allocs, e)
        BY SMTT(30), <2>2, WantIn
    <2> QED
        BY <2>2, <2>3 DEF WantsPorts
<1>7. ASSUME NEW x \in cfg PROVE \E n \in L : x \in Wanted(n)
    <2> DEFINE e == <<"cfg", <<x[1], x[2], x[3]>>, x[4]>>
    <2>0. InCfg(cfg, e)
        BY DEF InCfg
    <2>1. e \in Content
        BY <2>0, ContentIn DEF Content
    <2>2. PICK n \in Name : Alive(n) /\ e \in Want(n, npr[n].allocs, npr[n].cidrs)
        BY <1>3, <2>1
    <2>3. n \in Local /\ WantsCfg(n, npr[n].allocs, npr[n].cidrs, e)
        BY SMTT(30), <2>2, WantIn
    <2>4. PICK c \in npr[n].cidrs, s \in npr[n].allocs :
              e = <<"cfg", <<PodOf[n], c, s[1]>>, s[2]>>
        BY <2>3 DEF WantsCfg
    <2>5. \E p \in Pod, d \in CIDR, r \in Slot : x = <<p, d, r[1], r[2]>>
        BY SMTT(30), <1>1 DEF SyncType, TypeOK
    <2>6. x = <<PodOf[n], c, s[1], s[2]>>
        BY SMTT(30), <2>4, <2>5
    <2>7. x \in Wanted(n)
        BY SMTT(30), <2>6 DEF Wanted
    <2> QED
        BY <2>2, <2>3, <2>7
<1> QED
    BY SMTT(30), <1>4, <1>5, <1>6, <1>7

\* With a daemon that keeps up with the API while it runs, whatever map
\* operations fail, wherever it is stopped and whatever happens until it runs
\* again, every alive NATPortRange is in the maps when nothing is left to do.
THEOREM LiveMappedHolds == KeepsUp /\ BlocksApart => (Spec => []LiveMapped)
<1> SUFFICES ASSUME KeepsUp, BlocksApart PROVE Spec => []LiveMapped
    OBVIOUS
<1>1. Init => SyncInv /\ Kinds
    BY SyncInvInit, KindsInit
<1>2. SyncInv /\ Kinds /\ [Next]_vars => (SyncInv /\ Kinds)'
    BY SyncInvStep, KindsStep
<1>3. SyncInv /\ Kinds => LiveMapped
    BY ZenonT(60), LiveMappedFrom
<1> QED
    BY <1>1, <1>2, <1>3, PTL DEF Spec

\* With a daemon that keeps up with the API while it runs, whatever map
\* operations fail and wherever it is stopped, what an alive NATPortRange had
\* when it was last reconciled and still lists never leaves the maps.
THEOREM KeptMappedHolds == KeepsUp /\ BlocksApart => (Spec => []KeptMapped)
<1> SUFFICES ASSUME KeepsUp, BlocksApart PROVE Spec => []KeptMapped
    OBVIOUS
<1>1. Init => SyncInv
    BY SyncInvInit
<1>2. SyncInv /\ [Next]_vars => SyncInv'
    BY SyncInvStep
<1>3. SyncInv => KeptMapped
    BY KeptMappedFrom
<1> QED
    BY <1>1, <1>2, <1>3, PTL DEF Spec

\* With a daemon that runs on and keeps up with the API, whatever map
\* operations fail, the maps hold nothing of a NATPortRange that is gone,
\* stale or changed when nothing is left to do.
THEOREM NoStraysHolds == Calm /\ BlocksApart => (Spec => []NoStrays)
<1> SUFFICES ASSUME Calm, BlocksApart PROVE Spec => []NoStrays
    OBVIOUS
<1>1. Init => SyncInv /\ Kinds
    BY SyncInvInit, KindsInit
<1>2. SyncInv /\ Kinds /\ [Next]_vars => (SyncInv /\ Kinds)'
    BY SyncInvStep, KindsStep DEF Calm
<1>3. SyncInv /\ Kinds => NoStrays
    BY NoStraysFrom
<1> QED
    BY <1>1, <1>2, <1>3, PTL DEF Spec

-----------------------------------------------------------------------------
(* A NATPortRange that is new to the cache is complete in the maps only by *)
(* the last operation of its reconcile, which no reconcile that fails and  *)
(* is repeated has done before.                                            *)

Last(s)        == s[Len(s)]
CfgEntry(p, o) == <<"cfg", <<p, o.cidr, o.slot[1]>>, o.slot[2]>>
FinalOf(n)     == Last(Upserts(npr[n].cidrs, npr[n].allocs))
FinalEntry(n)  == CfgEntry(PodOf[n], FinalOf(n))

Fresh(n) ==
    /\ Alive(n) /\ npr[n].allocs # {} /\ synced[n] = None
    /\ ~(work.name = n /\ work.todo = << >>)

NonEmpty == \A n \in Name : npr[n] # None => npr[n].cidrs # {}
FinalLast ==
    \A n \in Local : Fresh(n) => /\ FinalEntry(n) \notin Content
                                 /\ work.name = n => Last(work.todo) = FinalOf(n)
Finals == NonEmpty /\ FinalLast

LEMMA JoinLast ==
    ASSUME NEW X, NEW s \in Seq(X), NEW t \in Seq(X)
    PROVE  /\ s \o t \in Seq(X) /\ s \o << >> = s
           /\ t # << >> => s \o t # << >> /\ Last(s \o t) = Last(t)
<1>1. s \o t \in Seq(X) /\ s \o << >> = s
    BY SMTT(30)
<1>2. ASSUME t # << >> PROVE s \o t # << >> /\ Last(s \o t) = Last(t)
    <2>1. Len(s) \in Nat /\ Len(t) \in Nat /\ Len(t) # 0 /\ Len(s \o t) = Len(s) + Len(t)
        BY SMTT(30), <1>2
    <2>2. Len(s \o t) \in Len(s) + 1 .. Len(s \o t) /\ Len(s \o t) - Len(s) = Len(t)
        BY SMTT(30), <2>1
    <2>3. (s \o t)[Len(s \o t)] = t[Len(t)]
        BY SMTT(30), <2>1, <2>2
    <2> QED
        BY SMTT(30), <2>1, <2>3 DEF Last
<1> QED
    BY <1>1, <1>2

LEMMA TailLast ==
    ASSUME NEW X, NEW s \in Seq(X), s # << >>, Tail(s) # << >>
    PROVE  Last(Tail(s)) = Last(s)
<1> DEFINE t == Tail(s)
<1>1. /\ Len(s) \in Nat /\ t \in Seq(X) /\ Len(t) = Len(s) - 1 /\ t # << >>
      /\ \A i \in 1 .. Len(t) : t[i] = s[i + 1]
    BY SMTT(30)
<1> HIDE DEF t
<1>2. Len(t) \in 1 .. Len(t) /\ Len(t) + 1 = Len(s)
    BY SMTT(30), <1>1
<1>3. Last(t) = Last(s)
    BY <1>1, <1>2 DEF Last
<1> QED
    BY <1>3 DEF t

LEMMA TailOne ==
    ASSUME NEW X, NEW s \in Seq(X), Len(s) = 1
    PROVE  Tail(s) = << >>
<1> DEFINE t == Tail(s)
<1>1. s # << >>
    BY SMTT(30)
<1>2. t \in Seq(X) /\ Len(t) = 0
    BY SMTT(30), <1>1
<1> HIDE DEF t
<1>3. t = << >>
    BY SMTT(30), <1>2
<1> QED
    BY <1>3 DEF t

LEMMA UpsertsLast ==
    ASSUME NEW C, NEW S, IsFiniteSet(C), IsFiniteSet(S), C # {}, S # {}
    PROVE  /\ Upserts(C, S) # << >>
           /\ \E c \in C, s \in S :
                 Last(Upserts(C, S)) = [op |-> "cfgUpsert", cidr |-> c, slot |-> s]
<1> DEFINE u == Upserts(C, S)
           X == CfgUpserts(C, S)
<1>1. Lists(u, X)
    BY CfgUpsertsList
<1>2. X # {}
    <2>1. PICK c \in C, s \in S : TRUE
        OBVIOUS
    <2>2. [op |-> "cfgUpsert", cidr |-> c, slot |-> s] \in X
        BY SMTT(30) DEF CfgUpserts
    <2> QED
        BY <2>2
<1>3. u \in Seq(X)
    BY <1>1 DEF Lists
<1> HIDE DEF u, X
<1>4. u # << >>
    BY <1>1, <1>2, ListsOps
<1>5. Len(u) \in 1 .. Len(u)
    BY SMTT(30), <1>3, <1>4
<1>6. Last(u) \in X
    BY SMTT(30), <1>3, <1>5 DEF Last
<1> QED
    BY SMTT(30), <1>4, <1>6 DEF u, X, CfgUpserts

LEMMA AliveLast ==
    ASSUME NEW n \in Local,
           IsFiniteSet(npr[n].allocs), IsFiniteSet(npr[n].cidrs),
           npr[n].allocs # {}, npr[n].cidrs # {}, synced[n] = None
    PROVE  Last(SyncAlive(n)) = FinalOf(n)
<1> DEFINE A == npr[n].allocs
           C == npr[n].cidrs
           S1 == OnSlots("lookupRemove", {})
           S2 == OnSlots("lookupAdd", A)
           S3 == OnSlots("portsRemove", {})
           S4 == OnSlots("portsAdd", A)
           S5 == << [op |-> "kindAdd"] >>
           S6 == OnConfig({}, IPsOf({}))
           S8 == Upserts(C, A)
           S9 == Upserts({}, A)
<1>1. OldAllocs(n) = {} /\ OldCIDRs(n) = {}
    BY DEF OldAllocs, OldCIDRs
<1>2. /\ {} \ A = {} /\ A \ {} = A /\ C \cap {} = {} /\ {} \ {} = {} /\ C \ {} = C
      /\ IsFiniteSet({})
    BY FS_EmptySet
<1>3. SyncAlive(n) = (S1 \o S2) \o ((((((S3 \o S4) \o S5) \o S6) \o << >>) \o S8) \o S9)
    <2>1. SyncAlive(n) =
            (OnSlots("lookupRemove", {} \ A) \o OnSlots("lookupAdd", A \ {})) \o
            ((((((OnSlots("portsRemove", {} \ A) \o OnSlots("portsAdd", A \ {})) \o S5)
            \o OnConfig({} \ (C \cap {}), IPsOf({})))
            \o (IF {} \ A = {} THEN << >> ELSE OnConfig(C \cap {}, IPsOf({} \ A))))
            \o Upserts(C \ (C \cap {}), A)) \o Upserts(C \cap {}, A \ {}))
        BY <1>1 DEF SyncAlive
    <2> QED
        BY <2>1, <1>2
<1> DEFINE X == SlotOps("lookupRemove", {}) \cup SlotOps("lookupAdd", A)
                \cup SlotOps("portsRemove", {}) \cup SlotOps("portsAdd", A)
                \cup {[op |-> "kindAdd"]} \cup CfgRemoves({}, IPsOf({})) \cup CfgUpserts(C, A)
<1>4. S1 \in Seq(X) /\ S2 \in Seq(X) /\ S3 \in Seq(X) /\ S4 \in Seq(X)
    <2>1. /\ S1 \in Seq(SlotOps("lookupRemove", {})) /\ S2 \in Seq(SlotOps("lookupAdd", A))
          /\ S3 \in Seq(SlotOps("portsRemove", {})) /\ S4 \in Seq(SlotOps("portsAdd", A))
        BY ZenonT(60), <1>2, SlotOpsList DEF Lists
    <2> QED
        BY SMTT(30), <2>1
<1>5. S5 \in Seq(X) /\ S6 \in Seq(X) /\ S8 \in Seq(X)
    <2>1. S6 \in Seq(CfgRemoves({}, IPsOf({}))) /\ S8 \in Seq(CfgUpserts(C, A))
        BY <1>2, CfgRemovesList, CfgUpsertsList DEF Lists
    <2>2. S5 \in Seq({[op |-> "kindAdd"]})
        BY KindList DEF Lists
    <2> QED
        BY SMTT(30), <2>1, <2>2
<1>6. S9 = << >>
    <2>1. Lists(S9, CfgUpserts({}, A)) /\ CfgUpserts({}, A) = {}
        <3>1. Lists(S9, CfgUpserts({}, A))
            BY <1>2, CfgUpsertsList
        <3>2. CfgUpserts({}, A) = {}
            BY SMTT(30) DEF CfgUpserts
        <3> QED
            BY <3>1, <3>2
    <2> HIDE DEF S9
    <2>2. CfgUpserts({}, A) = Ops(S9) /\ (S9 = << >> <=> Ops(S9) = {})
        BY <2>1, ListsOps
    <2> QED
        BY <2>1, <2>2
<1>7. S8 # << >> /\ FinalOf(n) = Last(S8)
    BY UpsertsLast DEF FinalOf
<1> HIDE DEF S1, S2, S3, S4, S5, S6, S8, S9, X
<1> DEFINE H == ((((S3 \o S4) \o S5) \o S6) \o << >>)
<1>8. H \in Seq(X) /\ S1 \o S2 \in Seq(X)
    <2>1. S1 \o S2 \in Seq(X) /\ (S3 \o S4) \o S5 \in Seq(X)
        BY SMTT(30), <1>4, <1>5
    <2>2. ((S3 \o S4) \o S5) \o S6 \in Seq(X)
        BY SMTT(30), <1>5, <2>1
    <2> QED
        BY SMTT(30), <2>1, <2>2
<1> HIDE DEF H
<1>9. H \o S8 \in Seq(X) /\ H \o S8 # << >> /\ Last(H \o S8) = Last(S8)
    BY SMTT(30), <1>5, <1>7, <1>8, JoinLast
<1>10. (H \o S8) \o S9 = H \o S8
    BY SMTT(30), <1>6, <1>9
<1>11. Last((S1 \o S2) \o (H \o S8)) = Last(S8)
    <2> DEFINE J == S1 \o S2
               K == H \o S8
    <2>1. J \in Seq(X) /\ K \in Seq(X) /\ K # << >> /\ Last(K) = Last(S8)
        BY <1>8, <1>9
    <2> HIDE DEF J, K
    <2>2. Last(J \o K) = Last(S8)
        BY SMTT(30), <2>1, JoinLast
    <2> QED
        BY <2>2 DEF J, K
<1> QED
    BY <1>3, <1>7, <1>10, <1>11 DEF H

LEMMA LastWanted ==
    ASSUME BlocksApart, NEW n \in Local, NEW A, NEW C,
           IsFiniteSet(A), IsFiniteSet(C), A # {}, C # {}
    PROVE  CfgEntry(PodOf[n], Last(Upserts(C, A))) \in Want(n, A, C)
<1>1. PICK c \in C, s \in A :
          Last(Upserts(C, A)) = [op |-> "cfgUpsert", cidr |-> c, slot |-> s]
    BY UpsertsLast
<1>2. CfgEntry(PodOf[n], Last(Upserts(C, A))) = <<"cfg", <<PodOf[n], c, s[1]>>, s[2]>>
    BY SMTT(30), <1>1 DEF CfgEntry
<1> QED
    BY SMTT(30), <1>2 DEF Want

LEMMA FinalInGoal ==
    ASSUME SyncType, NonEmpty, BlocksApart, NEW n \in Local, Alive(n), npr[n].allocs # {}
    PROVE  /\ \E c \in npr[n].cidrs, s \in npr[n].allocs :
                 FinalOf(n) = [op |-> "cfgUpsert", cidr |-> c, slot |-> s]
           /\ FinalEntry(n) \in Goal(n)
<1>1. n \in Name /\ npr[n] # None
    BY SyncAssumption DEF Alive
<1>2. IsFiniteSet(npr[n].allocs) /\ IsFiniteSet(npr[n].cidrs) /\ npr[n].cidrs # {}
    BY <1>1, OldType DEF NonEmpty
<1>3. FinalEntry(n) \in Want(n, npr[n].allocs, npr[n].cidrs)
    BY <1>2, LastWanted DEF FinalEntry, FinalOf
<1> QED
    BY <1>2, <1>3, UpsertsLast DEF FinalOf, Goal

LEMMA FinalsInit == Init => Finals
BY SyncAssumption DEF Init, Finals, NonEmpty, FinalLast, Fresh, Alive

LEMMA ChangedFinals ==
    ASSUME Calm, BlocksApart, SyncInv, SyncInv', Finals, NEW n \in Name, NEW v, Changed(n, v)
    PROVE  Finals'
<1>1. /\ UNCHANGED <<synced, work, lookup, ports, cfg>> /\ npr'[n] = v /\ work.name # n
      /\ \A m \in Name \ {n} : npr'[m] = npr[m]
    BY ChangedElse
<1>2. SyncType /\ Status /\ Covered /\ CaughtUp(n) /\ Local \subseteq Name /\ SyncType'
    BY SyncAssumption DEF SyncInv, Changed, Status, Calm
<1>3. Content' = Content
    BY <1>1 DEF Content
<1>4. NonEmpty'
    BY <1>1 DEF Finals, NonEmpty, Changed, Alive
<1>5. ASSUME NEW m \in Local, m # n, Fresh(m)'
      PROVE  FinalEntry(m)' \notin Content' /\ (work'.name = m => Last(work'.todo) = FinalOf(m)')
    <2>1. Fresh(m) /\ FinalEntry(m)' = FinalEntry(m) /\ FinalOf(m)' = FinalOf(m)
        BY <1>1, <1>2, <1>5 DEF Fresh, Alive, FinalOf, FinalEntry
    <2> QED
        BY <1>1, <1>3, <2>1 DEF Finals, FinalLast
<1>6. ASSUME n \in Local, Fresh(n)', FinalEntry(n)' \in Content
      PROVE  FALSE
    <2>1. /\ v.allocs \subseteq PoolOf[n] /\ v.allocs \cap Held(n) = {} /\ ~Alive(n)
        <3>1. synced[n] = None /\ v # None /\ ~v.stale
            BY <1>1, <1>6 DEF Fresh, Alive
        <3>2. ~Alive(n)
            BY <1>2, <3>1, AtRestOne
        <3> QED
            BY <3>1, <3>2 DEF Changed
    <2> DEFINE e == FinalEntry(n)'
    <2>2. e \in Want(n, v.allocs, v.cidrs)
        <3>1. v # None /\ v.allocs # {} /\ v.cidrs # {}
            BY <1>1, <1>4, <1>6 DEF Fresh, Alive, NonEmpty
        <3>2. v \in Object
            BY <3>1 DEF Changed
        <3>3. IsFiniteSet(v.allocs) /\ IsFiniteSet(v.cidrs)
            BY <2>1, <3>2, SyncAssumption, FS_Subset DEF Object
        <3>4. e = CfgEntry(PodOf[n], Last(Upserts(v.cidrs, v.allocs)))
            BY <1>1 DEF FinalEntry, FinalOf
        <3> HIDE DEF e
        <3> QED
            BY <1>6, <3>1, <3>3, <3>4, LastWanted
    <2>3. PICK m \in Name : e \in Goal(m) \cup Past(m)
        BY <1>2, <1>6 DEF Covered, Calm
    <2>4. m # n
        BY <1>2, <2>1, <2>3, AtRestOne
    <2>5. e \in Want(m, Claim(m), CIDR) /\ Claim(m) \subseteq PoolOf[m]
        BY <1>2, <2>3, OwnEntries, ClaimInPool
    <2>6. v.allocs \cap Claim(m) = {}
        BY <2>1, <2>4, HeldClaim DEF Calm
    <2> HIDE DEF e
    <2> QED
        BY ZenonT(60), <2>1, <2>2, <2>4, <2>5, <2>6, WantApart
<1>7. FinalLast'
    BY <1>1, <1>3, <1>5, <1>6 DEF FinalLast
<1> QED
    BY <1>4, <1>7 DEF Finals

LEMMA BeginFinals ==
    ASSUME SyncInv, Finals, NEW n \in Name, Begin(n)
    PROVE  Finals'
<1>1. SyncType /\ Status /\ Local \subseteq Name
    BY SyncAssumption DEF SyncInv
<1>2. work = NoWork /\ UNCHANGED <<npr, lookup, ports, cfg>>
    BY ZenonT(60) DEF Begin, api, maps
<1>3. synced' = synced
    <2>1. CASE npr[n] = None
        <3>1. synced' = [synced EXCEPT ![n] = None] /\ synced[n] = None
            BY <2>1, <1>1 DEF Begin, Status
        <3> QED
            BY <3>1, <1>1 DEF SyncType
    <2>2. CASE npr[n] # None
        BY <2>2 DEF Begin
    <2> QED
        BY <2>1, <2>2
<1>4. Content' = Content /\ work.name = None
    BY <1>2 DEF Content, NoWork
<1>5. NonEmpty'
    BY <1>2 DEF Finals, NonEmpty
<1>6. ASSUME NEW m \in Local, Fresh(m)'
      PROVE  FinalEntry(m)' \notin Content' /\ (work'.name = m => Last(work'.todo) = FinalOf(m)')
    <2>1. Fresh(m) /\ FinalEntry(m)' = FinalEntry(m) /\ FinalOf(m)' = FinalOf(m)
        BY ZenonT(60), <1>1, <1>2, <1>3, <1>4, <1>6, SyncAssumption DEF Fresh, Alive, FinalOf, FinalEntry
    <2>2. ASSUME work'.name = m PROVE Last(work'.todo) = FinalOf(m)
        <3>1. m \in Name /\ npr[m] # None /\ ~npr[m].stale /\ npr[m].allocs # {} /\ synced[m] = None
            BY <1>1, <2>1 DEF Fresh, Alive
        <3>2. m = n
            <4>1. CASE npr[n] = None
                BY <1>4, <2>2, <3>1, <4>1, SyncAssumption DEF Begin
            <4>2. CASE npr[n] # None
                <5>1. work'.name = n
                    BY <4>2 DEF Begin
                <5> QED
                    BY <2>2, <5>1
            <4> QED
                BY <4>1, <4>2
        <3>3. work'.todo = SyncAlive(m)
            BY SMTT(30), <3>1, <3>2 DEF Begin
        <3>4. IsFiniteSet(npr[m].allocs) /\ IsFiniteSet(npr[m].cidrs) /\ npr[m].cidrs # {}
            BY <1>1, <3>1, OldType DEF Finals, NonEmpty
        <3> QED
            BY <3>1, <3>3, <3>4, AliveLast
    <2> QED
        BY <1>4, <2>1, <2>2 DEF Finals, FinalLast
<1> QED
    BY <1>5, <1>6 DEF Finals, FinalLast

LEMMA WriteFinals ==
    ASSUME BlocksApart, SyncInv, Finals, Write
    PROVE  Finals'
<1>1. SyncType /\ Status /\ Disjoint /\ Working /\ Local \subseteq Name /\ NonEmpty
    BY SyncAssumption DEF SyncInv, Finals
<1>2. PICK n \in Name, o \in Ops(work.todo) :
              /\ work # NoWork /\ work.name = n /\ IsOp(o) /\ work'.name = n
              /\ work.todo # << >> /\ o = Head(work.todo) /\ work'.todo = Tail(work.todo)
              /\ lookup' = LookupAfter(lookup, PodOf[n], o)
              /\ ports' = PortsAfter(ports, PodOf[n], o)
              /\ cfg' = CfgAfter(cfg, PodOf[n], o)
    BY <1>1, WriteStep
<1>3. UNCHANGED <<npr, synced>>
    BY DEF Write, api
<1> DEFINE p == PodOf[n]
<1>4. \A e : e \in Content' <=> e \in Adds(p, o) \/ (e \in Content /\ ~Drops(p, o, e))
    BY <1>1, <1>2, ContentStep DEF Becomes
<1>5. Adds(p, o) \subseteq Goal(n)
    BY <1>1, <1>2 DEF Working, Proper
<1>6. NonEmpty'
    BY <1>1, <1>3 DEF NonEmpty
<1>7. work.todo \in Seq(Ops(work.todo)) /\ Lists(work.todo, Ops(work.todo))
    BY <1>1, <1>2 DEF SyncType, WorkType, Lists
<1> SUFFICES ASSUME NEW m \in Local, Fresh(m)'
             PROVE  /\ FinalEntry(m)' \notin Content'
                    /\ work'.name = m => Last(work'.todo) = FinalOf(m)'
    BY <1>6 DEF Finals, FinalLast
<1>8. Fresh(m) /\ FinalEntry(m)' = FinalEntry(m) /\ FinalOf(m)' = FinalOf(m)
    BY <1>1, <1>2, <1>3 DEF Fresh, Alive, FinalOf, FinalEntry
<1>9. m = n => work'.todo # << >> /\ Last(work'.todo) = Last(work.todo)
    BY <1>2, <1>7, TailLast DEF Fresh
<1>10. /\ FinalEntry(m) \notin Content
       /\ m = n => Last(work.todo) = FinalOf(m)
    BY <1>2, <1>8 DEF Finals, FinalLast
<1>11. Alive(m) /\ npr[m].allocs # {} /\ npr[m].allocs \subseteq Slot
    BY <1>1, <1>8, OldType DEF Fresh, Alive
<1>12. /\ \E c \in npr[m].cidrs, s \in npr[m].allocs :
              FinalOf(m) = [op |-> "cfgUpsert", cidr |-> c, slot |-> s]
       /\ FinalEntry(m) \in Goal(m)
    BY <1>1, <1>11, FinalInGoal
<1>13. ASSUME FinalEntry(m) \in Adds(p, o), m # n PROVE FALSE
    <2>1. /\ FinalEntry(m) \in Want(n, Claim(n), CIDR) /\ FinalEntry(m) \in Want(m, Claim(m), CIDR)
          /\ Claim(n) \subseteq PoolOf[n] /\ Claim(m) \subseteq PoolOf[m]
        BY ZenonT(60), <1>1, <1>5, <1>12, <1>13, OwnEntries, ClaimInPool
    <2>2. Claim(n) \cap Claim(m) = {}
        BY <1>1, <1>13 DEF Disjoint
    <2> QED
        BY ZenonT(60), <1>13, <2>1, <2>2, WantApart
<1>14. ASSUME FinalEntry(m) \in Adds(p, o), m = n PROVE FALSE
    <2>1. PICK c \in npr[m].cidrs, s \in npr[m].allocs :
              FinalOf(m) = [op |-> "cfgUpsert", cidr |-> c, slot |-> s]
        BY <1>12
    <2>2. FinalEntry(m) = <<"cfg", <<p, c, s[1]>>, s[2]>>
        <3>1. FinalOf(m).cidr = c /\ FinalOf(m).slot = s
            BY SMTT(30), <2>1
        <3> QED BY <1>14, <3>1 DEF FinalEntry, CfgEntry
    <2>3. o.op = "cfgUpsert" /\ FinalEntry(m) = <<"cfg", <<p, o.cidr, o.slot[1]>>, o.slot[2]>>
        BY SMTT(30), <1>2, <1>14, <2>2 DEF Adds, IsOp, Slotted
    <2>4. o.slot \in Slot /\ s \in Slot /\ o = [op |-> "cfgUpsert", cidr |-> o.cidr, slot |-> o.slot]
        BY <1>2, <1>11, <2>3 DEF IsOp, Slotted
    <2>5. o.slot = <<o.slot[1], o.slot[2]>> /\ s = <<s[1], s[2]>>
        BY ZenonT(60), <2>4, SyncAssumption DEF Slot
    <2>6. o.cidr = c /\ o.slot = s
        BY SMTT(30), <2>2, <2>3, <2>5
    <2>7. o = Last(work.todo)
        BY ZenonT(60), <1>10, <1>14, <2>1, <2>4, <2>6
    <2>8. /\ Len(work.todo) \in 1 .. Len(work.todo) /\ 1 \in 1 .. Len(work.todo)
          /\ work.todo[1] = work.todo[Len(work.todo)]
        BY SMTT(30), <1>2, <1>7, <2>7 DEF Last
    <2>9. Len(work.todo) = 1
        BY <1>7, <2>8 DEF Lists
    <2>10. Tail(work.todo) = << >>
        BY <1>7, <2>9, TailOne
    <2> QED
        BY ZenonT(60), <1>2, <1>9, <1>14, <2>10
<1>15. FinalEntry(m) \notin Content'
    BY <1>4, <1>10, <1>13, <1>14
<1> QED
    BY ZenonT(60), <1>2, <1>8, <1>9, <1>10, <1>15

LEMMA AbortFinals ==
    ASSUME SyncInv, Finals, work # NoWork, work.todo # << >>, Abort
    PROVE  Finals'
<1>1. work' = NoWork /\ UNCHANGED <<npr, synced, lookup, ports, cfg>>
    BY DEF Abort, api, maps
<1>2. Content' = Content /\ work'.name = None /\ None \notin Name /\ Local \subseteq Name
    BY <1>1, SyncAssumption DEF Content, NoWork
<1>3. \A m \in Local : Fresh(m)' => /\ Fresh(m) /\ FinalEntry(m)' = FinalEntry(m)
    BY <1>1 DEF Fresh, Alive, FinalOf, FinalEntry
<1> QED
    BY <1>1, <1>2, <1>3 DEF Finals, NonEmpty, FinalLast

LEMMA FinishFinals ==
    ASSUME SyncInv, Finals, Finish
    PROVE  Finals'
<1>1. SyncType /\ Status /\ Local \subseteq Name
    BY SyncAssumption DEF SyncInv
<1>2. /\ work # NoWork /\ work.todo = << >> /\ work' = NoWork
      /\ synced' = [synced EXCEPT ![work.name] = work.then]
      /\ UNCHANGED <<npr, lookup, ports, cfg>>
    BY ZenonT(60) DEF Finish, api, maps
<1>3. PICK n \in Name : work.name = n
    BY <1>1, <1>2 DEF SyncType, WorkType
<1>4. npr[n] # None /\ work.then = IF npr[n].stale THEN None ELSE SpecOf(n)
    BY <1>1, <1>3 DEF Status
<1>5. synced'[n] = work.then /\ \A m \in Name \ {n} : synced'[m] = synced[m]
    BY <1>1, <1>2, <1>3 DEF SyncType
<1>6. SpecOf(n) # None
    <2>1. SpecOf(n) \in Cached
        BY <1>1, <1>4, OldType DEF SpecOf, Cached, Object
    <2> QED
        BY <2>1, SyncAssumption
<1>7. Content' = Content /\ work'.name = None /\ None \notin Name
    BY <1>2, SyncAssumption DEF Content, NoWork
<1>8. ~Fresh(n)'
    BY <1>2, <1>4, <1>5, <1>6 DEF Fresh, Alive
<1>9. \A m \in Local : Fresh(m)' => Fresh(m) /\ FinalEntry(m)' = FinalEntry(m)
    BY ZenonT(60), <1>1, <1>2, <1>3, <1>5, <1>8 DEF Fresh, Alive, FinalOf, FinalEntry
<1> QED
    BY ZenonT(60), <1>1, <1>2, <1>7, <1>9 DEF Finals, NonEmpty, FinalLast

LEMMA FinalsStep ==
    ASSUME Calm, BlocksApart, SyncInv, Finals, [Next]_vars
    PROVE  Finals'
<1>1. ASSUME NEW n \in Name, Begin(n) PROVE Finals'
    BY <1>1, BeginFinals
<1>2. CASE Write
    BY <1>2, WriteFinals
<1>3. CASE work # NoWork /\ work.todo # << >> /\ Abort
    BY <1>3, AbortFinals
<1>4. CASE Finish
    BY <1>4, FinishFinals
<1>5. CASE Stop \/ Start
    BY <1>5 DEF Stop, Start, Calm, SyncInv, Status
<1>6. CASE EnvStep
    <2>1. PICK n \in Name : Create(n) \/ Update(n) \/ MarkStale(n) \/ Delete(n)
        BY <1>6 DEF EnvStep
    <2>2. PICK v : Changed(n, v)
        BY <2>1, EnvChange DEF SyncInv, Calm
    <2>3. SyncInv'
        BY SyncInvStep DEF Calm
    <2> QED
        BY <2>2, <2>3, ChangedFinals
<1>7. CASE UNCHANGED vars
    BY <1>7 DEF vars, Finals, NonEmpty, FinalLast, Fresh, Alive, FinalOf, FinalEntry, Content
<1> QED
    BY ZenonT(60), <1>1, <1>2, <1>3, <1>4, <1>5, <1>6, <1>7 DEF Next, Step, Refused, WriteFails

\* Only maybeRemovePodIPKind, run for a stale NATPortRange, takes a pod IP out
\* of dst_kind, and not while another one of the pod is complete in the maps.
LEMMA KindKeptStep ==
    ASSUME Calm, BlocksApart, SyncInv, Kinds, Finals, [Next]_vars,
           NEW n \in Local, Alive(n), npr[n].allocs # {}, Mapped(n)
    PROVE  PodOf[n] \in kind'
<1>1. PodOf[n] \in kind /\ Wanted(n) \subseteq cfg
    BY DEF Mapped
<1>2. CASE Write
    <2>1. SyncType /\ NonEmpty
        BY DEF SyncInv, Finals
    <2>2. PICK m \in Name, o \in Ops(work.todo) :
              work.name = m /\ kind' = KindAfter(kind, PodOf[m], o)
        BY ZenonT(60), <1>2, <2>1, WriteStep
    <2> SUFFICES ASSUME o.op = "kindRemove", PodOf[n] = PodOf[m] PROVE FALSE
        BY <1>1, <2>2 DEF KindAfter
    <2>3. ~Alive(m) /\ ~StillUsed(m)
        BY <2>2 DEF Kinds, KindOps
    <2>4. m # n /\ synced[n] = None
        BY <2>3 DEF StillUsed
    <2>5. FinalEntry(n) \notin Content
        BY <2>2, <2>4 DEF Finals, FinalLast, Fresh
    <2>6. PICK c \in npr[n].cidrs, s \in npr[n].allocs :
              FinalOf(n) = [op |-> "cfgUpsert", cidr |-> c, slot |-> s]
        BY ZenonT(60), <2>1, FinalInGoal
    <2> DEFINE x == <<PodOf[n], c, s[1], s[2]>>
    <2>7. x \in cfg
        BY SMTT(30), <1>1 DEF Wanted
    <2>8. FinalEntry(n) = <<"cfg", <<x[1], x[2], x[3]>>, x[4]>>
        BY SMTT(30), <2>6 DEF FinalEntry, CfgEntry
    <2> HIDE DEF x
    <2>9. InCfg(cfg, FinalEntry(n))
        BY <2>7, <2>8 DEF InCfg
    <2>10. FinalEntry(n) \in Content
        BY <2>9, ContentIn DEF Content
    <2> QED
        BY <2>5, <2>10
<1>3. CASE ~Write
    <2>1. UNCHANGED kind
        BY <1>3 DEF Next, Step, Begin, Refused, WriteFails, Abort, Finish, Stop, Start, EnvStep,
           Create, Update, MarkStale, Delete, Change, maps, vars
    <2> QED
        BY <1>1, <2>1
<1> QED
    BY <1>2, <1>3

\* With a daemon that runs on and keeps up with the API, whatever map
\* operations fail, a pod IP stays in dst_kind as long as an alive
\* NATPortRange of the pod is complete in the maps, whichever other
\* NATPortRanges of the pod go stale and in whatever order they are done.
THEOREM PodKindKeptHolds == Calm /\ BlocksApart => (Spec => PodKindKept)
<1> SUFFICES ASSUME Calm, BlocksApart PROVE Spec => PodKindKept
    OBVIOUS
<1>1. Init => SyncInv /\ Kinds /\ Finals
    BY SyncInvInit, KindsInit, FinalsInit
<1>2. SyncInv /\ Kinds /\ Finals /\ [Next]_vars => (SyncInv /\ Kinds /\ Finals)'
    BY SyncInvStep, KindsStep, FinalsStep DEF Calm
<1>3. SyncInv /\ Kinds /\ Finals /\ [Next]_vars =>
          [\A n \in Local : Alive(n) /\ npr[n].allocs # {} /\ Mapped(n) => PodOf[n] \in kind']_vars
    BY KindKeptStep
<1> QED
    BY <1>1, <1>2, <1>3, PTL DEF Spec, PodKindKept
=============================================================================
