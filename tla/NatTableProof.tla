--------------------------- MODULE NatTableProof ----------------------------
(***************************************************************************)
(* Proofs about the connection tables, for any pods, servers and blocks:   *)
(* every translation lies in a block that the pod has, or had until the    *)
(* daemon took it away (InBlock), with packets on any number of CPUs,      *)
(* sweeps and rewrites of nat_config interleaving at every map operation;  *)
(* and, with one CPU and no sweep, the two entries of a connection come    *)
(* and go together (Paired), and only closing entries go (HealthyKept).    *)
(***************************************************************************)
EXTENDS NatTable, FiniteSetTheorems, TLAPS

\* Zenon first: it needs no translation of the definitions, which is what costs here.
USE ZenonT(10), SMTT(30)

-----------------------------------------------------------------------------
(* The arithmetic of clamp_to_range and try_alloc_port.                    *)

LEMMA ModRange ==
    ASSUME NEW x \in Int, NEW m \in Nat \ {0}
    PROVE  x % m \in 0 .. (m - 1)
  BY SMTT(30)

LEMMA SmallMod ==
    ASSUME NEW x \in Nat, NEW m \in Nat, x < m
    PROVE  x % m = x
  BY SMTT(30)

LEMMA DivBounds ==
    ASSUME NEW x \in Nat, NEW m \in Nat \ {0}
    PROVE  x \div m \in Nat /\ (x \div m) * m <= x
  BY SMTT(30)

LEMMA MulBelow ==
    ASSUME NEW v \in Nat, NEW m \in Nat, NEW n \in Nat \ {0}, v < m
    PROVE  v * n \in Nat /\ v * n < n * m
  BY SMTT(30)

LEMMA MulMono ==
    ASSUME NEW a \in Nat, NEW b \in Nat, NEW c \in Nat, a <= b
    PROVE  a * c <= b * c
  BY SMTT(30)

\* The projection of a seed below m onto n values stays below n.
LEMMA Projection ==
    ASSUME NEW m \in Nat \ {0}, NEW n \in Nat \ {0}, NEW v \in 0 .. (m - 1)
    PROVE  (v * n) \div m \in 0 .. (n - 1)
<1> DEFINE q == (v * n) \div m
<1>1. v \in Nat /\ v < m /\ v * n \in Nat /\ v * n < n * m
  BY SMTT(30), MulBelow
<1>2. q \in Nat /\ q * m <= v * n
  BY <1>1, DivBounds
<1>3. ~(n <= q)
  <2> SUFFICES ASSUME n <= q PROVE FALSE
    OBVIOUS
  <2>1. n * m <= q * m
    BY <1>2, MulMono
  <2>2. n * m \in Int /\ q * m \in Int /\ v * n \in Int
    BY SMTT(30), <1>2
  <2> HIDE DEF q
  <2> QED BY SMTT(30), <1>1, <1>2, <2>1, <2>2
<1> QED BY SMTT(30), <1>2, <1>3

\* A reduction modulo m does not lead out of 0 .. n - 1.
LEMMA ModKeeps ==
    ASSUME NEW m \in Nat \ {0}, NEW n \in Nat \ {0}, NEW x \in 0 .. (n - 1)
    PROVE  x % m \in 0 .. (n - 1)
<1>1. CASE x < m
  BY SMTT(30), <1>1, SmallMod
<1>2. CASE ~(x < m)
  <2>1. x % m \in 0 .. (m - 1)
    BY SMTT(30), ModRange
  <2> QED BY SMTT(30), <1>2, <2>1
<1> QED BY <1>1, <1>2

\* However far the walk goes, it stays in the block.
LEMMA WalkInBlock ==
    ASSUME NEW e, e.lo \in Int, e.hi \in Int, e.lo <= e.hi, NEW start \in Int, NEW j \in Int
    PROVE  e.lo <= Walk(e, start, j) /\ Walk(e, start, j) <= e.hi
<1> DEFINE n == e.hi - e.lo + 1
           x == start - e.lo + j
<1>1. n \in Nat \ {0} /\ x \in Int
  BY SMTT(30)
<1>2. x % n \in 0 .. (n - 1)
  BY <1>1, ModRange
<1>3. Walk(e, start, j) = e.lo + (x % n)
  BY DEF Walk
<1>4. ASSUME NEW y \in 0 .. (n - 1) PROVE e.lo <= e.lo + y /\ e.lo + y <= e.hi
  BY SMTT(30)
<1> QED BY <1>2, <1>3, <1>4

\* Every attempt of allocate_snat_port looks at a port of one of the pod's
\* blocks, with that block's external IP.
LEMMA ProbeInBlock ==
    ASSUME NEW p \in Pod, allocs[p] \in Lists[p], Len(allocs[p]) > 0, NEW pp \in PodPort, NEW t \in Attempt
    PROVE  InBlocks(p, Probe(p, pp, t).ext, Probe(p, pp, t).port)
<1> DEFINE n    == Len(allocs[p])
           seed == (pp + t[1]) % M
           i    == 1 + ClampToRange(0, n - 1, seed)
           e    == allocs[p][i]
           st   == ClampToRange(e.lo, e.hi, seed)
<1>1. M \in Nat \ {0} /\ n \in Nat \ {0} /\ pp \in Int /\ t[1] \in Int /\ t[2] \in Int
  BY SMTT(30), NatAssumption DEF Port, Attempt
<1>2. seed \in 0 .. (M - 1)
  <2>1. pp + t[1] \in Int
    BY SMTT(30), <1>1
  <2> QED BY <1>1, <2>1, ModRange
<1>3. i \in 1 .. n
  <2> HIDE DEF n, seed
  <2>1. (seed * n) \div M \in 0 .. (n - 1)
    BY <1>1, <1>2, Projection
  <2>2. ClampToRange(0, n - 1, seed) = ((seed * n) \div M) % M
    <3>1. (n - 1) - 0 + 1 = n
      BY SMTT(30), <1>1
    <3>2. 0 + ((seed * n) \div M) = (seed * n) \div M
      BY SMTT(30), <2>1
    <3> QED BY <3>1, <3>2 DEF ClampToRange
  <2>3. ClampToRange(0, n - 1, seed) \in 0 .. (n - 1)
    BY <1>1, <2>1, <2>2, ModKeeps
  <2> QED BY SMTT(30), <1>1, <2>3
<1>4. e.lo \in Port /\ e.hi \in Port /\ e.lo <= e.hi
  <2> HIDE DEF i
  <2> QED BY <1>3, NatAssumption
<1>5. e.lo \in Nat /\ e.hi \in Nat
  <2> HIDE DEF e
  <2> QED BY SMTT(30), <1>1, <1>4 DEF Port
<1>6. st \in Int
  <2> HIDE DEF e, seed
  <2>1. e.hi - e.lo + 1 \in Nat /\ seed \in Nat
    BY SMTT(30), <1>1, <1>2, <1>4, <1>5
  <2>2. seed * (e.hi - e.lo + 1) \in Nat
    BY SMTT(30), <2>1
  <2>3. (seed * (e.hi - e.lo + 1)) \div M \in Nat
    BY <1>1, <2>2, DivBounds
  <2>4. e.lo + ((seed * (e.hi - e.lo + 1)) \div M) \in Int
    BY SMTT(30), <1>5, <2>3
  <2> QED BY SMTT(30), <1>1, <2>4, ModRange DEF ClampToRange
<1>7. e.lo <= Walk(e, st, t[2]) /\ Walk(e, st, t[2]) <= e.hi
  <2> HIDE DEF e, st
  <2> QED BY SMTT(30), <1>1, <1>4, <1>5, <1>6, WalkInBlock
<1>8. Probe(p, pp, t) = [ext |-> e.ext, port |-> Walk(e, st, t[2])]
  BY DEF Probe
<1> HIDE DEF e, st, i
<1>9. Probe(p, pp, t).ext = e.ext /\ Probe(p, pp, t).port = Walk(e, st, t[2])
  BY SMTT(30), <1>8
<1>10. e \in Held(p) /\ Within(e, e.ext, Walk(e, st, t[2]))
  BY <1>3, <1>7 DEF Held, Blocks, e, Within
<1> QED BY <1>9, <1>10 DEF InBlocks
-----------------------------------------------------------------------------
(* The inductive invariant.                                                *)

\* What a CPU holds between its choice of a port and the second write: the
\* two keys of one connection, and a port of the pod's own blocks.
Chosen(r) ==
    /\ r = [pc |-> r.pc, snat |-> r.snat, revnat |-> r.revnat, ext |-> r.ext,
            natPort |-> r.natPort, podPort |-> r.podPort, closing |-> r.closing]
    /\ r.snat.kind = "snat" /\ r.revnat.kind = "revnat"
    /\ r.snat.a[1] \in Pod /\ r.revnat.b[1] \in Pod
    /\ InBlocks(r.snat.a[1], r.ext, r.natPort)
    /\ InBlocks(r.revnat.b[1], r.ext, r.revnat.b[2])

\* An entry is a record of the three fields, whatever their types.
Entry(v) == v = [ip |-> v.ip, port |-> v.port, closing |-> v.closing]

\* The translation an entry stands for lies in the pod's blocks.
Inside(k, v) ==
    IF k.kind = "snat" THEN k.a[1] \in Pod /\ InBlocks(k.a[1], v.ip, v.port)
                       ELSE k.b[1] \in Pod /\ InBlocks(k.b[1], v.ip, k.b[2])

\* What nat_config holds, and the record of what it held.
Listed ==
    /\ allocs = [p \in Pod |-> allocs[p]] /\ lost = [p \in Pod |-> lost[p]]
    /\ \A p \in Pod : allocs[p] \in Lists[p]

\* InBlock says nothing of the ports that CPUs have chosen and not written
\* yet, so it is not inductive alone.
InHand ==
    /\ Listed
    /\ nat = [k \in DOMAIN nat |-> nat[k]]
    /\ \A k \in DOMAIN nat : Entry(nat[k]) /\ Inside(k, nat[k])
    /\ cpu = [c \in CPU |-> cpu[c]]
    /\ \A c \in CPU : "pc" \in DOMAIN cpu[c]
    /\ \A c \in CPU : cpu[c].pc \in {"snat", "revnat"} => Chosen(cpu[c])

\* Each way of changing the table keeps the entries inside their blocks.
LEMMA PutInside ==
    ASSUME InHand, NEW k, NEW v, Entry(v), Inside(k, v), nat' = Put(k, v)
    PROVE  /\ nat' = [x \in DOMAIN nat' |-> nat'[x]]
           /\ \A x \in DOMAIN nat' : Entry(nat'[x]) /\ Inside(x, nat'[x])
<1>1. DOMAIN nat' = DOMAIN nat \cup {k}
  BY DEF Put
<1>2. \A x \in DOMAIN nat' : nat'[x] = IF x = k THEN v ELSE nat[x]
  BY DEF Put
<1>3. nat' = [x \in DOMAIN nat' |-> nat'[x]]
  BY DEF Put
<1>4. \A x \in DOMAIN nat : Entry(nat[x]) /\ Inside(x, nat[x])
  BY DEF InHand
<1> QED BY <1>1, <1>2, <1>3, <1>4

LEMMA DeleteInside ==
    ASSUME InHand, NEW K, nat' = Delete(K)
    PROVE  /\ nat' = [x \in DOMAIN nat' |-> nat'[x]]
           /\ \A x \in DOMAIN nat' : Entry(nat'[x]) /\ Inside(x, nat'[x])
<1>1. DOMAIN nat' \subseteq DOMAIN nat
  BY DEF Delete
<1>2. \A x \in DOMAIN nat' : nat'[x] = nat[x]
  BY DEF Delete
<1>3. nat' = [x \in DOMAIN nat' |-> nat'[x]]
  BY DEF Delete
<1>4. \A x \in DOMAIN nat : Entry(nat[x]) /\ Inside(x, nat[x])
  BY DEF InHand
<1> QED BY <1>1, <1>2, <1>3, <1>4

LEMMA MarkInside ==
    ASSUME InHand, NEW k \in DOMAIN nat, NEW t, nat' = Mark(k, t)
    PROVE  /\ nat' = [x \in DOMAIN nat' |-> nat'[x]]
           /\ \A x \in DOMAIN nat' : Entry(nat'[x]) /\ Inside(x, nat'[x])
<1>1. DOMAIN nat' = DOMAIN nat
  BY DEF Mark
<1>2. nat' = [x \in DOMAIN nat' |-> nat'[x]]
  BY DEF Mark
<1>3. \A x \in DOMAIN nat : x # k => nat'[x] = nat[x]
  BY DEF Mark
<1>4. nat'[k] = [nat[k] EXCEPT !.closing = t]
  BY DEF Mark
<1>5. nat[k] = [ip |-> nat[k].ip, port |-> nat[k].port, closing |-> nat[k].closing]
  BY DEF InHand, Entry
<1>6. nat'[k] = [ip |-> nat[k].ip, port |-> nat[k].port, closing |-> t]
  BY <1>4, <1>5
<1>7. nat'[k].ip = nat[k].ip /\ nat'[k].port = nat[k].port /\ nat'[k].closing = t
  BY SMTT(30), <1>6
<1>8. Entry(nat'[k])
  BY <1>6, <1>7 DEF Entry
<1>9. Inside(k, nat'[k])
  BY <1>7 DEF InHand, Inside
<1> QED BY <1>1, <1>2, <1>3, <1>8, <1>9 DEF InHand

\* A CPU that moves to another point, or starts anew, leaves the others alone.
LEMMA CpuMoves ==
    ASSUME InHand, NEW c \in CPU, NEW r, cpu' = [cpu EXCEPT ![c] = r],
           "pc" \in DOMAIN r, r.pc \in {"snat", "revnat"} => Chosen(r)
    PROVE  /\ cpu' = [d \in CPU |-> cpu'[d]]
           /\ \A d \in CPU : "pc" \in DOMAIN cpu'[d]
           /\ \A d \in CPU : cpu'[d].pc \in {"snat", "revnat"} => Chosen(cpu'[d])
<1>1. cpu = [d \in CPU |-> cpu[d]]
  BY DEF InHand
<1>2. DOMAIN cpu = CPU
  BY <1>1
<1>3. cpu' = [d \in CPU |-> cpu'[d]]
  BY <1>2
<1>4. \A d \in CPU : cpu'[d] = IF d = c THEN r ELSE cpu[d]
  BY <1>2
<1>5. \A d \in CPU : cpu[d].pc \in {"snat", "revnat"} => Chosen(cpu[d])
  BY DEF InHand
<1>6. \A d \in CPU : "pc" \in DOMAIN cpu'[d]
  BY <1>4 DEF InHand
<1> QED BY <1>3, <1>4, <1>5, <1>6

LEMMA InHandInit == Init => InHand
<1> SUFFICES ASSUME Init PROVE InHand
  OBVIOUS
<1>1. Listed
  BY NatAssumption DEF Init, Listed
<1> QED BY SMTT(30), <1>1 DEF Init, InHand, Idle

\* The two halves of InHand, as the lemmas above conclude them, in a step that
\* leaves nat_config alone.
LEMMA InHandNext ==
    ASSUME InHand, UNCHANGED config,
           nat' = [x \in DOMAIN nat' |-> nat'[x]],
           \A x \in DOMAIN nat' : Entry(nat'[x]) /\ Inside(x, nat'[x]),
           cpu' = [d \in CPU |-> cpu'[d]],
           \A d \in CPU : "pc" \in DOMAIN cpu'[d],
           \A d \in CPU : cpu'[d].pc \in {"snat", "revnat"} => Chosen(cpu'[d])
    PROVE  InHand'
<1>1. UNCHANGED <<allocs, lost>>
  BY DEF config
<1>2. Listed'
  BY <1>1 DEF InHand, Listed
<1>3. ASSUME NEW p, NEW ext, NEW port PROVE InBlocks(p, ext, port)' <=> InBlocks(p, ext, port)
  BY <1>1 DEF InBlocks, Held, Blocks
<1>4. ASSUME NEW k \in DOMAIN nat' PROVE Entry(nat[k])' /\ Inside(k, nat[k])'
  BY <1>3 DEF Entry, Inside
<1>5. ASSUME NEW d \in CPU, cpu'[d].pc \in {"snat", "revnat"} PROVE Chosen(cpu[d])'
  <2>1. Chosen(cpu'[d])
    BY <1>5
  <2> QED BY <1>3, <2>1 DEF Chosen
<1> QED BY <1>2, <1>4, <1>5 DEF InHand

LEMMA CpuSame ==
    ASSUME InHand, UNCHANGED cpu
    PROVE  /\ cpu' = [d \in CPU |-> cpu'[d]]
           /\ \A d \in CPU : "pc" \in DOMAIN cpu'[d]
           /\ \A d \in CPU : cpu'[d].pc \in {"snat", "revnat"} => Chosen(cpu'[d])
  BY DEF InHand

LEMMA NatSame ==
    ASSUME InHand, UNCHANGED nat
    PROVE  /\ nat' = [x \in DOMAIN nat' |-> nat'[x]]
           /\ \A x \in DOMAIN nat' : Entry(nat'[x]) /\ Inside(x, nat'[x])
  BY DEF InHand

-----------------------------------------------------------------------------
(* One lemma for each kind of step.                                        *)

LEMMA HitStep ==
    ASSUME InHand, NEW c \in CPU, NEW proto, NEW own \in DOMAIN nat,
           NEW snat, NEW revnat, NEW f, Hit(c, proto, own, snat, revnat, f), UNCHANGED config
    PROVE  InHand'
<1>1. PICK t : nat' = Mark(own, t)
  BY DEF Hit, TrackClose, Touch
<1>2. /\ nat' = [x \in DOMAIN nat' |-> nat'[x]]
      /\ \A x \in DOMAIN nat' : Entry(nat'[x]) /\ Inside(x, nat'[x])
  BY <1>1, MarkInside
<1>3. CASE UNCHANGED cpu
  BY <1>2, <1>3, CpuSame, InHandNext
<1>4. CASE ~UNCHANGED cpu
  <2> DEFINE r == [pc |-> "confirm", snat |-> snat, revnat |-> revnat,
                   peer |-> IF own = snat THEN revnat ELSE snat]
  <2>1. cpu' = [cpu EXCEPT ![c] = r]
    BY <1>4 DEF Hit, TrackClose, Touch
  <2>2. "pc" \in DOMAIN r /\ r.pc = "confirm"
    OBVIOUS
  <2> HIDE DEF r
  <2>3. /\ cpu' = [d \in CPU |-> cpu'[d]]
        /\ \A d \in CPU : "pc" \in DOMAIN cpu'[d]
        /\ \A d \in CPU : cpu'[d].pc \in {"snat", "revnat"} => Chosen(cpu'[d])
    BY <2>1, <2>2, CpuMoves
  <2> QED BY <1>2, <2>3, InHandNext
<1> QED BY <1>3, <1>4

LEMMA EgressKeeps ==
    ASSUME InHand, NEW c \in CPU, NEW proto \in Proto, NEW pod \in Pod, NEW pp \in PodPort,
           NEW server \in Server, NEW f \in Flag, Egress(c, proto, pod, pp, server, f)
    PROVE  InHand'
<1> DEFINE k == SnatKey(proto, pod, pp, server)
<1>1. CASE Present(k)
  <2>1. Hit(c, proto, k, k, RevnatKey(proto, server, pod, nat[k].port), f) /\ UNCHANGED config
    BY <1>1 DEF Egress
  <2> HIDE DEF k
  <2> QED BY <1>1, <2>1, HitStep DEF Present
<1>2. CASE ~Present(k)
  <2>1. UNCHANGED nat /\ UNCHANGED config
    BY <1>2 DEF Egress
  <2>2. PICK res :
          /\ AllocateSnatPort(proto, server, pod, pp, res)
          /\ cpu' = [cpu EXCEPT ![c] =
                [pc |-> "snat", snat |-> k, revnat |-> RevnatKey(proto, server, pod, res.port),
                 ext |-> res.ext, natPort |-> res.port, podPort |-> pp,
                 closing |-> IF proto = "tcp" /\ Ends(f) THEN clock ELSE 0]]
    BY <1>2 DEF Egress
  <2> DEFINE z == RevnatKey(proto, server, pod, res.port)
             w == IF proto = "tcp" /\ Ends(f) THEN clock ELSE 0
             r == [pc |-> "snat", snat |-> k, revnat |-> z, ext |-> res.ext,
                   natPort |-> res.port, podPort |-> pp, closing |-> w]
  <2>3. InBlocks(pod, res.ext, res.port)
    BY <2>2, ProbeInBlock DEF AllocateSnatPort, InHand, Listed
  <2>4. k.kind = "snat" /\ k.a[1] = pod
    BY DEF SnatKey
  <2>5. z.kind = "revnat" /\ z.b[1] = pod /\ z.b[2] = res.port
    BY DEF RevnatKey
  <2>6. cpu' = [cpu EXCEPT ![c] = r]
    BY <2>2
  <2> HIDE DEF k, z, w
  <2>7. Chosen(r) /\ "pc" \in DOMAIN r
    BY <2>3, <2>4, <2>5 DEF Chosen
  <2> HIDE DEF r
  <2>8. /\ cpu' = [d \in CPU |-> cpu'[d]]
        /\ \A d \in CPU : "pc" \in DOMAIN cpu'[d]
        /\ \A d \in CPU : cpu'[d].pc \in {"snat", "revnat"} => Chosen(cpu'[d])
    BY <2>6, <2>7, CpuMoves
  <2> QED BY <2>1, <2>8, InHandNext DEF InHand
<1> QED BY <1>1, <1>2

LEMMA IngressKeeps ==
    ASSUME InHand, NEW c \in CPU, NEW proto \in Proto, NEW server \in Server, NEW pod \in Pod,
           NEW np \in Port, NEW f \in Flag, Ingress(c, proto, server, pod, np, f)
    PROVE  InHand'
<1> DEFINE k == RevnatKey(proto, server, pod, np)
<1>1. Present(k) /\ Hit(c, proto, k, SnatKey(proto, pod, nat[k].port, server), k, f)
      /\ UNCHANGED config
  BY DEF Ingress
<1> HIDE DEF k
<1> QED BY <1>1, HitStep DEF Present

LEMMA WriteSnatKeeps ==
    ASSUME InHand, NEW c \in CPU, WriteSnat(c)
    PROVE  InHand'
<1> DEFINE r == cpu[c]
           v == [ip |-> r.ext, port |-> r.natPort, closing |-> r.closing]
<1>1. r.pc = "snat" /\ Chosen(r) /\ UNCHANGED config
  BY DEF WriteSnat, InHand
<1>2. Entry(v) /\ Inside(r.snat, v)
  BY <1>1 DEF Entry, Inside, Chosen
<1>3. nat' = Put(r.snat, v) \/ UNCHANGED nat
  BY DEF WriteSnat
<1>4. /\ nat' = [x \in DOMAIN nat' |-> nat'[x]]
      /\ \A x \in DOMAIN nat' : Entry(nat'[x]) /\ Inside(x, nat'[x])
  <2> HIDE DEF v
  <2> QED BY <1>2, <1>3, PutInside, NatSame
<1>5. cpu' = [cpu EXCEPT ![c] = [r EXCEPT !.pc = "revnat"]]
  BY DEF WriteSnat
<1>6. Chosen([r EXCEPT !.pc = "revnat"]) /\ "pc" \in DOMAIN [r EXCEPT !.pc = "revnat"]
  <2> DEFINE w == [pc |-> "revnat", snat |-> r.snat, revnat |-> r.revnat, ext |-> r.ext,
                   natPort |-> r.natPort, podPort |-> r.podPort, closing |-> r.closing]
  <2>1. r = [pc |-> r.pc, snat |-> r.snat, revnat |-> r.revnat, ext |-> r.ext,
             natPort |-> r.natPort, podPort |-> r.podPort, closing |-> r.closing]
    BY <1>1 DEF Chosen
  <2>2. [r EXCEPT !.pc = "revnat"] = w
    BY SMTT(30), <2>1
  <2>3. Chosen(w)
    BY <1>1 DEF Chosen
  <2> QED BY <2>2, <2>3
<1>7. /\ cpu' = [d \in CPU |-> cpu'[d]]
      /\ \A d \in CPU : "pc" \in DOMAIN cpu'[d]
      /\ \A d \in CPU : cpu'[d].pc \in {"snat", "revnat"} => Chosen(cpu'[d])
  BY <1>5, <1>6, CpuMoves
<1> QED BY <1>1, <1>4, <1>7, InHandNext

\* A CPU that is done holds nothing.
LEMMA CpuIdles ==
    ASSUME InHand, NEW c \in CPU, cpu' = [cpu EXCEPT ![c] = Idle]
    PROVE  /\ cpu' = [d \in CPU |-> cpu'[d]]
           /\ \A d \in CPU : "pc" \in DOMAIN cpu'[d]
           /\ \A d \in CPU : cpu'[d].pc \in {"snat", "revnat"} => Chosen(cpu'[d])
<1>1. "pc" \in DOMAIN Idle /\ Idle.pc = "idle"
  BY DEF Idle
<1> QED BY <1>1, CpuMoves

LEMMA WriteRevnatKeeps ==
    ASSUME InHand, NEW c \in CPU, WriteRevnat(c)
    PROVE  InHand'
<1> DEFINE r == cpu[c]
           v == [ip |-> r.ext, port |-> r.podPort, closing |-> r.closing]
<1>1. r.pc = "revnat" /\ Chosen(r) /\ UNCHANGED config
  BY DEF WriteRevnat, InHand
<1>2. Entry(v) /\ Inside(r.revnat, v)
  BY <1>1 DEF Entry, Inside, Chosen
<1>3. nat' = Put(r.revnat, v) \/ UNCHANGED nat
  BY DEF WriteRevnat
<1>4. /\ nat' = [x \in DOMAIN nat' |-> nat'[x]]
      /\ \A x \in DOMAIN nat' : Entry(nat'[x]) /\ Inside(x, nat'[x])
  <2> HIDE DEF v
  <2> QED BY <1>2, <1>3, PutInside, NatSame
<1>5. cpu' = [cpu EXCEPT ![c] = Idle]
  BY DEF WriteRevnat
<1> QED BY <1>1, <1>4, <1>5, CpuIdles, InHandNext

LEMMA CloseKeeps ==
    ASSUME InHand, NEW c \in CPU, Confirm(c) \/ Drop(c) \/ Reap(c)
    PROVE  InHand'
<1>1. ((\E K : nat' = Delete(K)) \/ UNCHANGED nat) /\ UNCHANGED config
  BY DEF Confirm, Drop, Reap
<1>2. /\ nat' = [x \in DOMAIN nat' |-> nat'[x]]
      /\ \A x \in DOMAIN nat' : Entry(nat'[x]) /\ Inside(x, nat'[x])
  BY <1>1, DeleteInside, NatSame
<1>3. CASE cpu' = [cpu EXCEPT ![c] = Idle]
  BY <1>1, <1>2, <1>3, CpuIdles, InHandNext
<1>4. ASSUME NEW q \in {"drop", "reap"}, cpu' = [cpu EXCEPT ![c].pc = q]
      PROVE  InHand'
  <2> DEFINE r == [cpu[c] EXCEPT !.pc = q]
  <2>1. cpu' = [cpu EXCEPT ![c] = r]
    BY <1>4
  <2>2. "pc" \in DOMAIN r /\ r.pc \notin {"snat", "revnat"}
    BY DEF InHand
  <2> HIDE DEF r
  <2>3. /\ cpu' = [d \in CPU |-> cpu'[d]]
        /\ \A d \in CPU : "pc" \in DOMAIN cpu'[d]
        /\ \A d \in CPU : cpu'[d].pc \in {"snat", "revnat"} => Chosen(cpu'[d])
    BY <2>1, <2>2, CpuMoves
  <2> QED BY <1>1, <1>2, <2>3, InHandNext
<1> QED BY <1>3, <1>4 DEF Confirm, Drop, Reap

\* The sweeps only mark and delete.
LEMMA SweepKeeps ==
    ASSUME InHand, SweepBegin \/ SweepStep \/ Tick
    PROVE  InHand'
<1>1. UNCHANGED cpu /\ UNCHANGED config
  BY DEF SweepBegin, SweepStep, SweepNext, KillPeer, Kill, Visit, Tick
<1>2. \/ \E K : nat' = Delete(K)
      \/ UNCHANGED nat
      \/ \E k \in DOMAIN nat : \E t : nat' = Mark(k, t)
  BY DEF SweepBegin, SweepStep, SweepNext, KillPeer, Kill, Visit, Tick, Of
<1>3. /\ nat' = [x \in DOMAIN nat' |-> nat'[x]]
      /\ \A x \in DOMAIN nat' : Entry(nat'[x]) /\ Inside(x, nat'[x])
  BY <1>2, DeleteInside, NatSame, MarkInside
<1> QED BY <1>1, <1>3, CpuSame, InHandNext

\* A pod's blocks may go, but not the record of them.
LEMMA HeldGrows ==
    ASSUME Listed, NEW p \in Pod, Rewrite(p)
    PROVE  Listed' /\ \A q \in Pod : Held(q) \subseteq Held(q)'
<1>1. PICK l \in Lists[p] :
        /\ allocs' = [allocs EXCEPT ![p] = l]
        /\ lost' = [lost EXCEPT ![p] = @ \cup (Blocks(allocs[p]) \ Blocks(l))]
  BY DEF Rewrite
<1>2. DOMAIN allocs = Pod /\ DOMAIN lost = Pod /\ \A q \in Pod : allocs[q] \in Lists[q]
  BY DEF Listed
<1>3. /\ allocs'[p] = l /\ lost'[p] = lost[p] \cup (Blocks(allocs[p]) \ Blocks(l))
      /\ \A q \in Pod \ {p} : allocs'[q] = allocs[q] /\ lost'[q] = lost[q]
      /\ allocs' = [q \in Pod |-> allocs'[q]] /\ lost' = [q \in Pod |-> lost'[q]]
  BY <1>1, <1>2
<1>4. Listed'
  BY <1>2, <1>3 DEF Listed
<1>5. ASSUME NEW q \in Pod PROVE Held(q) \subseteq Held(q)'
  <2>1. Held(q)' = Blocks(allocs'[q]) \cup lost'[q]
    BY DEF Held, Blocks
  <2>2. CASE q = p
    BY <1>3, <2>1, <2>2 DEF Held
  <2>3. CASE q # p
    BY <1>3, <2>1, <2>3 DEF Held
  <2> QED BY <2>2, <2>3
<1> QED BY <1>4, <1>5

LEMMA RewriteKeeps ==
    ASSUME InHand, NEW p \in Pod, Rewrite(p)
    PROVE  InHand'
<1>1. Listed' /\ \A q \in Pod : Held(q) \subseteq Held(q)'
  BY HeldGrows DEF InHand
<1>2. ASSUME NEW q \in Pod, NEW ext, NEW port, InBlocks(q, ext, port)
      PROVE  \E b \in Held(q)' : Within(b, ext, port)
  BY <1>1, <1>2 DEF InBlocks
<1>3. nat' = nat /\ cpu' = cpu
  BY DEF Rewrite
<1>4. ASSUME NEW k \in DOMAIN nat PROVE Entry(nat[k]) /\ Inside(k, nat[k])'
  BY <1>2, <1>3 DEF InHand, Inside, InBlocks
<1>5. ASSUME NEW c \in CPU, cpu[c].pc \in {"snat", "revnat"} PROVE Chosen(cpu[c])'
  BY <1>2, <1>3, <1>5 DEF InHand, Chosen, InBlocks
<1>6. ASSUME NEW k \in DOMAIN nat PROVE Entry(nat[k])'
  BY <1>3, <1>4 DEF Entry
<1> QED BY <1>1, <1>3, <1>4, <1>5, <1>6 DEF InHand

LEMMA InHandStep ==
    ASSUME InHand, [Next]_vars
    PROVE  InHand'
<1>1. CASE \E c \in CPU : EgressStep(c)
  BY <1>1, EgressKeeps DEF EgressStep
<1>2. CASE \E c \in CPU : IngressStep(c)
  BY <1>2, IngressKeeps DEF IngressStep
<1>3. CASE \E c \in CPU : Finish(c)
  BY <1>3, WriteSnatKeeps, WriteRevnatKeeps, CloseKeeps DEF Finish
<1>4. CASE SweepBegin \/ SweepStep \/ Tick
  BY <1>4, SweepKeeps
<1>5. CASE \E p \in Pod : Rewrite(p)
  BY <1>5, RewriteKeeps
<1>6. CASE UNCHANGED vars
  BY <1>6, CpuSame, NatSame, InHandNext DEF vars
<1> QED BY <1>1, <1>2, <1>3, <1>4, <1>5, <1>6 DEF Next

-----------------------------------------------------------------------------
\* Every entry of nat_map_tcp and nat_map_any translates to an external IP and
\* a port of a block that nat_config gives the pod, or gave it until the daemon
\* took the block away, for any lists of blocks written at any moment, any
\* seeds, table sizes and number of CPUs, while sweeps mark and delete.
THEOREM TranslationsInBlock == Spec => []InBlock
<1>1. Init => InHand
  BY InHandInit
<1>2. InHand /\ [Next]_vars => InHand'
  BY InHandStep
<1>3. InHand => InBlock
  BY DEF InHand, InBlock, Inside
<1> QED BY <1>1, <1>2, <1>3, PTL DEF Spec

-----------------------------------------------------------------------------
(* One CPU and no sweep: the two entries of a connection come and go       *)
(* together.                                                               *)

Serial == ~Sweeps /\ \E c : CPU = {c}

\* Neither table is full.
Room == \A k \in Key : Fits(k)

\* The other entry of the connection that the entry of k belongs to, in the
\* table n, and the port which that entry is to have.
Mate(n, k) ==
    IF k.kind = "snat" THEN RevnatKey(k.proto, k.b, k.a[1], n[k].port)
                       ELSE SnatKey(k.proto, k.b[1], n[k].port, k.a)
OwnPort(k) == IF k.kind = "snat" THEN k.a[2] ELSE k.b[2]

HasMate(n, k) == Mate(n, k) \in DOMAIN n /\ n[Mate(n, k)].port = OwnPort(k)
Mated(n, X)   == \A k \in DOMAIN n \ X : k.proto # "icmp" => HasMate(n, k)

\* What a CPU has in hand before it writes, and while it closes.
Plan(r) ==
    \E x \in Proto, p \in Pod, pp \in PodPort, s \in Server :
        /\ r = [pc |-> r.pc, snat |-> SnatKey(x, p, pp, s),
                revnat |-> RevnatKey(x, s, p, r.natPort), ext |-> r.ext,
                natPort |-> r.natPort, podPort |-> pp, closing |-> r.closing]
        /\ r.natPort \in Port
Both(r) == r = [pc |-> r.pc, snat |-> r.snat, revnat |-> r.revnat, peer |-> r.peer]
Linked(n, r) ==
    /\ Both(r) /\ r.snat \in DOMAIN n /\ r.snat.kind = "snat" /\ r.snat.proto = "tcp"
    /\ r.revnat = Mate(n, r.snat)

\* The table n while the CPU has r in hand: which of the two entries of its
\* connection are there, and that all others are in pairs.
Phase(n, r) ==
    \/ r = Idle /\ Mated(n, {})
    \/ /\ r.pc = "snat" /\ Plan(r) /\ Mated(n, {}) /\ r.snat \notin DOMAIN n
       /\ r.snat.proto = "icmp" \/ r.revnat \notin DOMAIN n
    \/ /\ r.pc = "revnat" /\ Plan(r) /\ Mated(n, {r.snat})
       /\ r.snat \in DOMAIN n /\ n[r.snat].port = r.natPort
       /\ r.snat.proto = "icmp" \/ r.revnat \notin DOMAIN n
    \/ r.pc \in {"confirm", "drop"} /\ Linked(n, r) /\ Mated(n, {})
    \/ r.pc = "reap" /\ Linked(n, r) /\ Mated(n, {r.snat}) /\ r.revnat \notin DOMAIN n

Quiet == gc.pc = "idle" /\ DOMAIN nat \subseteq Key

LEMMA KeyFields ==
    ASSUME NEW x, NEW p, NEW pp, NEW s
    PROVE  /\ LET k == SnatKey(x, p, pp, s) IN
                 k.kind = "snat" /\ k.proto = x /\ k.a = <<p, pp>> /\ k.a[1] = p /\ k.a[2] = pp /\ k.b = s
           /\ LET k == RevnatKey(x, s, p, pp) IN
                 k.kind = "revnat" /\ k.proto = x /\ k.a = s /\ k.b = <<p, pp>> /\ k.b[1] = p /\ k.b[2] = pp
BY DEF SnatKey, RevnatKey

LEMMA KeyShape ==
    ASSUME NEW k \in Key
    PROVE  \/ k.kind = "snat" /\ k = SnatKey(k.proto, k.a[1], k.a[2], k.b)
           \/ k.kind = "revnat" /\ k = RevnatKey(k.proto, k.a, k.b[1], k.b[2])
<1>1. CASE \E x \in Proto, p \in Pod, pp \in PodPort, s \in Server : k = SnatKey(x, p, pp, s)
  BY SMTT(30), <1>1, KeyFields
<1>2. CASE \E x \in Proto, p \in Pod, np \in Port, s \in Server : k = RevnatKey(x, s, p, np)
  BY SMTT(30), <1>2, KeyFields
<1> QED BY SMTT(30), <1>1, <1>2 DEF Key

\* An entry is the mate of its mate.
LEMMA MateMate ==
    ASSUME NEW n, NEW k \in Key, HasMate(n, k)
    PROVE  /\ Mate(n, Mate(n, k)) = k /\ Mate(n, k).proto = k.proto /\ Mate(n, k) # k
           /\ k.kind = "snat" => Mate(n, k).kind = "revnat"
           /\ k.kind = "revnat" => Mate(n, k).kind = "snat"
<1> DEFINE l == Mate(n, k)
<1>1. CASE k.kind = "snat" /\ k = SnatKey(k.proto, k.a[1], k.a[2], k.b)
  <2>1. l = RevnatKey(k.proto, k.b, k.a[1], n[k].port) /\ n[l].port = k.a[2]
    BY <1>1 DEF Mate, HasMate, OwnPort
  <2>2. l.kind = "revnat" /\ l.proto = k.proto /\ l.a = k.b /\ l.b[1] = k.a[1]
    BY SMTT(30), <2>1, KeyFields
  <2>3. Mate(n, l) = SnatKey(l.proto, l.b[1], n[l].port, l.a)
    BY <2>2 DEF Mate
  <2> QED BY <1>1, <2>1, <2>2, <2>3
<1>2. CASE k.kind = "revnat" /\ k = RevnatKey(k.proto, k.a, k.b[1], k.b[2])
  <2>1. l = SnatKey(k.proto, k.b[1], n[k].port, k.a) /\ n[l].port = k.b[2]
    BY <1>2 DEF Mate, HasMate, OwnPort
  <2>2. l.kind = "snat" /\ l.proto = k.proto /\ l.b = k.a /\ l.a[1] = k.b[1]
    BY SMTT(30), <2>1, KeyFields
  <2>3. Mate(n, l) = RevnatKey(l.proto, l.b, l.a[1], n[l].port)
    BY <2>2 DEF Mate
  <2> QED BY <1>2, <2>1, <2>2, <2>3
<1> QED BY <1>1, <1>2, KeyShape

\* A mark changes no pair.
LEMMA MatedSame ==
    ASSUME NEW n, NEW m, DOMAIN m = DOMAIN n, \A k \in DOMAIN n : m[k].port = n[k].port
    PROVE  /\ \A k \in DOMAIN n : Mate(m, k) = Mate(n, k)
           /\ \A X : Mated(n, X) => Mated(m, X)
<1>1. \A k \in DOMAIN n : Mate(m, k) = Mate(n, k)
  BY DEF Mate
<1> QED BY <1>1 DEF Mated, HasMate

\* A new entry, or one of ICMP, is nobody's mate.
LEMMA MatedPut ==
    ASSUME NEW n, DOMAIN n \subseteq Key, NEW X, Mated(n, X), NEW s,
           s \notin DOMAIN n \/ s.proto = "icmp",
           NEW m, DOMAIN m = DOMAIN n \cup {s}, \A k \in DOMAIN n \ {s} : m[k] = n[k]
    PROVE  Mated(m, X \cup {s})
<1> SUFFICES ASSUME NEW k \in DOMAIN n \ (X \cup {s}), k.proto # "icmp" PROVE HasMate(m, k)
  BY DEF Mated
<1>1. HasMate(n, k) /\ k \in Key
  BY DEF Mated
<1>2. Mate(n, k) \in DOMAIN n /\ Mate(n, k).proto = k.proto
  BY <1>1, MateMate DEF HasMate
<1>3. Mate(n, k) # s
  BY <1>2
<1>4. Mate(m, k) = Mate(n, k)
  BY DEF Mate
<1> QED BY <1>1, <1>2, <1>3, <1>4 DEF HasMate

\* Without an entry, nobody lacks a mate but its own.
LEMMA MatedDelete ==
    ASSUME NEW n, DOMAIN n \subseteq Key, NEW X, Mated(n, X), NEW s,
           NEW m, DOMAIN m = DOMAIN n \ {s}, \A k \in DOMAIN m : m[k] = n[k]
    PROVE  Mated(m, X \cup {Mate(n, s)})
<1> SUFFICES ASSUME NEW k \in DOMAIN n \ (X \cup {s, Mate(n, s)}), k.proto # "icmp"
             PROVE  HasMate(m, k)
  BY DEF Mated
<1>1. HasMate(n, k) /\ k \in Key
  BY DEF Mated
<1>2. Mate(n, k) \in DOMAIN n /\ Mate(n, Mate(n, k)) = k
  BY <1>1, MateMate DEF HasMate
<1>3. Mate(n, k) # s
  BY <1>2
<1>4. Mate(m, k) = Mate(n, k)
  BY DEF Mate
<1> QED BY <1>1, <1>2, <1>3, <1>4 DEF HasMate

LEMMA MarkFacts ==
    ASSUME InHand, NEW k \in DOMAIN nat, NEW t, nat' = Mark(k, t)
    PROVE  /\ DOMAIN nat' = DOMAIN nat /\ nat'[k].closing = t
           /\ \A x \in DOMAIN nat : nat'[x].port = nat[x].port
           /\ \A x \in DOMAIN nat \ {k} : nat'[x] = nat[x]
<1>1. nat' = [nat EXCEPT ![k] = [nat[k] EXCEPT !.closing = t]]
  BY DEF Mark
<1>2. nat = [x \in DOMAIN nat |-> nat[x]] /\ Entry(nat[k])
  BY DEF InHand
<1>3. DOMAIN nat' = DOMAIN nat /\ nat'[k] = [nat[k] EXCEPT !.closing = t]
      /\ \A x \in DOMAIN nat \ {k} : nat'[x] = nat[x]
  BY <1>1, <1>2
<1>4. [nat[k] EXCEPT !.closing = t].closing = t /\ [nat[k] EXCEPT !.closing = t].port = nat[k].port
  <2>1. nat[k] = [ip |-> nat[k].ip, port |-> nat[k].port, closing |-> nat[k].closing]
    BY <1>2 DEF Entry
  <2>2. [nat[k] EXCEPT !.closing = t] = [ip |-> nat[k].ip, port |-> nat[k].port, closing |-> t]
    BY SMTT(30), <2>1
  <2> QED BY <2>2
<1> QED BY <1>3, <1>4

\* A CPU that is idle leaves all entries in pairs.
LEMMA IdlePhase ==
    ASSUME NEW n, Phase(n, Idle)
    PROVE  Mated(n, {})
<1>1. Idle.pc = "idle"
  BY DEF Idle
<1> QED BY <1>1 DEF Phase

\* A packet of a connection that is there.
LEMMA HitPhase ==
    ASSUME InHand, NEW c \in CPU, cpu[c] = Idle, Mated(nat, {}), NEW proto,
           NEW own \in DOMAIN nat, NEW snat, NEW revnat, NEW f,
           proto = "tcp" => /\ snat \in DOMAIN nat /\ snat.kind = "snat" /\ snat.proto = "tcp"
                            /\ revnat = Mate(nat, snat),
           Hit(c, proto, own, snat, revnat, f)
    PROVE  DOMAIN nat' = DOMAIN nat /\ Phase(nat, cpu[c])'
<1>1. PICK t : nat' = Mark(own, t)
  BY DEF Hit, TrackClose, Touch
<1>2. DOMAIN nat' = DOMAIN nat /\ \A x \in DOMAIN nat : nat'[x].port = nat[x].port
  BY <1>1, MarkFacts
<1>3. Mated(nat', {}) /\ \A k \in DOMAIN nat : Mate(nat', k) = Mate(nat, k)
  BY <1>2, MatedSame
<1>4. CASE UNCHANGED cpu
  <2>1. cpu'[c] = Idle
    BY <1>4
  <2> QED BY <1>2, <1>3, <2>1 DEF Phase
<1>5. CASE ~UNCHANGED cpu
  <2> DEFINE q == IF own = snat THEN revnat ELSE snat
             r == [pc |-> "confirm", snat |-> snat, revnat |-> revnat, peer |-> q]
  <2>1. proto = "tcp" /\ cpu' = [cpu EXCEPT ![c] = r]
    BY <1>5 DEF Hit, TrackClose, Touch
  <2>2. cpu'[c] = r
    BY <2>1 DEF InHand
  <2> HIDE DEF q
  <2>3. r.pc = "confirm" /\ Both(r) /\ r.snat = snat /\ r.revnat = revnat
    BY DEF Both
  <2> HIDE DEF r
  <2>4. Linked(nat', r)
    BY <1>2, <1>3, <2>1, <2>3 DEF Linked
  <2>5. Phase(nat', r)
    BY <1>3, <2>3, <2>4 DEF Phase
  <2> QED BY <1>2, <2>2, <2>5
<1> QED BY <1>4, <1>5

LEMMA EgressPhase ==
    ASSUME InHand, Quiet, NEW c \in CPU, Phase(nat, cpu[c]), NEW proto \in Proto, NEW pod \in Pod,
           NEW pp \in PodPort, NEW server \in Server, NEW f \in Flag,
           Egress(c, proto, pod, pp, server, f)
    PROVE  Quiet' /\ Phase(nat, cpu[c])'
<1> DEFINE k == SnatKey(proto, pod, pp, server)
<1>1. cpu[c] = Idle /\ UNCHANGED gc
  BY DEF Egress
<1>2. Mated(nat, {})
  BY <1>1, IdlePhase
<1>3. k.kind = "snat" /\ k.proto = proto /\ k.a[1] = pod /\ k.b = server
  BY SMTT(30), KeyFields
<1>4. CASE Present(k)
  <2>1. k \in DOMAIN nat /\ Hit(c, proto, k, k, RevnatKey(proto, server, pod, nat[k].port), f)
    BY <1>4 DEF Egress, Present
  <2> HIDE DEF k
  <2>2. RevnatKey(proto, server, pod, nat[k].port) = Mate(nat, k)
    BY <1>3 DEF Mate
  <2> QED BY <1>1, <1>2, <1>3, <2>1, <2>2, HitPhase DEF Quiet
<1>5. CASE ~Present(k)
  <2>1. UNCHANGED nat
    BY <1>5 DEF Egress
  <2>2. PICK res :
          /\ res.port \in Port /\ AllocateSnatPort(proto, server, pod, pp, res)
          /\ cpu' = [cpu EXCEPT ![c] =
                [pc |-> "snat", snat |-> k, revnat |-> RevnatKey(proto, server, pod, res.port),
                 ext |-> res.ext, natPort |-> res.port, podPort |-> pp,
                 closing |-> IF proto = "tcp" /\ Ends(f) THEN clock ELSE 0]]
    BY <1>5 DEF Egress
  <2> DEFINE z == RevnatKey(proto, server, pod, res.port)
             w == IF proto = "tcp" /\ Ends(f) THEN clock ELSE 0
             r == [pc |-> "snat", snat |-> k, revnat |-> z, ext |-> res.ext,
                   natPort |-> res.port, podPort |-> pp, closing |-> w]
  <2>3. proto = "icmp" \/ z \notin DOMAIN nat
    BY <2>2 DEF AllocateSnatPort, ProbeSucceeds, Present
  <2>4. cpu'[c] = r
    BY <2>2 DEF InHand
  <2> HIDE DEF w
  <2>5. r.pc = "snat" /\ r.snat = k /\ r.revnat = z /\ r.natPort = res.port /\ r.ext = res.ext
        /\ r.closing = w
    OBVIOUS
  <2>6. Plan(r)
    <3>1. r = [pc |-> r.pc, snat |-> SnatKey(proto, pod, pp, server),
               revnat |-> RevnatKey(proto, server, pod, r.natPort), ext |-> r.ext,
               natPort |-> r.natPort, podPort |-> pp, closing |-> r.closing]
      BY <2>5
    <3> HIDE DEF r
    <3> QED BY <2>2, <2>5, <3>1 DEF Plan
  <2>7. k \notin DOMAIN nat
    BY <1>5 DEF Present
  <2> HIDE DEF r, k, z
  <2>8. Phase(nat, r)
    BY <1>2, <1>3, <2>3, <2>5, <2>6, <2>7 DEF Phase
  <2> QED BY <1>1, <2>1, <2>4, <2>8 DEF Quiet
<1> QED BY <1>4, <1>5

LEMMA IngressPhase ==
    ASSUME InHand, Quiet, NEW c \in CPU, Phase(nat, cpu[c]), NEW proto \in Proto,
           NEW server \in Server, NEW pod \in Pod, NEW np \in Port, NEW f \in Flag,
           Ingress(c, proto, server, pod, np, f)
    PROVE  Quiet' /\ Phase(nat, cpu[c])'
<1> DEFINE k == RevnatKey(proto, server, pod, np)
           l == SnatKey(proto, pod, nat[k].port, server)
<1>1. cpu[c] = Idle /\ UNCHANGED gc /\ k \in DOMAIN nat /\ Hit(c, proto, k, l, k, f)
  BY DEF Ingress, Present
<1>2. Mated(nat, {})
  BY <1>1, IdlePhase
<1>3. k.kind = "revnat" /\ k.proto = proto /\ k.a = server /\ k.b[1] = pod
  BY SMTT(30), KeyFields
<1> HIDE DEF k
<1>4. l = Mate(nat, k)
  BY <1>3 DEF Mate
<1> HIDE DEF l
<1>5. proto = "tcp" => l \in DOMAIN nat /\ l.kind = "snat" /\ l.proto = "tcp" /\ k = Mate(nat, l)
  <2> SUFFICES ASSUME proto = "tcp"
               PROVE  l \in DOMAIN nat /\ l.kind = "snat" /\ l.proto = "tcp" /\ k = Mate(nat, l)
    OBVIOUS
  <2>1. HasMate(nat, k) /\ k \in Key
    BY <1>1, <1>2, <1>3 DEF Mated, Quiet
  <2> QED BY <1>3, <1>4, <2>1, MateMate DEF HasMate
<1> QED BY <1>1, <1>2, <1>5, HitPhase DEF Quiet

\* The keys of a plan are those of one connection.
LEMMA PlanKeys ==
    ASSUME NEW r, Plan(r)
    PROVE  /\ r.snat \in Key /\ r.revnat \in Key
           /\ r.snat.kind = "snat" /\ r.revnat.kind = "revnat"
           /\ r.snat.proto = r.revnat.proto /\ r.snat # r.revnat
           /\ OwnPort(r.snat) = r.podPort /\ OwnPort(r.revnat) = r.natPort
           /\ \A n : n[r.snat].port = r.natPort => Mate(n, r.snat) = r.revnat
           /\ \A n : n[r.revnat].port = r.podPort => Mate(n, r.revnat) = r.snat
           /\ Plan([r EXCEPT !.pc = "revnat"])
           /\ [r EXCEPT !.pc = "revnat"].pc = "revnat"
           /\ [r EXCEPT !.pc = "revnat"].snat = r.snat
           /\ [r EXCEPT !.pc = "revnat"].revnat = r.revnat
           /\ [r EXCEPT !.pc = "revnat"].natPort = r.natPort
<1>1. PICK x \in Proto, p \in Pod, pp \in PodPort, s \in Server :
        /\ r = [pc |-> r.pc, snat |-> SnatKey(x, p, pp, s),
                revnat |-> RevnatKey(x, s, p, r.natPort), ext |-> r.ext,
                natPort |-> r.natPort, podPort |-> pp, closing |-> r.closing]
        /\ r.natPort \in Port
  BY DEF Plan
<1> DEFINE k == SnatKey(x, p, pp, s)
           l == RevnatKey(x, s, p, r.natPort)
           w == [pc |-> "revnat", snat |-> k, revnat |-> l, ext |-> r.ext,
                 natPort |-> r.natPort, podPort |-> pp, closing |-> r.closing]
<1>2. k \in Key /\ l \in Key
  BY SMTT(30), <1>1 DEF Key
<1>3. /\ k.kind = "snat" /\ k.proto = x /\ k.a[1] = p /\ k.a[2] = pp /\ k.b = s
      /\ l.kind = "revnat" /\ l.proto = x /\ l.a = s /\ l.b[1] = p /\ l.b[2] = r.natPort
  BY SMTT(30), KeyFields
<1>4. r.snat = k /\ r.revnat = l /\ r.podPort = pp
  <2> HIDE DEF k, l
  <2>1. r = [pc |-> r.pc, snat |-> k, revnat |-> l, ext |-> r.ext,
             natPort |-> r.natPort, podPort |-> pp, closing |-> r.closing]
    BY <1>1 DEF k, l
  <2> QED BY SMTT(30), <2>1
<1>5. \A n : n[k].port = r.natPort => Mate(n, k) = l
  <2> SUFFICES ASSUME NEW n, n[k].port = r.natPort PROVE Mate(n, k) = l
    OBVIOUS
  <2>1. Mate(n, k) = RevnatKey(k.proto, k.b, k.a[1], n[k].port)
    BY <1>3 DEF Mate
  <2> QED BY <1>3, <2>1
<1>6. \A n : n[l].port = pp => Mate(n, l) = k
  <2> SUFFICES ASSUME NEW n, n[l].port = pp PROVE Mate(n, l) = k
    OBVIOUS
  <2>1. Mate(n, l) = SnatKey(l.proto, l.b[1], n[l].port, l.a)
    BY <1>3 DEF Mate
  <2> QED BY <1>3, <2>1
<1>7. [r EXCEPT !.pc = "revnat"] = w
  BY SMTT(30), <1>1
<1>8. w.pc = "revnat" /\ w.natPort = r.natPort /\ w.ext = r.ext /\ w.closing = r.closing
      /\ w.snat = k /\ w.revnat = l
  OBVIOUS
<1>9. Plan(w)
  <2>1. w = [pc |-> w.pc, snat |-> SnatKey(x, p, pp, s),
             revnat |-> RevnatKey(x, s, p, w.natPort), ext |-> w.ext,
             natPort |-> w.natPort, podPort |-> pp, closing |-> w.closing]
    BY <1>8
  <2>2. w.natPort \in Port
    BY <1>1, <1>8
  <2> HIDE DEF w
  <2> QED BY <2>1, <2>2 DEF Plan
<1> HIDE DEF k, l, w
<1>10. k # l /\ OwnPort(k) = pp /\ OwnPort(l) = r.natPort
  BY <1>3 DEF OwnPort
<1> QED BY <1>2, <1>3, <1>4, <1>5, <1>6, <1>7, <1>8, <1>9, <1>10

LEMMA WriteSnatPhase ==
    ASSUME InHand, Quiet, Room, NEW c \in CPU, Phase(nat, cpu[c]), WriteSnat(c)
    PROVE  Quiet' /\ Phase(nat, cpu[c])'
<1> DEFINE r == cpu[c]
           v == [ip |-> r.ext, port |-> r.natPort, closing |-> r.closing]
           w == [r EXCEPT !.pc = "revnat"]
<1>1. r.pc = "snat" /\ UNCHANGED gc
  BY DEF WriteSnat
<1>2. /\ Plan(r) /\ Mated(nat, {}) /\ r.snat \notin DOMAIN nat
      /\ r.snat.proto = "icmp" \/ r.revnat \notin DOMAIN nat
  BY SMTT(30), <1>1 DEF Phase, Idle
<1>3. /\ r.snat \in Key /\ r.snat # r.revnat
      /\ Plan(w) /\ w.pc = "revnat" /\ w.snat = r.snat /\ w.revnat = r.revnat /\ w.natPort = r.natPort
  BY <1>2, PlanKeys
<1>4. nat' = Put(r.snat, v)
  BY <1>3 DEF WriteSnat, Room
<1>5. cpu'[c] = w
  BY DEF WriteSnat, InHand
<1>6. v.port = r.natPort
  OBVIOUS
<1> HIDE DEF r, v, w
<1>7. /\ DOMAIN nat' = DOMAIN nat \cup {r.snat} /\ nat'[r.snat] = v
      /\ \A k \in DOMAIN nat \ {r.snat} : nat'[k] = nat[k]
  BY <1>4 DEF Put
<1>8. Mated(nat', {} \cup {r.snat})
  BY <1>2, <1>7, MatedPut DEF Quiet
<1>9. Mated(nat', {w.snat})
  BY <1>3, <1>8
<1>10. w.snat.proto = "icmp" \/ w.revnat \notin DOMAIN nat'
  BY <1>2, <1>3, <1>7
<1>11. w.snat \in DOMAIN nat' /\ nat'[w.snat].port = w.natPort
  BY <1>3, <1>6, <1>7
<1>12. Phase(nat', w)
  BY <1>3, <1>9, <1>10, <1>11 DEF Phase
<1> QED BY <1>1, <1>3, <1>5, <1>7, <1>12 DEF Quiet

LEMMA WriteRevnatPhase ==
    ASSUME InHand, Quiet, Room, NEW c \in CPU, Phase(nat, cpu[c]), WriteRevnat(c)
    PROVE  Quiet' /\ Phase(nat, cpu[c])'
<1> DEFINE r == cpu[c]
           v == [ip |-> r.ext, port |-> r.podPort, closing |-> r.closing]
<1>1. r.pc = "revnat" /\ UNCHANGED gc
  BY DEF WriteRevnat
<1>2. /\ Plan(r) /\ Mated(nat, {r.snat}) /\ r.snat \in DOMAIN nat /\ nat[r.snat].port = r.natPort
      /\ r.snat.proto = "icmp" \/ r.revnat \notin DOMAIN nat
  BY SMTT(30), <1>1 DEF Phase, Idle
<1>3. /\ r.revnat \in Key /\ r.snat # r.revnat /\ r.snat.proto = r.revnat.proto
      /\ OwnPort(r.snat) = r.podPort /\ OwnPort(r.revnat) = r.natPort
      /\ \A n : n[r.snat].port = r.natPort => Mate(n, r.snat) = r.revnat
      /\ \A n : n[r.revnat].port = r.podPort => Mate(n, r.revnat) = r.snat
  BY <1>2, PlanKeys
<1>4. nat' = Put(r.revnat, v)
  BY <1>3 DEF WriteRevnat, Room
<1>5. cpu'[c] = Idle
  BY DEF WriteRevnat, InHand
<1>6. v.port = r.podPort
  OBVIOUS
<1> HIDE DEF r, v
<1>7. /\ DOMAIN nat' = DOMAIN nat \cup {r.revnat} /\ nat'[r.revnat] = v
      /\ \A k \in DOMAIN nat \ {r.revnat} : nat'[k] = nat[k]
  BY <1>4 DEF Put
<1>8. Mated(nat', {r.snat} \cup {r.revnat})
  BY <1>2, <1>3, <1>7, MatedPut DEF Quiet
<1>9. HasMate(nat', r.snat) /\ HasMate(nat', r.revnat)
  <2>1. nat'[r.snat].port = r.natPort /\ nat'[r.revnat].port = r.podPort
    BY <1>2, <1>3, <1>6, <1>7
  <2>2. Mate(nat', r.snat) = r.revnat /\ Mate(nat', r.revnat) = r.snat
    BY <1>3, <2>1
  <2> QED BY <1>2, <1>3, <1>7, <2>1, <2>2 DEF HasMate
<1>10. Mated(nat', {})
  BY <1>8, <1>9 DEF Mated
<1> QED BY <1>1, <1>3, <1>5, <1>7, <1>10 DEF Quiet, Phase

\* A closing connection moves on.
LEMMA Onward ==
    ASSUME InHand, NEW c \in CPU, Both(cpu[c]), NEW q, cpu' = [cpu EXCEPT ![c].pc = q]
    PROVE  /\ cpu'[c].pc = q /\ Both(cpu'[c])
           /\ cpu'[c].snat = cpu[c].snat /\ cpu'[c].revnat = cpu[c].revnat
           /\ cpu'[c].peer = cpu[c].peer
<1> DEFINE r == cpu[c]
           w == [pc |-> q, snat |-> r.snat, revnat |-> r.revnat, peer |-> r.peer]
<1>1. r = [pc |-> r.pc, snat |-> r.snat, revnat |-> r.revnat, peer |-> r.peer]
  BY DEF Both
<1>2. [r EXCEPT !.pc = q] = w
  BY SMTT(30), <1>1
<1>3. cpu'[c] = w
  BY <1>2 DEF InHand
<1>4. w.pc = q /\ w.snat = r.snat /\ w.revnat = r.revnat /\ w.peer = r.peer /\ Both(w)
  BY DEF Both
<1> HIDE DEF w
<1> QED BY <1>3, <1>4

LEMMA ConfirmPhase ==
    ASSUME InHand, Quiet, NEW c \in CPU, Phase(nat, cpu[c]), Confirm(c)
    PROVE  Quiet' /\ Phase(nat, cpu[c])'
<1>1. cpu[c].pc = "confirm" /\ UNCHANGED gc /\ UNCHANGED nat
  BY DEF Confirm
<1>2. Linked(nat, cpu[c]) /\ Mated(nat, {})
  BY SMTT(30), <1>1 DEF Phase, Idle
<1>3. CASE cpu' = [cpu EXCEPT ![c].pc = "drop"]
  <2>1. /\ cpu'[c].pc = "drop" /\ Both(cpu'[c])
        /\ cpu'[c].snat = cpu[c].snat /\ cpu'[c].revnat = cpu[c].revnat
    BY <1>2, <1>3, Onward DEF Linked
  <2>2. Linked(nat, cpu'[c])
    BY <1>2, <2>1 DEF Linked
  <2>3. Phase(nat, cpu'[c])
    BY <1>2, <2>1, <2>2 DEF Phase
  <2> QED BY <1>1, <2>3 DEF Quiet
<1>4. CASE cpu' = [cpu EXCEPT ![c] = Idle]
  <2>1. cpu'[c] = Idle
    BY <1>4 DEF InHand
  <2> QED BY <1>1, <1>2, <1>4, <2>1 DEF Quiet, Phase
<1> QED BY <1>3, <1>4 DEF Confirm

LEMMA DropPhase ==
    ASSUME InHand, Quiet, NEW c \in CPU, Phase(nat, cpu[c]), Drop(c)
    PROVE  Quiet' /\ Phase(nat, cpu[c])'
<1> DEFINE r == cpu[c]
           w == cpu'[c]
<1>1. r.pc = "drop" /\ UNCHANGED gc /\ nat' = Delete({r.revnat})
  BY DEF Drop
<1>2. Linked(nat, r) /\ Mated(nat, {})
  BY SMTT(30), <1>1 DEF Phase, Idle
<1>3. w.pc = "reap" /\ w.snat = r.snat /\ w.revnat = r.revnat /\ Both(w)
  BY <1>2, Onward DEF Drop, Linked
<1> HIDE DEF r, w
<1>4. DOMAIN nat' = DOMAIN nat \ {r.revnat} /\ \A k \in DOMAIN nat' : nat'[k] = nat[k]
  BY <1>1 DEF Delete
<1>5. /\ r.snat \in DOMAIN nat /\ r.snat \in Key /\ r.revnat = Mate(nat, r.snat)
      /\ r.snat.kind = "snat" /\ r.snat.proto = "tcp"
  BY <1>2 DEF Linked, Quiet
<1>6. HasMate(nat, r.snat)
  BY <1>2, <1>5 DEF Mated
<1>7. Mate(nat, r.revnat) = r.snat /\ r.revnat # r.snat
  BY SMTT(30), <1>5, <1>6, MateMate
<1>8. Mated(nat', {} \cup {Mate(nat, r.revnat)})
  BY <1>2, <1>4, MatedDelete DEF Quiet
<1>9. Mated(nat', {w.snat})
  BY <1>3, <1>7, <1>8
<1>10. nat'[r.snat] = nat[r.snat] /\ r.snat \in DOMAIN nat'
  BY <1>4, <1>5, <1>7
<1>11. Mate(nat', r.snat) = Mate(nat, r.snat)
  BY <1>10 DEF Mate
<1>12. Linked(nat', w) /\ w.revnat \notin DOMAIN nat'
  BY <1>3, <1>4, <1>5, <1>10, <1>11 DEF Linked
<1>13. Phase(nat', w)
  BY <1>3, <1>9, <1>12 DEF Phase
<1> QED BY <1>1, <1>4, <1>13 DEF Quiet, w

LEMMA ReapPhase ==
    ASSUME InHand, Quiet, NEW c \in CPU, Phase(nat, cpu[c]), Reap(c)
    PROVE  Quiet' /\ Phase(nat, cpu[c])'
<1> DEFINE r == cpu[c]
<1>1. /\ r.pc = "reap" /\ UNCHANGED gc /\ nat' = Delete({r.snat})
      /\ cpu'[c] = Idle
  BY DEF Reap, InHand
<1>2. Linked(nat, r) /\ Mated(nat, {r.snat}) /\ r.revnat \notin DOMAIN nat
  BY SMTT(30), <1>1 DEF Phase, Idle
<1> HIDE DEF r
<1>3. DOMAIN nat' = DOMAIN nat \ {r.snat} /\ \A k \in DOMAIN nat' : nat'[k] = nat[k]
  BY <1>1 DEF Delete
<1>4. Mated(nat', {r.snat} \cup {Mate(nat, r.snat)})
  BY <1>2, <1>3, MatedDelete DEF Quiet
<1>5. r.snat \notin DOMAIN nat' /\ Mate(nat, r.snat) \notin DOMAIN nat'
  BY <1>2, <1>3 DEF Linked
<1>6. Mated(nat', {})
  BY <1>4, <1>5 DEF Mated
<1> QED BY <1>1, <1>3, <1>6 DEF Quiet, Phase

LEMMA PhaseStep ==
    ASSUME NEW c, CPU = {c}, ~Sweeps, InHand, Quiet, Room, Phase(nat, cpu[c]), [Next]_vars
    PROVE  Quiet' /\ Phase(nat, cpu[c])'
<1>1. CASE EgressStep(c)
  BY <1>1, EgressPhase DEF EgressStep
<1>2. CASE IngressStep(c)
  BY <1>2, IngressPhase DEF IngressStep
<1>3. CASE Finish(c)
  BY <1>3, WriteSnatPhase, WriteRevnatPhase, ConfirmPhase, DropPhase, ReapPhase DEF Finish
<1>4. CASE SweepBegin \/ SweepStep
  BY <1>4 DEF SweepBegin, SweepStep, SweepNext, KillPeer, Kill, Visit, Quiet
<1>5. CASE Tick \/ (\E p \in Pod : Rewrite(p)) \/ UNCHANGED vars
  BY <1>5 DEF Tick, Rewrite, vars, Quiet
<1> QED BY <1>1, <1>2, <1>3, <1>4, <1>5 DEF Next

LEMMA PhaseInit ==
    ASSUME NEW c \in CPU, Init
    PROVE  InHand /\ Quiet /\ Phase(nat, cpu[c])
<1>1. DOMAIN nat = {} /\ gc.pc = "idle" /\ cpu[c] = Idle
  BY DEF Init, GcIdle
<1> QED BY <1>1, InHandInit DEF Quiet, Phase, Mated

\* With one CPU and no sweep, and as long as neither table is full, the two
\* entries of every TCP and UDP connection point at each other whenever no
\* packet is being worked on, for any pods, servers, blocks and seeds.
THEOREM PairedHolds == Serial => (Spec /\ []Room => []Paired)
<1> SUFFICES ASSUME NEW c, CPU = {c}, ~Sweeps PROVE Spec /\ []Room => []Paired
  BY DEF Serial
<1>1. Init => InHand /\ Quiet /\ Phase(nat, cpu[c])
  BY PhaseInit
<1>2. /\ InHand /\ Quiet /\ Phase(nat, cpu[c]) /\ Room /\ [Next]_vars
      => (InHand /\ Quiet /\ Phase(nat, cpu[c]))'
  BY InHandStep, PhaseStep
<1>3. Phase(nat, cpu[c]) => Paired
  <2> SUFFICES ASSUME Phase(nat, cpu[c]), cpu[c] = Idle,
                      NEW k \in DOMAIN nat, k.proto # "icmp"
               PROVE  IF k.kind = "snat"
                      THEN Present(RevnatOf(k)) /\ nat[RevnatOf(k)].port = k.a[2]
                      ELSE Present(SnatOf(k)) /\ nat[SnatOf(k)].port = k.b[2]
    BY DEF Paired, AtRest
  <2>1. HasMate(nat, k)
    BY IdlePhase DEF Mated
  <2> QED BY <2>1 DEF HasMate, Mate, OwnPort, Present, RevnatOf, SnatOf
<1> QED BY <1>1, <1>2, <1>3, PTL DEF Spec

\* Each table can hold every key it may be given.
Ample ==
    \A m \in {"tcp", "any"} :
        LET K == {k \in Key : Table(k) = m} IN IsFiniteSet(K) /\ Cardinality(K) <= MaxEntries

LEMMA AmpleRoom == ASSUME Ample, Quiet PROVE Room
<1> SUFFICES ASSUME NEW k \in Key, k \notin DOMAIN nat
             PROVE  Cardinality({x \in DOMAIN nat : Table(x) = Table(k)}) < MaxEntries
  BY DEF Room, Fits, Present
<1> DEFINE K == {x \in Key : Table(x) = Table(k)}
           D == {x \in DOMAIN nat : Table(x) = Table(k)}
<1>1. IsFiniteSet(K) /\ Cardinality(K) <= MaxEntries
  BY DEF Ample, Table
<1>2. D \subseteq K \ {k} /\ k \in K
  BY DEF Quiet
<1> HIDE DEF K, D
<1>3. IsFiniteSet(K \ {k}) /\ Cardinality(K \ {k}) = Cardinality(K) - 1
  BY <1>1, <1>2, FS_RemoveElement
<1>4. IsFiniteSet(D) /\ Cardinality(D) <= Cardinality(K \ {k})
  BY <1>2, <1>3, FS_Subset
<1>5. Cardinality(D) \in Nat /\ Cardinality(K) \in Nat /\ MaxEntries \in Nat
  BY <1>1, <1>4, FS_CardinalityType, NatAssumption
<1>6. Cardinality(D) < MaxEntries
  BY SMTT(30), <1>1, <1>3, <1>4, <1>5
<1> QED BY <1>6 DEF D

\* Tables large enough for every key never fill up: the pairs are kept then,
\* with no assumption on the run.
COROLLARY PairedInAmpleTables == Serial /\ Ample => (Spec => []Paired)
<1>1. Serial /\ Ample => (Spec => []Room)
  <2> SUFFICES ASSUME NEW c, CPU = {c}, ~Sweeps, Ample PROVE Spec => []Room
    BY DEF Serial
  <2>1. Init => InHand /\ Quiet /\ Phase(nat, cpu[c])
    BY PhaseInit
  <2>2. InHand /\ Quiet /\ Phase(nat, cpu[c]) /\ [Next]_vars
        => (InHand /\ Quiet /\ Phase(nat, cpu[c]))'
    BY AmpleRoom, InHandStep, PhaseStep
  <2>3. Quiet => Room
    BY AmpleRoom
  <2> QED BY <2>1, <2>2, <2>3, PTL DEF Spec
<1> QED BY <1>1, PairedHolds, PTL

-----------------------------------------------------------------------------
(* One CPU and no sweep: only entries that are closing are deleted.  No    *)
(* assumption on room here: a connection that is written by half is closed *)
(* by the same rules.                                                      *)

\* What a CPU is about to delete is closing: before the peer is looked up,
\* the packet's own entry; then whichever of the two is still there.
Doom(n, r) ==
    /\ r.pc = "confirm" =>
          /\ Both(r) /\ r.snat # r.revnat /\ r.peer \in {r.snat, r.revnat}
          /\ \A k \in {r.snat, r.revnat} \ {r.peer} : k \in DOMAIN n /\ n[k].closing # 0
    /\ r.pc \in {"drop", "reap"} =>
          Both(r) /\ \A k \in {r.snat, r.revnat} : k \in DOMAIN n => n[k].closing # 0

\* The time a mark holds is never 0, which stands for "not closing".
Timed == gc.pc = "idle" /\ clock \in Nat \ {0}

Survives == \A k \in DOMAIN nat : k.proto = "tcp" /\ ~Closing(k) => k \in DOMAIN nat'

LEMMA HitDoom ==
    ASSUME InHand, Timed, NEW c \in CPU, cpu[c] = Idle, NEW proto, NEW own \in DOMAIN nat,
           NEW snat, NEW revnat, NEW f, snat # revnat, own \in {snat, revnat},
           Hit(c, proto, own, snat, revnat, f)
    PROVE  Doom(nat, cpu[c])' /\ Survives
<1>1. PICK t : nat' = Mark(own, t)
  BY DEF Hit, TrackClose, Touch
<1>2. DOMAIN nat' = DOMAIN nat
  BY <1>1, MarkFacts
<1>3. Survives
  BY <1>2 DEF Survives
<1>4. CASE UNCHANGED cpu
  <2>1. cpu'[c].pc = "idle"
    BY SMTT(30), <1>4 DEF Idle
  <2> QED BY <1>3, <2>1 DEF Doom
<1>5. CASE ~UNCHANGED cpu
  <2> DEFINE q == IF own = snat THEN revnat ELSE snat
             r == [pc |-> "confirm", snat |-> snat, revnat |-> revnat, peer |-> q]
  <2>1. nat' = Mark(own, clock) /\ cpu' = [cpu EXCEPT ![c] = r]
    BY <1>5 DEF Hit, TrackClose, Touch
  <2>2. cpu'[c] = r
    BY <2>1 DEF InHand
  <2>3. q \in {snat, revnat} /\ {snat, revnat} \ {q} = {own}
    BY SMTT(30)
  <2> HIDE DEF q
  <2>4. r.pc = "confirm" /\ Both(r) /\ r.snat = snat /\ r.revnat = revnat /\ r.peer = q
    BY DEF Both
  <2> HIDE DEF r
  <2>5. nat'[own].closing = clock
    BY <2>1, MarkFacts
  <2>6. own \in DOMAIN nat' /\ nat'[own].closing # 0
    BY <1>2, <2>5 DEF Timed
  <2>7. Doom(nat', r)
    BY <2>3, <2>4, <2>6 DEF Doom
  <2> QED BY <1>3, <2>2, <2>7
<1> QED BY <1>4, <1>5

LEMMA EgressDoom ==
    ASSUME InHand, Timed, NEW c \in CPU, NEW proto, NEW pod, NEW pp, NEW server, NEW f,
           Egress(c, proto, pod, pp, server, f)
    PROVE  Timed' /\ Doom(nat, cpu[c])' /\ Survives
<1> DEFINE k == SnatKey(proto, pod, pp, server)
           l == RevnatKey(proto, server, pod, nat[k].port)
<1>1. cpu[c] = Idle /\ Timed'
  BY DEF Egress, Timed
<1>2. k # l
  BY SMTT(30), KeyFields
<1>3. CASE Present(k)
  <2>1. k \in DOMAIN nat /\ Hit(c, proto, k, k, l, f)
    BY <1>3 DEF Egress, Present
  <2> HIDE DEF k, l
  <2> QED BY <1>1, <1>2, <2>1, HitDoom
<1>4. CASE ~Present(k)
  <2>1. nat' = nat /\ cpu'[c].pc = "snat"
    BY SMTT(30), <1>4 DEF Egress, InHand
  <2> QED BY <1>1, <2>1 DEF Doom, Survives
<1> QED BY <1>3, <1>4

LEMMA IngressDoom ==
    ASSUME InHand, Timed, NEW c \in CPU, NEW proto, NEW server, NEW pod, NEW np, NEW f,
           Ingress(c, proto, server, pod, np, f)
    PROVE  Timed' /\ Doom(nat, cpu[c])' /\ Survives
<1> DEFINE k == RevnatKey(proto, server, pod, np)
           l == SnatKey(proto, pod, nat[k].port, server)
<1>1. cpu[c] = Idle /\ Timed' /\ k \in DOMAIN nat /\ Hit(c, proto, k, l, k, f)
  BY DEF Ingress, Present, Timed
<1>2. l # k
  BY SMTT(30), KeyFields
<1> HIDE DEF k, l
<1> QED BY <1>1, <1>2, HitDoom

LEMMA WriteDoom ==
    ASSUME InHand, Timed, NEW c \in CPU, WriteSnat(c) \/ WriteRevnat(c)
    PROVE  Timed' /\ Doom(nat, cpu[c])' /\ Survives
<1>1. Timed'
  BY DEF WriteSnat, WriteRevnat, Timed
<1>2. DOMAIN nat \subseteq DOMAIN nat'
  BY DEF WriteSnat, WriteRevnat, Put
<1>3. cpu'[c].pc \in {"revnat", "idle"}
  BY SMTT(30) DEF WriteSnat, WriteRevnat, InHand, Idle
<1> QED BY <1>1, <1>2, <1>3 DEF Doom, Survives

LEMMA ConfirmDoom ==
    ASSUME InHand, Timed, NEW c \in CPU, Doom(nat, cpu[c]), Confirm(c)
    PROVE  Timed' /\ Doom(nat, cpu[c])' /\ Survives
<1> DEFINE r == cpu[c]
<1>1. r.pc = "confirm" /\ Timed' /\ nat' = nat /\ Survives
  BY DEF Confirm, Timed, Survives
<1>2. /\ Both(r) /\ r.peer \in {r.snat, r.revnat}
      /\ \A k \in {r.snat, r.revnat} \ {r.peer} : k \in DOMAIN nat /\ nat[k].closing # 0
  BY <1>1 DEF Doom
<1>3. CASE Present(r.peer) /\ Closing(r.peer)
  <2>1. cpu' = [cpu EXCEPT ![c].pc = "drop"]
    BY <1>3 DEF Confirm
  <2>2. cpu'[c].pc = "drop" /\ Both(cpu'[c]) /\ cpu'[c].snat = r.snat /\ cpu'[c].revnat = r.revnat
    BY <1>2, <2>1, Onward
  <2>3. \A k \in {r.snat, r.revnat} : k \in DOMAIN nat => nat[k].closing # 0
    BY <1>2, <1>3 DEF Closing
  <2>4. Doom(nat, cpu'[c])
    BY <2>2, <2>3 DEF Doom
  <2> QED BY <1>1, <2>4
<1>4. CASE ~(Present(r.peer) /\ Closing(r.peer))
  <2>1. cpu'[c].pc = "idle"
    BY SMTT(30), <1>4 DEF Confirm, InHand, Idle
  <2> QED BY <1>1, <2>1 DEF Doom
<1> QED BY <1>3, <1>4

LEMMA ReapDoom ==
    ASSUME InHand, Timed, NEW c \in CPU, Doom(nat, cpu[c]), Drop(c) \/ Reap(c)
    PROVE  Timed' /\ Doom(nat, cpu[c])' /\ Survives
<1> DEFINE r == cpu[c]
<1>1. r.pc \in {"drop", "reap"} /\ Timed'
  BY DEF Drop, Reap, Timed
<1>2. Both(r) /\ \A k \in {r.snat, r.revnat} : k \in DOMAIN nat => nat[k].closing # 0
  BY <1>1 DEF Doom
<1>3. PICK x \in {r.snat, r.revnat} : nat' = Delete({x})
  BY DEF Drop, Reap
<1>4. DOMAIN nat' = DOMAIN nat \ {x} /\ \A k \in DOMAIN nat' : nat'[k] = nat[k]
  BY <1>3 DEF Delete
<1>5. Survives
  BY <1>2, <1>4 DEF Survives, Closing
<1>6. CASE Drop(c)
  <2>1. cpu'[c].pc = "reap" /\ Both(cpu'[c]) /\ cpu'[c].snat = r.snat /\ cpu'[c].revnat = r.revnat
    BY <1>2, <1>6, Onward DEF Drop
  <2>2. Doom(nat', cpu'[c])
    BY <1>2, <1>4, <2>1 DEF Doom
  <2> QED BY <1>1, <1>5, <2>2
<1>7. CASE Reap(c)
  <2>1. cpu'[c].pc = "idle"
    BY <1>7 DEF Reap, InHand, Idle
  <2> QED BY <1>1, <1>5, <2>1 DEF Doom
<1> QED BY <1>6, <1>7

LEMMA DoomStep ==
    ASSUME NEW c, CPU = {c}, ~Sweeps, InHand, Timed, Doom(nat, cpu[c]), [Next]_vars
    PROVE  Timed' /\ Doom(nat, cpu[c])' /\ Survives
<1>1. CASE EgressStep(c)
  BY <1>1, EgressDoom DEF EgressStep
<1>2. CASE IngressStep(c)
  BY <1>2, IngressDoom DEF IngressStep
<1>3. CASE Finish(c)
  BY <1>3, WriteDoom, ConfirmDoom, ReapDoom DEF Finish
<1>4. CASE SweepBegin \/ SweepStep
  BY <1>4 DEF SweepBegin, SweepStep, SweepNext, KillPeer, Kill, Visit, Timed
<1>5. CASE Tick \/ (\E p \in Pod : Rewrite(p)) \/ UNCHANGED vars
  <2>1. Timed' /\ UNCHANGED <<nat, cpu>>
    BY SMTT(30), <1>5 DEF Tick, Rewrite, vars, Timed
  <2> QED BY <2>1 DEF Doom, Survives
<1> QED BY <1>1, <1>2, <1>3, <1>4, <1>5 DEF Next

\* With one CPU and no sweep, a packet program never deletes a TCP entry that
\* has seen no FIN or RST of its own direction, full tables included.
THEOREM HealthyKeptHolds == Serial => (Spec => HealthyKept)
<1> SUFFICES ASSUME NEW c, CPU = {c}, ~Sweeps PROVE Spec => HealthyKept
  BY DEF Serial
<1>1. Init => InHand /\ Timed /\ Doom(nat, cpu[c])
  <2> SUFFICES ASSUME Init PROVE Timed /\ Doom(nat, cpu[c])
    BY InHandInit
  <2>1. gc.pc = "idle" /\ cpu[c].pc = "idle" /\ clock = 1
    BY DEF Init, GcIdle, Idle
  <2> QED BY SMTT(30), <2>1 DEF Timed, Doom
<1>2. InHand /\ Timed /\ Doom(nat, cpu[c]) /\ [Next]_vars
      => (InHand /\ Timed /\ Doom(nat, cpu[c]))'
  BY InHandStep, DoomStep
<1>3. InHand /\ Timed /\ Doom(nat, cpu[c]) /\ [Next]_vars
      => [\A k \in DOMAIN nat : k.proto = "tcp" /\ ~Closing(k) => k \in DOMAIN nat']_vars
  BY DoomStep DEF Survives
<1> QED BY <1>1, <1>2, <1>3, PTL DEF Spec, HealthyKept
=============================================================================
