------------------------------ MODULE NatTable ------------------------------
(***************************************************************************)
(* The connection tables nat_map_tcp and nat_map_any of one node: the      *)
(* egress program (bpf/snat_egress.c), stage 2 of the ingress program      *)
(* (bpf/revnat_core.h), the close tracking they share (bpf/headers/maps.h) *)
(* and the sweep programs (bpf/nat_gc.c) run by internal/gc.               *)
(*                                                                         *)
(* The programs run on several CPUs at once and only single map operations *)
(* are atomic, so a program is split into the steps between which another  *)
(* CPU may change the tables.  A lookup and the accesses through the       *)
(* pointer it returns are one step.  Packets that leave the tables alone   *)
(* (dropped, passed untouched or redirected) take no step.  The kinds of   *)
(* map entry differ in their keys, so both tables are one function here;   *)
(* the capacity is counted for each table.                                 *)
(*                                                                         *)
(* nat_config, which says what blocks a pod has, is rewritten by the       *)
(* daemon at any moment, between two steps of a packet too (module         *)
(* DaemonSync has the order of its writes).  The element of a key is       *)
(* replaced as a whole, so a packet that chooses a port sees one list.     *)
(***************************************************************************)
EXTENDS Integers, Sequences, FiniteSets

CONSTANTS Pod, Server,  \* pod IPs, server endpoints (IP and port)
          PodPort,      \* the ports pods send from
          Proto,        \* the protocols in use, of {"tcp", "udp", "icmp"}
          M,            \* number of ports, 2^16 in the code
          Lists,        \* Lists[p]: the lists of blocks the daemon may write for p
          PortTries,    \* MAX_PORT_ATTEMPTS
          EntryTries,   \* MAX_ENTRY_ATTEMPTS
          MaxEntries,   \* capacity of each table
          Stale,        \* NAT_CLOSING_STALE_NS, in ticks
          U,            \* modulus of the 64-bit clock arithmetic
          CPU,          \* CPUs that run packet programs
          Sweeps,       \* whether the GC runnable is running
          MaxClock,     \* bound: last tick
          LastPacket    \* bound: packets arrive up to this tick

Port == 0 .. (M - 1)

ASSUME NatAssumption ==
    /\ M \in Nat \ {0} /\ PodPort \subseteq Port
    /\ Proto \subseteq {"tcp", "udp", "icmp"}
    /\ PortTries \in Nat /\ EntryTries \in Nat /\ MaxEntries \in Nat
    /\ Stale \in Nat /\ MaxClock \in Nat \ {0} /\ LastPacket \in Nat
    /\ U \in Nat /\ U > MaxClock + Stale
    /\ Sweeps \in BOOLEAN
    /\ \A p \in Pod : << >> \in Lists[p] /\ \A l \in Lists[p] : Len(l) \in Nat
    /\ \A p \in Pod : \A l \in Lists[p] : \A i \in 1 .. Len(l) :
          l[i].lo \in Port /\ l[i].hi \in Port /\ l[i].lo <= l[i].hi

\* TCP packets as the programs tell them apart: a SYN without ACK, the same
\* with a FIN or RST, anything with a FIN or RST, and the rest.
Flag    == {"syn", "synfin", "fin", "data"}
Opens(f) == f \in {"syn", "synfin"}
Ends(f)  == f \in {"fin", "synfin"}

SnatKey(proto, pod, podPort, server) ==
    [kind |-> "snat", proto |-> proto, a |-> <<pod, podPort>>, b |-> server]
RevnatKey(proto, server, pod, natPort) ==
    [kind |-> "revnat", proto |-> proto, a |-> server, b |-> <<pod, natPort>>]

Key == {SnatKey(x, p, pp, s) : x \in Proto, p \in Pod, pp \in PodPort, s \in Server}
         \cup {RevnatKey(x, s, p, np) : x \in Proto, p \in Pod, np \in Port, s \in Server}
Table(k) == IF k.proto = "tcp" THEN "tcp" ELSE "any"

VARIABLES nat,    \* the entries: a function from the keys present
          cpu,    \* what each CPU is in the middle of
          gc,     \* the sweep in progress
          clock,  \* bpf_ktime_get_ns
          allocs, \* nat_config: for each pod, its list of blocks
          lost    \* history: the blocks that have been taken from each pod

config == <<allocs, lost>>
vars   == <<nat, cpu, gc, clock, config>>

Idle   == [pc |-> "idle"]
GcIdle == [pc |-> "idle", map |-> "tcp", must |-> {}, seen |-> {}, key |-> {}, now |-> 0]

Init ==
    /\ nat = [k \in {} |-> 0]
    /\ cpu = [c \in CPU |-> Idle]
    /\ gc = GcIdle
    /\ clock = 1
    /\ allocs = [p \in Pod |-> << >>]
    /\ lost = [p \in Pod |-> {}]

-----------------------------------------------------------------------------
Present(k) == k \in DOMAIN nat
Closing(k) == nat[k].closing # 0

\* bpf_map_update_elem with BPF_ANY: a full table refuses a new key only.
Fits(k) == Present(k) \/ Cardinality({x \in DOMAIN nat : Table(x) = Table(k)}) < MaxEntries
Put(k, v) == [x \in DOMAIN nat \cup {k} |-> IF x = k THEN v ELSE nat[x]]
Delete(K) == [x \in DOMAIN nat \ K |-> nat[x]]
Mark(k, t) == [nat EXCEPT ![k].closing = t]

\* clamp_to_range: a fixed-point projection of a seed onto lo .. hi.
ClampToRange(lo, hi, val) == (lo + ((val * (hi - lo + 1)) \div M)) % M

\* Faulty walk: it runs past the end of the block.
WalkPastEnd(e, start, j) == (start + j) % M

\* The j-th port try_alloc_port probes: linear steps that wrap at the end of
\* the block.
Walk(e, start, j) == e.lo + ((start - e.lo + j) % (e.hi - e.lo + 1))

Attempt == (0 .. (EntryTries - 1)) \X (0 .. (PortTries - 1))

\* Attempt t of allocate_snat_port: the block and the port it looks at.  The
\* number of the attempt varies both seeds.
Probe(pod, podPort, t) ==
    LET seed == (podPort + t[1]) % M
        e    == allocs[pod][1 + ClampToRange(0, Len(allocs[pod]) - 1, seed)]
    IN  [ext |-> e.ext, port |-> Walk(e, ClampToRange(e.lo, e.hi, seed), t[2])]

\* ICMP does not look for collisions.
ProbeSucceeds(proto, server, pod, podPort, t) ==
    \/ proto = "icmp"
    \/ ~Present(RevnatKey(proto, server, pod, Probe(pod, podPort, t).port))

\* allocate_snat_port: the first attempt that succeeds.  Its lookups are one
\* step; what other CPUs do shows between the choice and the writes.
AllocateSnatPort(proto, server, pod, podPort, res) ==
    /\ Len(allocs[pod]) > 0
    /\ \E t \in Attempt :
          /\ ProbeSucceeds(proto, server, pod, podPort, t)
          /\ \A u \in Attempt : ProbeSucceeds(proto, server, pod, podPort, u) =>
                t[1] < u[1] \/ (t[1] = u[1] /\ t[2] <= u[2])
          /\ res = Probe(pod, podPort, t)

-----------------------------------------------------------------------------
(* nat_map_track_tcp_close, up to the lookup of the peer; own is the entry *)
(* of the packet's direction.                                              *)
TrackClose(c, own, snat, revnat, f) ==
    \/ /\ Ends(f) /\ ~Closing(own)
       /\ nat' = Mark(own, clock)
       /\ cpu' = [cpu EXCEPT ![c] = [pc |-> "confirm", snat |-> snat, revnat |-> revnat,
                                     peer |-> IF own = snat THEN revnat ELSE snat]]
    \/ /\ ~Ends(f) /\ Closing(own)
       /\ nat' = Mark(own, 0)
       /\ UNCHANGED cpu

\* A UDP or ICMP hit makes the entry young again.
Touch(own) == nat' = Mark(own, 0) /\ UNCHANGED cpu

Hit(c, proto, own, snat, revnat, f) ==
    \/ proto = "tcp" /\ TrackClose(c, own, snat, revnat, f)
    \/ proto # "tcp" /\ Touch(own)

\* snat_egress up to the first write: reuse the entry, or choose a port for
\* a connection that starts.
Egress(c, proto, pod, podPort, server, f) ==
    LET k == SnatKey(proto, pod, podPort, server) IN
    /\ cpu[c] = Idle /\ clock <= LastPacket
    /\ \/ /\ Present(k)
          /\ Hit(c, proto, k, k, RevnatKey(proto, server, pod, nat[k].port), f)
       \/ /\ ~Present(k) /\ (proto = "tcp" => Opens(f))
          /\ \E res \in [ext : {allocs[pod][i].ext : i \in 1 .. Len(allocs[pod])}, port : Port] :
                /\ AllocateSnatPort(proto, server, pod, podPort, res)
                /\ cpu' = [cpu EXCEPT ![c] =
                              [pc |-> "snat", snat |-> k,
                               revnat |-> RevnatKey(proto, server, pod, res.port),
                               ext |-> res.ext, natPort |-> res.port, podPort |-> podPort,
                               closing |-> IF proto = "tcp" /\ Ends(f) THEN clock ELSE 0]]
          /\ UNCHANGED nat
    /\ UNCHANGED <<gc, clock, config>>

\* nat_map_update_snat, then nat_map_update_revnat.  A failure raises the
\* sweep signal and is otherwise ignored: the packet leaves all the same.
WriteSnat(c) ==
    LET r == cpu[c] IN
    /\ r.pc = "snat"
    /\ nat' = IF Fits(r.snat)
              THEN Put(r.snat, [ip |-> r.ext, port |-> r.natPort, closing |-> r.closing])
              ELSE nat
    /\ cpu' = [cpu EXCEPT ![c].pc = "revnat"]
    /\ UNCHANGED <<gc, clock, config>>

\* Faulty nat_map_update_revnat: the entry stores the NAT port.
WriteRevnatWrongPort(c) ==
    LET r == cpu[c] IN
    /\ r.pc = "revnat"
    /\ nat' = IF Fits(r.revnat)
              THEN Put(r.revnat, [ip |-> r.ext, port |-> r.natPort, closing |-> r.closing])
              ELSE nat
    /\ cpu' = [cpu EXCEPT ![c] = Idle]
    /\ UNCHANGED <<gc, clock, config>>

WriteRevnat(c) ==
    LET r == cpu[c] IN
    /\ r.pc = "revnat"
    /\ nat' = IF Fits(r.revnat)
              THEN Put(r.revnat, [ip |-> r.ext, port |-> r.podPort, closing |-> r.closing])
              ELSE nat
    /\ cpu' = [cpu EXCEPT ![c] = Idle]
    /\ UNCHANGED <<gc, clock, config>>

\* revnat_core, stage 2: a reply that stage 1 has resolved to a pod.  A bare
\* SYN is dropped before; a miss is dropped or redirected.
Ingress(c, proto, server, pod, natPort, f) ==
    LET k == RevnatKey(proto, server, pod, natPort) IN
    /\ cpu[c] = Idle /\ clock <= LastPacket
    /\ proto = "tcp" => ~Opens(f)
    /\ Present(k)
    /\ Hit(c, proto, k, SnatKey(proto, pod, nat[k].port, server), k, f)
    /\ UNCHANGED <<gc, clock, config>>

\* Faulty confirmation: one side's FIN is enough.
ConfirmOneSided(c) ==
    LET r == cpu[c] IN
    /\ r.pc = "confirm"
    /\ cpu' = [cpu EXCEPT ![c].pc = "drop"]
    /\ UNCHANGED <<nat, gc, clock, config>>

\* If the peer is closing too, both entries go ...
Confirm(c) ==
    LET r == cpu[c] IN
    /\ r.pc = "confirm"
    /\ cpu' = IF Present(r.peer) /\ Closing(r.peer) THEN [cpu EXCEPT ![c].pc = "drop"]
                                                    ELSE [cpu EXCEPT ![c] = Idle]
    /\ UNCHANGED <<nat, gc, clock, config>>

\* ... the revnat entry first.
Drop(c) ==
    /\ cpu[c].pc = "drop"
    /\ nat' = Delete({cpu[c].revnat})
    /\ cpu' = [cpu EXCEPT ![c].pc = "reap"]
    /\ UNCHANGED <<gc, clock, config>>

Reap(c) ==
    /\ cpu[c].pc = "reap"
    /\ nat' = Delete({cpu[c].snat})
    /\ cpu' = [cpu EXCEPT ![c] = Idle]
    /\ UNCHANGED <<gc, clock, config>>

-----------------------------------------------------------------------------
\* The entries of one table.
Of(m) == {k \in DOMAIN nat : Table(k) = m}

\* sweepAll sweeps the TCP table, then the other one.  Each sweep reads the
\* clock once; the iteration visits what is there all along, and may or may
\* not visit what is added meanwhile.
Sweep(m) == [pc |-> "scan", map |-> m, must |-> Of(m), seen |-> {}, key |-> {}, now |-> clock]

SweepBegin ==
    /\ Sweeps /\ gc.pc = "idle"
    /\ gc' = Sweep("tcp")
    /\ UNCHANGED <<nat, cpu, clock, config>>

SweepNext ==
    /\ gc.pc = "scan" /\ gc.must \cap DOMAIN nat \subseteq gc.seen
    /\ gc' = IF gc.map = "tcp" THEN Sweep("any") ELSE GcIdle
    /\ UNCHANGED <<nat, cpu, clock, config>>

\* tcp_peer_key: the other end of the key with the kind flipped.
TcpPeerKey(k) ==
    [kind |-> IF k.kind = "snat" THEN "revnat" ELSE "snat",
     proto |-> k.proto, a |-> k.b, b |-> k.a]

\* Faulty any_gc_cb: nothing is ever marked.
AnyDueNever(k) == FALSE

\* any_gc_cb: marked by an earlier sweep and not touched since.
AnyDue(k) == Closing(k)

\* Faulty tcp_gc_cb: the age is taken the wrong way round.
TcpDueBackwards(k) == Closing(k) /\ nat[k].closing - gc.now > Stale

\* tcp_gc_cb: closing for longer than the threshold, in 64-bit arithmetic.
TcpDue(k) == Closing(k) /\ (gc.now - nat[k].closing) % U > Stale

Due(k) == IF Table(k) = "tcp" THEN TcpDue(k) ELSE AnyDue(k)

\* A visit decides; the any sweep marks what it leaves.
Visit(k) ==
    /\ gc.pc = "scan" /\ k \in Of(gc.map) \ gc.seen
    /\ gc' = IF ~Due(k) THEN [gc EXCEPT !.seen = @ \cup {k}]
              ELSE [gc EXCEPT !.pc = IF gc.map = "tcp" THEN "killPeer" ELSE "kill",
                              !.seen = @ \cup {k}, !.key = {k}]
    /\ nat' = IF gc.map = "any" /\ ~Due(k) THEN Mark(k, gc.now) ELSE nat
    /\ UNCHANGED <<cpu, clock, config>>

\* The deletions of a callback: the TCP one begins with what it takes for the
\* peer.
KillPeer ==
    /\ gc.pc = "killPeer"
    /\ nat' = Delete({TcpPeerKey(k) : k \in gc.key})
    /\ gc' = [gc EXCEPT !.pc = "kill"]
    /\ UNCHANGED <<cpu, clock, config>>

Kill ==
    /\ gc.pc = "kill"
    /\ nat' = Delete(gc.key)
    /\ gc' = [gc EXCEPT !.pc = "scan", !.key = {}]
    /\ UNCHANGED <<cpu, clock, config>>

\* The blocks of a list.
Blocks(l) == {l[i] : i \in 1 .. Len(l)}

\* UpsertNatConfigEntry and RemoveNatConfigAllocs replace or delete the list of
\* a pod.  They do nothing to the tables: entries of blocks that are gone stay.
Rewrite(p) ==
    /\ \E l \in Lists[p] \ {allocs[p]} :
          /\ allocs' = [allocs EXCEPT ![p] = l]
          /\ lost' = [lost EXCEPT ![p] = @ \cup (Blocks(allocs[p]) \ Blocks(l))]
    /\ UNCHANGED <<nat, cpu, gc, clock>>

Tick ==
    /\ clock < MaxClock
    /\ clock' = clock + 1
    /\ UNCHANGED <<nat, cpu, gc, config>>

EgressStep(c) ==
    \E x \in Proto, p \in Pod, pp \in PodPort, s \in Server, f \in Flag : Egress(c, x, p, pp, s, f)
IngressStep(c) ==
    \E x \in Proto, p \in Pod, np \in Port, s \in Server, f \in Flag : Ingress(c, x, s, p, np, f)
Finish(c) == WriteSnat(c) \/ WriteRevnat(c) \/ Confirm(c) \/ Drop(c) \/ Reap(c)
SweepStep == SweepNext \/ KillPeer \/ Kill \/ \E k \in DOMAIN nat : Visit(k)

Next ==
    \/ \E c \in CPU : EgressStep(c) \/ IngressStep(c) \/ Finish(c)
    \/ SweepBegin
    \/ SweepStep
    \/ \E p \in Pod : Rewrite(p)
    \/ Tick

Spec == Init /\ [][Next]_vars

\* A program that has started runs to its end; the GC runnable's ticker keeps
\* starting sweeps and time passes.
Fairness ==
    /\ \A c \in CPU : WF_vars(Finish(c))
    /\ WF_vars(SweepBegin) /\ WF_vars(SweepStep) /\ WF_vars(Tick)

FairSpec == Spec /\ Fairness

-----------------------------------------------------------------------------
Ext == {b.ext : b \in UNION {Blocks(l) : l \in UNION {Lists[p] : p \in Pod}}}
Val == [ip : Ext, port : Port, closing : 0 .. MaxClock]

\* Entries have the shape of struct nat_map_key and struct nat_map_val.
TypeOK ==
    /\ DOMAIN nat \subseteq Key
    /\ \A k \in DOMAIN nat : nat[k] \in Val
    /\ \A c \in CPU : cpu[c].pc \in {"idle", "snat", "revnat", "confirm", "drop", "reap"}
    /\ gc.pc \in {"idle", "scan", "killPeer", "kill"} /\ gc.seen \subseteq Key
    /\ clock \in 1 .. MaxClock

Within(b, ext, port) == b.ext = ext /\ b.lo <= port /\ port <= b.hi

\* The blocks pod has, or had and lost.
Held(pod) == Blocks(allocs[pod]) \cup lost[pod]
InBlocks(pod, ext, port) == \E b \in Held(pod) : Within(b, ext, port)

\* Every translation uses a port of a block that nat_config gives the pod on
\* that external IP, or gave it until the daemon took the block away: never a
\* port that was another pod's all along, however often the probing walked and
\* wrapped, and also when the list changes between the choice and the writes.
\* While no block is taken from a pod (lost[pod] = {}) its translations lie in
\* the blocks it has, so that stage 1 on any node finds it from the port alone.
InBlock ==
    \A k \in DOMAIN nat :
        IF k.kind = "snat" THEN InBlocks(k.a[1], nat[k].ip, nat[k].port)
                           ELSE InBlocks(k.b[1], nat[k].ip, k.b[2])

\* A connection is translated by a block its pod has now.  The reuse of an entry
\* does not look at nat_config, and nothing purges the tables when it changes.
InBlockNow ==
    \A k \in DOMAIN nat : k.kind = "snat" =>
        \E b \in Blocks(allocs[k.a[1]]) : Within(b, nat[k].ip, nat[k].port)

AtRest == gc.pc = "idle" /\ \A c \in CPU : cpu[c] = Idle

SnatOf(k)   == SnatKey(k.proto, k.b[1], nat[k].port, k.a)
RevnatOf(k) == RevnatKey(k.proto, k.b, k.a[1], nat[k].port)

\* "Both entries for a connection are always kept in sync": between packets
\* every snat entry has the revnat entry that leads its replies back to the
\* sending port, and every revnat entry leads to a snat entry that uses it.
Paired ==
    AtRest =>
        \A k \in DOMAIN nat : k.proto # "icmp" =>
            IF k.kind = "snat"
            THEN Present(RevnatOf(k)) /\ nat[RevnatOf(k)].port = k.a[2]
            ELSE Present(SnatOf(k)) /\ nat[SnatOf(k)].port = k.b[2]

\* Two connections of a pod to one server never leave through one NAT port.
NoSharedPort ==
    \A k, l \in DOMAIN nat :
        /\ k.kind = "snat" /\ l.kind = "snat" /\ k # l /\ k.proto = l.proto /\ k.proto # "icmp"
        /\ k.a[1] = l.a[1] /\ k.b = l.b
        => nat[k].port # nat[l].port

\* Packet programs delete a TCP entry only after a FIN or RST in its own
\* direction that ordinary traffic has not taken back.
HealthyKept ==
    [][\A k \in DOMAIN nat : k.proto = "tcp" /\ ~Closing(k) => k \in DOMAIN nat']_vars

\* The TCP sweep condemns an entry only when its mark is older than the
\* threshold.
OnlyStaleSwept ==
    [][gc'.pc = "killPeer" /\ gc.pc = "scan"
         => \A k \in gc'.key : clock - nat[k].closing > Stale]_vars

\* Once packets stop, the sweeps empty the UDP/ICMP table: an entry without a
\* peer goes as well.
AnyReclaimed == <>[](Of("any") = {})

\* Once packets stop, no closing TCP entry stays.
ClosingReclaimed == <>[](\A k \in Of("tcp") : ~Closing(k))
=============================================================================
