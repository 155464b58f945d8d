--------------------------- MODULE BlockAllocator ---------------------------
(***************************************************************************)
(* internal/allocator/allocator.go: the per-NATConfig allocator of         *)
(* fixed-size port blocks.                                                 *)
(*                                                                         *)
(* An allocator value is a record: the registered external IPs, the free   *)
(* slots and the reserved block indices.  A slot <<ip, k>> is block index  *)
(* k on external IP ip.  Go keeps one free set per registered IP; here     *)
(* they are one set of slots, which never holds a slot of an IP that is    *)
(* not registered.  Every method of the Go type holds the allocator's      *)
(* mutex from beginning to end, so each is one operator, applied in one    *)
(* step.  That ports and block indices determine each other is the         *)
(* subject of module PortSpace.                                            *)
(***************************************************************************)
EXTENDS Naturals, FiniteSets

CONSTANTS IP,      \* external IPs
          Block    \* block indices 0 .. totalBlocks-1

ASSUME BlockAssumption == Block \subseteq Nat /\ IsFiniteSet(Block)

Slot == IP \X Block

IPsOf(S)    == {s[1] : s \in S}
BlocksOf(S) == {s[2] : s \in S}
OnIP(S, ip) == {s \in S : s[1] = ip}

Allocator == {a \in [reg : SUBSET IP, free : SUBSET Slot, reserved : SUBSET Block] :
                a.free \subseteq a.reg \X Block}

\* New: no IP is registered yet and nothing is reserved.
NewAllocator == [reg |-> {}, free |-> {}, reserved |-> {}]

\* SetReservedPorts replaces the reservation; free sets are not touched.
SetReserved(a, R) == [a EXCEPT !.reserved = R]

\* EnsureIP, for every IP of S: a new IP starts with the full free set, an
\* IP that is already registered keeps its own.
EnsureIPs(a, S) ==
    [a EXCEPT !.reg  = @ \cup S,
              !.free = @ \cup ((S \ a.reg) \X Block)]

\* RemoveIP: what was allocated on ip is forgotten with it.
RemoveIP(a, ip) ==
    [a EXCEPT !.reg  = @ \ {ip},
              !.free = {s \in @ : s[1] # ip}]

\* MarkUsed, for every slot of S; slots of unregistered IPs are an error that
\* the one caller logs and ignores.
MarkUsed(a, S) == [a EXCEPT !.free = @ \ S]

\* Faulty Free: nothing comes back.
FreeNothing(a, S) == a

\* Free: slots of IPs removed in the meantime are discarded.  Nothing records
\* who holds a slot, so freeing what someone else now holds succeeds.
Free(a, S) == [a EXCEPT !.free = @ \cup {s \in S : s[1] \in a.reg}]

\* The slots a pick on ip may use.
Available(a, ip, exclude) ==
    {s \in a.free : s[1] = ip /\ s[2] \notin exclude \cup a.reserved}

\* AllocateForIP: pickFromSet walks a Go map, whose order is arbitrary, so any
\* n available slots may come out.  Callers never pass n = 0.
PicksForIP(a, ip, n, exclude) ==
    {S \in SUBSET Available(a, ip, exclude) : Cardinality(S) = n}

\* AllocateForIP fails on an unregistered IP (which has no free slot either)
\* and when fewer than n slots are available.
PickFails(a, ip, n, exclude) ==
    Cardinality(Available(a, ip, exclude)) < n

\* No block index occurs on two IPs of the set.
IndicesDistinct(S) == \A s, t \in S : s[2] = t[2] => s = t

\* Faulty AllocateForPod: an index may repeat on another IP.
PicksForPodRepeating(a, ips, n, exclude) ==
    {S \in SUBSET UNION {Available(a, ip, exclude) : ip \in ips} :
        \A ip \in ips : Cardinality(OnIP(S, ip)) = n}

\* AllocateForPod on the IPs of ips: n slots on each, no index twice.
PicksForPod(a, ips, n, exclude) ==
    {S \in SUBSET UNION {Available(a, ip, exclude) : ip \in ips} :
        /\ IndicesDistinct(S)
        /\ \A ip \in ips : Cardinality(OnIP(S, ip)) = n}

\* AllocateForPod goes through the IPs in the order of the pool and never
\* reconsiders a pick: it fails when the picks made on some of the IPs leave
\* too little on the next one.  The rollback restores the free sets.
PodPickFails(a, ips, n, exclude) ==
    \E done \in SUBSET ips : \E S \in PicksForPod(a, done, n, exclude) :
        \E ip \in ips \ done : PickFails(a, ip, n, exclude \cup BlocksOf(S))

Allocate(a, S) == [a EXCEPT !.free = @ \ S]
=============================================================================
