----------------------------- MODULE BlockLease -----------------------------
(***************************************************************************)
(* What the operator promises about port blocks, without controllers,      *)
(* allocators or caches: a pod's lease on a set of slots is granted,       *)
(* adjusted while it is active, drained (so that the nodes can forget it)  *)
(* and ended.  No two leases ever share a slot, and what a drained lease   *)
(* covers does not change any more.                                        *)
(***************************************************************************)
CONSTANTS Pod, Slot, None

VARIABLE lease   \* lease[p]: p's lease, or None

Lease == [slots : SUBSET Slot, draining : BOOLEAN]

Init == lease = [p \in Pod |-> None]

\* The slots leased to pods other than p.
Taken(p) == UNION {lease[q].slots : q \in {r \in Pod \ {p} : lease[r] # None}}

Set(p, l) == lease' = [lease EXCEPT ![p] = l]

Grant(p, S) == /\ lease[p] = None /\ S \cap Taken(p) = {}
               /\ Set(p, [slots |-> S, draining |-> FALSE])

Adjust(p, S) == /\ lease[p] # None /\ ~lease[p].draining /\ S \cap Taken(p) = {}
                /\ Set(p, [slots |-> S, draining |-> FALSE])

Drain(p) == /\ lease[p] # None /\ ~lease[p].draining
            /\ Set(p, [slots |-> lease[p].slots, draining |-> TRUE])

End(p) == lease[p] # None /\ lease[p].draining /\ Set(p, None)

Next == \E p \in Pod : \/ Drain(p) \/ End(p)
                       \/ \E S \in SUBSET Slot : Grant(p, S) \/ Adjust(p, S)

Spec == Init /\ [][Next]_lease
=============================================================================
