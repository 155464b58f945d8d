----------------------------- MODULE PortSpace -----------------------------
(***************************************************************************)
(* Ports and block indices: the arithmetic of internal/allocator and the   *)
(* loops of internal/maps that walk the ports of a block.  All of it is Go *)
(* uint16 arithmetic; here a port is a number below M, and every sum,      *)
(* difference and product is taken modulo M.                               *)
(*                                                                         *)
(* A behaviour picks a port space and a block of it and runs the loop      *)
(*     for port := portStart; port <= portEnd; port++ { ... }              *)
(* that AddPortRange, AddPodNatPorts, RemovePortRange and                  *)
(* RemovePodNatPorts have in common.                                       *)
(***************************************************************************)
EXTENDS Integers

CONSTANTS M,         \* 2^16 in the code
          MaxPort,   \* 65535 in the code: EnsureAllocator passes no other bound
          MinPort    \* the values of minPort, {MinPortDynamic, MinPortFull} in the code

ASSUME PortAssumption ==
    /\ M \in Nat \ {0}
    /\ MaxPort \in 0 .. (M - 1)
    /\ MinPort \subseteq 0 .. (M - 1)

Port == 0 .. (M - 1)

Add(x, y) == (x + y) % M
Sub(x, y) == (x - y) % M
Mul(x, y) == (x * y) % M

\* Faulty New: the last, incomplete block counts as a block.
TotalBlocksRoundedUp(size, min, max) == Add(Add(Sub(max, min), 1), size - 1) \div size

\* New: how many blocks fit between the bounds.
TotalBlocks(size, min, max) == Add(Sub(max, min), 1) \div size

\* The arguments New accepts, with what it computes from them.
Space == {s \in [size : Port \ {0}, min : MinPort, total : Port \ {0}] :
             /\ s.min < MaxPort
             /\ s.total = TotalBlocks(s.size, s.min, MaxPort)}

Blocks(s) == 0 .. (s.total - 1)

PortStart(s, k) == Add(s.min, Mul(k, s.size))
PortEnd(s, k)   == Sub(Add(s.min, Mul(Add(k, 1), s.size)), 1)

NoIndex == -1

\* Faulty blockIndexOf: any port of a block resolves to the block.
BlockIndexOfUnaligned(s, p) ==
    IF p < s.min \/ Sub(p, s.min) \div s.size >= s.total
    THEN NoIndex ELSE Sub(p, s.min) \div s.size

\* blockIndexOf: only the first port of a block identifies it.
BlockIndexOf(s, p) ==
    IF \/ p < s.min
       \/ Sub(p, s.min) % s.size # 0
       \/ Sub(p, s.min) \div s.size >= s.total
    THEN NoIndex ELSE Sub(p, s.min) \div s.size

\* blockIndexContaining, and the same computation in SetReservedPorts.
BlockIndexContaining(s, p) ==
    IF p < s.min \/ Sub(p, s.min) \div s.size >= s.total
    THEN NoIndex ELSE Sub(p, s.min) \div s.size

-----------------------------------------------------------------------------
VARIABLES space,     \* the allocator's port space
          block,     \* the block whose ports are written
          port,      \* the loop variable
          written,   \* the ports the loop body has run for
          pc

vars == <<space, block, port, written, pc>>

Init ==
    /\ space \in Space
    /\ block \in Blocks(space)
    /\ port = PortStart(space, block)
    /\ written = {}
    /\ pc = "loop"

\* Faulty loop conditions: the last port is left out, one port too many.
LoopGuardExclusive == port < PortEnd(space, block)
LoopGuardPastEnd   == port <= PortEnd(space, block) + 1

\* The condition of the loops of AddPortRange, AddPodNatPorts, RemovePortRange
\* and RemovePodNatPorts.
LoopGuard == port <= PortEnd(space, block)

\* One turn of the loop.
Body ==
    /\ pc = "loop" /\ LoopGuard
    /\ written' = written \cup {port}
    /\ port' = Add(port, 1)
    /\ UNCHANGED <<space, block, pc>>

\* The map refuses the write: the function returns an error, with the ports
\* before this one written.
BodyFails ==
    /\ pc = "loop" /\ LoopGuard
    /\ pc' = "failed"
    /\ UNCHANGED <<space, block, port, written>>

Exit ==
    /\ pc = "loop" /\ ~LoopGuard
    /\ pc' = "done"
    /\ UNCHANGED <<space, block, port, written>>

Next == Body \/ BodyFails \/ Exit

Spec == Init /\ [][Next]_vars /\ WF_vars(Next)

-----------------------------------------------------------------------------
\* Two blocks of an allocator never share a port, and every port of a block
\* lies within the allocator's bounds: the arithmetic of AllocateForPod and
\* AllocateForIP never wraps for a space New accepts.
BlocksDisjoint ==
    \A j, k \in Blocks(space) :
        /\ space.min <= PortStart(space, j)
        /\ PortStart(space, j) <= PortEnd(space, j)
        /\ PortEnd(space, j) <= MaxPort
        /\ j < k => PortEnd(space, j) < PortStart(space, k)

\* The first port of a block, which is all a NATPortRange records, leads back
\* to the block and to no other: MarkUsed and Free reach the block that
\* AllocateForPod handed out, and a port that starts no block is refused.
IndexRoundTrip ==
    \A p \in Port : \A k \in Blocks(space) :
        BlockIndexOf(space, p) = k <=> p = PortStart(space, k)

\* A reserved or excluded port withholds exactly the block it lies in.
ContainingIsExact ==
    \A p \in Port : \A k \in Blocks(space) :
        BlockIndexContaining(space, p) = k
            <=> PortStart(space, k) <= p /\ p <= PortEnd(space, k)

\* The loop touches no port of another block.
OnlyOwnPorts ==
    written \subseteq PortStart(space, block) .. PortEnd(space, block)

\* A loop that ends without an error has covered the block.
AllPortsWritten ==
    pc = "done" => written = PortStart(space, block) .. PortEnd(space, block)

\* The loop over a block that ends below the highest port ends.
LoopEnds == PortEnd(space, block) < M - 1 ~> pc # "loop"
=============================================================================
