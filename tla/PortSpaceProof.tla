--------------------------- MODULE PortSpaceProof ---------------------------
(***************************************************************************)
(* The port arithmetic of the allocator never wraps: for every modulus,    *)
(* every upper bound and every block size that New accepts, the blocks are *)
(* disjoint, within the bounds, and identified by their first port.        *)
(***************************************************************************)
EXTENDS PortSpace, TLAPS

USE ZenonT(10), SMTT(30)

\* A remainder below the modulus is the number itself, and division rounds
\* down.
LEMMA SmallMod ==
    ASSUME NEW x \in Nat, NEW m \in Nat, x < m
    PROVE  x % m = x
  OBVIOUS

LEMMA MinusOne ==
    ASSUME NEW m \in Nat \ {0}
    PROVE  (0 - 1) % m = m - 1
  OBVIOUS

LEMMA DivFacts ==
    ASSUME NEW x \in Nat, NEW d \in Nat \ {0}
    PROVE  /\ x \div d \in Nat
           /\ (x \div d) * d <= x
           /\ x < (x \div d + 1) * d
           /\ x % d \in Nat
           /\ x % d < d
           /\ x = ((x \div d) * d) + (x % d)
  OBVIOUS

\* Products are monotone.
LEMMA MulMono ==
    ASSUME NEW a \in Nat, NEW b \in Nat, NEW c \in Nat, a <= b
    PROVE  a * c <= b * c
  OBVIOUS

LEMMA Distribute ==
    ASSUME NEW a \in Nat, NEW c \in Nat
    PROVE  a * c \in Nat /\ (a + 1) * c = (a * c) + c
  OBVIOUS

\* A quotient is determined by its bounds.
LEMMA DivUnique ==
    ASSUME NEW x \in Nat, NEW d \in Nat \ {0}, NEW q \in Nat,
           q * d <= x, x < (q + 1) * d
    PROVE  x \div d = q
  OBVIOUS

\* What New guarantees about a space it accepts: total blocks fit.
LEMMA SpaceFacts ==
    ASSUME NEW s \in Space
    PROVE  /\ s.size \in Nat \ {0} /\ s.min \in Nat /\ s.total \in Nat \ {0}
           /\ M \in Nat /\ MaxPort \in Nat /\ MaxPort < M
           /\ s.min < MaxPort
           /\ s.total * s.size <= MaxPort - s.min + 1
           /\ MaxPort - s.min + 1 < M
           /\ s.total = (MaxPort - s.min + 1) \div s.size
  <1>1. /\ s.size \in Nat \ {0} /\ s.min \in Nat /\ s.total \in Nat \ {0}
        /\ M \in Nat \ {0} /\ MaxPort \in Nat /\ MaxPort < M
        /\ s.min < MaxPort
        /\ s.total = TotalBlocks(s.size, s.min, MaxPort)
        /\ s.size < M
    <2>1. s.size \in Port \ {0} /\ s.min \in MinPort /\ s.total \in Port \ {0}
      BY DEF Space
    <2>2. s.min < MaxPort /\ s.total = TotalBlocks(s.size, s.min, MaxPort)
      BY DEF Space
    <2>3. s.min \in 0 .. (M - 1) /\ M \in Nat \ {0} /\ MaxPort \in 0 .. (M - 1)
      BY <2>1, PortAssumption
    <2>4. s.size \in 0 .. (M - 1) /\ s.total \in 0 .. (M - 1) /\ s.size # 0 /\ s.total # 0
      BY <2>1 DEF Port
    <2> QED
      BY <2>2, <2>3, <2>4
  <1> DEFINE span == MaxPort - s.min + 1
  <1>2. /\ span \in Nat /\ span <= M
        /\ Sub(MaxPort, s.min) = MaxPort - s.min
    BY <1>1, SmallMod DEF Sub
  <1>3. Add(Sub(MaxPort, s.min), 1) = span % M
    BY <1>2 DEF Add
  <1>4. s.total = (span % M) \div s.size
    BY <1>1, <1>3 DEF TotalBlocks
  <1>5. span < M
    <2>1. SUFFICES ASSUME span = M PROVE FALSE
      BY <1>1, <1>2
    <2>2. span % M = 0
      BY <2>1, <1>1
    <2>3. 0 \div s.size = 0
      BY <1>1
    <2> QED
      BY <1>1, <1>4, <2>2, <2>3
  <1>6. s.total = span \div s.size
    BY <1>2, <1>4, <1>5, <1>1, SmallMod
  <1>7. (span \div s.size) * s.size <= span
    BY <1>1, <1>2, DivFacts
  <1> QED
    BY <1>1, <1>2, <1>5, <1>6, <1>7

\* No wrap: the ports of block k are the size ports from min + k * size on.
LEMMA BlockFacts ==
    ASSUME NEW s \in Space, NEW k \in Blocks(s)
    PROVE  /\ k \in Nat /\ k < s.total
           /\ k * s.size \in Nat
           /\ PortStart(s, k) = s.min + k * s.size
           /\ PortEnd(s, k) = s.min + k * s.size + s.size - 1
           /\ s.min + k * s.size + s.size - 1 <= MaxPort
  <1>1. /\ s.size \in Nat \ {0} /\ s.min \in Nat /\ s.total \in Nat \ {0}
        /\ M \in Nat /\ MaxPort \in Nat /\ MaxPort < M
        /\ s.min < MaxPort
        /\ s.total * s.size <= MaxPort - s.min + 1
        /\ MaxPort - s.min + 1 < M
        /\ s.total <= s.total * s.size
    BY SpaceFacts, MulMono
  <1>2. k \in Nat /\ k < s.total /\ k + 1 <= s.total
    BY <1>1 DEF Blocks
  <1> DEFINE low == k * s.size
  <1>3. low \in Nat /\ (k + 1) * s.size = low + s.size
    <2>1. k \in Nat /\ s.size \in Nat
      BY <1>1, <1>2
    <2> QED
      BY <2>1, Distribute
  <1>4. low + s.size <= MaxPort - s.min + 1
    BY <1>1, <1>2, <1>3, MulMono
  <1> HIDE DEF low
  <1>5. Mul(k, s.size) = low
    <2>1. low \in Nat /\ low < M
      BY <1>1, <1>3, <1>4
    <2>2. Mul(k, s.size) = low % M
      BY DEF Mul, low
    <2> QED
      BY <2>1, <2>2, <1>1, SmallMod
  <1>6. PortStart(s, k) = s.min + low
    <2>1. s.min + low \in Nat /\ s.min + low < M
      BY <1>1, <1>3, <1>4
    <2> QED
      BY <2>1, <1>1, <1>5, SmallMod DEF PortStart, Add
  <1>7. Add(k, 1) = k + 1
    <2>1. k + 1 \in Nat /\ k + 1 < M
      BY <1>1, <1>2
    <2> QED
      BY <2>1, <1>1, SmallMod DEF Add
  <1>8. Mul(Add(k, 1), s.size) = low + s.size
    <2>1. low + s.size \in Nat /\ low + s.size < M
      BY <1>1, <1>3, <1>4
    <2>2. Mul(Add(k, 1), s.size) = (low + s.size) % M
      BY <1>3, <1>7 DEF Mul
    <2> QED
      BY <2>1, <2>2, <1>1, SmallMod
  <1>9. PortEnd(s, k) = s.min + low + s.size - 1
    <2> DEFINE top == s.min + low + s.size
    <2>1. top \in Nat /\ top >= 1 /\ top <= M
      BY <1>1, <1>3, <1>4
    <2>2. PortEnd(s, k) = ((top % M) - 1) % M
      BY <1>8, <1>1, <1>3 DEF PortEnd, Sub, Add
    <2> HIDE DEF top
    <2>5. SUFFICES PortEnd(s, k) = top - 1
      BY <1>1, <1>3 DEF top
    <2>3. CASE top < M
      <3>1. top % M = top
        BY <2>1, <2>3, <1>1, SmallMod
      <3>2. (top - 1) % M = top - 1
        <4>1. top - 1 \in Nat /\ top - 1 < M
          BY <2>1, <2>3, <1>1
        <4> QED
          BY <4>1, <1>1, SmallMod
      <3> QED
        BY <3>1, <3>2, <2>2
    <2>4. CASE top = M
      <3>1. top % M = 0
        BY <2>4, <1>1
      <3>2. (0 - 1) % M = M - 1
        BY <1>1, MinusOne
      <3> QED
        BY <3>1, <3>2, <2>2, <2>4
    <2> QED
      BY <2>1, <2>3, <2>4, <1>1
  <1> QED
    BY <1>1, <1>2, <1>3, <1>4, <1>6, <1>9 DEF low

-----------------------------------------------------------------------------
\* The loop never changes the space or the block.
LEMMA SpaceKept == Spec => [](space \in Space)
  <1>1. Init => space \in Space
    BY DEF Init
  <1>2. space \in Space /\ [Next]_vars => (space \in Space)'
    BY DEF Next, Body, BodyFails, Exit, vars
  <1> QED
    BY <1>1, <1>2, PTL DEF Spec

\* Blocks are disjoint and in bounds in every space the allocator is created
\* with, whatever the block size and the modulus.
LEMMA DisjointInSpace ==
    ASSUME space \in Space
    PROVE  BlocksDisjoint
  <1> SUFFICES ASSUME NEW j \in Blocks(space), NEW k \in Blocks(space)
               PROVE  /\ space.min <= PortStart(space, j)
                      /\ PortStart(space, j) <= PortEnd(space, j)
                      /\ PortEnd(space, j) <= MaxPort
                      /\ j < k => PortEnd(space, j) < PortStart(space, k)
    BY DEF BlocksDisjoint
  <1>1. space.size \in Nat \ {0} /\ space.min \in Nat /\ MaxPort \in Nat
    BY SpaceFacts
  <1>2. /\ j \in Nat /\ j * space.size \in Nat
        /\ PortStart(space, j) = space.min + j * space.size
        /\ PortEnd(space, j) = space.min + j * space.size + space.size - 1
        /\ space.min + j * space.size + space.size - 1 <= MaxPort
    BY BlockFacts
  <1>3. /\ k \in Nat /\ k * space.size \in Nat
        /\ PortStart(space, k) = space.min + k * space.size
    BY BlockFacts
  <1>4. ASSUME j < k
        PROVE  (j * space.size) + space.size <= k * space.size
    <2>1. (j + 1) * space.size <= k * space.size
      BY <1>1, <1>2, <1>3, <1>4, MulMono
    <2>2. (j + 1) * space.size = (j * space.size) + space.size
      BY <1>1, <1>2, Distribute
    <2> QED
      BY <2>1, <2>2
  <1> QED
    BY <1>1, <1>2, <1>3, <1>4

\* For every modulus, bound and block size: the blocks the allocator hands
\* out never overlap and never leave the bounds.
THEOREM DisjointAlways == Spec => []BlocksDisjoint
  BY SpaceKept, DisjointInSpace, PTL

\* The quotient that blockIndexOf and blockIndexContaining compute for a port
\* at or above min.
LEMMA Quotient ==
    ASSUME NEW s \in Space, NEW p \in Port, s.min <= p
    PROVE  /\ Sub(p, s.min) = p - s.min
           /\ p - s.min \in Nat
           /\ (p - s.min) \div s.size \in Nat
  <1>1. /\ s.size \in Nat \ {0} /\ s.min \in Nat /\ M \in Nat
        /\ p \in Nat /\ p < M
    BY SpaceFacts DEF Port
  <1>2. p - s.min \in Nat /\ p - s.min < M
    BY <1>1
  <1> QED
    BY <1>1, <1>2, SmallMod, DivFacts DEF Sub

\* blockIndexContaining finds block k exactly for the ports of block k.
LEMMA ContainingInSpace ==
    ASSUME space \in Space
    PROVE  ContainingIsExact
  <1> SUFFICES ASSUME NEW p \in Port, NEW k \in Blocks(space)
               PROVE  BlockIndexContaining(space, p) = k
                        <=> PortStart(space, k) <= p /\ p <= PortEnd(space, k)
    BY DEF ContainingIsExact
  <1>1. /\ space.size \in Nat \ {0} /\ space.min \in Nat /\ space.total \in Nat
        /\ p \in Nat
    BY SpaceFacts DEF Port
  <1>2. /\ k \in Nat /\ k < space.total /\ k * space.size \in Nat
        /\ PortStart(space, k) = space.min + k * space.size
        /\ PortEnd(space, k) = space.min + k * space.size + space.size - 1
    BY BlockFacts
  <1>3. CASE p < space.min
    <2>1. BlockIndexContaining(space, p) = -1
      BY <1>3 DEF BlockIndexContaining, NoIndex
    <2> QED
      BY <1>1, <1>2, <1>3, <2>1
  <1>4. CASE space.min <= p
    <2> DEFINE x == p - space.min
               q == x \div space.size
    <2>1. Sub(p, space.min) = x /\ x \in Nat /\ q \in Nat
      BY <1>4, Quotient
    <2>2. q * space.size <= x /\ x < (q + 1) * space.size
      BY <1>1, <2>1, DivFacts
    <2>3. BlockIndexContaining(space, p) = IF q >= space.total THEN -1 ELSE q
      BY <1>1, <1>4, <2>1 DEF BlockIndexContaining, NoIndex
    <2>4. (k + 1) * space.size = (k * space.size) + space.size
      BY <1>1, <1>2, Distribute
    <2>5. (q = k) <=> (k * space.size <= x /\ x < (k + 1) * space.size)
      BY <1>1, <1>2, <2>1, <2>2, DivUnique
    <2> HIDE DEF q
    <2>6. BlockIndexContaining(space, p) = k <=> q = k
      BY <1>2, <2>1, <2>3, <1>1
    <2> HIDE DEF x
    <2>7. (k * space.size <= x /\ x < (k * space.size) + space.size)
             <=> (PortStart(space, k) <= p /\ p <= PortEnd(space, k))
      BY <1>1, <1>2 DEF x
    <2> QED
      BY <2>4, <2>5, <2>6, <2>7
  <1> QED
    BY <1>1, <1>3, <1>4

\* A reserved or excluded port withholds the block it lies in, in every space.
THEOREM ContainingAlways == Spec => []ContainingIsExact
  BY SpaceKept, ContainingInSpace, PTL

\* blockIndexOf finds block k exactly for the first port of block k: the
\* argument is that of ContainingInSpace, with a zero remainder.
LEMMA RoundTripInSpace ==
    ASSUME space \in Space
    PROVE  IndexRoundTrip
  <1> SUFFICES ASSUME NEW p \in Port, NEW k \in Blocks(space)
               PROVE  BlockIndexOf(space, p) = k <=> p = PortStart(space, k)
    BY DEF IndexRoundTrip
  <1>1. /\ space.size \in Nat \ {0} /\ space.min \in Nat /\ space.total \in Nat
        /\ p \in Nat
    BY SpaceFacts DEF Port
  <1>2. /\ k \in Nat /\ k < space.total /\ k * space.size \in Nat
        /\ PortStart(space, k) = space.min + k * space.size
    BY BlockFacts
  <1>3. CASE p < space.min
    <2>1. BlockIndexOf(space, p) = -1
      BY <1>3 DEF BlockIndexOf, NoIndex
    <2> QED
      BY <1>1, <1>2, <1>3, <2>1
  <1>4. CASE space.min <= p
    <2> DEFINE x == p - space.min
               q == x \div space.size
               r == x % space.size
    <2>1. Sub(p, space.min) = x /\ x \in Nat /\ q \in Nat
      BY <1>4, Quotient
    <2>2. r \in Nat /\ x = (q * space.size) + r
      BY <1>1, <2>1, DivFacts
    <2>3. BlockIndexOf(space, p) = IF r # 0 \/ q >= space.total THEN -1 ELSE q
      BY <1>1, <1>4, <2>1 DEF BlockIndexOf, NoIndex
    <2>4. (k + 1) * space.size = (k * space.size) + space.size
      BY <1>1, <1>2, Distribute
    <2>5. ASSUME x = k * space.size PROVE q = k
      <3>1. k * space.size <= x /\ x < (k + 1) * space.size
        BY <1>1, <1>2, <2>4, <2>5
      <3> HIDE DEF x
      <3> QED
        BY <1>1, <1>2, <2>1, <3>1, DivUnique
    <2> HIDE DEF q, r
    <2>6. BlockIndexOf(space, p) = k <=> (r = 0 /\ q = k)
      BY <1>2, <2>1, <2>2, <2>3, <1>1
    <2>7. (r = 0 /\ q = k) <=> x = k * space.size
      BY <1>1, <1>2, <2>1, <2>2, <2>5
    <2>8. x = k * space.size <=> p = PortStart(space, k)
      BY <1>1, <1>2
    <2> QED
      BY <2>6, <2>7, <2>8
  <1> QED
    BY <1>1, <1>3, <1>4

\* The PortStart recorded in a NATPortRange identifies its block, in every
\* space.
THEOREM RoundTripAlways == Spec => []IndexRoundTrip
  BY SpaceKept, RoundTripInSpace, PTL

-----------------------------------------------------------------------------
(* The loops over the ports of a block.                                    *)

\* While the loop runs over a block that ends below the highest port, the
\* ports before the loop variable are done; over a block that ends at the
\* highest port its condition is never false.
LoopInv ==
    /\ space \in Space /\ block \in Blocks(space) /\ port \in Port
    /\ PortEnd(space, block) = M - 1 => pc # "done"
    /\ PortEnd(space, block) # M - 1 =>
          /\ PortStart(space, block) <= port
          /\ pc = "loop" => port <= PortEnd(space, block) + 1
          /\ pc = "done" => port = PortEnd(space, block) + 1
          /\ written = PortStart(space, block) .. (port - 1)
    /\ pc \in {"loop", "failed", "done"}

\* The bounds of a block are ports.
LEMMA BlockBounds ==
    ASSUME space \in Space, block \in Blocks(space)
    PROVE  /\ M \in Nat \ {0}
           /\ PortStart(space, block) \in 0 .. (M - 1)
           /\ PortEnd(space, block) \in 0 .. (M - 1)
           /\ PortStart(space, block) <= PortEnd(space, block)
  BY SpaceFacts, BlockFacts

LEMMA LoopInit == Init => LoopInv
  <1> SUFFICES ASSUME Init PROVE LoopInv
    OBVIOUS
  <1>1. /\ space \in Space /\ block \in Blocks(space) /\ pc = "loop" /\ written = {}
        /\ port = PortStart(space, block)
    BY DEF Init
  <1> DEFINE a == PortStart(space, block)
             b == PortEnd(space, block)
  <1>2. M \in Nat \ {0} /\ a \in 0 .. (M - 1) /\ b \in 0 .. (M - 1) /\ a <= b
    BY <1>1, BlockBounds
  <1> HIDE DEF a, b
  <1>3. a .. (a - 1) = {}
    BY <1>2
  <1> QED
    BY <1>1, <1>2, <1>3 DEF LoopInv, Port, a, b

LEMMA LoopBody == LoopInv /\ Body => LoopInv'
  <1> SUFFICES ASSUME LoopInv, Body PROVE LoopInv'
    OBVIOUS
  <1> DEFINE a == PortStart(space, block)
             b == PortEnd(space, block)
  <1>1. /\ pc = "loop" /\ port <= b /\ written' = written \cup {port}
        /\ port' = (port + 1) % M
        /\ space' = space /\ block' = block /\ pc' = pc
    BY DEF Body, LoopGuard, Add
  <1>2. /\ M \in Nat \ {0} /\ a \in 0 .. (M - 1) /\ b \in 0 .. (M - 1) /\ a <= b
        /\ port \in 0 .. (M - 1)
    BY BlockBounds DEF LoopInv, Port
  <1>3. /\ PortStart(space, block)' = a /\ PortEnd(space, block)' = b
        /\ Blocks(space)' = Blocks(space)
    BY <1>1 DEF PortStart, PortEnd, Blocks, Add, Sub, Mul
  <1>4. port' \in 0 .. (M - 1)
    BY <1>1, <1>2
  <1>5. ASSUME b # M - 1
        PROVE  a <= port' /\ port' <= b + 1 /\ written' = a .. (port' - 1)
    <2>1. a <= port /\ written = a .. (port - 1)
      BY <1>5 DEF LoopInv
    <2> HIDE DEF a, b
    <2>2. port + 1 \in Nat /\ port + 1 < M
      BY <1>1, <1>2, <1>5
    <2>3. port' = port + 1
      BY <1>1, <1>2, <2>2, SmallMod
    <2> QED
      BY <1>1, <1>2, <2>1, <2>3
  <1> QED
    BY <1>1, <1>3, <1>4, <1>5 DEF LoopInv, Port

LEMMA LoopFails == LoopInv /\ BodyFails => LoopInv'
  <1> SUFFICES ASSUME LoopInv, BodyFails PROVE LoopInv'
    OBVIOUS
  <1>1. pc' = "failed" /\ space' = space /\ block' = block /\ port' = port /\ written' = written
    BY DEF BodyFails
  <1>2. /\ PortStart(space, block)' = PortStart(space, block)
        /\ PortEnd(space, block)' = PortEnd(space, block)
        /\ Blocks(space)' = Blocks(space)
    BY <1>1 DEF PortStart, PortEnd, Blocks, Add, Sub, Mul
  <1> QED
    BY <1>1, <1>2 DEF LoopInv

LEMMA LoopExit == LoopInv /\ Exit => LoopInv'
  <1> SUFFICES ASSUME LoopInv, Exit PROVE LoopInv'
    OBVIOUS
  <1> DEFINE a == PortStart(space, block)
             b == PortEnd(space, block)
  <1>1. /\ pc = "loop" /\ ~(port <= b) /\ pc' = "done"
        /\ space' = space /\ block' = block /\ port' = port /\ written' = written
    BY DEF Exit, LoopGuard
  <1>2. /\ M \in Nat \ {0} /\ a \in 0 .. (M - 1) /\ b \in 0 .. (M - 1) /\ a <= b
        /\ port \in 0 .. (M - 1)
    BY BlockBounds DEF LoopInv, Port
  <1>3. /\ PortStart(space, block)' = a /\ PortEnd(space, block)' = b
        /\ Blocks(space)' = Blocks(space)
    BY <1>1 DEF PortStart, PortEnd, Blocks, Add, Sub, Mul
  <1>4. a <= port /\ port <= b + 1 /\ written = a .. (port - 1) /\ b # M - 1
    <2>1. b # M - 1
      <3> HIDE DEF b
      <3> QED
        BY <1>1, <1>2
    <2> QED
      BY <1>1, <2>1 DEF LoopInv
  <1>5. port = b + 1
    <2> HIDE DEF a, b
    <2> QED
      BY <1>1, <1>2, <1>4
  <1> QED
    BY <1>1, <1>3, <1>4, <1>5 DEF LoopInv

\* A loop over a block of any space that ends without an error has run for
\* every port of the block and for no other, whatever the block size and the
\* modulus: the map writers of internal/maps leave no port of a released block
\* behind.  (The
\* loop over a block that ends at the highest port does not end.)
THEOREM WrittenAlways == Spec => []AllPortsWritten
  <1>1. LoopInv /\ [Next]_vars => LoopInv'
    <2>1. LoopInv /\ UNCHANGED vars => LoopInv'
      BY DEF LoopInv, vars, PortStart, PortEnd, Blocks, Add, Sub, Mul
    <2> QED
      BY <2>1, LoopBody, LoopFails, LoopExit DEF Next
  <1>2. LoopInv => AllPortsWritten
    <2> SUFFICES ASSUME LoopInv, pc = "done"
                 PROVE  written = PortStart(space, block) .. PortEnd(space, block)
      BY DEF AllPortsWritten
    <2>1. /\ port = PortEnd(space, block) + 1
          /\ written = PortStart(space, block) .. (port - 1)
      BY DEF LoopInv
    <2>2. PortEnd(space, block) \in Int
      BY BlockBounds DEF LoopInv
    <2> QED
      BY <2>1, <2>2
  <1> QED
    BY <1>1, <1>2, LoopInit, PTL DEF Spec
=============================================================================
