----------------------------- MODULE MCNatTable -----------------------------
(***************************************************************************)
(* NatTable for TLC: one pod, one server, eight ports.                     *)
(***************************************************************************)
EXTENDS NatTable, TLC

CONSTANTS p1, s1, e1, e2, c1, c2

Segment(ext, lo, hi) == [ext |-> ext, lo |-> lo, hi |-> hi]

\* One block of two ports, or none.
OneBlock == p1 :> {<< >>, << Segment(e1, 4, 5) >>}

\* Blocks on two external IPs; another on the second IP alone; or none.
TwoBlocks == p1 :> {<< >>, << Segment(e1, 4, 5), Segment(e2, 7, 7) >>, << Segment(e2, 6, 7) >>}
=============================================================================
