----------------------------- MODULE MCOperator -----------------------------
(***************************************************************************)
(* Instances of Operator for TLC.                                          *)
(***************************************************************************)
EXTENDS OperatorInv, TLC

CONSTANTS p1, p2, a, b, g1, g2, g3, t1

Conf(pool, reserved) == [pool |-> pool, reserved |-> reserved, target |-> t1]

OneIP      == {Conf({a}, {})}
Growing    == {Conf({a}, {}), Conf({a, b}, {})}
Reserving  == {Conf({a}, {}), Conf({a}, {0})}
EitherPool == {Conf({a, b}, {}), Conf({a, b}, {0}), Conf({a}, {}), Conf({a}, {0})}
Anything   == {Conf({a}, {}), Conf({a, b}, {0})}

NoExclude  == [p \in Pod |-> {}]
ExcludeOne == [p \in Pod |-> IF p = p1 THEN {1} ELSE {}]

PodSymmetry == Permutations(Pod)
=============================================================================
