---------------------------- MODULE MCDaemonSync ----------------------------
(***************************************************************************)
(* DaemonSync for TLC: pod p1 matches two NATConfigs and is local, pod p2  *)
(* matches the first one.  The first NATConfig's pool has IPs a and b.     *)
(***************************************************************************)
EXTENDS DaemonSync, TLC

CONSTANTS n1, n2, n3, p1, p2, a, b, c, t1, t2, none

ThreeNames == n1 :> p1 @@ n2 :> p2 @@ n3 :> p1
TwoNames   == n1 :> p1 @@ n2 :> p2
SamePod    == n1 :> p1 @@ n3 :> p1

\* Blocks of the two NATConfigs that share no index, and that do.
Apart  == LET P == {<<a, 0>>, <<b, 1>>} IN n1 :> P @@ n2 :> P @@ n3 :> {<<c, 2>>}
Shared == n1 :> {<<a, 0>>} @@ n3 :> {<<c, 0>>}

\* Apart, with one slot for which pods p1 and p2 compete.
Contended == n1 :> {<<a, 0>>, <<b, 1>>} @@ n2 :> {<<a, 0>>} @@ n3 :> {<<c, 2>>}

\* Two blocks on one IP.
TwoRanges == LET P == {<<a, 0>>, <<a, 1>>} IN n1 :> P @@ n2 :> P
=============================================================================
