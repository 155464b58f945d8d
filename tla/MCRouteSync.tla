---------------------------- MODULE MCRouteSync -----------------------------
(***************************************************************************)
(* Instances of RouteSync: two NATConfigs that may share CIDRs.            *)
(***************************************************************************)
EXTENDS RouteSync

CONSTANTS n1, n2,     \* names
          x, y, z     \* CIDR strings

MCName == {n1, n2}
MCCIDR == {x, y, z}
MCBad  == {z}

\* A prefix is one key of target_cidrs and one route; in dst_kind x is two
\* addresses and y is one.
MCKeys ==
    [target |-> [c \in MCCIDR |-> <<c>>],
     ext    |-> [c \in MCCIDR |-> IF c = x THEN <<"x0", "x1">> ELSE <<c>>],
     route  |-> [c \in MCCIDR |-> <<c>>]]

\* x contains the one address of y.
MCNested ==
    [MCKeys EXCEPT !["ext"] = [c \in MCCIDR |-> IF c = x THEN <<"x0", "x1">>
                                          ELSE IF c = y THEN <<"x1">> ELSE <<c>>]]

Cfg(t, p, s) == [targets |-> t, pool |-> p, selective |-> s]

\* Shared and separate pools, with and without a nodeSelector, and a pool
\* with a CIDR that is refused.
MCConfigs ==
    {Cfg({x}, {x}, FALSE), Cfg({x, y}, {y}, FALSE), Cfg({}, {x, y}, TRUE),
     Cfg({}, {y, z}, FALSE)}
=============================================================================
