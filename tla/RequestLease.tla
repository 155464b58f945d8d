---------------------------- MODULE RequestLease ----------------------------
(***************************************************************************)
(* What a node's daemon promises about the NATPortRangeRequests of a pod,  *)
(* on which the operator relies: a request keeps its address while it      *)
(* exists, and it goes away only through a grace period that has run out.  *)
(***************************************************************************)
CONSTANTS Key, Address, Nobody

VARIABLES lease,    \* "none", "held", "grace" or "over", for each request
          address   \* the pod address it was made for

vars == <<lease, address>>

Init ==
    /\ lease = [k \in Key |-> "none"]
    /\ address = [k \in Key |-> Nobody]

\* Made, given notice, renewed, run out, ended.
Moves ==
    {<<"none", "held">>, <<"held", "grace">>, <<"grace", "held">>,
     <<"grace", "over">>, <<"over", "held">>, <<"over", "none">>}

Change(k) ==
    /\ lease'[k] # lease[k] => <<lease[k], lease'[k]>> \in Moves
    /\ address'[k] = IF lease'[k] = "none" THEN Nobody
                     ELSE IF lease[k] # "none" THEN address[k]
                     ELSE address'[k]
    /\ address'[k] \in Address \cup {Nobody}

Next == \A k \in Key : Change(k)

Spec == Init /\ [][Next]_vars
=============================================================================
