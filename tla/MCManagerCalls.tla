---------------------------- MODULE MCManagerCalls ----------------------------
(***************************************************************************)
(* Instances of ManagerCalls for TLC: two disjoint ranges.                 *)
(***************************************************************************)
EXTENDS ManagerCalls

CONSTANTS h1, h2, c1, c2, cX

MCHost == {h1, h2}
MCIP == 1..4
MCCidr == {c1, c2, cX}
MCPoolCidr == {c1, c2}
MCNet == [c \in MCCidr |-> IF c = c2 THEN {3} ELSE {1, 2, 4}]
MCPool == <<[ipaddress |-> 2, cidr |-> c1], [ipaddress |-> 1, cidr |-> c1],
            [ipaddress |-> 3, cidr |-> c2]>>

=============================================================================
