--------------------------- MODULE MCIPAMController ---------------------------
(***************************************************************************)
(* Instances of IPAMController for TLC.                                    *)
(***************************************************************************)
EXTENDS IPAMController

CONSTANTS h1, h2, h3, crA, c1, c2, cX

MCHost == {h1, h2, h3}
MCCR == {crA}

\* Two disjoint ranges, of two addresses and of one, and a CIDR that is not
\* configured.  The network of c1 also holds an address outside its range.
MCIP == 1..4
MCCidr == {c1, c2, cX}
MCNet == [c \in MCCidr |-> CASE c = c1 -> {1, 2, 4} [] c = c2 -> {3} [] OTHER -> {}]
MCPoolCidr == {c1, c2}
MCPool == <<[ipaddress |-> 2, cidr |-> c1], [ipaddress |-> 1, cidr |-> c1],
            [ipaddress |-> 3, cidr |-> c2]>>

\* Overlapping ranges: address 2 is in a range of c1 and in one of c2, and
\* address 3, the last of c2, is not IPv4.
OverlapHost == {h1, h2}
OverlapIP == 1..3
OverlapIPv4 == 1..2
OverlapCidr == {c1, c2}
OverlapNet == [c \in OverlapCidr |-> IF c = c1 THEN {1, 2} ELSE {2, 3}]
OverlapPool == <<[ipaddress |-> 1, cidr |-> c1], [ipaddress |-> 2, cidr |-> c1],
                 [ipaddress |-> 2, cidr |-> c2], [ipaddress |-> 3, cidr |-> c2]>>

=============================================================================
