----------------------------- MODULE MCFICSystem -----------------------------
(***************************************************************************)
(* Instances of FICSystem for TLC.  Every resource has hosts of its own.   *)
(***************************************************************************)
EXTENDS FICSystem

CONSTANTS h1, h2, h3, g1, crA, crB, c1, c2

At(h, c) == [host |-> h, cidr |-> c]

MCHost == {h1, h2, h3, g1}
MCCidr == {c1, c2}
MCIP == 1..3
MCNet == [c \in MCCidr |-> IF c = c1 THEN {1, 2} ELSE {3}]

Free(ip, c) == [ipaddress |-> ip, cidr |-> c]

\* Two addresses in c1 and one in c2.
MCPool == <<Free(1, c1), Free(2, c1), Free(3, c2)>>
\* A single range of one address.
SinglePool == <<Free(1, c1)>>

\* The resources are listed by name.
ByName == [S \in SUBSET CR |-> SelectSeq(<<crA, crB>>, LAMBDA c : c \in S)]

\* Three hosts for the two addresses of c1, written in an order of any kind.
GrowSpecs ==
  [c \in {crA} |->
    {<<At(h1, c1)>>, <<At(h2, c1)>>, <<At(h2, c1), At(h1, c1)>>,
     <<At(h3, c1), At(h1, c1), At(h2, c1)>>}]

\* Two users whose hosts come, go, move between the CIDRs, and share addresses.
MoveSpecs ==
  [c \in {crA, crB} |->
    IF c = crA
    THEN {<<>>, <<At(h1, c1)>>, <<At(h1, c2)>>, <<At(h2, c1), At(h1, c1)>>,
          <<At(h3, c1), At(h2, c1), At(h1, c2)>>}
    ELSE {<<At(g1, c1)>>, <<At(g1, c2)>>}]

\* Two users who want the same single address, one of whom then asks for more.
RivalSpecs ==
  [c \in {crA, crB} |->
    IF c = crA THEN {<<At(h1, c1)>>}
               ELSE {<<At(g1, c1)>>, <<At(g1, c1), At(h2, c1)>>}]

\* The theorems of GrowthProofs and AgreementProofs are about these instances too.
ASSUME TheoremInstances ==
  /\ CR = {crA} => SoundPool /\ Growing
  /\ SoleRestart => SoundPool /\ Settling

=============================================================================
