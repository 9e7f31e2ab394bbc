---------------------------- MODULE IPAMAllocator ----------------------------
(***************************************************************************)
(* What the controller promises about addresses, without tables, requests  *)
(* or pools: an address belongs to one host at a time, it is announced to  *)
(* a host only while it belongs to it, and only its owner gives it up.     *)
(***************************************************************************)
CONSTANTS
  Host,    \* host names
  IP,      \* addresses
  NoHost   \* owner of a free address: no host

VARIABLES
  owner,      \* the host each address belongs to
  announced   \* pairs <<host, address>> on their way to the resources

vars == <<owner, announced>>

Init ==
  /\ owner = [ip \in IP |-> NoHost]
  /\ announced = {}

\* A free address is given to a host and announced.
Assign(h, ip) ==
  /\ owner[ip] = NoHost
  /\ owner' = [owner EXCEPT ![ip] = h]
  /\ announced' = announced \cup {<<h, ip>>}

\* The owner of an address is told again.
Announce(h, ip) ==
  /\ owner[ip] = h
  /\ announced' = announced \cup {<<h, ip>>}
  /\ UNCHANGED owner

\* The owner gives an address up; what was announced is not recalled.
Free(h, ip) ==
  /\ owner[ip] = h
  /\ owner' = [owner EXCEPT ![ip] = NoHost]
  /\ UNCHANGED announced

\* An announcement arrives.
Arrive(h, ip) ==
  /\ announced' = announced \ {<<h, ip>>}
  /\ UNCHANGED owner

Next ==
  \E h \in Host, ip \in IP :
    Assign(h, ip) \/ Announce(h, ip) \/ Free(h, ip) \/ Arrive(h, ip)

Spec == Init /\ [][Next]_vars

=============================================================================
