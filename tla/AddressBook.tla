----------------------------- MODULE AddressBook -----------------------------
(***************************************************************************)
(* What the users of the controller are promised, as long as they wait for *)
(* it to settle between edits: an entry appears for a host they ask for,   *)
(* stays as it is while they ask for it, and no two hosts that are asked   *)
(* for share an address.  No store, no events, no restarts.                *)
(***************************************************************************)
CONSTANTS
  CR,        \* the resources
  Key,       \* a host under a CIDR
  IP,        \* addresses
  Fits,  \* Fits[k]: the addresses k can have
  Choice     \* Choice[c]: the sets of keys the user of c asks for

BookAssumption ==
  /\ Fits \in [Key -> SUBSET IP]
  /\ Choice \in [CR -> SUBSET SUBSET Key]

VARIABLES
  wanted,    \* the keys each resource asks for
  published  \* the entries <<key, address>> each resource shows

vars == <<wanted, published>>

Entry == Key \X IP

BookTypeOK ==
  /\ wanted \in [CR -> SUBSET Key]
  /\ published \in [CR -> SUBSET Entry]

Init ==
  /\ wanted = [c \in CR |-> {}]
  /\ published = [c \in CR |-> {}]

\* A user asks for other hosts; those that come back have no entry left.
Ask(c, W) ==
  /\ \A e \in published[c] : e[1] \in W => e[1] \in wanted[c]
  /\ wanted' = [wanted EXCEPT ![c] = W]
  /\ UNCHANGED published

\* A user deletes the resource, and with it all of its entries.
Remove(c) ==
  /\ wanted' = [wanted EXCEPT ![c] = {}]
  /\ published' = [published EXCEPT ![c] = {}]

\* A host that has no entry gets one, with an address no wanted host has.
Publish(c, k, ip) ==
  /\ k \in wanted[c] /\ ip \in Fits[k]
  /\ \A e \in published[c] : e[1] # k
  /\ \A d \in CR : \A e \in published[d] : e[2] = ip => e[1] \notin wanted[d]
  /\ published' = [published EXCEPT ![c] = @ \cup {<<k, ip>>}]
  /\ UNCHANGED wanted

\* The entry of a host that is no longer wanted goes.
Withdraw(c, e) ==
  /\ e \in published[c] /\ e[1] \notin wanted[c]
  /\ published' = [published EXCEPT ![c] = @ \ {e}]
  /\ UNCHANGED wanted

Next ==
  \E c \in CR :
    \/ \E W \in Choice[c] : Ask(c, W)
    \/ Remove(c)
    \/ \E k \in Key, ip \in IP : Publish(c, k, ip)
    \/ \E e \in published[c] : Withdraw(c, e)

Spec == Init /\ [][Next]_vars

-----------------------------------------------------------------------------

\* No two hosts that are asked for show one address, and none shows two.
WantedExclusive ==
  \A c, d \in CR : \A e \in published[c], f \in published[d] :
    /\ e[1] \in wanted[c] /\ f[1] \in wanted[d]
    /\ e[2] = f[2] \/ (c = d /\ e[1] = f[1])
    => c = d /\ e = f

=============================================================================
