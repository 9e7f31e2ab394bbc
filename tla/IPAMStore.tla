------------------------------ MODULE IPAMStore ------------------------------
(***************************************************************************)
(* The address store of the controller: the two SQLite tables of           *)
(* pkg/provider/sqlite/store.go and the calls the manager and provider     *)
(* packages (pkg/manager, pkg/provider) make over them.                    *)
(*                                                                         *)
(* The rows of ipaddress_range are inserted once, by NewProvider, and only *)
(* their status column ever changes, so the table is a constant sequence   *)
(* Pool (indexed by the autoincrement id) and a variable status.  Table    *)
(* a_records is a set of rows: equal rows cannot be told apart by any      *)
(* statement of store.go.                                                  *)
(*                                                                         *)
(* Every operator below is one Go call: a state function for its answer,   *)
(* an action for its effect.  Callers run one call at a time, on the       *)
(* goroutine of Controller.runController.                                  *)
(*                                                                         *)
(* A store that cannot be set up, or a statement that cannot be prepared,  *)
(* ends the process: NoStore and Serve of Lifecycle.  A row whose INSERT   *)
(* fails is not in the pool: InsertIP of IPRange.  The queries of store.go *)
(* put their values in double quotes, so no host may be named like a       *)
(* column (hostname, ipaddress, rowid), or SQLite compares the column.     *)
(***************************************************************************)
EXTENDS Naturals, Sequences, FiniteSetsExt

CONSTANTS
  Host,         \* host names
  IP,           \* addresses, numbered in the order SQLite sorts their text
  IPv4,         \* the addresses isIPV4Addr accepts
  Cidr,         \* the CIDR strings a request may name
  Net,          \* Net[c]: the addresses the network of c contains
  PoolCidr,     \* provider.cidrs: the CIDRs of the configured ranges
  Pool,         \* the rows of ipaddress_range, in id order
  NoIP,         \* the empty address string
  StoreOutcome  \* whether a statement succeeds: {TRUE}, or BOOLEAN with failures

ALLOCATED == 0
AVAILABLE == 1

Row == DOMAIN Pool

ASSUME StoreAssumption ==
  /\ IP \subseteq Nat
  /\ IPv4 \subseteq IP
  /\ PoolCidr \subseteq Cidr
  /\ Net \in [Cidr -> SUBSET IP]
  /\ Pool \in Seq([ipaddress : IP, cidr : PoolCidr])
  /\ NoIP \notin IP
  /\ StoreOutcome \in SUBSET BOOLEAN

VARIABLES
  status,    \* ipaddress_range.status, by row id
  aRecords   \* the rows of a_records

storeVars == <<status, aRecords>>

ARecord == [ipaddress : IP, hostname : Host]

StoreTypeOK ==
  /\ status \in [Row -> {ALLOCATED, AVAILABLE}]
  /\ aRecords \subseteq ARecord

(***************************************************************************)
(* The tables of an empty in-memory database, once they are made and the   *)
(* rows of the pool inserted: each is AVAILABLE, there are no A records.   *)
(***************************************************************************)
StoreInit ==
  /\ status = [i \in Row |-> AVAILABLE]
  /\ aRecords = {}

StoreReset ==
  /\ status' = [i \in Row |-> AVAILABLE]
  /\ aRecords' = {}

-----------------------------------------------------------------------------
(* Statements of store.go.                                                 *)

\* UPDATE ipaddress_range SET status = s, over the given rows.
SetStatus(rows, s) ==
  status' = [i \in Row |-> IF i \in rows THEN s ELSE status[i]]

\* Fault: the status column is not part of the query.
AvailableIn_AnyStatus(c) == {i \in Row : Pool[i].cidr = c}

\* SELECT ... WHERE status = AVAILABLE AND cidr = c.
AvailableIn(c) == {i \in Row : status[i] = AVAILABLE /\ Pool[i].cidr = c}

\* Fault: as above, for a particular address.
AvailableAt_AnyStatus(c, ip) ==
  {i \in Row : Pool[i].cidr = c /\ Pool[i].ipaddress = ip}

\* SELECT ... WHERE status = AVAILABLE AND cidr = c AND ipaddress = ip.
AvailableAt(c, ip) == {i \in AvailableIn(c) : Pool[i].ipaddress = ip}

\* SELECT ipaddress FROM a_records WHERE hostname = h.
AddressesOf(h) == {r.ipaddress : r \in {a \in aRecords : a.hostname = h}}

\* UPDATE ipaddress_range SET status = AVAILABLE WHERE ipaddress = ip: every row
\* of the address, whatever its CIDR.
ReleaseIP(ip) == SetStatus({i \in Row : Pool[i].ipaddress = ip}, AVAILABLE)

\* Fault: the two columns of the INSERT are swapped.
WithRecord_Swapped(h, ip) == aRecords \cup {[ipaddress |-> h, hostname |-> ip]}

\* Fault: the DELETE does not ask for the host.
WithoutRecord_ByAddress(h, ip) == {r \in aRecords : r.ipaddress # ip}

\* INSERT INTO a_records, and DELETE ... WHERE ipaddress = ip AND hostname = h.
WithRecord(h, ip) == aRecords \cup {[ipaddress |-> ip, hostname |-> h]}
WithoutRecord(h, ip) == aRecords \ {[ipaddress |-> ip, hostname |-> h]}

-----------------------------------------------------------------------------
(* Answers of the Manager calls.                                           *)

\* The lowest recorded address of the host, or none, when the query succeeds: the
\* callers take a query that fails for a host without a record.
GetIPAddress(h) ==
  IF AddressesOf(h) = {} THEN NoIP ELSE Min(AddressesOf(h))

\* The row AllocateIP takes is the available one with the lowest id.
CanAllocateNext(c) == c \in PoolCidr /\ AvailableIn(c) # {}
NextAddress(c) == Pool[Min(AvailableIn(c))].ipaddress

\* A particular address is granted in a known CIDR that contains it, when a
\* row of exactly that CIDR and address is available.
CanAllocate(c, ip) ==
  /\ c \in PoolCidr
  /\ ip \in Net[c]
  /\ AvailableAt(c, ip) # {}

-----------------------------------------------------------------------------
(* Effects of the Manager calls, ok being whether their Exec succeeds.     *)

\* AllocateIP logs a failed UPDATE and hands the address out all the same.
GetNextIPAddress(c, ok) ==
  IF ok THEN SetStatus({Min(AvailableIn(c))}, ALLOCATED) ELSE UNCHANGED status

\* Fault: the row is found, but its status is not updated.
AllocateIPAddress_NoUpdate(c, ip) == UNCHANGED status

AllocateIPAddress(c, ip) == SetStatus({Min(AvailableAt(c, ip))}, ALLOCATED)

ReleaseIPAddress(ip, ok) ==
  IF ip \in IPv4 /\ ok THEN ReleaseIP(ip) ELSE UNCHANGED status

\* The manager refuses an address that is not IPv4; its callers ignore that.
CreateARecord(h, ip, ok) ==
  aRecords' = IF ip \in IPv4 /\ ok THEN WithRecord(h, ip) ELSE aRecords

DeleteARecord(h, ip, ok) ==
  aRecords' = IF ip \in IPv4 /\ ok THEN WithoutRecord(h, ip) ELSE aRecords

(***************************************************************************)
(* The pools for which addresses are exclusive: no address is in two rows  *)
(* (the configured ranges do not overlap), all are IPv4, and no statement  *)
(* on the in-memory database fails.                                        *)
(***************************************************************************)
SoundPool ==
  /\ \A i, j \in Row : Pool[i].ipaddress = Pool[j].ipaddress => i = j
  /\ \A i \in Row : Pool[i].ipaddress \in IPv4
  /\ StoreOutcome = {TRUE}

=============================================================================
