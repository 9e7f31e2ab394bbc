-------------------------- MODULE ManagerCallsProofs --------------------------
(***************************************************************************)
(* What the queries of the address store return and what its updates keep, *)
(* for any rows; and that the Manager interface keeps what it hands out    *)
(* reserved, for any callers and any pool of disjoint ranges.  The lemmas  *)
(* about the store say nothing of the callers: the proofs about the        *)
(* request loop, which is one of them, use them too.                       *)
(***************************************************************************)
EXTENDS ManagerCalls, WellFoundedInduction, TLAPS

-----------------------------------------------------------------------------
(* The queries of the store.                                               *)

\* "order by ... limit 1" answers one of the rows there are.
LEMMA MinIsMember ==
  ASSUME NEW S, S \subseteq Nat, S # {}
  PROVE  Min(S) \in S /\ \A y \in S : Min(S) <= y
<1>. DEFINE R == {ss \in Nat \X Nat : ss[1] < ss[2]}
<1>1. IsWellFoundedOn(R, Nat)
  BY NatLessThanWellFounded DEF OpToRel
<1>2. \E x \in S : \A y \in S : ~(<<y, x>> \in R)
  <2>. HIDE DEF R
  <2>. QED
    BY <1>1, WFMin
<1>3. ASSUME NEW x \in S, NEW y \in S, ~(<<y, x>> \in R)
      PROVE  x =< y
  <2>1. x \in Nat /\ y \in Nat
    OBVIOUS
  <2>2. ~(y < x)
    BY <1>3, <2>1
  <2>. QED
    BY <2>1, <2>2
<1>4. \E x \in S : \A y \in S : x =< y
  BY <1>2, <1>3
<1>. QED
  BY <1>4 DEF Min

\* The address a host is known by is one of its records.
LEMMA GetIPAddressFinds ==
  ASSUME StoreTypeOK, NEW h \in Host
  PROVE  /\ GetIPAddress(h) \in IP \cup {NoIP}
         /\ GetIPAddress(h) # NoIP
              => [ipaddress |-> GetIPAddress(h), hostname |-> h] \in aRecords
<1>1. AddressesOf(h) \subseteq IP
  BY DEF StoreTypeOK, ARecord, AddressesOf
<1>2. CASE AddressesOf(h) = {}
  BY <1>2 DEF GetIPAddress
<1>3. CASE AddressesOf(h) # {}
  <2>1. Min(AddressesOf(h)) \in AddressesOf(h)
    BY <1>1, <1>3, MinIsMember, StoreAssumption
  <2>2. PICK r \in aRecords : r.hostname = h /\ r.ipaddress = Min(AddressesOf(h))
    BY <2>1 DEF AddressesOf
  <2>3. r = [ipaddress |-> Min(AddressesOf(h)), hostname |-> h]
    BY <2>2 DEF StoreTypeOK, ARecord
  <2>. QED
    BY <1>1, <1>3, <2>1, <2>2, <2>3, StoreAssumption DEF GetIPAddress
<1>. QED
  BY <1>2, <1>3

\* The rows are numbered, and hold addresses.
LEMMA RowFacts ==
  /\ Row \subseteq Nat
  /\ \A i \in Row : Pool[i].ipaddress \in IP /\ Pool[i].cidr \in PoolCidr
<1>1. Row = 1..Len(Pool)
  BY StoreAssumption DEF Row
<1>. DEFINE R == [ipaddress : IP, cidr : PoolCidr]
<1>2. \A i \in 1..Len(Pool) : Pool[i] \in R
  <2>1. Pool \in Seq(R)
    BY StoreAssumption
  <2>. HIDE DEF R
  <2>. QED
    BY <2>1
<1>. QED
  BY <1>1, <1>2

\* Both allocating calls take an available row of the address they answer.
LEMMA NextRow ==
  ASSUME NEW c, CanAllocateNext(c)
  PROVE  \E i \in Row : /\ i = Min(AvailableIn(c))
                       /\ status[i] = AVAILABLE
                       /\ Pool[i].cidr = c
                       /\ Pool[i].ipaddress = NextAddress(c)
<1>1. AvailableIn(c) # {} /\ AvailableIn(c) \subseteq Row
  BY DEF CanAllocateNext, AvailableIn
<1>2. Min(AvailableIn(c)) \in AvailableIn(c)
  BY <1>1, RowFacts, MinIsMember
<1>. QED
  BY <1>2 DEF AvailableIn, NextAddress

LEMMA AskedRow ==
  ASSUME NEW c, NEW ip, CanAllocate(c, ip)
  PROVE  \E i \in Row : /\ i = Min(AvailableAt(c, ip))
                       /\ status[i] = AVAILABLE
                       /\ Pool[i].ipaddress = ip
<1>1. AvailableAt(c, ip) # {} /\ AvailableAt(c, ip) \subseteq Row
  BY DEF CanAllocate, AvailableAt, AvailableIn
<1>2. Min(AvailableAt(c, ip)) \in AvailableAt(c, ip)
  BY <1>1, RowFacts, MinIsMember
<1>. QED
  BY <1>2 DEF AvailableAt, AvailableIn

-----------------------------------------------------------------------------
(* The updates of the store keep the types of its tables.                  *)

LEMMA SetStatusType ==
  ASSUME StoreTypeOK, NEW rows, NEW s \in {ALLOCATED, AVAILABLE}, SetStatus(rows, s)
  PROVE  status' \in [Row -> {ALLOCATED, AVAILABLE}]
BY DEF StoreTypeOK, SetStatus

LEMMA CreateARecordType ==
  ASSUME StoreTypeOK, NEW h \in Host, NEW ip \in IP, NEW ok, CreateARecord(h, ip, ok)
  PROVE  aRecords' \subseteq ARecord
BY DEF StoreTypeOK, CreateARecord, WithRecord, ARecord

-----------------------------------------------------------------------------
(* The calls of the Manager.                                               *)

CallInv ==
  /\ status \in [Row -> {ALLOCATED, AVAILABLE}]
  /\ Reserved

\* Allocating an available row of an address reserves the address.
LEMMA AllocatingReserves ==
  ASSUME SoundPool, CallInv, NEW i \in Row, SetStatus({i}, ALLOCATED),
         granted' = granted \cup {Pool[i].ipaddress}
  PROVE  CallInv'
<1>1. status' \in [Row -> {ALLOCATED, AVAILABLE}]
  BY DEF CallInv, SetStatus
<1>2. ASSUME NEW j \in Row, Pool[j].ipaddress \in granted'
      PROVE  status'[j] = ALLOCATED
  <2>1. CASE Pool[j].ipaddress = Pool[i].ipaddress
    <3>1. j = i
      BY <2>1 DEF SoundPool
    <3>. QED
      BY <3>1 DEF SetStatus
  <2>2. CASE Pool[j].ipaddress # Pool[i].ipaddress
    BY <1>2, <2>2 DEF CallInv, Reserved, SetStatus
  <2>. QED
    BY <2>1, <2>2
<1>. QED
  BY <1>1, <1>2 DEF CallInv, Reserved

\* Releasing an address frees rows of that address alone.
LEMMA ReleasingKeeps ==
  ASSUME CallInv, NEW ip \in IP, CallReleaseIPAddress(ip)
  PROVE  CallInv'
<1>1. granted' = granted \ {ip}
  BY DEF CallReleaseIPAddress
<1>2. status' = status \/ SetStatus({i \in Row : Pool[i].ipaddress = ip}, AVAILABLE)
  BY DEF CallReleaseIPAddress, ReleaseIPAddress, ReleaseIP
<1>3. CASE status' = status
  BY <1>1, <1>3 DEF CallInv, Reserved
<1>4. CASE SetStatus({i \in Row : Pool[i].ipaddress = ip}, AVAILABLE)
  BY <1>1, <1>4 DEF CallInv, Reserved, SetStatus
<1>. QED
  BY <1>2, <1>3, <1>4

LEMMA CallInductive ==
  ASSUME SoundPool, CallInv, [CallNext]_callVars
  PROVE  CallInv'
<1>1. ASSUME NEW c \in Cidr, CallGetNextIPAddress(c)
      PROVE  CallInv'
  <2>1. PICK i \in Row : i = Min(AvailableIn(c)) /\ Pool[i].ipaddress = NextAddress(c)
    BY <1>1, NextRow DEF CallGetNextIPAddress
  <2>2. SetStatus({i}, ALLOCATED) /\ granted' = granted \cup {Pool[i].ipaddress}
    BY <1>1, <2>1 DEF CallGetNextIPAddress, GetNextIPAddress, SoundPool
  <2>. QED
    BY <2>2, AllocatingReserves
<1>2. ASSUME NEW c \in Cidr, NEW ip \in IP, CallAllocateIPAddress(c, ip)
      PROVE  CallInv'
  <2>1. PICK i \in Row : i = Min(AvailableAt(c, ip)) /\ Pool[i].ipaddress = ip
    BY <1>2, AskedRow DEF CallAllocateIPAddress
  <2>2. SetStatus({i}, ALLOCATED) /\ granted' = granted \cup {Pool[i].ipaddress}
    BY <1>2, <2>1 DEF CallAllocateIPAddress, AllocateIPAddress
  <2>. QED
    BY <2>2, AllocatingReserves
<1>3. ASSUME NEW ip \in IP, CallReleaseIPAddress(ip)
      PROVE  CallInv'
  BY <1>3, ReleasingKeeps
<1>4. ASSUME UNCHANGED <<status, granted>>
      PROVE  CallInv'
  BY <1>4 DEF CallInv, Reserved
<1>5. ASSUME NEW h \in Host, NEW ip \in IP, CallCreateARecord(h, ip) \/ CallDeleteARecord(h, ip)
      PROVE  CallInv'
  BY <1>4, <1>5 DEF CallCreateARecord, CallDeleteARecord
<1>. QED
  BY <1>1, <1>2, <1>3, <1>4, <1>5 DEF CallNext, callVars

\* Whatever calls are made and in whatever order, both allocating calls answer
\* only addresses that nobody has been given and not given back.
THEOREM HandedOutStaysReserved ==
  ASSUME SoundPool
  PROVE  CallSpec => []Reserved
<1>1. CallInit => CallInv
  BY DEF CallInit, CallInv, Reserved, StoreInit
<1>2. CallInv /\ [CallNext]_callVars => CallInv'
  BY CallInductive
<1>. QED
  BY <1>1, <1>2, PTL DEF CallSpec, CallInv

=============================================================================
