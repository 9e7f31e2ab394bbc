------------------------- MODULE IPAMControllerProofs -------------------------
(***************************************************************************)
(* Theorems about the request loop, for any hosts, addresses, ranges and   *)
(* resources and any number of responses under way.                        *)
(***************************************************************************)
EXTENDS IPAMController, ManagerCallsProofs

-----------------------------------------------------------------------------
(* Lemmas about the operators of the model.                                *)

\* The bag of waiting responses gains what is added, and loses at most what is
\* taken.
LEMMA BagGains ==
  ASSUME NEW B, NEW x
  PROVE  BagToSet(BagAdd(B, x)) = BagToSet(B) \cup {x}
BY DEF BagToSet, BagAdd

LEMMA BagLoses ==
  ASSUME NEW B, NEW x
  PROVE  BagToSet(BagRemove(B, x)) \in {BagToSet(B), BagToSet(B) \ {x}}
<1>1. CASE x \notin DOMAIN B
  BY <1>1 DEF BagToSet, BagRemove
<1>2. CASE x \in DOMAIN B /\ B[x] = 1
  BY <1>2 DEF BagToSet, BagRemove
<1>3. CASE x \in DOMAIN B /\ B[x] # 1
  BY <1>3 DEF BagToSet, BagRemove
<1>. QED
  BY <1>1, <1>2, <1>3

-----------------------------------------------------------------------------
(* Type correctness, for every pool: overlapping ranges, IPv6 addresses    *)
(* and failing statements included.                                        *)

LEMMA RespondType ==
  ASSUME CtlrTypeOK, NEW req \in Request, NEW ip \in IP \cup {NoIP},
         NEW ok \in BOOLEAN, Respond(req, ip, ok)
  PROVE  BagToSet(inFlight') \subseteq Response
<1>1. [req |-> req, ip |-> ip, ok |-> ok] \in Response
  BY DEF Response
<1>. QED
  BY <1>1, BagGains DEF CtlrTypeOK, Respond

LEMMA HandleType ==
  ASSUME CtlrTypeOK, NEW req \in Request, Handle(req)
  PROVE  CtlrTypeOK'
<1>. USE DEF CtlrTypeOK
<1>0. req.host \in Host /\ req.ip \in IP \cup {NoIP}
  BY DEF Request
<1>1. CASE GrantAsked(req)
  <2>1. req.ip \in IP
    BY <1>0, <1>1 DEF GrantAsked
  <2>2. status' \in [Row -> {ALLOCATED, AVAILABLE}]
    BY <1>1, SetStatusType DEF GrantAsked, AllocateIPAddress
  <2>3. aRecords' \subseteq ARecord
    BY <1>0, <1>1, <2>1, CreateARecordType DEF GrantAsked
  <2>4. BagToSet(inFlight') \subseteq Response
    BY <1>0, <1>1, RespondType DEF GrantAsked
  <2>. QED
    BY <2>2, <2>3, <2>4 DEF StoreTypeOK
<1>2. CASE RefuseAsked(req)
  BY <1>2, RespondType DEF RefuseAsked, storeVars, StoreTypeOK
<1>3. CASE AnswerKnown(req)
  BY <1>0, <1>3, RespondType, GetIPAddressFinds DEF AnswerKnown, storeVars, StoreTypeOK
<1>4. CASE GrantNext(req)
  <2>1. NextAddress(req.cidr) \in IP
    BY <1>4, NextRow, RowFacts DEF GrantNext
  <2>2. status' \in [Row -> {ALLOCATED, AVAILABLE}]
    BY <1>4, SetStatusType DEF GrantNext, GetNextIPAddress, StoreTypeOK
  <2>3. aRecords' \subseteq ARecord
    BY <1>0, <1>4, <2>1, CreateARecordType DEF GrantNext
  <2>4. BagToSet(inFlight') \subseteq Response
    BY <1>4, <2>1, RespondType DEF GrantNext
  <2>. QED
    BY <2>2, <2>3, <2>4 DEF StoreTypeOK
<1>5. CASE DropExhausted(req)
  BY <1>5 DEF DropExhausted, ctlrVars, StoreTypeOK
<1>6. CASE HandleDelete(req)
  <2>1. status' \in [Row -> {ALLOCATED, AVAILABLE}]
    BY <1>6, SetStatusType DEF HandleDelete, ReleaseIPAddress, ReleaseIP, storeVars,
                                        StoreTypeOK
  <2>2. aRecords' \subseteq ARecord
    BY <1>6 DEF HandleDelete, DeleteARecord, WithoutRecord, storeVars, StoreTypeOK
  <2>3. BagToSet(inFlight') \subseteq Response
    BY <1>6, RespondType DEF HandleDelete
  <2>. QED
    BY <2>1, <2>2, <2>3 DEF StoreTypeOK
<1>. QED
  BY <1>1, <1>2, <1>3, <1>4, <1>5, <1>6 DEF Handle

\* The tables and the responses under way keep their types, whatever requests
\* arrive and in whatever order the responses leave.
THEOREM TypeCorrect == CtlrSpec => []CtlrTypeOK
<1>1. CtlrInit => CtlrTypeOK
  BY DEF CtlrInit, StoreInit, CtlrTypeOK, StoreTypeOK, BagToSet, EmptyBag, SetToBag
<1>2. CtlrTypeOK /\ [CtlrNext]_ctlrVars => CtlrTypeOK'
  <2>. SUFFICES ASSUME CtlrTypeOK, [CtlrNext]_ctlrVars PROVE CtlrTypeOK'
    OBVIOUS
  <2>1. CASE Serve
    BY <2>1, HandleType DEF Serve
  <2>2. CASE Deliver
    BY <2>2, BagLoses DEF Deliver, Receive, CtlrTypeOK, StoreTypeOK, storeVars
  <2>3. CASE UNCHANGED ctlrVars
    BY <2>3 DEF ctlrVars, CtlrTypeOK, StoreTypeOK
  <2>. QED
    BY <2>1, <2>2, <2>3 DEF CtlrNext
<1>. QED
  BY <1>1, <1>2, PTL DEF CtlrSpec

-----------------------------------------------------------------------------
(* Ownership, when the pool is sound.  Neither of the two properties of    *)
(* the tables is inductive alone: that a granted address has no record     *)
(* yet needs TablesAgree, and that a released address has no other record  *)
(* needs ExclusiveOwner.                                                   *)

\* Every announcement names an address, never the empty string.
Announcing ==
  \A resp \in BagToSet(inFlight) :
    resp.req.op = CREATE /\ resp.ok => resp.ip \in IP

OwnerInv == CtlrTypeOK /\ TablesAgree /\ ExclusiveOwner /\ Announcing

\* Taking an available row for a host keeps the tables in agreement.
LEMMA Grants ==
  ASSUME SoundPool, OwnerInv,
         NEW i \in Row, NEW h \in Host, status[i] = AVAILABLE,
         SetStatus({i}, ALLOCATED),
         aRecords' = aRecords \cup {[ipaddress |-> Pool[i].ipaddress, hostname |-> h]}
  PROVE  /\ \A r \in aRecords : r.ipaddress # Pool[i].ipaddress
         /\ TablesAgree' /\ ExclusiveOwner'
<1>1. \A r \in aRecords : r.ipaddress # Pool[i].ipaddress
  BY DEF OwnerInv, TablesAgree, ALLOCATED, AVAILABLE
<1>2. ExclusiveOwner'
  BY <1>1 DEF OwnerInv, ExclusiveOwner
<1>3. \A j \in Row : status'[j] = IF j = i THEN ALLOCATED ELSE status[j]
  BY DEF SetStatus
<1>4. \A j \in Row : Pool[j].ipaddress = Pool[i].ipaddress => j = i
  BY DEF SoundPool
<1>5. TablesAgree'
  <2>1. \A j \in Row : status'[j] = ALLOCATED <=>
                        \E r \in aRecords' : r.ipaddress = Pool[j].ipaddress
    <3>. TAKE j \in Row
    <3>1. CASE j = i
      <4>1. status'[j] = ALLOCATED
        BY <1>3, <3>1
      <4>2. [ipaddress |-> Pool[i].ipaddress, hostname |-> h] \in aRecords'
        OBVIOUS
      <4>3. \E r \in aRecords' : r.ipaddress = Pool[j].ipaddress
        BY <3>1, <4>2
      <4>. QED
        BY <4>1, <4>3
    <3>2. CASE j # i
      BY <1>3, <1>4, <3>2 DEF OwnerInv, TablesAgree
    <3>. QED
      BY <3>1, <3>2
  <2>2. \A r \in aRecords' : \E j \in Row : Pool[j].ipaddress = r.ipaddress
    BY DEF OwnerInv, TablesAgree
  <2>. QED
    BY <2>1, <2>2 DEF TablesAgree
<1>. QED
  BY <1>1, <1>2, <1>5

\* What the two granting alternatives do, for a sound pool.
LEMMA GrantStep ==
  ASSUME SoundPool, NEW req \in Request, GrantAsked(req) \/ GrantNext(req)
  PROVE  \E i \in Row :
           /\ status[i] = AVAILABLE
           /\ SetStatus({i}, ALLOCATED)
           /\ aRecords' = aRecords \cup
                {[ipaddress |-> Pool[i].ipaddress, hostname |-> req.host]}
           /\ Respond(req, Pool[i].ipaddress, TRUE)
           /\ req.op = CREATE
           /\ \/ req.ip # NoIP /\ Pool[i].ipaddress = req.ip
              \/ req.ip = NoIP /\ Pool[i].cidr = req.cidr
<1>1. CASE GrantAsked(req)
  <2>1. PICK i \in Row : /\ i = Min(AvailableAt(req.cidr, req.ip))
                         /\ status[i] = AVAILABLE
                         /\ Pool[i].ipaddress = req.ip
    BY <1>1, AskedRow DEF GrantAsked
  <2>2. SetStatus({i}, ALLOCATED)
    BY <1>1, <2>1 DEF GrantAsked, AllocateIPAddress
  <2>3. req.ip \in IPv4
    BY <2>1 DEF SoundPool
  <2>4. aRecords' = aRecords \cup {[ipaddress |-> req.ip, hostname |-> req.host]}
    BY <1>1, <2>3 DEF GrantAsked, CreateARecord, WithRecord, SoundPool
  <2>. QED
    BY <1>1, <2>1, <2>2, <2>4 DEF GrantAsked
<1>2. CASE GrantNext(req)
  <2>1. PICK i \in Row : /\ i = Min(AvailableIn(req.cidr))
                         /\ status[i] = AVAILABLE
                         /\ Pool[i].cidr = req.cidr
                         /\ Pool[i].ipaddress = NextAddress(req.cidr)
    BY <1>2, NextRow DEF GrantNext
  <2>2. SetStatus({i}, ALLOCATED)
    BY <1>2, <2>1 DEF GrantNext, GetNextIPAddress, SoundPool
  <2>3. NextAddress(req.cidr) \in IPv4
    BY <2>1 DEF SoundPool
  <2>4. aRecords' = aRecords \cup
          {[ipaddress |-> NextAddress(req.cidr), hostname |-> req.host]}
    BY <1>2, <2>3 DEF GrantNext, CreateARecord, WithRecord, SoundPool
  <2>. QED
    BY <1>2, <2>1, <2>2, <2>4 DEF GrantNext
<1>. QED
  BY <1>1, <1>2

\* What DELETE does to a host that has an address, for a sound pool.
LEMMA DeleteStep ==
  ASSUME SoundPool, OwnerInv, NEW req \in Request, HandleDelete(req),
         NEW ip, ip = GetIPAddress(req.host), ip # NoIP
  PROVE  /\ ip \in IP
         /\ [ipaddress |-> ip, hostname |-> req.host] \in aRecords
         /\ SetStatus({i \in Row : Pool[i].ipaddress = ip}, AVAILABLE)
         /\ aRecords' = aRecords \ {[ipaddress |-> ip, hostname |-> req.host]}
<1>1. req.host \in Host
  BY DEF Request
<1>2. ip \in IP /\ [ipaddress |-> ip, hostname |-> req.host] \in aRecords
  BY <1>1, GetIPAddressFinds DEF OwnerInv, CtlrTypeOK
<1>3. \E i \in Row : Pool[i].ipaddress = ip
  BY <1>2 DEF OwnerInv, TablesAgree
<1>4. ip \in IPv4
  BY <1>3 DEF SoundPool
<1>. QED
  BY <1>2, <1>4 DEF HandleDelete, ReleaseIPAddress, ReleaseIP, DeleteARecord,
                      WithoutRecord, SoundPool

\* Releasing the address of a record and deleting the record keeps the tables
\* in agreement: there is no other record of the address.
LEMMA Releases ==
  ASSUME OwnerInv, NEW ip, NEW h, [ipaddress |-> ip, hostname |-> h] \in aRecords,
         SetStatus({i \in Row : Pool[i].ipaddress = ip}, AVAILABLE),
         aRecords' = aRecords \ {[ipaddress |-> ip, hostname |-> h]}
  PROVE  /\ \A r \in aRecords' : r.ipaddress # ip
         /\ TablesAgree' /\ ExclusiveOwner'
<1>1. \A r \in aRecords' : r.ipaddress # ip
  <2>. SUFFICES ASSUME NEW r \in aRecords, r.ipaddress = ip
               PROVE  r = [ipaddress |-> ip, hostname |-> h]
    OBVIOUS
  <2>1. r.hostname = h
    BY DEF OwnerInv, ExclusiveOwner
  <2>2. r \in [ipaddress : IP, hostname : Host]
    BY DEF OwnerInv, CtlrTypeOK, StoreTypeOK, ARecord
  <2>. QED
    BY <2>1, <2>2
<1>2. \A r \in aRecords : r.ipaddress # ip => r \in aRecords'
  OBVIOUS
<1>3. ExclusiveOwner'
  BY DEF OwnerInv, ExclusiveOwner
<1>4. \A j \in Row : status'[j] = IF Pool[j].ipaddress = ip THEN AVAILABLE ELSE status[j]
  BY DEF SetStatus
<1>5. TablesAgree'
  <2>1. \A j \in Row : status'[j] = ALLOCATED <=>
                        \E r \in aRecords' : r.ipaddress = Pool[j].ipaddress
    <3>. TAKE j \in Row
    <3>1. CASE Pool[j].ipaddress = ip
      BY <1>1, <1>4, <3>1 DEF ALLOCATED, AVAILABLE
    <3>2. CASE Pool[j].ipaddress # ip
      BY <1>2, <1>4, <3>2 DEF OwnerInv, TablesAgree
    <3>. QED
      BY <3>1, <3>2
  <2>2. \A r \in aRecords' : \E j \in Row : Pool[j].ipaddress = r.ipaddress
    BY DEF OwnerInv, TablesAgree
  <2>. QED
    BY <2>1, <2>2 DEF TablesAgree
<1>. QED
  BY <1>1, <1>3, <1>5

\* A response that carries an address, or that announces none, keeps Announcing.
LEMMA RespondAnnounces ==
  ASSUME OwnerInv, NEW req, NEW ip, NEW ok, Respond(req, ip, ok),
         req.op = CREATE /\ ok => ip \in IP
  PROVE  Announcing'
<1>1. BagToSet(inFlight') =
        BagToSet(inFlight) \cup {[req |-> req, ip |-> ip, ok |-> ok]}
  BY BagGains DEF Respond
<1>. QED
  BY <1>1 DEF OwnerInv, Announcing

LEMMA HandleOwner ==
  ASSUME SoundPool, OwnerInv, NEW req \in Request, Handle(req)
  PROVE  OwnerInv'
<1>0. CtlrTypeOK'
  BY HandleType DEF OwnerInv
<1>h. req.host \in Host
  BY DEF Request
<1>1. CASE GrantAsked(req) \/ GrantNext(req)
  <2>1. PICK i \in Row :
          /\ status[i] = AVAILABLE
          /\ SetStatus({i}, ALLOCATED)
          /\ aRecords' = aRecords \cup
               {[ipaddress |-> Pool[i].ipaddress, hostname |-> req.host]}
          /\ Respond(req, Pool[i].ipaddress, TRUE)
    BY <1>1, GrantStep
  <2>2. TablesAgree' /\ ExclusiveOwner'
    BY <1>h, <2>1, Grants
  <2>3. Announcing'
    BY <2>1, RowFacts, RespondAnnounces
  <2>. QED
    BY <1>0, <2>2, <2>3 DEF OwnerInv
<1>2. CASE RefuseAsked(req)
  <2>1. Announcing'
    BY <1>2, RespondAnnounces DEF RefuseAsked
  <2>. QED
    BY <1>0, <1>2, <2>1
    DEF RefuseAsked, storeVars, OwnerInv, TablesAgree, ExclusiveOwner
<1>3. CASE AnswerKnown(req)
  <2>1. GetIPAddress(req.host) \in IP
    BY <1>3, <1>h, GetIPAddressFinds DEF AnswerKnown, OwnerInv, CtlrTypeOK
  <2>2. Announcing'
    BY <1>3, <2>1, RespondAnnounces DEF AnswerKnown
  <2>. QED
    BY <1>0, <1>3, <2>2
    DEF AnswerKnown, storeVars, OwnerInv, TablesAgree, ExclusiveOwner
<1>4. CASE DropExhausted(req)
  BY <1>0, <1>4
  DEF DropExhausted, ctlrVars, OwnerInv, TablesAgree, ExclusiveOwner, Announcing
<1>5. CASE HandleDelete(req)
  <2>1. Announcing'
    BY <1>5, RespondAnnounces DEF HandleDelete, CREATE, DELETE
  <2>2. CASE GetIPAddress(req.host) # NoIP
    <3>1. PICK ip : ip = GetIPAddress(req.host)
      OBVIOUS
    <3>2. /\ [ipaddress |-> ip, hostname |-> req.host] \in aRecords
          /\ SetStatus({i \in Row : Pool[i].ipaddress = ip}, AVAILABLE)
          /\ aRecords' = aRecords \ {[ipaddress |-> ip, hostname |-> req.host]}
      BY <1>5, <2>2, <3>1, DeleteStep
    <3>3. TablesAgree' /\ ExclusiveOwner'
      BY <3>2, Releases
    <3>. QED
      BY <1>0, <2>1, <3>3 DEF OwnerInv
  <2>3. CASE GetIPAddress(req.host) = NoIP
    BY <1>0, <1>5, <2>1, <2>3
    DEF HandleDelete, storeVars, OwnerInv, TablesAgree, ExclusiveOwner
  <2>. QED
    BY <2>2, <2>3
<1>. QED
  BY <1>1, <1>2, <1>3, <1>4, <1>5 DEF Handle

LEMMA DeliverOwner ==
  ASSUME OwnerInv, Deliver
  PROVE  OwnerInv'
<1>1. BagToSet(inFlight') \subseteq BagToSet(inFlight)
  BY BagLoses DEF Deliver, Receive
<1>. QED
  BY <1>1 DEF Deliver, storeVars, OwnerInv, CtlrTypeOK, StoreTypeOK, TablesAgree,
              ExclusiveOwner, Announcing

\* The inductive invariant of the request loop.
THEOREM Ownership == ASSUME SoundPool PROVE CtlrSpec => []OwnerInv
<1>1. CtlrInit => OwnerInv
  BY DEF CtlrInit, StoreInit, OwnerInv, CtlrTypeOK, StoreTypeOK, TablesAgree,
         ExclusiveOwner, Announcing, BagToSet, EmptyBag, SetToBag, ALLOCATED, AVAILABLE
<1>2. OwnerInv /\ [CtlrNext]_ctlrVars => OwnerInv'
  <2>. SUFFICES ASSUME OwnerInv, [CtlrNext]_ctlrVars PROVE OwnerInv'
    OBVIOUS
  <2>1. CASE Serve
    BY <2>1, HandleOwner DEF Serve
  <2>2. CASE Deliver
    BY <2>2, DeliverOwner
  <2>3. CASE UNCHANGED ctlrVars
    BY <2>3 DEF ctlrVars, OwnerInv, CtlrTypeOK, StoreTypeOK, TablesAgree,
                ExclusiveOwner, Announcing
  <2>. QED
    BY <2>1, <2>2, <2>3 DEF CtlrNext
<1>. QED
  BY <1>1, <1>2, PTL DEF CtlrSpec

\* No address is ever recorded for two hosts, when no address is in two rows.
THEOREM OwnerIsExclusive == ASSUME SoundPool PROVE CtlrSpec => []ExclusiveOwner
<1>1. OwnerInv => ExclusiveOwner
  BY DEF OwnerInv
<1>. QED
  BY <1>1, Ownership, PTL

\* An address is allocated exactly while it is recorded: none leaks.
THEOREM TablesStayInAgreement == ASSUME SoundPool PROVE CtlrSpec => []TablesAgree
<1>1. OwnerInv => TablesAgree
  BY DEF OwnerInv
<1>. QED
  BY <1>1, Ownership, PTL

-----------------------------------------------------------------------------
(* Refinement of the abstract allocator.                                   *)

owner == [ip \in IP |-> Holder(aRecords, ip)]

\* The holder of an address, once its records are known to name one host.
LEMMA HolderFacts ==
  ASSUME NEW records, NEW ip,
         \A r, s \in records : r.ipaddress = s.ipaddress => r.hostname = s.hostname
  PROVE  /\ \A r \in records : r.ipaddress = ip => Holder(records, ip) = r.hostname
         /\ (\A r \in records : r.ipaddress # ip) => Holder(records, ip) = NoHost
<1>1. ASSUME NEW r \in records, r.ipaddress = ip
      PROVE  Holder(records, ip) = r.hostname
  <2>1. (CHOOSE s \in records : s.ipaddress = ip) \in records
        /\ (CHOOSE s \in records : s.ipaddress = ip).ipaddress = ip
    BY <1>1
  <2>. QED
    BY <1>1, <2>1 DEF Holder
<1>2. (\A r \in records : r.ipaddress # ip) => Holder(records, ip) = NoHost
  BY DEF Holder
<1>. QED
  BY <1>1, <1>2

\* An address none of whose records changes keeps its holder.
LEMMA HolderStays ==
  ASSUME NEW R, NEW S, NEW ip,
         \A r, s \in R : r.ipaddress = s.ipaddress => r.hostname = s.hostname,
         \A r, s \in S : r.ipaddress = s.ipaddress => r.hostname = s.hostname,
         \A r : r.ipaddress = ip => (r \in R <=> r \in S)
  PROVE  Holder(R, ip) = Holder(S, ip)
<1>1. CASE \E r \in R : r.ipaddress = ip
  <2>1. PICK r \in R : r.ipaddress = ip
    BY <1>1
  <2>2. r \in S
    BY <2>1
  <2>3. Holder(R, ip) = r.hostname /\ Holder(S, ip) = r.hostname
    BY <2>1, <2>2, HolderFacts
  <2>. QED
    BY <2>3
<1>2. CASE \A r \in R : r.ipaddress # ip
  <2>1. \A r \in S : r.ipaddress # ip
    BY <1>2
  <2>. QED
    BY <1>2, <2>1, HolderFacts
<1>. QED
  BY <1>1, <1>2

\* What a response adds to the announcements.
LEMMA AnnouncedGains ==
  ASSUME NEW req, NEW ip, NEW ok, Respond(req, ip, ok)
  PROVE  Announced' = IF req.op = CREATE /\ ok
                      THEN Announced \cup {<<req.host, ip>>} ELSE Announced
<1>. DEFINE new == [req |-> req, ip |-> ip, ok |-> ok]
            Says(x, p) == x.req.op = CREATE /\ x.ok /\ p = <<x.req.host, x.ip>>
<1>1. BagToSet(inFlight') = BagToSet(inFlight) \cup {new}
  BY BagGains DEF Respond
<1>2. \A p : p \in Announced <=> \E x \in BagToSet(inFlight) : Says(x, p)
  BY DEF Announced
<1>3. \A p : p \in Announced' <=> \E x \in BagToSet(inFlight') : Says(x, p)
  BY DEF Announced
<1>4. \A p : p \in Announced' <=> p \in Announced \/ Says(new, p)
  <2>. HIDE DEF new, Says
  <2>. QED
    BY <1>1, <1>2, <1>3
<1>5. \A p : Says(new, p) <=> req.op = CREATE /\ ok /\ p = <<req.host, ip>>
  OBVIOUS
<1>. HIDE DEF new, Says
<1>6. CASE req.op = CREATE /\ ok
  <2>1. \A p : p \in Announced' <=> p \in Announced \cup {<<req.host, ip>>}
    BY <1>4, <1>5, <1>6
  <2>. QED
    BY <1>6, <2>1
<1>7. CASE ~(req.op = CREATE /\ ok)
  <2>1. \A p : p \in Announced' <=> p \in Announced
    BY <1>4, <1>5, <1>7
  <2>. QED
    BY <1>7, <2>1
<1>. QED
  BY <1>6, <1>7

\* The abstract step of a granting request.
LEMMA GrantAssigns ==
  ASSUME SoundPool, OwnerInv, OwnerInv', NEW req \in Request,
         GrantAsked(req) \/ GrantNext(req)
  PROVE  \E ip \in IP : Allocator!Assign(req.host, ip)
<1>1. PICK i \in Row :
        /\ status[i] = AVAILABLE
        /\ SetStatus({i}, ALLOCATED)
        /\ aRecords' = aRecords \cup
             {[ipaddress |-> Pool[i].ipaddress, hostname |-> req.host]}
        /\ Respond(req, Pool[i].ipaddress, TRUE)
        /\ req.op = CREATE
  BY GrantStep
<1>2. PICK ip \in IP : ip = Pool[i].ipaddress
  BY RowFacts
<1>3. \A r \in aRecords : r.ipaddress # ip
  BY <1>1, <1>2, Grants DEF Request
<1>4. owner[ip] = NoHost
  BY <1>3, HolderFacts DEF owner, OwnerInv, ExclusiveOwner
<1>5. ASSUME NEW a \in IP
      PROVE  owner'[a] = IF a = ip THEN req.host ELSE owner[a]
  <2>1. CASE a = ip
    <3>1. [ipaddress |-> ip, hostname |-> req.host] \in aRecords'
      BY <1>1, <1>2
    <3>. QED
      BY <2>1, <3>1, HolderFacts DEF owner, OwnerInv, ExclusiveOwner
  <2>2. CASE a # ip
    <3>1. \A r : r.ipaddress = a => (r \in aRecords <=> r \in aRecords')
      BY <1>1, <1>2, <2>2
    <3>2. Holder(aRecords, a) = Holder(aRecords', a)
      BY <3>1, HolderStays DEF OwnerInv, ExclusiveOwner
    <3>. QED
      BY <2>2, <3>2 DEF owner
  <2>. QED
    BY <2>1, <2>2
<1>6. owner' = [owner EXCEPT ![ip] = req.host]
  BY <1>5 DEF owner
<1>7. Announced' = Announced \cup {<<req.host, ip>>}
  BY <1>1, <1>2, AnnouncedGains
<1>. QED
  BY <1>4, <1>6, <1>7 DEF Allocator!Assign, owner

\* The abstract step of a DELETE from a host that has an address.
LEMMA DeleteFrees ==
  ASSUME SoundPool, OwnerInv, OwnerInv', NEW req \in Request, HandleDelete(req),
         GetIPAddress(req.host) # NoIP
  PROVE  \E ip \in IP : Allocator!Free(req.host, ip)
<1>1. PICK ip : ip = GetIPAddress(req.host)
  OBVIOUS
<1>2. /\ ip \in IP
      /\ [ipaddress |-> ip, hostname |-> req.host] \in aRecords
      /\ SetStatus({i \in Row : Pool[i].ipaddress = ip}, AVAILABLE)
      /\ aRecords' = aRecords \ {[ipaddress |-> ip, hostname |-> req.host]}
  BY <1>1, DeleteStep
<1>3. owner[ip] = req.host
  BY <1>2, HolderFacts DEF owner, OwnerInv, ExclusiveOwner
<1>4. ASSUME NEW a \in IP
      PROVE  owner'[a] = IF a = ip THEN NoHost ELSE owner[a]
  <2>1. CASE a = ip
    <3>1. \A r \in aRecords' : r.ipaddress # a
      BY <1>2, <2>1, Releases
    <3>. QED
      BY <2>1, <3>1, HolderFacts DEF owner, OwnerInv, ExclusiveOwner
  <2>2. CASE a # ip
    <3>1. \A r : r.ipaddress = a => (r \in aRecords <=> r \in aRecords')
      BY <1>2, <2>2
    <3>2. Holder(aRecords, a) = Holder(aRecords', a)
      BY <3>1, HolderStays DEF OwnerInv, ExclusiveOwner
    <3>. QED
      BY <2>2, <3>2 DEF owner
  <2>. QED
    BY <2>1, <2>2
<1>5. owner' = [owner EXCEPT ![ip] = NoHost]
  BY <1>4 DEF owner
<1>6. Announced' = Announced
  BY AnnouncedGains DEF HandleDelete, CREATE, DELETE
<1>. QED
  BY <1>2, <1>3, <1>5, <1>6 DEF Allocator!Free, owner

\* Every handled request is a step of the allocator, or none.
LEMMA HandleRefines ==
  ASSUME SoundPool, OwnerInv, OwnerInv', NEW req \in Request, Handle(req)
  PROVE  Allocator!Next \/ UNCHANGED Allocator!vars
<1>h. req.host \in Host
  BY DEF Request
<1>1. CASE GrantAsked(req) \/ GrantNext(req)
  BY <1>h, <1>1, GrantAssigns DEF Allocator!Next
<1>2. CASE RefuseAsked(req)
  <2>1. Announced' = Announced
    BY <1>2, AnnouncedGains DEF RefuseAsked
  <2>2. aRecords' = aRecords
    BY <1>2 DEF RefuseAsked, storeVars
  <2>. QED
    BY <2>1, <2>2 DEF Allocator!vars
<1>3. CASE AnswerKnown(req)
  <2>1. PICK ip \in IP : ip = GetIPAddress(req.host)
                         /\ [ipaddress |-> ip, hostname |-> req.host] \in aRecords
    BY <1>h, <1>3, GetIPAddressFinds DEF AnswerKnown, OwnerInv, CtlrTypeOK
  <2>2. owner[ip] = req.host
    BY <2>1, HolderFacts DEF owner, OwnerInv, ExclusiveOwner
  <2>3. Announced' = Announced \cup {<<req.host, ip>>}
    BY <1>3, <2>1, AnnouncedGains DEF AnswerKnown
  <2>4. aRecords' = aRecords
    BY <1>3 DEF AnswerKnown, storeVars
  <2>5. Allocator!Announce(req.host, ip)
    BY <2>2, <2>3, <2>4 DEF Allocator!Announce, owner
  <2>. QED
    BY <1>h, <2>5 DEF Allocator!Next
<1>4. CASE DropExhausted(req)
  BY <1>4 DEF DropExhausted, ctlrVars, Allocator!vars, Announced
<1>5. CASE HandleDelete(req) /\ GetIPAddress(req.host) # NoIP
  BY <1>h, <1>5, DeleteFrees DEF Allocator!Next
<1>6. CASE HandleDelete(req) /\ GetIPAddress(req.host) = NoIP
  <2>1. Announced' = Announced
    BY <1>6, AnnouncedGains DEF HandleDelete, CREATE, DELETE
  <2>2. aRecords' = aRecords
    BY <1>6 DEF HandleDelete, storeVars
  <2>. QED
    BY <2>1, <2>2 DEF Allocator!vars
<1>. QED
  BY <1>1, <1>2, <1>3, <1>4, <1>5, <1>6 DEF Handle

\* A response that is received may have been the last one to say what it says.
LEMMA DeliverRefines ==
  ASSUME OwnerInv, Deliver
  PROVE  Allocator!Next \/ UNCHANGED Allocator!vars
<1>1. PICK resp \in BagToSet(inFlight) : Receive(resp)
  BY DEF Deliver
<1>2. BagToSet(inFlight') \in {BagToSet(inFlight), BagToSet(inFlight) \ {resp}}
  BY <1>1, BagLoses DEF Receive
<1>3. aRecords' = aRecords
  BY DEF Deliver, storeVars
<1>4. CASE resp.req.op = CREATE /\ resp.ok
  <2>1. resp.req.host \in Host /\ resp.ip \in IP
    BY <1>1, <1>4 DEF OwnerInv, CtlrTypeOK, Announcing, Response, Request
  <2>2. Announced' \in {Announced, Announced \ {<<resp.req.host, resp.ip>>}}
    <3>. DEFINE Says(x, p) == x.req.op = CREATE /\ x.ok /\ p = <<x.req.host, x.ip>>
    <3>1. \A p : p \in Announced <=> \E x \in BagToSet(inFlight) : Says(x, p)
      BY DEF Announced
    <3>2. \A p : p \in Announced' <=> \E x \in BagToSet(inFlight') : Says(x, p)
      BY DEF Announced
    <3>3. \A p : Says(resp, p) => p = <<resp.req.host, resp.ip>>
      OBVIOUS
    <3>. HIDE DEF Says
    <3>4. \A p : p \in Announced' => p \in Announced
      BY <1>2, <3>1, <3>2
    <3>5. \A p : p \in Announced /\ p # <<resp.req.host, resp.ip>> => p \in Announced'
      BY <1>2, <3>1, <3>2, <3>3
    <3>. QED
      BY <3>4, <3>5
  <2>3. CASE Announced' = Announced
    BY <1>3, <2>3 DEF Allocator!vars
  <2>4. CASE Announced' = Announced \ {<<resp.req.host, resp.ip>>}
    <3>1. Allocator!Arrive(resp.req.host, resp.ip)
      BY <1>3, <2>4 DEF Allocator!Arrive
    <3>. QED
      BY <2>1, <3>1 DEF Allocator!Next
  <2>. QED
    BY <2>2, <2>3, <2>4
<1>5. CASE ~(resp.req.op = CREATE /\ resp.ok)
  <2>1. Announced' = Announced
    <3>. DEFINE Ok(x) == x.req.op = CREATE /\ x.ok
    <3>1. {x \in BagToSet(inFlight') : Ok(x)} = {x \in BagToSet(inFlight) : Ok(x)}
      BY <1>2, <1>5
    <3>. QED
      BY <3>1 DEF Announced
  <2>. QED
    BY <1>3, <2>1 DEF Allocator!vars
<1>. QED
  BY <1>4, <1>5

\* For every sound pool the request loop implements exclusive assignment.
THEOREM LoopImplementsAllocator == ASSUME SoundPool PROVE CtlrSpec => ImplementsAllocator
<1>1. CtlrInit => Allocator!Init
  BY DEF CtlrInit, StoreInit, Allocator!Init, Holder, Announced, BagToSet, EmptyBag, SetToBag
<1>2. OwnerInv /\ OwnerInv' /\ [CtlrNext]_ctlrVars => [Allocator!Next]_(Allocator!vars)
  <2>. SUFFICES ASSUME OwnerInv, OwnerInv', [CtlrNext]_ctlrVars
               PROVE  Allocator!Next \/ UNCHANGED Allocator!vars
    OBVIOUS
  <2>1. CASE Serve
    BY <2>1, HandleRefines DEF Serve
  <2>2. CASE Deliver
    BY <2>2, DeliverRefines
  <2>3. CASE UNCHANGED ctlrVars
    BY <2>3 DEF ctlrVars, Allocator!vars, Announced
  <2>. QED
    BY <2>1, <2>2, <2>3 DEF CtlrNext
<1>. QED
  BY <1>1, <1>2, Ownership, PTL DEF CtlrSpec, ImplementsAllocator, Allocator!Spec

-----------------------------------------------------------------------------
(* Action properties: who is answered, and who loses a record.             *)

\* Bags count.
Counting == \A x \in DOMAIN inFlight : inFlight[x] \in Nat \ {0}

\* A request is answered once, or left unanswered.
LEMMA HandleResponds ==
  ASSUME NEW req, Handle(req)
  PROVE  (\E ip, ok : Respond(req, ip, ok)) \/ UNCHANGED inFlight
BY DEF Handle, GrantAsked, RefuseAsked, AnswerKnown, GrantNext, DropExhausted,
       HandleDelete, ctlrVars

\* What appears is what was added.
LEMMA AddedAppears ==
  ASSUME Counting, NEW req, NEW ip, NEW ok, Respond(req, ip, ok)
  PROVE  /\ Counting'
         /\ [req |-> req, ip |-> ip, ok |-> ok] \in BagToSet(inFlight')
         /\ Appears([req |-> req, ip |-> ip, ok |-> ok])
         /\ \A resp : Appears(resp) => resp = [req |-> req, ip |-> ip, ok |-> ok]
<1>. DEFINE r == [req |-> req, ip |-> ip, ok |-> ok]
<1>1. inFlight' = BagAdd(inFlight, r)
  BY DEF Respond
<1>. HIDE DEF r
<1>2. /\ DOMAIN inFlight' = DOMAIN inFlight \cup {r}
      /\ inFlight'[r] = IF r \in DOMAIN inFlight THEN inFlight[r] + 1 ELSE 1
      /\ \A x \in DOMAIN inFlight : x # r => inFlight'[x] = inFlight[x]
  BY <1>1 DEF BagAdd
<1>3. Counting'
  BY <1>2 DEF Counting
<1>4. r \in BagToSet(inFlight') /\ Appears(r)
  BY <1>2 DEF Counting, Appears, Waiting, BagIn, BagToSet
<1>5. ASSUME NEW resp, resp # r
      PROVE  ~Appears(resp)
  BY <1>2, <1>5 DEF Counting, Appears, Waiting, BagIn, BagToSet
<1>. QED
  BY <1>3, <1>4, <1>5 DEF r

LEMMA NothingAppears ==
  ASSUME Counting, Deliver \/ UNCHANGED inFlight
  PROVE  Counting' /\ \A resp : ~Appears(resp)
<1>1. CASE UNCHANGED inFlight
  BY <1>1 DEF Counting, Appears, Waiting, BagIn, BagToSet
<1>2. CASE Deliver
  <2>1. PICK r \in DOMAIN inFlight : inFlight' = BagRemove(inFlight, r)
    BY <1>2 DEF Deliver, Receive, BagToSet
  <2>2. CASE inFlight[r] = 1
    BY <2>1, <2>2 DEF BagRemove, Counting, Appears, Waiting, BagIn, BagToSet
  <2>3. CASE inFlight[r] # 1
    BY <2>1, <2>3 DEF BagRemove, Counting, Appears, Waiting, BagIn, BagToSet
  <2>. QED
    BY <2>2, <2>3
<1>. QED
  BY <1>1, <1>2

LEMMA CountingStep ==
  ASSUME Counting, [CtlrNext]_ctlrVars
  PROVE  Counting'
<1>1. ASSUME NEW req \in Request, Handle(req)
      PROVE  Counting'
  BY <1>1, HandleResponds, AddedAppears, NothingAppears
<1>2. ASSUME Deliver \/ UNCHANGED inFlight
      PROVE  Counting'
  BY <1>2, NothingAppears
<1>. QED
  BY <1>1, <1>2 DEF CtlrNext, Serve, ctlrVars

LEMMA CountingInit == CtlrInit => Counting
BY DEF CtlrInit, Counting, EmptyBag, SetToBag

\* Every alternative that answers a CREATE with success leaves the pair recorded.
LEMMA HandleAnnounces ==
  ASSUME SoundPool, OwnerInv, Counting, NEW req \in Request, Handle(req)
  PROVE  AnnouncesToHolder
<1>. DEFINE Recorded(ip) == [ipaddress |-> ip, hostname |-> req.host] \in aRecords'
<1>0. ASSUME NEW ip, NEW ok, Respond(req, ip, ok), req.op = CREATE /\ ok => Recorded(ip)
      PROVE  AnnouncesToHolder
  <2>. SUFFICES ASSUME NEW resp \in BagToSet(inFlight'), Appears(resp),
                       resp.req.op = CREATE, resp.ok
                PROVE  [ipaddress |-> resp.ip, hostname |-> resp.req.host] \in aRecords'
    BY DEF AnnouncesToHolder
  <2>1. resp = [req |-> req, ip |-> ip, ok |-> ok]
    BY <1>0, AddedAppears
  <2>. QED
    BY <1>0, <2>1
<1>1. CASE GrantAsked(req)
  <2>1. req.ip \in IPv4
    <3>1. PICK i \in Row : Pool[i].ipaddress = req.ip
      BY <1>1, AskedRow DEF GrantAsked
    <3>. QED
      BY <3>1 DEF SoundPool
  <2>2. Recorded(req.ip)
    BY <1>1, <2>1 DEF GrantAsked, CreateARecord, WithRecord, SoundPool
  <2>. QED
    BY <1>0, <1>1, <2>2 DEF GrantAsked
<1>2. CASE RefuseAsked(req)
  BY <1>0, <1>2 DEF RefuseAsked
<1>3. CASE AnswerKnown(req)
  <2>1. Recorded(GetIPAddress(req.host))
    BY <1>3, GetIPAddressFinds DEF AnswerKnown, storeVars, OwnerInv, CtlrTypeOK, Request
  <2>. QED
    BY <1>0, <1>3, <2>1 DEF AnswerKnown
<1>4. CASE GrantNext(req)
  <2>1. NextAddress(req.cidr) \in IPv4
    <3>1. PICK i \in Row : Pool[i].ipaddress = NextAddress(req.cidr)
      BY <1>4, NextRow DEF GrantNext
    <3>. QED
      BY <3>1 DEF SoundPool
  <2>2. Recorded(NextAddress(req.cidr))
    BY <1>4, <2>1 DEF GrantNext, CreateARecord, WithRecord, SoundPool
  <2>. QED
    BY <1>0, <1>4, <2>2 DEF GrantNext
<1>5. CASE DropExhausted(req)
  BY <1>5, NothingAppears DEF DropExhausted, ctlrVars, AnnouncesToHolder
<1>6. CASE HandleDelete(req)
  BY <1>0, <1>6 DEF HandleDelete, CREATE, DELETE
<1>. QED
  BY <1>1, <1>2, <1>3, <1>4, <1>5, <1>6 DEF Handle

\* Whatever the requests, an address is announced only to a host that has it on
\* record.
THEOREM AnnouncedToHolders == ASSUME SoundPool PROVE CtlrSpec => AnnouncesHolder
<1>1. Counting /\ OwnerInv /\ [CtlrNext]_ctlrVars => [AnnouncesToHolder]_ctlrVars
  <2>. SUFFICES ASSUME Counting, OwnerInv, CtlrNext
                PROVE  AnnouncesToHolder
    OBVIOUS
  <2>1. CASE Serve
    BY <2>1, HandleAnnounces DEF Serve
  <2>2. CASE Deliver
    BY <2>2, NothingAppears DEF AnnouncesToHolder
  <2>. QED
    BY <2>1, <2>2 DEF CtlrNext
<1>2. Counting /\ [CtlrNext]_ctlrVars => Counting'
  BY CountingStep
<1>. QED
  BY <1>1, <1>2, CountingInit, Ownership, PTL DEF CtlrSpec, AnnouncesHolder

\* Only HandleDelete removes records, those of the host it was asked for.
LEMMA HandleKeepsOthers ==
  ASSUME Counting, NEW req \in Request, Handle(req)
  PROVE  LosesByOwnDelete
<1>. SUFFICES ASSUME NEW h \in Host, ~(RecordsOf(h) \subseteq RecordsOf(h)')
              PROVE  \E resp \in BagToSet(inFlight') :
                       Appears(resp) /\ resp.req.op = DELETE /\ resp.req.host = h
  BY DEF LosesByOwnDelete
<1>1. ~(aRecords \subseteq aRecords')
  BY DEF RecordsOf
<1>2. HandleDelete(req)
  BY <1>1 DEF Handle, GrantAsked, RefuseAsked, AnswerKnown, GrantNext, DropExhausted,
              CreateARecord, WithRecord, storeVars, ctlrVars
<1>3. aRecords \ {[ipaddress |-> GetIPAddress(req.host), hostname |-> req.host]}
        \subseteq aRecords'
  BY <1>2 DEF HandleDelete, DeleteARecord, WithoutRecord, storeVars
<1>4. req.host = h
  BY <1>3 DEF RecordsOf
<1>5. Respond(req, NoIP, TRUE) /\ req.op = DELETE
  BY <1>2 DEF HandleDelete
<1>. QED
  <2>. DEFINE r == [req |-> req, ip |-> NoIP, ok |-> TRUE]
  <2>1. r \in BagToSet(inFlight') /\ Appears(r)
    BY <1>5, AddedAppears
  <2>2. r.req.op = DELETE /\ r.req.host = h
    BY <1>4, <1>5
  <2>. HIDE DEF r
  <2>. QED
    BY <2>1, <2>2

\* For every pool, disjoint or not, and whatever statements fail: no host loses its
\* record to the request of another.
THEOREM RecordsAreNotTaken == CtlrSpec => NoInterference
<1>1. Counting /\ [CtlrNext]_ctlrVars => [LosesByOwnDelete]_ctlrVars
  <2>. SUFFICES ASSUME Counting, CtlrNext
                PROVE  LosesByOwnDelete
    OBVIOUS
  <2>1. CASE Serve
    BY <2>1, HandleKeepsOthers DEF Serve
  <2>2. CASE Deliver
    BY <2>2 DEF Deliver, storeVars, LosesByOwnDelete, RecordsOf
  <2>. QED
    BY <2>1, <2>2 DEF CtlrNext
<1>2. Counting /\ [CtlrNext]_ctlrVars => Counting'
  BY CountingStep
<1>. QED
  BY <1>1, <1>2, CountingInit, PTL DEF CtlrSpec, NoInterference

=============================================================================
