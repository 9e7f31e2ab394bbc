---------------------------- MODULE IPAMController ----------------------------
(***************************************************************************)
(* The request loop of pkg/controller/controller.go over the address       *)
(* store.  runController takes one request at a time from reqChan, makes   *)
(* its Manager calls, and leaves each response to a goroutine of its own   *)
(* that blocks until the response worker takes it: responses are therefore *)
(* a bag from which any element may be received next.                      *)
(*                                                                         *)
(* A request is received and handled in one step.  The store and the loop  *)
(* are touched by no other goroutine, so nothing can observe the time      *)
(* between the receive, the Manager calls and the go statement.            *)
(*                                                                         *)
(* A statement that fails is a choice over StoreOutcome, made afresh for   *)
(* each: a query that fails looks like one that finds nothing.             *)
(***************************************************************************)
EXTENDS IPAMStore, Bags, BagsExt

CONSTANTS
  CR,           \* Metadata: which F5IPAM resource the request comes from
  NoHost,       \* owner of a free address in the abstract allocator
  MaxInFlight   \* bound of the open environment: responses not yet received

ASSUME CtlrAssumption == NoHost \notin Host

CREATE == "Create"
DELETE == "Delete"

Request == [cr : CR, host : Host, cidr : Cidr, ip : IP \cup {NoIP},
            op : {CREATE, DELETE}]
Response == [req : Request, ip : IP \cup {NoIP}, ok : BOOLEAN]

VARIABLE inFlight   \* the bag of responses whose goroutine waits to send

ctlrVars == <<status, aRecords, inFlight>>

-----------------------------------------------------------------------------
(* One alternative of the loop body each.                                  *)

Respond(req, ip, ok) ==
  inFlight' = BagAdd(inFlight, [req |-> req, ip |-> ip, ok |-> ok])

\* Fault: a restored address gets no A record.
GrantAsked_NoRecord(req) ==
  /\ req.op = CREATE /\ req.ip # NoIP
  /\ CanAllocate(req.cidr, req.ip)
  /\ AllocateIPAddress(req.cidr, req.ip)
  /\ Respond(req, req.ip, TRUE)
  /\ UNCHANGED aRecords

(***************************************************************************)
(* CREATE with an address: the request restores an entry of a resource's   *)
(* Status.  A failed statement in MarkIPAsAllocated is a refusal.          *)
(***************************************************************************)
GrantAsked(req) ==
  /\ req.op = CREATE /\ req.ip # NoIP
  /\ CanAllocate(req.cidr, req.ip)
  /\ TRUE \in StoreOutcome
  /\ AllocateIPAddress(req.cidr, req.ip)
  /\ \E ok \in StoreOutcome : CreateARecord(req.host, req.ip, ok)
  /\ Respond(req, req.ip, TRUE)

RefuseAsked(req) ==
  /\ req.op = CREATE /\ req.ip # NoIP
  /\ ~CanAllocate(req.cidr, req.ip) \/ FALSE \in StoreOutcome
  /\ Respond(req, NoIP, FALSE)
  /\ UNCHANGED storeVars

\* CREATE for a host that has an address already: whatever its CIDR.
AnswerKnown(req) ==
  /\ req.op = CREATE /\ req.ip = NoIP
  /\ GetIPAddress(req.host) # NoIP /\ TRUE \in StoreOutcome
  /\ Respond(req, GetIPAddress(req.host), TRUE)
  /\ UNCHANGED storeVars

\* CREATE for a new host, or one whose record could not be read: the next address
\* of the CIDR.
GrantNext(req) ==
  /\ req.op = CREATE /\ req.ip = NoIP
  /\ GetIPAddress(req.host) = NoIP \/ FALSE \in StoreOutcome
  /\ CanAllocateNext(req.cidr) /\ TRUE \in StoreOutcome
  /\ \E ok \in StoreOutcome : GetNextIPAddress(req.cidr, ok)
  /\ \E ok \in StoreOutcome : CreateARecord(req.host, NextAddress(req.cidr), ok)
  /\ Respond(req, NextAddress(req.cidr), TRUE)

\* Fault: the empty address is sent as an answer.
DropExhausted_Answers(req) ==
  /\ req.op = CREATE /\ req.ip = NoIP
  /\ GetIPAddress(req.host) = NoIP
  /\ ~CanAllocateNext(req.cidr)
  /\ Respond(req, NoIP, TRUE)
  /\ UNCHANGED storeVars

\* No address left, an unknown CIDR, or rows that could not be read: the request is
\* dropped, unanswered.
DropExhausted(req) ==
  /\ req.op = CREATE /\ req.ip = NoIP
  /\ GetIPAddress(req.host) = NoIP \/ FALSE \in StoreOutcome
  /\ ~CanAllocateNext(req.cidr) \/ FALSE \in StoreOutcome
  /\ UNCHANGED ctlrVars

\* Fault: the record goes, the address stays allocated.
HandleDelete_KeepsAddress(req) ==
  /\ req.op = DELETE
  /\ IF GetIPAddress(req.host) # NoIP
     THEN DeleteARecord(req.host, GetIPAddress(req.host), TRUE)
     ELSE UNCHANGED aRecords
  /\ Respond(req, NoIP, TRUE)
  /\ UNCHANGED status

\* DELETE goes by host name alone, and answers success in every case.
HandleDelete(req) ==
  /\ req.op = DELETE
  /\ \/ /\ GetIPAddress(req.host) # NoIP /\ TRUE \in StoreOutcome
        /\ \E ok \in StoreOutcome : ReleaseIPAddress(GetIPAddress(req.host), ok)
        /\ \E ok \in StoreOutcome :
             DeleteARecord(req.host, GetIPAddress(req.host), ok)
     \/ /\ GetIPAddress(req.host) = NoIP \/ FALSE \in StoreOutcome
        /\ UNCHANGED storeVars
  /\ Respond(req, NoIP, TRUE)

\* The body of runController's loop.
Handle(req) ==
  \/ GrantAsked(req)
  \/ RefuseAsked(req)
  \/ AnswerKnown(req)
  \/ GrantNext(req)
  \/ DropExhausted(req)
  \/ HandleDelete(req)

-----------------------------------------------------------------------------
(* The controller against any sequence of requests, and a receiver that    *)
(* takes the responses in any order.                                       *)

CtlrInit ==
  /\ StoreInit
  /\ inFlight = EmptyBag

Receive(resp) ==
  /\ BagIn(resp, inFlight)
  /\ inFlight' = BagRemove(inFlight, resp)

Serve ==
  /\ BagCardinality(inFlight) < MaxInFlight
  /\ \E req \in Request : Handle(req)

Deliver ==
  /\ \E resp \in BagToSet(inFlight) : Receive(resp)
  /\ UNCHANGED storeVars

CtlrNext == Serve \/ Deliver

CtlrSpec == CtlrInit /\ [][CtlrNext]_ctlrVars

-----------------------------------------------------------------------------
(* Invariants.                                                             *)

CtlrTypeOK ==
  /\ StoreTypeOK
  /\ BagToSet(inFlight) \subseteq Response

\* No address is recorded for two hosts, after any sequence of CREATE and
\* DELETE requests, whether they ask for an address or not.
ExclusiveOwner ==
  \A r, s \in aRecords : r.ipaddress = s.ipaddress => r.hostname = s.hostname

\* The two tables agree: an address is ALLOCATED exactly while an A record
\* holds it.  Nothing leaks (allocated, unrecorded: never released again) and
\* nothing recorded can be given away.
TablesAgree ==
  /\ \A i \in Row : status[i] = ALLOCATED <=>
                      \E r \in aRecords : r.ipaddress = Pool[i].ipaddress
  /\ \A r \in aRecords : \E i \in Row : Pool[i].ipaddress = r.ipaddress

-----------------------------------------------------------------------------
(* Action properties.                                                      *)

RecordsOf(h) == {a \in aRecords : a.hostname = h}

Waiting(resp) == IF BagIn(resp, inFlight) THEN inFlight[resp] ELSE 0
Appears(resp) == Waiting(resp)' > Waiting(resp)

AnnouncesToHolder ==
  \A resp \in BagToSet(inFlight') :
    Appears(resp) /\ resp.req.op = CREATE /\ resp.ok
    => [ipaddress |-> resp.ip, hostname |-> resp.req.host] \in aRecords'

LosesByOwnDelete ==
  \A h \in Host :
    ~(RecordsOf(h) \subseteq RecordsOf(h)')
    => \E resp \in BagToSet(inFlight') :
         Appears(resp) /\ resp.req.op = DELETE /\ resp.req.host = h

\* An address is only ever announced to the host that holds it at that moment:
\* whenever a successful CREATE response appears, its pair is recorded.
AnnouncesHolder == [][AnnouncesToHolder]_ctlrVars

\* A host loses a record only in the step that answers a DELETE of its own:
\* not to another host's DELETE that releases the same address, even when
\* ranges overlap, addresses are IPv6 and statements fail.
NoInterference == [][LosesByOwnDelete]_ctlrVars

-----------------------------------------------------------------------------
(* Refinement of the abstract allocator.                                   *)

\* The host that holds an address in a set of A records.
Holder(records, ip) ==
  IF \E r \in records : r.ipaddress = ip
  THEN (CHOOSE r \in records : r.ipaddress = ip).hostname
  ELSE NoHost

Announced ==
  {<<resp.req.host, resp.ip>> :
     resp \in {x \in BagToSet(inFlight) : x.req.op = CREATE /\ x.ok}}

Allocator == INSTANCE IPAMAllocator WITH
  owner <- [ip \in IP |-> Holder(aRecords, ip)],
  announced <- Announced

\* The request loop over the two tables implements exclusive assignment: every
\* handled request is one abstract step of the host it names, or none.
ImplementsAllocator == Allocator!Spec

=============================================================================
