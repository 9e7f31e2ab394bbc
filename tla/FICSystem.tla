------------------------------ MODULE FICSystem ------------------------------
(***************************************************************************)
(* The whole controller: users writing F5IPAM resources to the API server, *)
(* the informer and its queue, the two workers of                          *)
(* pkg/orchestration/kuberntes.go, the request loop and store of           *)
(* IPAMController, watches that break, and crashes of the process.         *)
(*                                                                         *)
(*   users -> f5ipam -> rscQueue -> processResource -> Handle              *)
(*              ^                                        |                 *)
(*              +------ processResponse <-- inFlight <---+                 *)
(*                                                                         *)
(* The process keeps everything in memory; what survives a crash is what   *)
(* the API server stores, the Status of each resource included.            *)
(***************************************************************************)
EXTENDS IPAMController, SequencesExt

CONSTANTS
  ListOrder,     \* ListOrder[S]: the order in which the API server lists
                 \*   the resources of the set S
  SpecChoice,    \* SpecChoice[c]: the lists of host specs the user of c writes
  ApiOutcome,    \* whether a call to the API server gets through
  GrowOnly,      \* users only add host specs, and delete no resource
  Patient,       \* users wait for the controller to settle between edits
  CleanRestart,  \* the process only stops when it has settled
  SoleRestart,   \* the process only stops with at most one resource to restore
  MaxEdits,      \* bound on the user edits
  MaxCrashes,    \* bound on the restarts after the first start
  MaxGaps        \* bound on the watches that break

UPDATE == "Update"
TOMBSTONE == "DeletedFinalStateUnknown"

HostSpec == [host : Host, cidr : Cidr]

ASSUME SystemAssumption ==
  /\ ListOrder \in [SUBSET CR -> Seq(CR)]
  /\ \A S \in SUBSET CR : ToSet(ListOrder[S]) = S /\ IsInjective(ListOrder[S])
  /\ SpecChoice \in [CR -> SUBSET Seq(HostSpec)]
  /\ ApiOutcome \in SUBSET BOOLEAN
  /\ {GrowOnly, Patient, CleanRestart, SoleRestart} \subseteq BOOLEAN
  /\ MaxEdits \in Nat /\ MaxCrashes \in Nat /\ MaxGaps \in Nat

\* The host specs that some user writes, and the entries they may lead to.
Asked == UNION {ToSet(spec) : spec \in UNION {SpecChoice[c] : c \in CR}}
IPSpec == {[host |-> s.host, cidr |-> s.cidr, ip |-> ip] : s \in Asked, ip \in IP}

VARIABLES
  f5ipam,    \* the API server's resources: live, resourceVersion, spec, status
  up,        \* whether the process runs
  rscQueue,  \* resource events on their way to, or in, the work queue
  todo,      \* requests processResource still sends: a sequence of sets,
             \*   the order within a set being that of a Go map
  put,       \* the response in processResponse's hands, with the object it
             \*   is about to PUT; at most one
  stale,     \* <<>>, or what the informer knows, its watch being broken, of
             \*   resources that have moved on
  edits,     \* user edits so far
  crashes,   \* crashes so far
  gaps       \* broken watches so far

sysVars == <<status, aRecords, inFlight, f5ipam, up, rscQueue, todo, put, stale>>
counters == <<edits, crashes, gaps>>
vars == <<sysVars, counters>>

Event == [op : {CREATE, UPDATE, DELETE, TOMBSTONE}, cr : CR, old : Seq(Asked),
          spec : Seq(Asked), status : Seq(IPSpec)]
Resource == [live : BOOLEAN, rv : Nat, spec : Seq(Asked), status : Seq(IPSpec)]
Put == [resp : Response, rv : Nat, spec : Seq(Asked), status : Seq(IPSpec)]

\* Requests are for what some user has asked for.
AskedFor(req) == [host |-> req.host, cidr |-> req.cidr] \in Asked

FICTypeOK ==
  /\ CtlrTypeOK
  /\ f5ipam \in [CR -> Resource]
  /\ up \in BOOLEAN
  /\ rscQueue \in Seq(Event)
  /\ todo \in Seq((SUBSET {req \in Request : AskedFor(req)}) \ {{}})
  /\ \A resp \in BagToSet(inFlight) : AskedFor(resp.req)
  /\ put \subseteq Put /\ \A p, q \in put : p = q
  /\ stale \in Seq([CR -> Resource]) /\ Len(stale) <= 1
  /\ edits \in 0..MaxEdits /\ crashes \in 0..MaxCrashes /\ gaps \in 0..MaxGaps

Watching == stale = <<>>

\* Nothing is left to do, and nothing has happened the informer does not know.
Quiescent ==
  /\ up
  /\ rscQueue = <<>> /\ todo = <<>> /\ inFlight = EmptyBag /\ put = {}
  /\ Watching \/ stale = <<f5ipam>>

-----------------------------------------------------------------------------
(* Informer and work queue.                                                *)

CreateEvent(c, spec, st) ==
  [op |-> CREATE, cr |-> c, old |-> <<>>, spec |-> spec, status |-> st]
UpdateEvent(c, old, spec) ==
  [op |-> UPDATE, cr |-> c, old |-> old, spec |-> spec, status |-> <<>>]
DeleteEvent(c, st) ==
  [op |-> DELETE, cr |-> c, old |-> <<>>, spec |-> <<>>, status |-> st]
Tombstone(c) ==
  [op |-> TOMBSTONE, cr |-> c, old |-> <<>>, spec |-> <<>>, status |-> <<>>]

\* The informer's delta queue keeps the events of one resource together: an
\* event goes to the end, or right behind the last one of its resource.
\* The work queue never merges events, whose keys are distinct pointers.
Enqueued(q, e) ==
  {Append(q, e)} \cup
  {InsertAt(q, i + 1, e) :
     i \in {k \in DOMAIN q :
              /\ q[k].cr = e.cr
              /\ \A j \in DOMAIN q : q[j].cr = e.cr => j <= k}}

\* One event after the other.
EnqueuedAll(q, events) ==
  LET placed[n \in 0..Len(events)] ==
        IF n = 0 THEN {q} ELSE UNION {Enqueued(r, events[n]) : r \in placed[n - 1]}
  IN placed[Len(events)]

Notify(e) == rscQueue' \in IF up /\ Watching THEN Enqueued(rscQueue, e) ELSE {rscQueue}

\* A watch breaks, and the API server no longer has the history to resume it.
LoseWatch ==
  /\ up /\ Watching /\ gaps < MaxGaps
  /\ stale' = <<f5ipam>>
  /\ gaps' = gaps + 1
  /\ UNCHANGED <<status, aRecords, inFlight, f5ipam, up, rscQueue, todo, put, edits, crashes>>

(***************************************************************************)
(* The informer lists again and compares by name: what it knew is updated, *)
(* changed or not; what is new is added; what is gone has a tombstone.     *)
(***************************************************************************)
Relist ==
  /\ up /\ ~Watching
  /\ LET known == Head(stale)
         now == ListOrder[{c \in CR : f5ipam[c].live}]
         gone == ListOrder[{c \in CR : known[c].live /\ ~f5ipam[c].live}]
         news == [i \in DOMAIN now |->
                   IF known[now[i]].live
                   THEN UpdateEvent(now[i], known[now[i]].spec, f5ipam[now[i]].spec)
                   ELSE CreateEvent(now[i], f5ipam[now[i]].spec, f5ipam[now[i]].status)]
         losses == [i \in DOMAIN gone |-> Tombstone(gone[i])]
     IN rscQueue' \in EnqueuedAll(rscQueue, news \o losses)
  /\ stale' = <<>>
  /\ UNCHANGED <<status, aRecords, inFlight, f5ipam, up, todo, put, counters>>

-----------------------------------------------------------------------------
(* Users of the API server (the CIS instances): never the Status.          *)

UserMayEdit == edits < MaxEdits /\ (Patient => Quiescent)

UserWrite(c, live, spec, st, e) ==
  /\ f5ipam' = [f5ipam EXCEPT ![c] =
       [live |-> live, rv |-> @.rv + 1, spec |-> spec, status |-> st]]
  /\ Notify(e)
  /\ edits' = edits + 1
  /\ UNCHANGED <<status, aRecords, inFlight, up, todo, put, stale, crashes, gaps>>

UserCreate(c, spec) ==
  /\ UserMayEdit
  /\ ~f5ipam[c].live
  /\ UserWrite(c, TRUE, spec, <<>>, CreateEvent(c, spec, <<>>))

UserEdit(c, spec) ==
  /\ UserMayEdit
  /\ f5ipam[c].live /\ spec # f5ipam[c].spec
  /\ GrowOnly => ToSet(f5ipam[c].spec) \subseteq ToSet(spec)
  /\ UserWrite(c, TRUE, spec, f5ipam[c].status,
               UpdateEvent(c, f5ipam[c].spec, spec))

UserDelete(c) ==
  /\ UserMayEdit
  /\ f5ipam[c].live /\ ~GrowOnly
  /\ UserWrite(c, FALSE, <<>>, <<>>, DeleteEvent(c, f5ipam[c].status))

-----------------------------------------------------------------------------
(* processResource: one event at a time becomes a list of requests.        *)

StatusRequest(c, s, op) ==
  [cr |-> c, host |-> s.host, cidr |-> s.cidr, ip |-> s.ip, op |-> op]
SpecRequest(c, s, op) ==
  [cr |-> c, host |-> s.host, cidr |-> s.cidr, ip |-> NoIP, op |-> op]

StatusRequests(e, op) == [i \in DOMAIN e.status |-> {StatusRequest(e.cr, e.status[i], op)}]
SpecRequests(e) == [i \in DOMAIN e.spec |-> {SpecRequest(e.cr, e.spec[i], CREATE)}]

\* What was in one list of specs and not in the other, in map order.
SpecDiff(e, from, to, op) ==
  {SpecRequest(e.cr, s, op) : s \in ToSet(from) \ ToSet(to)}

\* A loop over the set, which may have no iteration.
Loop(S) == IF S = {} THEN <<>> ELSE <<S>>

\* Faults: new hosts go first; the Spec is only looked at when there is no Status.
CreateRequests_SpecsFirst(e) == SpecRequests(e) \o StatusRequests(e, CREATE)
CreateRequests_StatusOnly(e) ==
  IF e.status = <<>> THEN SpecRequests(e) ELSE StatusRequests(e, CREATE)

\* First what Status records, to rebuild the store, then what Spec asks.
CreateRequests(e) == StatusRequests(e, CREATE) \o SpecRequests(e)

\* Fault: additions go before removals.
UpdateRequests_AddFirst(e) ==
  Loop(SpecDiff(e, e.spec, e.old, CREATE)) \o Loop(SpecDiff(e, e.old, e.spec, DELETE))

UpdateRequests(e) ==
  Loop(SpecDiff(e, e.old, e.spec, DELETE)) \o Loop(SpecDiff(e, e.spec, e.old, CREATE))

ProcessResource ==
  /\ todo = <<>> /\ rscQueue # <<>>
  /\ LET e == Head(rscQueue) IN
       \/ e.op = CREATE /\ todo' = CreateRequests(e)
       \/ e.op = DELETE /\ todo' = StatusRequests(e, DELETE)
       \/ e.op = UPDATE /\ todo' = UpdateRequests(e)
  /\ rscQueue' = Tail(rscQueue)
  /\ UNCHANGED <<status, aRecords, inFlight, f5ipam, up, put, stale, counters>>

\* The next request crosses the unbuffered reqChan and is handled.
SendRequest ==
  /\ todo # <<>>
  /\ \E req \in Head(todo) :
       /\ Handle(req)
       /\ todo' = Loop(Head(todo) \ {req}) \o Tail(todo)
  /\ UNCHANGED <<f5ipam, up, rscQueue, put, stale, counters>>

-----------------------------------------------------------------------------
(* processResponse: read the resource, edit its Status, write all of it    *)
(* back unless it changed in between.                                      *)

\* Fault: entries are told apart by their host alone.
Matches_ByHost(s, req) == s.host = req.host

Matches(s, req) == s.host = req.host /\ s.cidr = req.cidr

\* Fault: a new entry is only made in an empty Status.
Recorded_FirstOnly(st, req, ip) ==
  IF st = <<>>
  THEN <<[host |-> req.host, cidr |-> req.cidr, ip |-> ip]>>
  ELSE [i \in DOMAIN st |-> IF Matches(st[i], req) THEN [st[i] EXCEPT !.ip = ip] ELSE st[i]]

\* Every matching entry gets the address, or a new entry does.
Recorded(st, req, ip) ==
  IF \E i \in DOMAIN st : Matches(st[i], req)
  THEN [i \in DOMAIN st |-> IF Matches(st[i], req) THEN [st[i] EXCEPT !.ip = ip] ELSE st[i]]
  ELSE Append(st, [host |-> req.host, cidr |-> req.cidr, ip |-> ip])

Found(st, req) == {i \in DOMAIN st : Matches(st[i], req)}

Prepared(resp, st) ==
  {[resp |-> resp, rv |-> f5ipam[resp.req.cr].rv,
    spec |-> f5ipam[resp.req.cr].spec, status |-> st]}

\* The Get fails: the resource is gone, or the call does not get through.
GetFails(resp) ==
  /\ ~f5ipam[resp.req.cr].live \/ FALSE \in ApiOutcome
  /\ put' = {}

GetToRecord(resp) ==
  /\ resp.req.op = CREATE /\ resp.ok
  /\ f5ipam[resp.req.cr].live /\ TRUE \in ApiOutcome
  /\ put' = Prepared(resp, Recorded(f5ipam[resp.req.cr].status, resp.req, resp.ip))

\* A refused CREATE falls through to the DELETE case; the last matching entry
\* goes, and nothing is written when there is none.
GetToRemove(resp) ==
  /\ resp.ok <=> resp.req.op = DELETE
  /\ f5ipam[resp.req.cr].live /\ TRUE \in ApiOutcome
  /\ LET st == f5ipam[resp.req.cr].status
         found == Found(st, resp.req)
     IN \/ found = {} /\ put' = {}
        \/ \E i \in found : /\ \A j \in found : j <= i
                            /\ put' = Prepared(resp, RemoveAt(st, i))

TakeResponse ==
  /\ put = {}
  /\ \E resp \in BagToSet(inFlight) :
       /\ Receive(resp)
       /\ GetFails(resp) \/ GetToRecord(resp) \/ GetToRemove(resp)
  /\ UNCHANGED <<status, aRecords, f5ipam, up, rscQueue, todo, stale, counters>>

(***************************************************************************)
(* The PUT is accepted when the resource still has the version that was    *)
(* read.  The API server ignores a PUT that changes nothing.               *)
(***************************************************************************)
Accepted(p) ==
  LET c == p.resp.req.cr IN
  /\ f5ipam[c].live /\ f5ipam[c].rv = p.rv
  /\ IF [spec |-> p.spec, status |-> p.status]
          = [spec |-> f5ipam[c].spec, status |-> f5ipam[c].status]
     THEN UNCHANGED <<f5ipam, rscQueue>>
     ELSE /\ f5ipam' = [f5ipam EXCEPT ![c] =
               [live |-> TRUE, rv |-> @.rv + 1, spec |-> p.spec, status |-> p.status]]
          /\ Notify(UpdateEvent(c, f5ipam[c].spec, p.spec))

\* A refused PUT is logged and its response forgotten.
Refused(p) ==
  LET c == p.resp.req.cr IN
  /\ ~f5ipam[c].live \/ f5ipam[c].rv # p.rv \/ FALSE \in ApiOutcome
  /\ UNCHANGED <<f5ipam, rscQueue>>

\* Fault: a refused PUT is repeated as it is, with the version that was read.
PutUpdate_Repeats ==
  /\ \E p \in put :
       \/ TRUE \in ApiOutcome /\ Accepted(p) /\ put' = {}
       \/ Refused(p) /\ put' = put
  /\ UNCHANGED <<status, aRecords, inFlight, up, todo, stale, counters>>

\* Fault: the PUT names the version of the moment, as a retry without a new Get
\* would.
PutUpdate_AnyVersion ==
  /\ \E p \in put : Accepted([p EXCEPT !.rv = f5ipam[p.resp.req.cr].rv]) \/ Refused(p)
  /\ put' = {}
  /\ UNCHANGED <<status, aRecords, inFlight, up, todo, stale, counters>>

PutUpdate ==
  /\ \E p \in put : (TRUE \in ApiOutcome /\ Accepted(p)) \/ Refused(p)
  /\ put' = {}
  /\ UNCHANGED <<status, aRecords, inFlight, up, todo, stale, counters>>

-----------------------------------------------------------------------------
(* The process.                                                            *)

\* Whatever the process held in memory is gone, the store included.
Die ==
  /\ up' = FALSE
  /\ StoreReset
  /\ inFlight' = EmptyBag
  /\ rscQueue' = <<>> /\ todo' = <<>> /\ put' = {} /\ stale' = <<>>
  /\ UNCHANGED f5ipam

Crash ==
  /\ up /\ crashes < MaxCrashes
  /\ CleanRestart => Quiescent
  /\ SoleRestart => \A c, d \in CR : f5ipam[c].live /\ f5ipam[d].live => c = d
  /\ crashes' = crashes + 1
  /\ Die
  /\ UNCHANGED <<edits, gaps>>

\* enqueueDeletedIPAM takes a tombstone for a resource: its type assertion fails
\* on the informer's goroutine, whatever the worker has still to do.
Panic ==
  /\ up /\ \E i \in DOMAIN rscQueue : rscQueue[i].op = TOMBSTONE
  /\ Die
  /\ UNCHANGED counters

\* main: an empty store, and an informer whose first list announces every
\* resource, as it is, with a CREATE event.
Start ==
  /\ ~up
  /\ up' = TRUE
  /\ LET listed == ListOrder[{c \in CR : f5ipam[c].live}] IN
       rscQueue' = [i \in DOMAIN listed |->
                      CreateEvent(listed[i], f5ipam[listed[i]].spec,
                                  f5ipam[listed[i]].status)]
  /\ UNCHANGED <<status, aRecords, inFlight, f5ipam, todo, put, stale, counters>>

Init ==
  /\ CtlrInit
  /\ f5ipam = [c \in CR |-> [live |-> FALSE, rv |-> 0, spec |-> <<>>, status |-> <<>>]]
  /\ up = FALSE
  /\ rscQueue = <<>> /\ todo = <<>> /\ put = {} /\ stale = <<>>
  /\ edits = 0 /\ crashes = 0 /\ gaps = 0

Next ==
  \/ \E c \in CR :
       \/ \E spec \in SpecChoice[c] : UserCreate(c, spec) \/ UserEdit(c, spec)
       \/ UserDelete(c)
  \/ LoseWatch
  \/ Relist
  \/ ProcessResource
  \/ SendRequest
  \/ TakeResponse
  \/ PutUpdate
  \/ Crash
  \/ Panic
  \/ Start

Spec == Init /\ [][Next]_vars

\* Goroutines that can run do run, and a stopped process is started again;
\* nothing obliges users to edit, or the process to stop.
Fairness ==
  /\ WF_vars(Relist)
  /\ WF_vars(Panic)
  /\ WF_vars(ProcessResource)
  /\ WF_vars(SendRequest)
  /\ WF_vars(TakeResponse)
  /\ WF_vars(PutUpdate)
  /\ WF_vars(Start)

FairSpec == Spec /\ Fairness

-----------------------------------------------------------------------------
(* Properties of what the users see.                                       *)

Published(c) == ToSet(f5ipam[c].status)
Wanted(c) == ToSet(f5ipam[c].spec)

SpecsChangeByEdits ==
  \A c \in CR :
    <<f5ipam[c].live, f5ipam[c].spec>>' # <<f5ipam[c].live, f5ipam[c].spec>>
    => edits' # edits

\* Writing the Status back never writes a stale Spec over a user's edit: the
\* whole object goes into the PUT, read one or more user edits ago.
UserSpecsPreserved == [][SpecsChangeByEdits]_vars

\* While users only add hosts, an address once published stays with its host,
\* over crashes, restarts, lost writes and conflicting edits.
StickyAddress == [][\A c \in CR : Published(c) \subseteq Published(c)']_vars

\* While users only add hosts, no address is published for two of them, although
\* the store that hands the addresses out is lost in every crash and rebuilt from
\* what happens to be published.
PublishedExclusive ==
  \A c, d \in CR : \A s \in Published(c), t \in Published(d) :
    s.ip = t.ip => s.host = t.host

\* A host of a settled system is without an address only when its CIDR has
\* none left: no crash or lost write makes the controller forget a request.
NoStarvation ==
  Quiescent =>
    \A c \in CR : \A s \in Wanted(c) :
      AddressesOf(s.host) = {} => AvailableIn(s.cidr) = {}

\* What a settled system publishes, the host holds: an entry whose CREATE was
\* refused has been removed, and one that was restored is recorded.
PublishedHeld ==
  Quiescent =>
    \A c \in CR : \A s \in Published(c) : s.ip \in AddressesOf(s.host)

(***************************************************************************)
(* When the controller has settled, what every resource publishes is what  *)
(* its specs ask for and the store holds, and the store holds nothing for  *)
(* hosts no resource names any more.                                       *)
(***************************************************************************)
Agreement ==
  Quiescent =>
    /\ \A c \in CR :
         Published(c) = {[host |-> s.host, cidr |-> s.cidr, ip |-> GetIPAddress(s.host)] :
                           s \in {x \in Wanted(c) : AddressesOf(x.host) # {}}}
    /\ \A r \in aRecords : \E c \in CR : \E s \in Wanted(c) : s.host = r.hostname

\* What every resource asks for and shows, without the order of the lists.
KeyOf(s) == <<s.host, s.cidr>>

Book == INSTANCE AddressBook WITH
  Key <- Host \X Cidr,
  Fits <- [k \in Host \X Cidr |-> Net[k[2]]],
  Choice <- [c \in CR |-> {{KeyOf(s) : s \in ToSet(spec)} : spec \in SpecChoice[c]}],
  wanted <- [c \in CR |-> {KeyOf(s) : s \in Wanted(c)}],
  published <- [c \in CR |-> {<<KeyOf(s), s.ip>> : s \in Published(c)}]

\* With users who wait, every Status update is one step of the address book,
\* although answers reach the Status in any order, at times that of a host that got
\* an address before that of the host that gave it up: no wanted entry is changed or
\* withdrawn, and none is added whose address another wanted host shows.
ImplementsAddressBook == Book!Spec

\* The controller always settles again, however calls fail and whenever it
\* crashes: no refused PUT is pursued for ever, and the events that the Status
\* updates themselves cause come to an end.
Settles == []<>Quiescent

\* With users who wait and only add hosts, and an API server that answers, every
\* host spec is in the end published, or left without an address by a system that has
\* settled with none free in its CIDR.  A host that holds an address must be published,
\* however full the range: no answer gets lost, over crashes at any moment.
EventuallyPublished ==
  \A c \in CR : \A s \in UNION {ToSet(spec) : spec \in SpecChoice[c]} :
    s \in Wanted(c) ~>
      \/ \E t \in Published(c) : t.host = s.host /\ t.cidr = s.cidr
      \/ Quiescent /\ AddressesOf(s.host) = {} /\ AvailableIn(s.cidr) = {}

-----------------------------------------------------------------------------
(* The instances that theorems are about.                                  *)

(***************************************************************************)
(* One resource, whose user never removes a host and asks for each under   *)
(* one CIDR, and ranges whose addresses lie in the CIDR of their rows.     *)
(* The runs fic_restart_two and range_ends show what happens without the   *)
(* first and the last.                                                     *)
(***************************************************************************)
Growing ==
  /\ GrowOnly
  /\ \A c, d \in CR : c = d
  /\ \A s, t \in Asked : s.host = t.host => s.cidr = t.cidr
  /\ \A i \in Row : Pool[i].ipaddress \in Net[Pool[i].cidr]

(***************************************************************************)
(* Users and restarts wait until all has settled, calls get through, and   *)
(* no restart has two resources to restore: the process is only stopped    *)
(* when there is one, and as a tombstone stops it too there are no three.  *)
(* A host is asked for by one resource, under one CIDR at a time, and the  *)
(* addresses of a range lie in its CIDR.                                   *)
(***************************************************************************)
Settling ==
  /\ Patient /\ CleanRestart /\ SoleRestart /\ ApiOutcome = {TRUE}
  /\ \A c, d, e \in CR : c = d \/ d = e \/ c = e
  /\ \A c, d \in CR : \A spec \in SpecChoice[c], other \in SpecChoice[d] :
       \A s \in ToSet(spec), t \in ToSet(other) :
         s.host = t.host => c = d /\ (spec = other => s = t)
  /\ \A i \in Row : Pool[i].ipaddress \in Net[Pool[i].cidr]

=============================================================================
