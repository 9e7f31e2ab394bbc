---------------------------- MODULE AgreementProofs ----------------------------
(***************************************************************************)
(* What users see who wait for the controller: between edits, and after    *)
(* restarts, every resource shows exactly what it asks for and the store   *)
(* holds, and each step on the way there is one of the address book.       *)
(***************************************************************************)
EXTENDS FICSystemProofs

-----------------------------------------------------------------------------
(* Events that change something.                                           *)

\* The event makes no request.
Idle(e) == e.op = UPDATE /\ ToSet(e.old) = ToSet(e.spec)

\* What the next list, or the first, will put into the queue.
Coming ==
  IF ~up THEN {CreateEvent(c, f5ipam[c].spec, f5ipam[c].status) :
                 c \in {d \in CR : f5ipam[d].live}}
  ELSE IF stale # <<>>
  THEN {ListedEvent(c) : c \in {d \in CR : f5ipam[d].live}}
         \cup {Tombstone(c) : c \in {d \in CR : Head(stale)[d].live /\ ~f5ipam[d].live}}
  ELSE {}

Due == {e \in ToSet(rscQueue) \cup Coming : ~Idle(e)}

Quiet == todo = <<>> /\ BagToSet(inFlight) = {} /\ put = {}

-----------------------------------------------------------------------------
(* The invariant.                                                          *)

Rec(h, ip) == [ipaddress |-> ip, hostname |-> h] \in aRecords

InRow(x, ip) == \E i \in Row : Pool[i].ipaddress = ip /\ Pool[i].cidr = x

OwnHosts(c) == {s.host : s \in UNION {ToSet(spec) : spec \in SpecChoice[c]}}

\* The resource asks for what an entry or a request names.
Wants(c, r) == [host |-> r.host, cidr |-> r.cidr] \in Wanted(c)

Same(r, s) == r.host = s.host /\ r.cidr = s.cidr

Requests == UNION {todo[i] : i \in DOMAIN todo}
Answers == BagToSet(inFlight) \cup {p.resp : p \in put}

OnePerHost(S) == \A s, t \in S : s.host = t.host => s = t

Apart(st) ==
  \A i, j \in DOMAIN st : st[i].host = st[j].host \/ st[i].ip = st[j].ip => i = j

KeysApart(st) == \A i, j \in DOMAIN st : Same(st[i], st[j]) => i = j

\* An event that changes something finds the system as it was left when it had
\* settled: what its resource shows is what it asked for before.
Justified(e) ==
  LET c == e.cr IN
  /\ e.op \in {CREATE, UPDATE} => f5ipam[c].live /\ ToSet(e.spec) = Wanted(c)
  /\ e.op \in {DELETE, TOMBSTONE} => ~f5ipam[c].live
  /\ e.op = CREATE =>
       /\ e.status = f5ipam[c].status /\ Apart(e.status)
       /\ \A s \in Published(c) : Wants(c, s)
       /\ \A a \in aRecords : /\ a.hostname \notin OwnHosts(c)
                              /\ \A s \in Published(c) : a.ipaddress # s.ip
  /\ e.op = UPDATE =>
       /\ OnePerHost(ToSet(e.old))
       /\ \A s \in ToSet(e.old) : s.host \in OwnHosts(c)
       /\ \A s \in Published(c) : [host |-> s.host, cidr |-> s.cidr] \in ToSet(e.old)
  /\ e.op = DELETE => \A s \in ToSet(e.status) : s.host \in OwnHosts(c)

DueInv ==
  /\ \A e \in Due : Quiet /\ Justified(e)
  /\ \A e, f \in Due : e = f
  /\ \A i, j \in DOMAIN rscQueue : ~Idle(rscQueue[i]) /\ ~Idle(rscQueue[j]) => i = j
  /\ \A e \in Due : e \notin ToSet(rscQueue) \/ e \notin Coming

\* Removals come before additions, and restored entries before new ones.
TodoInv ==
  \A i \in DOMAIN todo : \A r \in todo[i] :
    /\ r.host \in OwnHosts(r.cr)
    /\ r.op = DELETE =>
         /\ ~Wants(r.cr, r)
         /\ \A s \in Published(r.cr) : s.host = r.host => s.cidr = r.cidr
         /\ \A f \in Answers : f.req.op = DELETE
         /\ \A j \in DOMAIN todo : \A q \in todo[j] : q.op = CREATE => i < j
    /\ r.op = CREATE => Wants(r.cr, r)
    /\ r.op = CREATE /\ r.ip # NoIP =>
         /\ InRow(r.cidr, r.ip)
         /\ \A a \in aRecords : a.hostname # r.host /\ a.ipaddress # r.ip
         /\ \A j \in DOMAIN todo : \A q \in todo[j] :
              /\ q.ip = NoIP => i < j
              /\ q.ip # NoIP /\ (q.ip = r.ip \/ q.host = r.host) => q = r /\ i = j

AnswerInv ==
  \A f \in Answers :
    /\ f.ok /\ f.req.host \in OwnHosts(f.req.cr)
    /\ f.req.op = CREATE =>
         Wants(f.req.cr, f.req) /\ Rec(f.req.host, f.ip) /\ InRow(f.req.cidr, f.ip)
    /\ f.req.op = DELETE => ~Wants(f.req.cr, f.req)

PutInv ==
  \A p \in put :
    LET c == p.resp.req.cr
        st == f5ipam[c].status
        found == Found(st, p.resp.req)
    IN /\ f5ipam[c].live /\ p.rv = f5ipam[c].rv
       /\ p.resp.req.op = CREATE => p.status = Recorded(st, p.resp.req, p.resp.ip)
       /\ p.resp.req.op = DELETE =>
            \E i \in found : (\A j \in found : j <= i) /\ p.status = RemoveAt(st, i)

\* An entry is wanted and recorded, or about to be recorded again after a restart;
\* or it is not wanted, and will be released or has been.
Accounted(c, s) ==
  \/ Wants(c, s) /\ Rec(s.host, s.ip)
  \/ /\ Wants(c, s)
     /\ \/ \E e \in Due : e.op = CREATE /\ e.cr = c
        \/ \E r \in Requests : r.op = CREATE /\ r.cr = c /\ Same(r, s) /\ r.ip = s.ip
  \/ /\ ~Wants(c, s) /\ Rec(s.host, s.ip)
     /\ \/ \E e \in Due : e.op = UPDATE /\ e.cr = c
        \/ \E r \in Requests : r.op = DELETE /\ r.cr = c /\ Same(r, s)
  \/ /\ ~Wants(c, s)
     /\ \E f \in Answers : f.req.op = DELETE /\ f.req.cr = c /\ Same(f.req, s)

StatusInv ==
  \A c \in CR :
    /\ f5ipam[c].spec \in SpecChoice[c] \cup {<<>>}
    /\ ~f5ipam[c].live => f5ipam[c].spec = <<>> /\ f5ipam[c].status = <<>>
    /\ KeysApart(f5ipam[c].status)
    /\ \A s \in Published(c) :
         InRow(s.cidr, s.ip) /\ s.host \in OwnHosts(c) /\ Accounted(c, s)

\* A record is shown, or its answer is on the way, or its host is about to be deleted.
Shown(a) ==
  \E c \in CR : \E s \in Published(c) :
    Wants(c, s) /\ s.host = a.hostname /\ s.ip = a.ipaddress
Answered(a) ==
  \E f \in Answers : f.req.op = CREATE /\ f.req.host = a.hostname /\ f.ip = a.ipaddress
Released(a) ==
  \/ \E r \in Requests : r.op = DELETE /\ r.host = a.hostname
  \/ \E e \in Due :
       \/ e.op = UPDATE /\ \E s \in ToSet(e.old) \ ToSet(e.spec) : s.host = a.hostname
       \/ e.op = DELETE /\ \E s \in ToSet(e.status) : s.host = a.hostname
       \/ e.op = TOMBSTONE /\ a.hostname \in OwnHosts(e.cr)

RecordInv ==
  /\ \A a, b \in aRecords : a.hostname = b.hostname => a = b
  /\ \A a \in aRecords : Shown(a) \/ Answered(a) \/ Released(a)

LifeInv ==
  ~up => /\ aRecords = {} /\ Quiet /\ rscQueue = <<>> /\ stale = <<>>
         /\ \A c, d \in CR : f5ipam[c].live /\ f5ipam[d].live => c = d

WaitInv ==
  /\ DueInv /\ TodoInv /\ AnswerInv /\ PutInv
  /\ StatusInv /\ RecordInv /\ LifeInv

-----------------------------------------------------------------------------
(* Hosts, entries and records.                                             *)

LEMMA OwnHost ==
  ASSUME Settling, NEW c \in CR, NEW d \in CR, NEW h,
         h \in OwnHosts(c), h \in OwnHosts(d)
  PROVE  c = d
BY DEF Settling, OwnHosts

LEMMA WantedFacts ==
  ASSUME Settling, SysInv, StatusInv, NEW c \in CR
  PROVE  /\ \A x \in Wanted(c) : /\ x.host \in OwnHosts(c) /\ f5ipam[c].live
                                /\ x = [host |-> x.host, cidr |-> x.cidr]
         /\ \A x, y \in Wanted(c) : x.host = y.host => x = y
<1>1. CASE f5ipam[c].spec = <<>>
  BY <1>1 DEF Wanted, ToSet
<1>2. CASE f5ipam[c].spec \in SpecChoice[c]
  <2>1. \A x \in Wanted(c) : x.host \in OwnHosts(c)
    BY <1>2 DEF OwnHosts, Wanted
  <2>2. \A x, y \in Wanted(c) : x.host = y.host => x = y
    BY <1>2 DEF Settling, Wanted
  <2>3. Wanted(c) \subseteq HostSpec
    <3>1. f5ipam[c].spec \in Seq(HostSpec)
      BY <1>2, SystemAssumption
    <3>. QED
      BY <3>1, ToSetType DEF Wanted
  <2>4. Wanted(c) # {} => f5ipam[c].live
    BY DEF StatusInv, Wanted, ToSet
  <2>. QED
    BY <2>1, <2>2, <2>3, <2>4 DEF HostSpec
<1>. QED
  BY <1>1, <1>2 DEF StatusInv

LEMMA WantsFacts ==
  ASSUME Settling, SysInv, StatusInv, NEW c \in CR, NEW r, Wants(c, r)
  PROVE  /\ r.host \in OwnHosts(c) /\ f5ipam[c].live
         /\ \A s : Wants(c, s) /\ s.host = r.host => s.cidr = r.cidr
<1>1. [host |-> r.host, cidr |-> r.cidr] \in Wanted(c)
  BY DEF Wants
<1>2. ASSUME NEW s, Wants(c, s), s.host = r.host
      PROVE  s.cidr = r.cidr
  <2>1. [host |-> s.host, cidr |-> s.cidr] = [host |-> r.host, cidr |-> r.cidr]
    BY <1>1, <1>2, WantedFacts DEF Wants
  <2>. QED
    BY <2>1
<1>. QED
  BY <1>1, <1>2, WantedFacts

\* What two entries or requests with one key have in common.
LEMMA SameWants ==
  ASSUME NEW c, NEW r, NEW s, Same(r, s)
  PROVE  Wants(c, r) <=> Wants(c, s)
BY DEF Same, Wants

\* A record is the pair of its columns.
LEMMA RecordFacts ==
  ASSUME SysInv
  PROVE  /\ \A a \in aRecords : Rec(a.hostname, a.ipaddress)
         /\ \A h, ip : Rec(h, ip) => ip \in IP /\ h \in Host
         /\ \A g, h, ip : Rec(g, ip) /\ Rec(h, ip) => g = h
<1>1. aRecords \subseteq [ipaddress : IP, hostname : Host]
  BY DEF SysInv, OwnerInv, CtlrTypeOK, StoreTypeOK, ARecord
<1>2. ASSUME NEW a \in aRecords
      PROVE  Rec(a.hostname, a.ipaddress)
  BY <1>1 DEF Rec
<1>3. ASSUME NEW h, NEW ip, Rec(h, ip)
      PROVE  ip \in IP /\ h \in Host
  BY <1>1, <1>3 DEF Rec
<1>4. ASSUME NEW g, NEW h, NEW ip, Rec(g, ip), Rec(h, ip)
      PROVE  g = h
  BY <1>4 DEF Rec, SysInv, OwnerInv, ExclusiveOwner
<1>. QED
  BY <1>2, <1>3, <1>4

\* The host has one record, or none.
LEMMA OneRecord ==
  ASSUME SysInv, RecordInv, NEW h, NEW ip, NEW jp, Rec(h, ip), Rec(h, jp)
  PROVE  ip = jp
<1>1. [ipaddress |-> ip, hostname |-> h] = [ipaddress |-> jp, hostname |-> h]
  BY DEF RecordInv, Rec
<1>. QED
  BY <1>1

LEMMA KnownAddress ==
  ASSUME SysInv, NEW h \in Host
  PROVE  /\ GetIPAddress(h) # NoIP => Rec(h, GetIPAddress(h))
         /\ GetIPAddress(h) = NoIP => \A ip : ~Rec(h, ip)
         /\ AddressesOf(h) # {} <=> GetIPAddress(h) # NoIP
<1>1. AddressesOf(h) \subseteq IP /\ \A ip : Rec(h, ip) => ip \in AddressesOf(h)
  <2>1. AddressesOf(h) \subseteq IP
    BY DEF SysInv, OwnerInv, CtlrTypeOK, StoreTypeOK, ARecord, AddressesOf
  <2>2. ASSUME NEW ip, Rec(h, ip)
        PROVE  ip \in AddressesOf(h)
    <3>. DEFINE a == [ipaddress |-> ip, hostname |-> h]
    <3>1. a \in aRecords /\ a.hostname = h /\ a.ipaddress = ip
      BY <2>2 DEF Rec
    <3>. HIDE DEF a
    <3>. QED
      BY <3>1 DEF AddressesOf
  <2>. QED
    BY <2>1, <2>2
<1>2. AddressesOf(h) # {} => GetIPAddress(h) \in AddressesOf(h)
  BY <1>1, MinIsMember, StoreAssumption DEF GetIPAddress
<1>3. AddressesOf(h) = {} => GetIPAddress(h) = NoIP
  BY DEF GetIPAddress
<1>4. AddressesOf(h) # {} => GetIPAddress(h) # NoIP
  BY <1>1, <1>2, StoreAssumption
<1>5. GetIPAddress(h) # NoIP => Rec(h, GetIPAddress(h))
  BY GetIPAddressFinds DEF SysInv, OwnerInv, CtlrTypeOK, Rec
<1>. QED
  BY <1>1, <1>3, <1>4, <1>5

\* The entries a resource shows.
LEMMA EntryFacts ==
  ASSUME SysInv, NEW c \in CR
  PROVE  /\ f5ipam[c] \in Resource
         /\ Published(c) = {f5ipam[c].status[i] : i \in DOMAIN f5ipam[c].status}
         /\ \A s \in Published(c) : s \in IPSpec /\ s.ip \in IP /\ s.ip # NoIP
<1>1. f5ipam[c] \in Resource
  BY DEF SysInv, FICTypeOK
<1>2. f5ipam[c].status \in Seq(IPSpec)
  BY <1>1 DEF Resource
<1>3. Published(c) \subseteq IPSpec
  BY <1>2, ToSetType DEF Published
<1>. QED
  BY <1>1, <1>3, IPSpecFacts, StoreAssumption DEF Published, ToSet

-----------------------------------------------------------------------------
(* The informer.                                                           *)

\* All but the events that are to come depends only on what a step leaves alone.
LEMMA Kept ==
  ASSUME TodoInv, AnswerInv, PutInv, StatusInv, RecordInv, Due' = Due,
         UNCHANGED <<aRecords, inFlight, f5ipam, todo, put>>
  PROVE  TodoInv' /\ AnswerInv' /\ PutInv' /\ StatusInv' /\ RecordInv'
<1>0. /\ Answers' = Answers /\ \A c : Published(c)' = Published(c)
      /\ \A c, r : Wants(c, r)' <=> Wants(c, r)
  BY DEF Wants, Wanted, Published, Answers
<1>1. TodoInv'
  BY <1>0 DEF TodoInv
<1>2. AnswerInv'
  BY DEF AnswerInv, Wants, Wanted, Answers, Rec
<1>3. PutInv'
  BY DEF PutInv
<1>4. StatusInv'
  <2>1. ASSUME NEW c \in CR, NEW s \in Published(c)
        PROVE  Accounted(c, s)'
    BY DEF StatusInv, Accounted, Wants, Wanted, Answers, Requests, Rec
  <2>. QED
    BY <2>1 DEF StatusInv, Published
<1>5. RecordInv'
  <2>1. ASSUME NEW a \in aRecords
        PROVE  (Shown(a) \/ Answered(a) \/ Released(a))'
    BY DEF RecordInv, Shown, Answered, Released, Published, Wants, Wanted, Answers, Requests
  <2>. QED
    BY <2>1 DEF RecordInv
<1>. QED
  BY <1>1, <1>2, <1>3, <1>4, <1>5

LEMMA DueKept ==
  ASSUME DueInv, Due' = Due, UNCHANGED <<aRecords, inFlight, f5ipam, todo, put>>
  PROVE  /\ \A e \in Due' : Quiet' /\ Justified(e)'
         /\ \A e, f \in Due' : e = f
BY DEF DueInv, Quiet, Justified, Published, Wants, Wanted

LEMMA EventFacts ==
  ASSUME NEW c, NEW old, NEW spec, NEW st
  PROVE  /\ Idle(UpdateEvent(c, old, spec)) <=> ToSet(old) = ToSet(spec)
         /\ ~Idle(CreateEvent(c, spec, st)) /\ ~Idle(DeleteEvent(c, st))
         /\ ~Idle(Tombstone(c))
BY DEF Idle, UpdateEvent, CreateEvent, DeleteEvent, Tombstone, UPDATE, CREATE, DELETE,
       TOMBSTONE

LEMMA LoseWatchWaits ==
  ASSUME SysInv, WaitInv, LoseWatch
  PROVE  WaitInv'
<1>1. /\ up /\ stale = <<>> /\ stale' = <<f5ipam>>
      /\ UNCHANGED <<aRecords, inFlight, f5ipam, up, rscQueue, todo, put>>
  BY DEF LoseWatch, Watching
<1>2. Coming = {}
  BY <1>1 DEF Coming
<1>3. \A e \in Coming' : Idle(e)
  <2>1. up' /\ stale' # <<>> /\ Head(stale') = f5ipam /\ f5ipam' = f5ipam
    BY <1>1
  <2>2. ASSUME NEW c \in CR, f5ipam[c].live
        PROVE  ListedEvent(c)' = UpdateEvent(c, f5ipam[c].spec, f5ipam[c].spec)
    BY <2>1, <2>2 DEF ListedEvent
  <2>3. \A e \in Coming' : \E c \in CR : f5ipam[c].live /\ e = ListedEvent(c)'
    BY <2>1 DEF Coming
  <2>. QED
    BY <2>2, <2>3, EventFacts
<1>4. Due' = Due
  BY <1>1, <1>2, <1>3 DEF Due, Idle
<1>5. DueInv'
  <2>1. \A e \in Due' : e \notin Coming'
    BY <1>3 DEF Due
  <2>2. \A i, j \in DOMAIN rscQueue' : ~Idle(rscQueue'[i]) /\ ~Idle(rscQueue'[j]) => i = j
    BY <1>1 DEF WaitInv, DueInv
  <2>. QED
    BY <1>1, <1>4, <2>1, <2>2, DueKept DEF WaitInv, DueInv
<1>6. LifeInv'
  BY <1>1 DEF LifeInv
<1>. QED
  BY <1>1, <1>4, <1>5, <1>6, Kept DEF WaitInv

LEMMA RelistWaits ==
  ASSUME SysInv, WaitInv, Relist
  PROVE  WaitInv'
<1>1. /\ up /\ stale # <<>> /\ stale' = <<>>
      /\ UNCHANGED <<aRecords, inFlight, f5ipam, up, todo, put>>
  BY Zenon DEF Relist, Watching
<1>2. Coming' = {}
  BY <1>1 DEF Coming
<1>3. /\ \A i \in DOMAIN rscQueue' :
           (\E j \in DOMAIN rscQueue : rscQueue'[i] = rscQueue[j]) \/ rscQueue'[i] \in Coming
      /\ \A j \in DOMAIN rscQueue : \E i \in DOMAIN rscQueue' : rscQueue'[i] = rscQueue[j]
      /\ \A e \in Coming : \E i \in DOMAIN rscQueue' : rscQueue'[i] = e
      /\ \A x : Once(rscQueue, x) /\ x \notin Coming => Once(rscQueue', x)
      /\ \A x : (\A j \in DOMAIN rscQueue : rscQueue[j] # x) => Once(rscQueue', x)
  <2>1. /\ f5ipam \in [CR -> Resource] /\ stale \in Seq([CR -> Resource])
        /\ rscQueue \in Seq(Event)
    BY DEF SysInv, FICTypeOK
  <2>2. \A x : x \in Coming <=>
          \/ \E c \in CR : f5ipam[c].live /\ x = ListedEvent(c)
          \/ \E c \in CR : Head(stale)[c].live /\ ~f5ipam[c].live /\ x = Tombstone(c)
    BY <1>1 DEF Coming
  <2>3. /\ \A i \in DOMAIN rscQueue' :
             \/ \E j \in DOMAIN rscQueue : rscQueue'[i] = rscQueue[j] /\ (j = 1 => i = 1)
             \/ \E c \in CR : f5ipam[c].live /\ rscQueue'[i] = ListedEvent(c)
             \/ \E c \in CR : /\ Head(stale)[c].live /\ ~f5ipam[c].live
                              /\ rscQueue'[i] = Tombstone(c)
        /\ \A j \in DOMAIN rscQueue : \E i \in DOMAIN rscQueue' : rscQueue'[i] = rscQueue[j]
        /\ \A c \in CR : f5ipam[c].live =>
             \E i \in DOMAIN rscQueue' : rscQueue'[i] = ListedEvent(c)
        /\ \A c \in CR : Head(stale)[c].live /\ ~f5ipam[c].live =>
             \E i \in DOMAIN rscQueue' : rscQueue'[i] = Tombstone(c)
        /\ \A x : /\ Once(rscQueue, x)
                  /\ \A c \in CR : f5ipam[c].live => x # ListedEvent(c)
                  /\ \A c \in CR : Head(stale)[c].live /\ ~f5ipam[c].live => x # Tombstone(c)
                  => Once(rscQueue', x)
        /\ \A x : (\A j \in DOMAIN rscQueue : rscQueue[j] # x) => Once(rscQueue', x)
    BY <2>1, RelistElements
  <2>4. ASSUME NEW e \in Coming
        PROVE  \E i \in DOMAIN rscQueue' : rscQueue'[i] = e
    <3>1. ASSUME NEW c \in CR, f5ipam[c].live, e = ListedEvent(c)
          PROVE  \E i \in DOMAIN rscQueue' : rscQueue'[i] = e
      BY <2>3, <3>1
    <3>2. ASSUME NEW c \in CR, Head(stale)[c].live, ~f5ipam[c].live, e = Tombstone(c)
          PROVE  \E i \in DOMAIN rscQueue' : rscQueue'[i] = e
      BY <2>3, <3>2
    <3>. QED
      BY <2>2, <3>1, <3>2
  <2>5. ASSUME NEW x, Once(rscQueue, x), x \notin Coming
        PROVE  Once(rscQueue', x)
    <3>1. /\ \A c \in CR : f5ipam[c].live => x # ListedEvent(c)
          /\ \A c \in CR : Head(stale)[c].live /\ ~f5ipam[c].live => x # Tombstone(c)
      BY <2>2, <2>5
    <3>. QED
      BY <2>3, <2>5, <3>1
  <2>6. ASSUME NEW i \in DOMAIN rscQueue'
        PROVE  (\E j \in DOMAIN rscQueue : rscQueue'[i] = rscQueue[j]) \/ rscQueue'[i] \in Coming
    <3>1. ASSUME NEW c \in CR, f5ipam[c].live, rscQueue'[i] = ListedEvent(c)
          PROVE  rscQueue'[i] \in Coming
      BY <2>2, <3>1
    <3>2. ASSUME NEW c \in CR, Head(stale)[c].live, ~f5ipam[c].live, rscQueue'[i] = Tombstone(c)
          PROVE  rscQueue'[i] \in Coming
      BY <2>2, <3>2
    <3>. QED
      BY <2>3, <3>1, <3>2
  <2>. QED
    BY <2>3, <2>4, <2>5, <2>6
<1>4. ToSet(rscQueue') = ToSet(rscQueue) \cup Coming
  <2>1. ASSUME NEW e \in ToSet(rscQueue')
        PROVE  e \in ToSet(rscQueue) \cup Coming
    BY <1>3 DEF ToSet
  <2>2. ASSUME NEW e \in ToSet(rscQueue) \cup Coming
        PROVE  e \in ToSet(rscQueue')
    BY <1>3 DEF ToSet
  <2>. QED
    BY <2>1, <2>2
<1>5. Due' = Due
  BY <1>2, <1>4 DEF Due, Idle
<1>6. DueInv'
  <2>1. ASSUME NEW i \in DOMAIN rscQueue', NEW j \in DOMAIN rscQueue',
               ~Idle(rscQueue'[i]), ~Idle(rscQueue'[j])
        PROVE  i = j
    <3>1. rscQueue'[i] \in Due /\ rscQueue'[j] \in Due
      BY <1>5, <2>1 DEF Due, ToSet
    <3>2. rscQueue'[i] = rscQueue'[j]
      BY <3>1 DEF WaitInv, DueInv
    <3>3. rscQueue'[i] \notin ToSet(rscQueue) \/ rscQueue'[i] \notin Coming
      BY <3>1 DEF WaitInv, DueInv
    <3>4. Once(rscQueue, rscQueue'[i])
      BY <2>1 DEF WaitInv, DueInv, Once
    <3>5. Once(rscQueue', rscQueue'[i])
      BY <1>3, <3>3, <3>4 DEF ToSet
    <3>. QED
      BY <3>2, <3>5 DEF Once
  <2>2. \A e \in Due' : e \notin Coming'
    BY <1>2
  <2>. QED
    BY <1>1, <1>5, <2>1, <2>2, DueKept DEF WaitInv, DueInv
<1>7. LifeInv'
  BY <1>1 DEF LifeInv
<1>. QED
  BY <1>1, <1>5, <1>6, <1>7, Kept DEF WaitInv

LEMMA StartWaits ==
  ASSUME SysInv, WaitInv, Start
  PROVE  WaitInv'
<1>1. /\ ~up /\ up' = TRUE /\ stale' = <<>> /\ rscQueue = <<>>
      /\ UNCHANGED <<aRecords, inFlight, f5ipam, todo, put>>
  BY DEF Start, WaitInv, LifeInv
<1>2. Coming' = {}
  BY <1>1 DEF Coming
<1>3. /\ \A i \in DOMAIN rscQueue' : rscQueue'[i] \in Coming
      /\ \A e \in Coming : \E i \in DOMAIN rscQueue' : rscQueue'[i] = e
      /\ \A i, j \in DOMAIN rscQueue' : rscQueue'[i] = rscQueue'[j] => i = j
  BY <1>1, StartElements DEF Coming, SysInv, FICTypeOK
<1>4. ToSet(rscQueue') = Coming /\ ToSet(rscQueue) = {}
  BY <1>1, <1>3 DEF ToSet
<1>5. Due' = Due
  BY <1>2, <1>4 DEF Due, Idle
<1>6. DueInv'
  <2>1. ASSUME NEW i \in DOMAIN rscQueue', NEW j \in DOMAIN rscQueue',
               ~Idle(rscQueue'[i]), ~Idle(rscQueue'[j])
        PROVE  i = j
    <3>1. rscQueue'[i] \in Due /\ rscQueue'[j] \in Due
      BY <1>5, <2>1 DEF Due, ToSet
    <3>. QED
      BY <1>3, <3>1 DEF WaitInv, DueInv
  <2>2. \A e \in Due' : e \notin Coming'
    BY <1>2
  <2>. QED
    BY <1>1, <1>5, <2>1, <2>2, DueKept DEF WaitInv, DueInv
<1>7. LifeInv'
  BY <1>1 DEF LifeInv
<1>. QED
  BY <1>1, <1>5, <1>6, <1>7, Kept DEF WaitInv

-----------------------------------------------------------------------------
(* What has settled.                                                       *)

\* The entries of a resource whose next event restores and changes none.
LEMMA CalmEntries ==
  ASSUME WaitInv, Quiet, NEW c \in CR, \A e \in Due : e.cr = c => e.op \notin {CREATE, UPDATE}
  PROVE  \A s \in Published(c) : Wants(c, s) /\ Rec(s.host, s.ip)
<1>1. Requests = {} /\ Answers = {}
  BY DEF Quiet, Requests, Answers
<1>. QED
  BY <1>1 DEF WaitInv, StatusInv, Accounted

\* Entries that are wanted and recorded are restored one by one.
LEMMA CalmApart ==
  ASSUME Settling, SysInv, StatusInv, NEW c \in CR,
         \A s \in Published(c) : Wants(c, s) /\ Rec(s.host, s.ip)
  PROVE  Apart(f5ipam[c].status)
<1>. DEFINE st == f5ipam[c].status
<1>. SUFFICES ASSUME NEW i \in DOMAIN st, NEW j \in DOMAIN st,
                     st[i].host = st[j].host \/ st[i].ip = st[j].ip
              PROVE  i = j
  BY DEF Apart
<1>1. st[i] \in Published(c) /\ st[j] \in Published(c)
  BY DEF Published, ToSet
<1>2. st[i].host = st[j].host
  BY <1>1, RecordFacts
<1>3. st[i].cidr = st[j].cidr
  BY <1>1, <1>2, WantsFacts
<1>. QED
  BY <1>2, <1>3 DEF StatusInv, KeysApart, Same

LEMMA SettledFacts ==
  ASSUME SysInv, WaitInv, Quiescent
  PROVE  /\ Quiet /\ Due = {} /\ Requests = {} /\ Answers = {}
         /\ \A c \in CR : \A s \in Published(c) : Wants(c, s) /\ Rec(s.host, s.ip)
         /\ \A a \in aRecords : Shown(a)
<1>1. BagToSet(inFlight) = {}
  BY DEF Quiescent, BagToSet, EmptyBag, SetToBag
<1>2. Quiet /\ Requests = {} /\ Answers = {}
  BY <1>1 DEF Quiescent, Quiet, Requests, Answers
<1>3. Due = {}
  <2>1. ToSet(rscQueue) = {} /\ up
    BY DEF Quiescent, ToSet
  <2>2. CASE stale = <<>>
    BY <2>1, <2>2 DEF Due, Coming
  <2>3. CASE stale = <<f5ipam>>
    <3>1. Head(stale) = f5ipam /\ stale # <<>>
      BY <2>3
    <3>2. \A c \in CR : f5ipam[c].live => Idle(ListedEvent(c))
      BY <3>1, EventFacts DEF ListedEvent
    <3>3. \A e \in Coming : Idle(e)
      BY <2>1, <3>1, <3>2 DEF Coming
    <3>. QED
      BY <2>1, <3>3 DEF Due
  <2>. QED
    BY <2>2, <2>3 DEF Quiescent, Watching
<1>4. \A c \in CR : \A s \in Published(c) : Wants(c, s) /\ Rec(s.host, s.ip)
  BY <1>2, <1>3, CalmEntries
<1>5. \A a \in aRecords : Shown(a)
  BY <1>2, <1>3 DEF WaitInv, RecordInv, Answered, Released
<1>. QED
  BY <1>2, <1>3, <1>4, <1>5

-----------------------------------------------------------------------------
(* Users.                                                                  *)

\* What a user's write leaves alone.
LEMMA UserFrame ==
  ASSUME SysInv, WaitInv, Quiescent, NEW c \in CR, NEW live, NEW spec, NEW st, NEW e,
         UserWrite(c, live, spec, st, e)
  PROVE  /\ f5ipam'[c].live = live /\ f5ipam'[c].spec = spec /\ f5ipam'[c].status = st
         /\ \A d \in CR \ {c} : f5ipam'[d] = f5ipam[d]
         /\ UNCHANGED <<aRecords, inFlight, up, stale, todo, put>>
         /\ Quiet' /\ Answers' = {} /\ Requests' = {}
         /\ TodoInv' /\ AnswerInv' /\ PutInv' /\ LifeInv'
<1>1. /\ UNCHANGED <<aRecords, inFlight, up, stale, todo, put>> /\ up
      /\ f5ipam' = [f5ipam EXCEPT ![c] =
           [live |-> live, rv |-> @.rv + 1, spec |-> spec, status |-> st]]
  BY DEF UserWrite, Quiescent
<1>2. Quiet' /\ Answers' = {} /\ Requests' = {}
  BY <1>1, SettledFacts DEF Quiet, Answers, Requests
<1>3. TodoInv' /\ AnswerInv' /\ PutInv' /\ LifeInv'
  <2>1. todo' = <<>> /\ put' = {} /\ up'
    BY <1>1 DEF Quiescent
  <2>2. TodoInv'
    BY <2>1 DEF TodoInv
  <2>3. AnswerInv'
    BY <1>2 DEF AnswerInv
  <2>4. PutInv' /\ LifeInv'
    BY <2>1 DEF PutInv, LifeInv
  <2>. QED
    BY <2>2, <2>3, <2>4
<1>4. f5ipam \in [CR -> Resource]
  BY DEF SysInv, FICTypeOK
<1>. QED
  BY <1>1, <1>2, <1>3, <1>4

\* The informer hears of the write at once, or when it lists again.
LEMMA UserDue ==
  ASSUME SysInv, WaitInv, Quiescent, NEW c \in CR, NEW live \in BOOLEAN, NEW spec, NEW st,
         NEW e, UserWrite(c, live, spec, st, e), live \/ f5ipam[c].live, NEW g,
         g = IF Watching THEN e
             ELSE IF ~live THEN Tombstone(c)
             ELSE IF f5ipam[c].live THEN UpdateEvent(c, f5ipam[c].spec, spec)
             ELSE CreateEvent(c, spec, st)
  PROVE  /\ Due' = {x \in {g} : ~Idle(x)}
         /\ \A i, j \in DOMAIN rscQueue' : ~Idle(rscQueue'[i]) /\ ~Idle(rscQueue'[j]) => i = j
         /\ \A x \in Due' : x \notin ToSet(rscQueue') \/ x \notin Coming'
<1>1. /\ rscQueue = <<>> /\ up /\ up' /\ stale' = stale
      /\ rscQueue' \in IF Watching THEN Enqueued(rscQueue, e) ELSE {<<>>}
  BY DEF Quiescent, UserWrite, Notify
<1>2. CASE Watching
  <2>1. rscQueue' = <<e>>
    BY <1>1, <1>2 DEF Enqueued
  <2>2. Coming' = {}
    BY <1>1, <1>2 DEF Coming, Watching
  <2>3. ToSet(rscQueue') = {e} /\ DOMAIN rscQueue' = {1}
    BY <2>1 DEF ToSet
  <2>. QED
    BY <1>2, <2>2, <2>3 DEF Due, Idle
<1>3. CASE ~Watching
  <2>1. rscQueue' = <<>> /\ stale' # <<>> /\ Head(stale') = f5ipam /\ Head(stale) = f5ipam
    BY <1>1, <1>3 DEF Watching, Quiescent
  <2>2. ToSet(rscQueue') = {}
    BY <2>1 DEF ToSet
  <2>3. /\ f5ipam'[c].live = live /\ f5ipam'[c].spec = spec /\ f5ipam'[c].status = st
        /\ \A d \in CR \ {c} : f5ipam'[d] = f5ipam[d]
    BY UserFrame
  <2>4. ASSUME NEW d \in CR \ {c}, f5ipam'[d].live
        PROVE  Idle(ListedEvent(d)')
    BY <2>1, <2>3, <2>4, EventFacts DEF ListedEvent
  <2>5. live => ListedEvent(c)' = g
    BY <1>3, <2>1, <2>3 DEF ListedEvent
  <2>6. ~live => g = Tombstone(c)
    BY <1>3
  <2>7. Coming' = {ListedEvent(d)' : d \in {x \in CR : f5ipam'[x].live}}
                    \cup {Tombstone(d) : d \in {x \in CR : f5ipam[x].live /\ ~f5ipam'[x].live}}
    BY <1>1, <2>1 DEF Coming
  <2>8. \A x \in Coming' : x = g \/ Idle(x)
    BY <2>3, <2>4, <2>5, <2>6, <2>7
  <2>9. g \in Coming'
    BY <2>3, <2>5, <2>6, <2>7
  <2>10. Due' = {x \in Coming' : ~Idle(x)}
    BY <2>2 DEF Due, Idle
  <2>. QED
    BY <2>1, <2>2, <2>8, <2>9, <2>10
<1>. QED
  BY <1>2, <1>3

\* The other resources and their entries are as they were.
LEMMA OthersStay ==
  ASSUME NEW d \in CR, f5ipam'[d] = f5ipam[d]
  PROVE  /\ Published(d)' = Published(d)
         /\ \A r : Wants(d, r)' <=> Wants(d, r)
BY DEF Published, Wants, Wanted

LEMMA UserCreateWaits ==
  ASSUME Settling, SysInv, WaitInv, NEW c \in CR, NEW spec \in SpecChoice[c],
         UserCreate(c, spec)
  PROVE  WaitInv'
<1>. DEFINE g == CreateEvent(c, spec, <<>>)
<1>1. Quiescent /\ ~f5ipam[c].live /\ UserWrite(c, TRUE, spec, <<>>, g)
  BY DEF UserCreate, UserMayEdit, Settling
<1>2. /\ f5ipam'[c].live = TRUE /\ f5ipam'[c].spec = spec /\ f5ipam'[c].status = <<>>
      /\ \A d \in CR \ {c} : f5ipam'[d] = f5ipam[d]
      /\ UNCHANGED <<aRecords, inFlight, up, stale, todo, put>>
      /\ Quiet' /\ Answers' = {} /\ Requests' = {}
      /\ TodoInv' /\ AnswerInv' /\ PutInv' /\ LifeInv'
  BY <1>1, UserFrame
<1>3. /\ Due' = {x \in {g} : ~Idle(x)}
      /\ \A i, j \in DOMAIN rscQueue' : ~Idle(rscQueue'[i]) /\ ~Idle(rscQueue'[j]) => i = j
      /\ \A x \in Due' : x \notin ToSet(rscQueue') \/ x \notin Coming'
  <2>. HIDE DEF g
  <2>1. g = IF Watching THEN g
            ELSE IF ~TRUE THEN Tombstone(c)
            ELSE IF f5ipam[c].live THEN UpdateEvent(c, f5ipam[c].spec, spec)
            ELSE CreateEvent(c, spec, <<>>)
    BY <1>1 DEF g
  <2>. QED
    BY <1>1, <2>1, UserDue
<1>4. /\ \A d \in CR : \A s \in Published(d) : Wants(d, s) /\ Rec(s.host, s.ip)
      /\ \A a \in aRecords : Shown(a)
  BY <1>1, SettledFacts
<1>5. Published(c) = {} /\ Published(c)' = {}
  BY <1>1, <1>2 DEF WaitInv, StatusInv, Published, ToSet
<1>6. ASSUME NEW a \in aRecords
      PROVE  /\ Shown(a)'
             /\ a.hostname \notin OwnHosts(c)
  <2>1. PICK d \in CR : \E s \in Published(d) :
                          Wants(d, s) /\ s.host = a.hostname /\ s.ip = a.ipaddress
    BY <1>4 DEF Shown
  <2>2. d # c
    BY <1>5, <2>1
  <2>3. Published(d)' = Published(d) /\ \A r : Wants(d, r)' <=> Wants(d, r)
    BY <1>2, <2>2, OthersStay
  <2>4. Shown(a)'
    BY <2>1, <2>3 DEF Shown
  <2>5. a.hostname \in OwnHosts(d)
    BY <2>1 DEF WaitInv, StatusInv
  <2>. QED
    BY <2>2, <2>4, <2>5, OwnHost
<1>7. RecordInv'
  BY <1>2, <1>6 DEF RecordInv, WaitInv
<1>8. StatusInv'
  <2>1. ASSUME NEW d \in CR \ {c}, NEW s \in Published(d)
        PROVE  Accounted(d, s)'
    BY <1>2, <1>4, OthersStay DEF Accounted, Rec
  <2>2. \A d \in CR \ {c} : Published(d)' = Published(d)
    BY <1>2, OthersStay
  <2>3. KeysApart(<<>>)
    BY DEF KeysApart
  <2>. QED
    BY <1>2, <1>5, <2>1, <2>2, <2>3 DEF StatusInv, WaitInv
<1>9. Justified(g)'
  <2>1. /\ g.op = CREATE /\ g.cr = c /\ g.spec = spec /\ g.status = <<>>
        /\ CREATE # UPDATE /\ CREATE # DELETE /\ CREATE # TOMBSTONE
    BY DEF CreateEvent, CREATE, UPDATE, DELETE, TOMBSTONE
  <2>2. Apart(<<>>)
    BY DEF Apart
  <2>3. Wanted(c)' = ToSet(spec)
    BY <1>2 DEF Wanted
  <2>4. \A a \in aRecords' : a.hostname \notin OwnHosts(c)
    BY <1>2, <1>6
  <2>. HIDE DEF g
  <2>. QED
    BY <1>2, <1>5, <2>1, <2>2, <2>3, <2>4 DEF Justified
<1>10. DueInv'
  <2>. HIDE DEF g
  <2>. QED
    BY <1>2, <1>3, <1>9 DEF DueInv
<1>. QED
  BY <1>2, <1>7, <1>8, <1>10 DEF WaitInv

LEMMA UserEditWaits ==
  ASSUME Settling, SysInv, WaitInv, NEW c \in CR, NEW spec \in SpecChoice[c],
         UserEdit(c, spec)
  PROVE  WaitInv'
<1>0. PICK old, g : old = f5ipam[c].spec /\ g = UpdateEvent(c, old, spec)
  OBVIOUS
<1>1. Quiescent /\ f5ipam[c].live /\ UserWrite(c, TRUE, spec, f5ipam[c].status, g)
  BY <1>0 DEF UserEdit, UserMayEdit, Settling
<1>2. /\ f5ipam'[c].live = TRUE /\ f5ipam'[c].spec = spec
      /\ f5ipam'[c].status = f5ipam[c].status
      /\ \A d \in CR \ {c} : f5ipam'[d] = f5ipam[d]
      /\ UNCHANGED <<aRecords, inFlight, up, stale, todo, put>>
      /\ Quiet' /\ Answers' = {} /\ Requests' = {}
      /\ TodoInv' /\ AnswerInv' /\ PutInv' /\ LifeInv'
  BY <1>1, UserFrame
<1>3. /\ Due' = {x \in {g} : ~Idle(x)}
      /\ \A i, j \in DOMAIN rscQueue' : ~Idle(rscQueue'[i]) /\ ~Idle(rscQueue'[j]) => i = j
      /\ \A x \in Due' : x \notin ToSet(rscQueue') \/ x \notin Coming'
  <2>1. g = IF Watching THEN g
            ELSE IF ~TRUE THEN Tombstone(c)
            ELSE IF f5ipam[c].live THEN UpdateEvent(c, f5ipam[c].spec, spec)
            ELSE CreateEvent(c, spec, f5ipam[c].status)
    BY <1>0, <1>1
  <2>. QED
    BY <1>1, <2>1, UserDue
<1>4. /\ \A d \in CR : \A s \in Published(d) : Wants(d, s) /\ Rec(s.host, s.ip)
      /\ \A a \in aRecords : Shown(a)
  BY <1>1, SettledFacts
<1>5. /\ g.op = UPDATE /\ g.cr = c /\ g.old = old /\ g.spec = spec
      /\ Idle(g) <=> ToSet(old) = ToSet(spec)
      /\ CREATE # UPDATE /\ UPDATE # DELETE /\ UPDATE # TOMBSTONE
  BY <1>0, EventFacts DEF UpdateEvent, CREATE, UPDATE, DELETE, TOMBSTONE
<1>6. /\ Wanted(c) = ToSet(old) /\ Wanted(c)' = ToSet(spec)
      /\ Published(c)' = Published(c)
      /\ \A d \in CR \ {c} : Published(d)' = Published(d) /\ \A r : Wants(d, r)' <=> Wants(d, r)
  BY <1>0, <1>2, OthersStay DEF Wanted, Published
<1>7. \A s \in Published(c) : [host |-> s.host, cidr |-> s.cidr] \in ToSet(old)
  BY <1>4, <1>6 DEF Wants
<1>8. \A s \in Published(c) : ~Wants(c, s)' => g \in Due'
  BY <1>3, <1>5, <1>6, <1>7 DEF Wants
<1>9. RecordInv'
  <2>1. ASSUME NEW a \in aRecords
        PROVE  Shown(a)' \/ Released(a)'
    <3>1. PICK d \in CR : \E s \in Published(d) :
                            Wants(d, s) /\ s.host = a.hostname /\ s.ip = a.ipaddress
      BY <1>4 DEF Shown
    <3>2. CASE d # c
      BY <1>6, <3>1, <3>2 DEF Shown
    <3>3. CASE d = c
      <4>1. PICK s \in Published(c) : s.host = a.hostname /\ s.ip = a.ipaddress
        BY <3>1, <3>3
      <4>2. CASE Wants(c, s)'
        BY <1>6, <4>1, <4>2 DEF Shown
      <4>3. CASE ~Wants(c, s)'
        <5>. DEFINE k == [host |-> s.host, cidr |-> s.cidr]
        <5>1. k \in ToSet(old) \ ToSet(spec) /\ k.host = a.hostname
          BY <1>6, <1>7, <4>1, <4>3 DEF Wants
        <5>2. g \in Due'
          BY <1>8, <4>3
        <5>. HIDE DEF k
        <5>. QED
          BY <1>5, <5>1, <5>2 DEF Released
      <4>. QED
        BY <4>2, <4>3
    <3>. QED
      BY <3>2, <3>3
  <2>. QED
    BY <1>2, <2>1 DEF RecordInv, WaitInv
<1>10. StatusInv'
  <2>1. ASSUME NEW d \in CR, NEW s \in Published(d)
        PROVE  Accounted(d, s)'
    <3>1. Rec(s.host, s.ip)'
      BY <1>2, <1>4 DEF Rec
    <3>2. CASE Wants(d, s)'
      BY <3>1, <3>2 DEF Accounted
    <3>3. CASE ~Wants(d, s)'
      <4>1. d = c
        BY <1>4, <1>6, <3>3
      <4>2. g \in Due'
        BY <1>8, <3>3, <4>1
      <4>. QED
        BY <1>5, <3>1, <3>3, <4>1, <4>2 DEF Accounted
    <3>. QED
      BY <3>2, <3>3
  <2>2. \A d \in CR : Published(d)' = Published(d)
    BY <1>6
  <2>. QED
    BY <1>1, <1>2, <2>1, <2>2 DEF StatusInv, WaitInv
<1>11. Justified(g)'
  <2>1. OnePerHost(ToSet(old)) /\ \A s \in ToSet(old) : s.host \in OwnHosts(c)
    BY <1>6, WantedFacts DEF OnePerHost, WaitInv
  <2>. QED
    BY <1>2, <1>5, <1>6, <1>7, <2>1 DEF Justified
<1>12. DueInv'
  BY <1>2, <1>3, <1>11 DEF DueInv
<1>. QED
  BY <1>2, <1>9, <1>10, <1>12 DEF WaitInv

LEMMA UserDeleteWaits ==
  ASSUME Settling, SysInv, WaitInv, NEW c \in CR, UserDelete(c)
  PROVE  WaitInv'
<1>0. PICK st, g : /\ st = f5ipam[c].status
                    /\ g = IF Watching THEN DeleteEvent(c, st) ELSE Tombstone(c)
  OBVIOUS
<1>1. Quiescent /\ f5ipam[c].live /\ UserWrite(c, FALSE, <<>>, <<>>, DeleteEvent(c, st))
  BY <1>0 DEF UserDelete, UserMayEdit, Settling
<1>2. /\ f5ipam'[c].live = FALSE /\ f5ipam'[c].spec = <<>> /\ f5ipam'[c].status = <<>>
      /\ \A d \in CR \ {c} : f5ipam'[d] = f5ipam[d]
      /\ UNCHANGED <<aRecords, inFlight, up, stale, todo, put>>
      /\ Quiet' /\ Answers' = {} /\ Requests' = {}
      /\ TodoInv' /\ AnswerInv' /\ PutInv' /\ LifeInv'
  BY <1>1, UserFrame
<1>3. /\ Due' = {x \in {g} : ~Idle(x)}
      /\ \A i, j \in DOMAIN rscQueue' : ~Idle(rscQueue'[i]) /\ ~Idle(rscQueue'[j]) => i = j
      /\ \A x \in Due' : x \notin ToSet(rscQueue') \/ x \notin Coming'
  <2>1. g = IF Watching THEN DeleteEvent(c, st)
            ELSE IF ~FALSE THEN Tombstone(c)
            ELSE IF f5ipam[c].live THEN UpdateEvent(c, f5ipam[c].spec, <<>>)
            ELSE CreateEvent(c, <<>>, <<>>)
    BY <1>0
  <2>. QED
    BY <1>1, <2>1, UserDue
<1>4. /\ \A d \in CR : \A s \in Published(d) : Wants(d, s) /\ Rec(s.host, s.ip)
      /\ \A a \in aRecords : Shown(a)
  BY <1>1, SettledFacts
<1>5. /\ g.op \in {DELETE, TOMBSTONE} /\ g.cr = c
      /\ g.op = DELETE => g.status = st
      /\ ~Idle(g)
      /\ CREATE # DELETE /\ CREATE # TOMBSTONE /\ UPDATE # DELETE /\ UPDATE # TOMBSTONE
      /\ DELETE # TOMBSTONE
  BY <1>0, EventFacts DEF DeleteEvent, Tombstone, CREATE, UPDATE, DELETE, TOMBSTONE
<1>6. /\ Published(c) = ToSet(st) /\ Published(c)' = {}
      /\ \A d \in CR \ {c} : Published(d)' = Published(d) /\ \A r : Wants(d, r)' <=> Wants(d, r)
      /\ \A s \in Published(c) : s.host \in OwnHosts(c)
  BY <1>0, <1>2, OthersStay DEF Published, ToSet, WaitInv, StatusInv
<1>7. g \in Due'
  BY <1>3, <1>5
<1>8. RecordInv'
  <2>1. ASSUME NEW a \in aRecords
        PROVE  Shown(a)' \/ Released(a)'
    <3>1. PICK d \in CR : \E s \in Published(d) :
                            Wants(d, s) /\ s.host = a.hostname /\ s.ip = a.ipaddress
      BY <1>4 DEF Shown
    <3>2. CASE d # c
      BY <1>6, <3>1, <3>2 DEF Shown
    <3>3. CASE d = c
      <4>1. PICK s \in ToSet(st) : s.host = a.hostname /\ s.host \in OwnHosts(c)
        BY <1>6, <3>1, <3>3
      <4>. QED
        BY <1>5, <1>7, <4>1 DEF Released
    <3>. QED
      BY <3>2, <3>3
  <2>. QED
    BY <1>2, <2>1 DEF RecordInv, WaitInv
<1>9. StatusInv'
  <2>1. ASSUME NEW d \in CR \ {c}, NEW s \in Published(d)
        PROVE  Accounted(d, s)'
    BY <1>2, <1>4, <1>6 DEF Accounted, Rec
  <2>2. KeysApart(<<>>)
    BY DEF KeysApart
  <2>. QED
    BY <1>2, <1>6, <2>1, <2>2 DEF StatusInv, WaitInv
<1>10. Justified(g)'
  BY <1>2, <1>5, <1>6 DEF Justified
<1>11. DueInv'
  BY <1>2, <1>3, <1>10 DEF DueInv
<1>. QED
  BY <1>2, <1>8, <1>9, <1>11 DEF WaitInv

-----------------------------------------------------------------------------
(* The process stops.                                                      *)

\* What is left is what the API server stores: no resource, or one to restore.
LEMMA DieWaits ==
  ASSUME Settling, SysInv, StatusInv, Die,
         \A c, d \in CR : f5ipam[c].live /\ f5ipam[d].live => c = d,
         \A c \in CR : f5ipam[c].live =>
           \A s \in Published(c) : Wants(c, s) /\ Rec(s.host, s.ip)
  PROVE  WaitInv'
<1>1. /\ ~up' /\ aRecords' = {} /\ inFlight' = EmptyBag /\ rscQueue' = <<>> /\ todo' = <<>>
      /\ put' = {} /\ stale' = <<>> /\ f5ipam' = f5ipam
  BY DEF Die, StoreReset
<1>2. BagToSet(inFlight') = {}
  BY <1>1 DEF BagToSet, EmptyBag, SetToBag
<1>3. Quiet' /\ Answers' = {} /\ Requests' = {}
  BY <1>1, <1>2 DEF Quiet, Answers, Requests
<1>4. /\ \A c \in CR : Published(c)' = Published(c) /\ Wanted(c)' = Wanted(c)
      /\ \A c \in CR : \A r : Wants(c, r)' <=> Wants(c, r)
  BY <1>1 DEF Published, Wants, Wanted
<1>5. Due' = {CreateEvent(c, f5ipam[c].spec, f5ipam[c].status) : c \in {d \in CR : f5ipam[d].live}}
  <2>1. ToSet(rscQueue') = {}
    BY <1>1 DEF ToSet
  <2>2. Coming' = {CreateEvent(c, f5ipam[c].spec, f5ipam[c].status) :
                     c \in {d \in CR : f5ipam[d].live}}
    BY <1>1 DEF Coming
  <2>3. \A e \in Coming' : ~Idle(e)
    BY <2>2, EventFacts
  <2>4. Due' = {e \in Coming' : ~Idle(e)}
    BY <2>1 DEF Due, Idle
  <2>. QED
    BY <2>2, <2>3, <2>4
<1>6. ASSUME NEW e \in Due'
      PROVE  /\ e.cr \in CR /\ f5ipam[e.cr].live /\ e.op = CREATE
             /\ e = CreateEvent(e.cr, f5ipam[e.cr].spec, f5ipam[e.cr].status)
             /\ e.spec = f5ipam[e.cr].spec /\ e.status = f5ipam[e.cr].status
  <2>1. PICK c \in CR : f5ipam[c].live /\ e = CreateEvent(c, f5ipam[c].spec, f5ipam[c].status)
    BY <1>5
  <2>2. e.cr = c /\ e.op = CREATE /\ e.spec = f5ipam[c].spec /\ e.status = f5ipam[c].status
    BY <2>1 DEF CreateEvent
  <2>. QED
    BY <2>1, <2>2
<1>7. DueInv'
  <2>1. ASSUME NEW e \in Due'
        PROVE  Justified(e)'
    <3>1. Apart(f5ipam[e.cr].status)
      BY <1>6, CalmApart
    <3>2. CREATE # UPDATE /\ CREATE # DELETE /\ CREATE # TOMBSTONE
      BY DEF CREATE, UPDATE, DELETE, TOMBSTONE
    <3>3. ToSet(e.spec) = Wanted(e.cr)'
      BY <1>4, <1>6 DEF Wanted
    <3>4. \A s \in Published(e.cr)' : Wants(e.cr, s)'
      BY <1>4, <1>6
    <3>. QED
      BY <1>1, <1>6, <3>1, <3>2, <3>3, <3>4 DEF Justified
  <2>2. \A e, f \in Due' : e = f
    BY <1>6
  <2>3. DOMAIN rscQueue' = {} /\ ToSet(rscQueue') = {}
    BY <1>1 DEF ToSet
  <2>. QED
    BY <1>3, <2>1, <2>2, <2>3 DEF DueInv
<1>8. StatusInv'
  <2>1. ASSUME NEW c \in CR, NEW s \in Published(c)
        PROVE  Accounted(c, s)'
    <3>1. f5ipam[c].live
      BY DEF StatusInv, Published, ToSet
    <3>2. PICK e \in Due' : e = CreateEvent(c, f5ipam[c].spec, f5ipam[c].status)
      BY <1>5, <3>1
    <3>3. e.op = CREATE /\ e.cr = c
      BY <3>2 DEF CreateEvent
    <3>4. Wants(c, s)'
      BY <1>4, <3>1
    <3>. QED
      BY <3>3, <3>4 DEF Accounted
  <2>. QED
    BY <1>1, <1>4, <2>1 DEF StatusInv
<1>9. TodoInv' /\ AnswerInv' /\ PutInv' /\ RecordInv'
  BY <1>1, <1>3 DEF TodoInv, AnswerInv, PutInv, RecordInv
<1>10. LifeInv'
  BY <1>1, <1>3 DEF LifeInv
<1>. QED
  BY <1>7, <1>8, <1>9, <1>10 DEF WaitInv

LEMMA CrashWaits ==
  ASSUME Settling, SysInv, WaitInv, Crash
  PROVE  WaitInv'
<1>1. Quiescent /\ Die /\ \A c, d \in CR : f5ipam[c].live /\ f5ipam[d].live => c = d
  BY DEF Crash, Settling
<1>. QED
  BY <1>1, SettledFacts, DieWaits DEF WaitInv

\* The resource of a tombstone is gone, so there is no second one to restore.
LEMMA PanicWaits ==
  ASSUME Settling, SysInv, WaitInv, Panic
  PROVE  WaitInv'
<1>1. PICK e \in ToSet(rscQueue) : e.op = TOMBSTONE
  BY DEF Panic, ToSet
<1>2. e \in Due /\ e.op \notin {CREATE, UPDATE}
  BY <1>1 DEF Due, Idle, CREATE, UPDATE, TOMBSTONE
<1>3. Quiet /\ ~f5ipam[e.cr].live /\ \A f \in Due : f = e
  BY <1>1, <1>2 DEF WaitInv, DueInv, Justified
<1>4. e.cr \in CR
  <2>1. rscQueue \in Seq(Event)
    BY DEF SysInv, FICTypeOK
  <2>2. e \in Event
    BY <2>1, ToSetType
  <2>. QED
    BY <2>2 DEF Event
<1>5. \A c, d \in CR : f5ipam[c].live /\ f5ipam[d].live => c = d
  BY <1>3, <1>4 DEF Settling
<1>6. \A c \in CR : \A s \in Published(c) : Wants(c, s) /\ Rec(s.host, s.ip)
  BY <1>2, <1>3, CalmEntries
<1>. QED
  BY <1>5, <1>6, DieWaits DEF Panic, WaitInv

-----------------------------------------------------------------------------
(* processResource.                                                        *)

\* The head of the queue is the one event that changes something, or there is
\* still the same one.
LEMMA HeadDue ==
  ASSUME SysInv, DueInv, rscQueue # <<>>, rscQueue' = Tail(rscQueue),
         UNCHANGED <<f5ipam, up, stale>>
  PROVE  /\ Idle(Head(rscQueue)) => Due' = Due
         /\ ~Idle(Head(rscQueue)) => Head(rscQueue) \in Due /\ Due' = {}
         /\ \A i, j \in DOMAIN rscQueue' : ~Idle(rscQueue'[i]) /\ ~Idle(rscQueue'[j]) => i = j
         /\ \A e \in Due' : e \notin ToSet(rscQueue') \/ e \notin Coming'
<1>. DEFINE n == Len(rscQueue)
            e == Head(rscQueue)
<1>1. /\ n \in Nat /\ DOMAIN rscQueue = 1..n /\ 1 \in 1..n /\ rscQueue[1] = e
      /\ DOMAIN rscQueue' = 1..n - 1
      /\ \A i \in 1..n - 1 : i + 1 \in 1..n /\ i + 1 # 1 /\ rscQueue'[i] = rscQueue[i + 1]
  <2>1. rscQueue \in Seq(Event)
    BY DEF SysInv, FICTypeOK
  <2>. HIDE DEF n
  <2>2. n = Len(rscQueue)
    BY DEF n
  <2>. QED
    BY <2>1, <2>2
<1>2. Coming' = Coming
  BY DEF Coming, ListedEvent
<1>. HIDE DEF n, e
<1>3. /\ ToSet(rscQueue') \subseteq ToSet(rscQueue)
      /\ ToSet(rscQueue) = {e} \cup ToSet(rscQueue')
  <2>1. \A i \in 1..n : i = 1 \/ (i - 1 \in 1..n - 1 /\ i - 1 + 1 = i)
    BY <1>1
  <2>2. \A i \in 1..n : i = 1 \/ \E j \in 1..n - 1 : rscQueue'[j] = rscQueue[i]
    BY <1>1, <2>1
  <2>3. \A j \in 1..n - 1 : \E i \in 1..n : rscQueue'[j] = rscQueue[i]
    BY <1>1
  <2>4. /\ \A x : x \in ToSet(rscQueue) <=> \E i \in 1..n : x = rscQueue[i]
        /\ \A x : x \in ToSet(rscQueue') <=> \E i \in 1..n - 1 : x = rscQueue'[i]
    BY <1>1 DEF ToSet
  <2>5. \A x : x \in ToSet(rscQueue') => x \in ToSet(rscQueue)
    BY <2>3, <2>4
  <2>6. \A x : x \in ToSet(rscQueue) <=> x = e \/ x \in ToSet(rscQueue')
    <3>1. e \in ToSet(rscQueue)
      BY <1>1, <2>4
    <3>2. \A x : x \in ToSet(rscQueue) => x = e \/ x \in ToSet(rscQueue')
      BY <1>1, <2>2, <2>4
    <3>. QED
      BY <2>5, <3>1, <3>2
  <2>. QED
    BY <2>5, <2>6
<1>4. ASSUME NEW i \in DOMAIN rscQueue', NEW j \in DOMAIN rscQueue',
             ~Idle(rscQueue'[i]), ~Idle(rscQueue'[j])
      PROVE  i = j
  <2>1. i + 1 = j + 1
    BY <1>1, <1>4 DEF DueInv
  <2>. QED
    BY <1>1, <2>1
<1>5. \A x \in Due' : x \in Due
  BY <1>2, <1>3 DEF Due, Idle
<1>6. \A x \in Due' : x \notin ToSet(rscQueue') \/ x \notin Coming'
  BY <1>2, <1>3, <1>5 DEF DueInv
<1>7. Idle(e) => Due' = Due
  BY <1>2, <1>3 DEF Due, Idle
<1>8. ASSUME ~Idle(e)
      PROVE  e \in Due /\ Due' = {}
  <2>1. e \in Due
    BY <1>3, <1>8 DEF Due
  <2>2. ASSUME NEW x \in Due'
        PROVE  FALSE
    <3>1. x = e
      BY <1>5, <2>1 DEF DueInv
    <3>2. e \notin Coming
      BY <1>3, <2>1 DEF DueInv
    <3>3. e \in ToSet(rscQueue')
      BY <1>2, <3>1, <3>2 DEF Due
    <3>4. PICK i \in 1..n - 1 : rscQueue'[i] = e
      BY <1>1, <3>3 DEF ToSet
    <3>5. i + 1 = 1
      BY <1>1, <1>8, <3>4 DEF DueInv
    <3>. QED
      BY <1>1, <3>4, <3>5
  <2>. QED
    BY <2>1, <2>2
<1>. QED
  BY <1>4, <1>6, <1>7, <1>8 DEF e

\* What processResource starts from when it has something to do.
LEMMA ProcessFrame ==
  ASSUME SysInv, WaitInv, ProcessResource, NEW e, e = Head(rscQueue), ~Idle(e)
  PROVE  /\ e \in Event /\ Justified(e) /\ \A f \in Due : f = e
         /\ UNCHANGED <<aRecords, inFlight, f5ipam, put>>
         /\ Requests = {} /\ Answers' = {}
         /\ DueInv' /\ AnswerInv' /\ PutInv' /\ LifeInv'
         /\ \A d \in CR : /\ Published(d)' = Published(d)
                          /\ \A r : Wants(d, r)' <=> Wants(d, r)
         /\ \A h, ip : Rec(h, ip)' <=> Rec(h, ip)
         /\ \A a \in aRecords : Shown(a)' <=> Shown(a)
         /\ \A d \in CR : d # e.cr \/ e.op \notin {CREATE, UPDATE} =>
              \A s \in Published(d) : Wants(d, s) /\ Rec(s.host, s.ip)
<1>1. /\ rscQueue # <<>> /\ rscQueue' = Tail(rscQueue)
      /\ UNCHANGED <<aRecords, inFlight, f5ipam, up, put, stale>>
  BY DEF ProcessResource
<1>2. e \in Due /\ Due' = {}
  BY <1>1, HeadDue DEF WaitInv
<1>3. Quiet /\ Justified(e) /\ \A f \in Due : f = e
  BY <1>2 DEF WaitInv, DueInv
<1>4. e \in Event
  BY <1>1, HeadTailType DEF SysInv, FICTypeOK
<1>5. Requests = {} /\ Answers' = {} /\ put = {}
  BY <1>1, <1>3 DEF Quiet, Requests, Answers
<1>6. DueInv'
  BY <1>1, <1>2, HeadDue DEF WaitInv, DueInv
<1>7. AnswerInv' /\ PutInv' /\ LifeInv'
  BY <1>1, <1>5 DEF AnswerInv, PutInv, LifeInv, WaitInv
<1>8. \A d \in CR : Published(d)' = Published(d) /\ \A r : Wants(d, r)' <=> Wants(d, r)
  BY <1>1, OthersStay
<1>9. /\ \A h, ip : Rec(h, ip)' <=> Rec(h, ip)
      /\ \A a \in aRecords : Shown(a)' <=> Shown(a)
  BY <1>1, <1>8 DEF Rec, Shown
<1>10. ASSUME NEW d \in CR, d # e.cr \/ e.op \notin {CREATE, UPDATE}
       PROVE  \A s \in Published(d) : Wants(d, s) /\ Rec(s.host, s.ip)
  BY <1>3, <1>10, CalmEntries
<1>. QED
  BY <1>1, <1>3, <1>4, <1>5, <1>6, <1>7, <1>8, <1>9, <1>10

\* Nothing is made of an event that changes nothing.
LEMMA ProcessIdle ==
  ASSUME SysInv, WaitInv, ProcessResource, Idle(Head(rscQueue))
  PROVE  WaitInv'
<1>1. /\ rscQueue # <<>> /\ rscQueue' = Tail(rscQueue) /\ todo = <<>>
      /\ UNCHANGED <<aRecords, inFlight, f5ipam, up, put, stale>>
  BY DEF ProcessResource
<1>2. todo' = <<>>
  <2>1. PICK e : e = Head(rscQueue)
    OBVIOUS
  <2>2. todo' = UpdateRequests(e) /\ ToSet(e.old) = ToSet(e.spec)
    BY <2>1 DEF ProcessResource, Idle, UPDATE, CREATE, DELETE
  <2>3. SpecDiff(e, e.old, e.spec, DELETE) = {} /\ SpecDiff(e, e.spec, e.old, CREATE) = {}
    BY <2>2 DEF SpecDiff
  <2>4. todo' = <<>> \o <<>>
    BY <2>2, <2>3 DEF UpdateRequests, Loop
  <2>. QED
    BY <2>4
<1>3. /\ Due' = Due
      /\ \A i, j \in DOMAIN rscQueue' : ~Idle(rscQueue'[i]) /\ ~Idle(rscQueue'[j]) => i = j
      /\ \A e \in Due' : e \notin ToSet(rscQueue') \/ e \notin Coming'
  BY <1>1, HeadDue DEF WaitInv
<1>4. UNCHANGED <<aRecords, inFlight, f5ipam, todo, put>>
  BY <1>1, <1>2
<1>5. DueInv'
  BY <1>3, <1>4, DueKept DEF WaitInv, DueInv
<1>6. LifeInv'
  BY <1>1 DEF LifeInv, WaitInv
<1>. QED
  BY <1>3, <1>4, <1>5, <1>6, Kept DEF WaitInv

\* A resource that is new to the informer: its entries are restored, then its hosts
\* are asked for.
LEMMA ProcessCreate ==
  ASSUME Settling, SysInv, WaitInv, ProcessResource, NEW e, e = Head(rscQueue), e.op = CREATE
  PROVE  WaitInv'
<1>0. ~Idle(e) /\ CREATE # UPDATE /\ CREATE # DELETE /\ CREATE # TOMBSTONE
  BY DEF Idle, CREATE, UPDATE, DELETE, TOMBSTONE
<1>1. /\ e \in Event /\ Justified(e) /\ \A f \in Due : f = e
      /\ UNCHANGED <<aRecords, inFlight, f5ipam, put>>
      /\ Requests = {} /\ Answers' = {}
      /\ DueInv' /\ AnswerInv' /\ PutInv' /\ LifeInv'
      /\ \A d \in CR : /\ Published(d)' = Published(d)
                       /\ \A r : Wants(d, r)' <=> Wants(d, r)
      /\ \A h, ip : Rec(h, ip)' <=> Rec(h, ip)
      /\ \A a \in aRecords : Shown(a)' <=> Shown(a)
      /\ \A d \in CR : d # e.cr \/ e.op \notin {CREATE, UPDATE} =>
           \A s \in Published(d) : Wants(d, s) /\ Rec(s.host, s.ip)
  BY <1>0, ProcessFrame
<1>2. todo' = CreateRequests(e)
  BY <1>0 DEF ProcessResource
<1>3. PICK c, n, m : c = e.cr /\ n = Len(e.status) /\ m = Len(e.spec)
  OBVIOUS
<1>4. /\ c \in CR /\ e.status = f5ipam[c].status /\ Apart(e.status)
      /\ \A s \in ToSet(e.spec) : s \in Wanted(c)
      /\ \A s \in Published(c) : Wants(c, s)
      /\ \A a \in aRecords : /\ a.hostname \notin OwnHosts(c)
                             /\ \A s \in Published(c) : a.ipaddress # s.ip
  BY <1>1, <1>3 DEF Justified, Event
<1>5. /\ e.status \in Seq(IPSpec) /\ e.spec \in Seq(Asked)
      /\ DOMAIN todo' = 1..n + m
      /\ \A i \in 1..n + m :
           todo'[i] = IF i <= n THEN {StatusRequest(c, e.status[i], CREATE)}
                      ELSE {SpecRequest(c, e.spec[i - n], CREATE)}
  BY <1>1, <1>2, <1>3, CreateElements
<1>6. n \in Nat /\ m \in Nat /\ DOMAIN e.status = 1..n /\ DOMAIN e.spec = 1..m
  BY <1>3, <1>5
<1>7. \A i \in 1..n : e.status[i] \in Published(c) /\ e.status[i].ip # NoIP
  BY <1>4, <1>6, EntryFacts
<1>8. ASSUME NEW i \in DOMAIN todo', NEW r \in todo'[i]
      PROVE  /\ i \in Nat /\ r.cr = c /\ r.op = CREATE
             /\ \/ /\ i \in 1..n /\ r = StatusRequest(c, e.status[i], CREATE)
                   /\ Same(r, e.status[i]) /\ r.ip = e.status[i].ip
                   /\ e.status[i] \in Published(c) /\ r.ip # NoIP
                \/ n < i /\ r.ip = NoIP
             /\ Wants(c, r)
  <2>1. CASE i <= n
    <3>1. i \in 1..n
      BY <1>5, <1>6, <2>1
    <3>2. r = StatusRequest(c, e.status[i], CREATE)
      BY <1>5, <1>8, <2>1
    <3>3. /\ Same(r, e.status[i]) /\ r.ip = e.status[i].ip /\ r.cr = c /\ r.op = CREATE
      BY <3>2 DEF StatusRequest, Same
    <3>. QED
      BY <1>4, <1>7, <3>1, <3>2, <3>3, SameWants
  <2>2. CASE n < i
    <3>1. i - n \in 1..m /\ ~(i <= n) /\ i \in Nat
      BY <1>5, <1>6, <2>2
    <3>2. r = SpecRequest(c, e.spec[i - n], CREATE)
      BY <1>5, <1>8, <3>1
    <3>3. e.spec[i - n] \in Wanted(c)
      BY <1>4, <1>6, <3>1 DEF ToSet
    <3>4. Wants(c, e.spec[i - n]) /\ Same(r, e.spec[i - n])
      BY <3>2, <3>3, <1>4, WantedFacts DEF Wants, WaitInv, SpecRequest, Same
    <3>5. r.cr = c /\ r.op = CREATE /\ r.ip = NoIP
      BY <3>2 DEF SpecRequest
    <3>. QED
      BY <2>2, <3>1, <3>4, <3>5, SameWants
  <2>. QED
    BY <1>5, <1>6, <2>1, <2>2
<1>9. TodoInv'
  <2>1. ASSUME NEW i \in DOMAIN todo', NEW r \in todo'[i]
        PROVE  /\ r.host \in OwnHosts(r.cr) /\ r.op = CREATE /\ Wants(r.cr, r)'
    BY <1>1, <1>4, <1>8, WantsFacts DEF WaitInv
  <2>2. ASSUME NEW i \in DOMAIN todo', NEW r \in todo'[i], r.ip # NoIP
        PROVE  /\ InRow(r.cidr, r.ip)
               /\ \A a \in aRecords' : a.hostname # r.host /\ a.ipaddress # r.ip
               /\ \A j \in DOMAIN todo' : \A q \in todo'[j] :
                    /\ q.ip = NoIP => i < j
                    /\ q.ip # NoIP /\ (q.ip = r.ip \/ q.host = r.host) => q = r /\ i = j
    <3>1. /\ i \in 1..n /\ r = StatusRequest(c, e.status[i], CREATE) /\ Wants(c, r)
          /\ e.status[i] \in Published(c)
          /\ r.cidr = e.status[i].cidr /\ r.ip = e.status[i].ip /\ r.host = e.status[i].host
      BY <1>8, <2>2 DEF Same
    <3>2. InRow(r.cidr, r.ip)
      BY <1>4, <3>1 DEF WaitInv, StatusInv
    <3>3. \A a \in aRecords' : a.hostname # r.host /\ a.ipaddress # r.ip
      BY <1>1, <1>4, <3>1, WantsFacts DEF WaitInv
    <3>4. ASSUME NEW j \in DOMAIN todo', NEW q \in todo'[j]
          PROVE  /\ q.ip = NoIP => i < j
                 /\ q.ip # NoIP /\ (q.ip = r.ip \/ q.host = r.host) => q = r /\ i = j
      <4>1. q.ip = NoIP => i < j
        BY <1>6, <1>8, <3>1, <3>4
      <4>2. ASSUME q.ip # NoIP, q.ip = r.ip \/ q.host = r.host
            PROVE  q = r /\ i = j
        <5>1. /\ j \in 1..n /\ q = StatusRequest(c, e.status[j], CREATE)
              /\ q.ip = e.status[j].ip /\ q.host = e.status[j].host
          BY <1>8, <3>4, <4>2 DEF Same
        <5>2. i = j
          BY <1>4, <1>6, <3>1, <4>2, <5>1 DEF Apart
        <5>. QED
          BY <3>1, <5>1, <5>2
      <4>. QED
        BY <4>1, <4>2
    <3>. QED
      BY <3>2, <3>3, <3>4
  <2>. QED
    BY <1>0, <2>1, <2>2 DEF TodoInv, InRow
<1>10. StatusInv'
  <2>1. ASSUME NEW d \in CR, NEW s \in Published(d)
        PROVE  Accounted(d, s)'
    <3>1. CASE d # c
      BY <1>1, <1>3, <3>1 DEF Accounted
    <3>2. CASE d = c
      <4>1. PICK i \in 1..n : s = e.status[i]
        BY <1>4, <1>6, <3>2, EntryFacts
      <4>2. PICK r : r = StatusRequest(c, s, CREATE)
        OBVIOUS
      <4>3. r.op = CREATE /\ r.cr = c /\ Same(r, s) /\ r.ip = s.ip
        BY <4>2 DEF StatusRequest, Same
      <4>4. i \in DOMAIN todo' /\ r \in todo'[i]
        BY <1>5, <1>6, <4>1, <4>2
      <4>5. r \in Requests'
        BY <4>4 DEF Requests
      <4>6. Wants(c, s)'
        BY <1>1, <1>4, <3>2
      <4>. QED
        BY <3>2, <4>3, <4>5, <4>6 DEF Accounted
    <3>. QED
      BY <3>1, <3>2
  <2>. QED
    BY <1>1, <2>1 DEF WaitInv, StatusInv
<1>11. RecordInv'
  <2>1. Answers = {}
    BY <1>1 DEF Answers
  <2>2. ASSUME NEW a \in aRecords
        PROVE  Shown(a)'
    BY <1>0, <1>1, <2>1 DEF WaitInv, RecordInv, Answered, Released
  <2>. QED
    BY <1>1, <2>2 DEF WaitInv, RecordInv
<1>. QED
  BY <1>1, <1>9, <1>10, <1>11 DEF WaitInv

\* An edited resource: all removals, then all additions.
LEMMA UpdateParts ==
  ASSUME NEW e \in Event, NEW D, NEW A,
         D = SpecDiff(e, e.old, e.spec, DELETE), A = SpecDiff(e, e.spec, e.old, CREATE)
  PROVE  /\ \A i \in DOMAIN UpdateRequests(e) : \A r \in UpdateRequests(e)[i] : r \in D \cup A
         /\ \A i, j \in DOMAIN UpdateRequests(e) :
              \A r \in UpdateRequests(e)[i], q \in UpdateRequests(e)[j] :
                r \in D /\ q \in A => i < j
         /\ \A r \in D \cup A :
              \E i \in DOMAIN UpdateRequests(e) : r \in UpdateRequests(e)[i]
<1>1. \A r \in D, q \in A : r # q
  BY DEF SpecDiff, SpecRequest, CREATE, DELETE
<1>2. UpdateRequests(e) = Loop(D) \o Loop(A)
  BY DEF UpdateRequests
<1>3. Loop(A) \in Seq(Batch) /\ Loop(D) \in Seq(Batch)
  <2>1. D \in SUBSET Wish /\ A \in SUBSET Wish
    BY SpecDiffType DEF Event
  <2>. QED
    BY <2>1, LoopType
<1>4. CASE D = {}
  <2>1. Loop(D) = <<>>
    BY <1>4 DEF Loop
  <2>2. UpdateRequests(e) = Loop(A)
    BY <1>2, <1>3, <2>1, EmptyJoin, Zenon
  <2>3. A # {} => DOMAIN UpdateRequests(e) = {1} /\ UpdateRequests(e)[1] = A
    BY <2>2 DEF Loop
  <2>4. A = {} => DOMAIN UpdateRequests(e) = {}
    BY <2>2 DEF Loop
  <2>. QED
    BY <1>4, <2>3, <2>4
<1>5. CASE D # {} /\ A = {}
  <2>1. Loop(D) = <<D>> /\ Loop(A) = <<>>
    BY <1>5 DEF Loop
  <2>2. UpdateRequests(e) = <<D>>
    BY <1>2, <2>1
  <2>3. DOMAIN UpdateRequests(e) = {1} /\ UpdateRequests(e)[1] = D
    BY <2>2
  <2>. QED
    BY <1>5, <2>3
<1>6. CASE D # {} /\ A # {}
  <2>1. Loop(D) = <<D>> /\ Loop(A) = <<A>>
    BY <1>6 DEF Loop
  <2>2. PICK t : t = <<A>>
    OBVIOUS
  <2>3. D \in Batch /\ t \in Seq(Batch)
    <3>1. D \in Batch
      BY <1>6, SpecDiffType DEF Event, Batch
    <3>. QED
      BY <1>3, <2>1, <2>2, <3>1
  <2>4. /\ DOMAIN (<<D>> \o t) = 1..Len(t) + 1 /\ (<<D>> \o t)[1] = D
        /\ \A i \in 1..Len(t) : (<<D>> \o t)[i + 1] = t[i]
    <3>. HIDE DEF Batch
    <3>. QED
      BY <2>3, ConsElements
  <2>5. Len(t) = 1 /\ t[1] = A
    BY <2>2
  <2>6. UpdateRequests(e) = <<D>> \o t
    BY <1>2, <2>1, <2>2
  <2>7. /\ DOMAIN UpdateRequests(e) = {1, 2}
        /\ UpdateRequests(e)[1] = D /\ UpdateRequests(e)[2] = A
    <3>1. DOMAIN UpdateRequests(e) = 1..1 + 1 /\ (<<D>> \o t)[1 + 1] = A
      BY <2>4, <2>5, <2>6
    <3>. QED
      BY <2>4, <2>6, <3>1
  <2>. QED
    BY <1>1, <1>6, <2>7
<1>. QED
  BY <1>4, <1>5, <1>6

LEMMA ProcessUpdate ==
  ASSUME Settling, SysInv, WaitInv, ProcessResource, NEW e, e = Head(rscQueue),
         e.op = UPDATE, ~Idle(e)
  PROVE  WaitInv'
<1>0. CREATE # UPDATE /\ CREATE # DELETE /\ DELETE # UPDATE /\ UPDATE # TOMBSTONE
  BY DEF CREATE, UPDATE, DELETE, TOMBSTONE
<1>1. /\ e \in Event /\ Justified(e) /\ \A f \in Due : f = e
      /\ UNCHANGED <<aRecords, inFlight, f5ipam, put>>
      /\ Requests = {} /\ Answers' = {}
      /\ DueInv' /\ AnswerInv' /\ PutInv' /\ LifeInv'
      /\ \A d \in CR : /\ Published(d)' = Published(d)
                       /\ \A r : Wants(d, r)' <=> Wants(d, r)
      /\ \A h, ip : Rec(h, ip)' <=> Rec(h, ip)
      /\ \A a \in aRecords : Shown(a)' <=> Shown(a)
      /\ \A d \in CR : d # e.cr \/ e.op \notin {CREATE, UPDATE} =>
           \A s \in Published(d) : Wants(d, s) /\ Rec(s.host, s.ip)
  BY ProcessFrame
<1>2. todo' = UpdateRequests(e)
  BY <1>0 DEF ProcessResource
<1>3. PICK c, old, D, A : /\ c = e.cr /\ old = ToSet(e.old)
                          /\ D = SpecDiff(e, e.old, e.spec, DELETE)
                          /\ A = SpecDiff(e, e.spec, e.old, CREATE)
  OBVIOUS
<1>4. /\ c \in CR /\ ToSet(e.spec) = Wanted(c)
      /\ OnePerHost(old) /\ \A s \in old : s.host \in OwnHosts(c)
      /\ \A s \in Published(c) : [host |-> s.host, cidr |-> s.cidr] \in old
  BY <1>1, <1>3 DEF Justified, Event
<1>5. Answers = {}
  BY <1>1 DEF Answers
<1>6. \A s \in old \cup Wanted(c) : s = [host |-> s.host, cidr |-> s.cidr]
  <2>1. e.old \in Seq(Asked) /\ e.spec \in Seq(Asked)
    BY <1>1 DEF Event
  <2>2. old \subseteq HostSpec /\ Wanted(c) \subseteq HostSpec
    BY <1>3, <1>4, <2>1, ToSetType, AskedFacts
  <2>. QED
    BY <2>2 DEF HostSpec
<1>7. D = {SpecRequest(c, s, DELETE) : s \in old \ Wanted(c)}
      /\ A = {SpecRequest(c, s, CREATE) : s \in Wanted(c) \ old}
  BY <1>3, <1>4 DEF SpecDiff
<1>8. /\ \A i \in DOMAIN todo' : \A r \in todo'[i] : r \in D \cup A
      /\ \A i, j \in DOMAIN todo' : \A r \in todo'[i], q \in todo'[j] :
           r \in D /\ q \in A => i < j
      /\ \A r \in D \cup A : \E i \in DOMAIN todo' : r \in todo'[i]
  BY <1>1, <1>2, <1>3, UpdateParts
<1>9. \A r \in D \cup A : r \in Requests'
  BY <1>8 DEF Requests
<1>10. ASSUME NEW r \in A
       PROVE  /\ r.cr = c /\ r.op = CREATE /\ r.ip = NoIP /\ Wants(c, r)
              /\ r.host \in OwnHosts(c)
  <2>1. PICK s \in Wanted(c) : r = SpecRequest(c, s, CREATE)
    BY <1>7
  <2>2. r.cr = c /\ r.op = CREATE /\ r.ip = NoIP /\ r.host = s.host /\ r.cidr = s.cidr
    BY <2>1 DEF SpecRequest
  <2>3. Wants(c, r)
    BY <1>6, <2>1, <2>2 DEF Wants
  <2>. QED
    BY <1>4, <2>2, <2>3, WantsFacts DEF WaitInv
<1>11. ASSUME NEW r \in D
       PROVE  /\ r.cr = c /\ r.op = DELETE /\ r.host \in OwnHosts(c) /\ ~Wants(c, r)
              /\ \A s \in Published(c) : s.host = r.host => s.cidr = r.cidr
  <2>1. PICK s \in old \ Wanted(c) : r = SpecRequest(c, s, DELETE)
    BY <1>7
  <2>2. r.cr = c /\ r.op = DELETE /\ r.host = s.host /\ r.cidr = s.cidr
    BY <2>1 DEF SpecRequest
  <2>3. ~Wants(c, r)
    BY <1>6, <2>1, <2>2 DEF Wants
  <2>4. ASSUME NEW t \in Published(c), t.host = r.host
        PROVE  t.cidr = r.cidr
    <3>1. [host |-> t.host, cidr |-> t.cidr] = s
      BY <1>4, <2>1, <2>2, <2>4 DEF OnePerHost
    <3>. QED
      BY <2>2, <3>1
  <2>. QED
    BY <1>4, <2>1, <2>2, <2>3, <2>4
<1>12. TodoInv'
  <2>1. ASSUME NEW i \in DOMAIN todo', NEW r \in todo'[i], r.op = DELETE
        PROVE  /\ r.host \in OwnHosts(r.cr) /\ ~Wants(r.cr, r)'
               /\ \A s \in Published(r.cr)' : s.host = r.host => s.cidr = r.cidr
               /\ \A j \in DOMAIN todo' : \A q \in todo'[j] : q.op = CREATE => i < j
    <3>1. r \in D
      BY <1>0, <1>8, <1>10, <2>1
    <3>2. \A q \in D \cup A : q.op = CREATE => q \in A
      BY <1>0, <1>11
    <3>. QED
      BY <1>1, <1>4, <1>8, <1>11, <3>1, <3>2
  <2>2. ASSUME NEW i \in DOMAIN todo', NEW r \in todo'[i], r.op # DELETE
        PROVE  r.host \in OwnHosts(r.cr) /\ Wants(r.cr, r)' /\ r.ip = NoIP
    <3>1. r \in A
      BY <1>8, <1>11, <2>2
    <3>. QED
      BY <1>1, <1>4, <1>10, <3>1
  <2>. QED
    BY <1>0, <1>1, <2>1, <2>2 DEF TodoInv
<1>13. StatusInv'
  <2>1. ASSUME NEW d \in CR, NEW s \in Published(d)
        PROVE  Accounted(d, s)'
    <3>1. CASE d # c \/ Wants(c, s)
      <4>1. Wants(d, s) /\ Rec(s.host, s.ip)
        BY <1>0, <1>1, <1>3, <1>5, <3>1 DEF Accounted, WaitInv, StatusInv
      <4>. QED
        BY <1>1, <4>1 DEF Accounted
    <3>2. CASE d = c /\ ~Wants(c, s)
      <4>1. PICK k : k = [host |-> s.host, cidr |-> s.cidr]
        OBVIOUS
      <4>2. k \in old \ Wanted(c)
        BY <1>4, <3>2, <4>1 DEF Wants
      <4>3. PICK r : r = SpecRequest(c, k, DELETE)
        OBVIOUS
      <4>4. r.cr = c /\ r.op = DELETE /\ Same(r, s)
        BY <4>1, <4>3 DEF SpecRequest, Same
      <4>5. r \in Requests'
        BY <1>7, <1>9, <4>2, <4>3
      <4>6. Rec(s.host, s.ip)
        BY <1>1, <1>5, <3>2 DEF Accounted, WaitInv, StatusInv
      <4>. QED
        BY <1>1, <1>4, <3>2, <4>4, <4>5, <4>6 DEF Accounted
    <3>. QED
      BY <3>1, <3>2
  <2>. QED
    BY <1>1, <2>1 DEF WaitInv, StatusInv
<1>14. RecordInv'
  <2>1. ASSUME NEW a \in aRecords
        PROVE  Shown(a)' \/ Released(a)'
    <3>1. CASE Shown(a)
      BY <1>1, <3>1
    <3>2. CASE ~Shown(a)
      <4>1. PICK s \in old \ Wanted(c) : s.host = a.hostname
        BY <1>0, <1>1, <1>3, <1>4, <1>5, <3>2 DEF WaitInv, RecordInv, Answered, Released
      <4>2. PICK r : r = SpecRequest(c, s, DELETE)
        OBVIOUS
      <4>3. r.op = DELETE /\ r.host = a.hostname
        BY <4>1, <4>2 DEF SpecRequest
      <4>4. r \in Requests'
        BY <1>7, <1>9, <4>1, <4>2
      <4>. QED
        BY <4>3, <4>4 DEF Released
    <3>. QED
      BY <3>1, <3>2
  <2>. QED
    BY <1>1, <2>1 DEF WaitInv, RecordInv
<1>. QED
  BY <1>1, <1>12, <1>13, <1>14 DEF WaitInv

\* A deleted resource: its entries are released; it has none left to show.
LEMMA ProcessDelete ==
  ASSUME Settling, SysInv, WaitInv, ProcessResource, NEW e, e = Head(rscQueue), e.op = DELETE
  PROVE  WaitInv'
<1>0. /\ CREATE # UPDATE /\ CREATE # DELETE /\ DELETE # UPDATE /\ DELETE # TOMBSTONE
      /\ ~Idle(e)
  BY DEF CREATE, UPDATE, DELETE, TOMBSTONE, Idle
<1>1. /\ e \in Event /\ Justified(e) /\ \A f \in Due : f = e
      /\ UNCHANGED <<aRecords, inFlight, f5ipam, put>>
      /\ Requests = {} /\ Answers' = {}
      /\ DueInv' /\ AnswerInv' /\ PutInv' /\ LifeInv'
      /\ \A d \in CR : /\ Published(d)' = Published(d)
                       /\ \A r : Wants(d, r)' <=> Wants(d, r)
      /\ \A h, ip : Rec(h, ip)' <=> Rec(h, ip)
      /\ \A a \in aRecords : Shown(a)' <=> Shown(a)
      /\ \A d \in CR : d # e.cr \/ e.op \notin {CREATE, UPDATE} =>
           \A s \in Published(d) : Wants(d, s) /\ Rec(s.host, s.ip)
  BY <1>0, ProcessFrame
<1>2. todo' = StatusRequests(e, DELETE)
  BY <1>0 DEF ProcessResource
<1>3. PICK c, st : c = e.cr /\ st = e.status
  OBVIOUS
<1>4. c \in CR /\ ~f5ipam[c].live /\ \A s \in ToSet(st) : s.host \in OwnHosts(c)
  BY <1>0, <1>1, <1>3 DEF Justified, Event
<1>5. /\ \A r : ~Wants(c, r)
      /\ Published(c) = {}
  <2>1. f5ipam[c].spec = <<>> /\ f5ipam[c].status = <<>>
    BY <1>4 DEF WaitInv, StatusInv
  <2>. QED
    BY <2>1 DEF Wants, Wanted, Published, ToSet
<1>6. /\ DOMAIN todo' = DOMAIN st
      /\ \A i \in DOMAIN st : todo'[i] = {StatusRequest(c, st[i], DELETE)}
  BY <1>2, <1>3 DEF StatusRequests
<1>7. ASSUME NEW i \in DOMAIN todo', NEW r \in todo'[i]
      PROVE  r.cr = c /\ r.op = DELETE /\ r.host \in OwnHosts(c)
  <2>1. r = StatusRequest(c, st[i], DELETE) /\ st[i] \in ToSet(st)
    BY <1>6 DEF ToSet
  <2>. QED
    BY <1>4, <2>1 DEF StatusRequest
<1>8. TodoInv'
  BY <1>0, <1>1, <1>4, <1>5, <1>7 DEF TodoInv
<1>9. StatusInv'
  <2>1. ASSUME NEW d \in CR, NEW s \in Published(d)
        PROVE  Accounted(d, s)'
    BY <1>0, <1>1 DEF Accounted
  <2>. QED
    BY <1>1, <2>1 DEF WaitInv, StatusInv
<1>10. RecordInv'
  <2>1. Answers = {}
    BY <1>1 DEF Answers
  <2>2. ASSUME NEW a \in aRecords
        PROVE  Shown(a)' \/ Released(a)'
    <3>1. CASE Shown(a)
      BY <1>1, <3>1
    <3>2. CASE ~Shown(a)
      <4>1. PICK s \in ToSet(st) : s.host = a.hostname
        BY <1>0, <1>1, <1>3, <2>1, <3>2 DEF WaitInv, RecordInv, Answered, Released
      <4>2. PICK i \in DOMAIN st : st[i] = s
        BY <4>1 DEF ToSet
      <4>3. PICK r : r = StatusRequest(c, s, DELETE)
        OBVIOUS
      <4>4. r.op = DELETE /\ r.host = a.hostname
        BY <4>1, <4>3 DEF StatusRequest
      <4>5. r \in Requests'
        BY <1>6, <4>2, <4>3 DEF Requests
      <4>. QED
        BY <4>4, <4>5 DEF Released
    <3>. QED
      BY <3>1, <3>2
  <2>. QED
    BY <1>1, <2>2 DEF WaitInv, RecordInv
<1>. QED
  BY <1>1, <1>8, <1>9, <1>10 DEF WaitInv

LEMMA ProcessWaits ==
  ASSUME Settling, SysInv, WaitInv, ProcessResource
  PROVE  WaitInv'
<1>1. PICK e : e = Head(rscQueue)
  OBVIOUS
<1>2. CASE Idle(e)
  BY <1>1, <1>2, ProcessIdle
<1>3. CASE ~Idle(e)
  <2>1. e.op = CREATE \/ e.op = DELETE \/ e.op = UPDATE
    BY <1>1 DEF ProcessResource
  <2>. QED
    BY <1>1, <1>3, <2>1, ProcessCreate, ProcessUpdate, ProcessDelete
<1>. QED
  BY <1>2, <1>3

-----------------------------------------------------------------------------
(* The request loop.                                                       *)

LEMMA AnswerTypes ==
  ASSUME SysInv
  PROVE  \A f \in Answers : f \in Response /\ f.req \in Request /\ f.req.cr \in CR
<1>1. BagToSet(inFlight) \subseteq Response
  BY DEF SysInv, OwnerInv, CtlrTypeOK
<1>2. \A p \in put : p.resp \in Response
  BY DEF SysInv, FICTypeOK, Put
<1>. QED
  BY <1>1, <1>2 DEF Answers, Response, Request

\* A request of the first batch has gone.
Sent(req, d) ==
  /\ req \in Wish /\ 1 \in DOMAIN todo /\ req \in todo[1]
  /\ \A i \in DOMAIN todo : i \in Nat /\ i >= 1
  /\ \A i \in DOMAIN todo' :
       /\ i \in Nat /\ i + d \in DOMAIN todo
       /\ todo'[i] \subseteq todo[i + d]
       /\ i + d = 1 => req \notin todo'[i]
  /\ \A i \in DOMAIN todo : \A r \in todo[i] : r = req \/ \E j \in DOMAIN todo' : r \in todo'[j]
  /\ UNCHANGED <<f5ipam, put>>

LEMMA SentFacts ==
  ASSUME SysInv, WaitInv, SendRequest
  PROVE  /\ \E req : \E d \in {0, 1} : Sent(req, d) /\ Handle(req)
         /\ Due = {} /\ Due' = {} /\ DueInv' /\ PutInv' /\ LifeInv'
<1>1. /\ todo # <<>> /\ UNCHANGED <<f5ipam, up, rscQueue, put, stale>>
  BY DEF SendRequest
<1>2. todo \in Seq(Batch)
  BY DEF SysInv, FICTypeOK, Batch, Wish
<1>3. Due = {}
  BY <1>1 DEF WaitInv, DueInv, Quiet
<1>4. Due' = {}
  <2>1. Due' = Due
    BY <1>1 DEF Due, Coming, ListedEvent, Idle
  <2>. QED
    BY <1>3, <2>1
<1>5. DueInv'
  BY <1>1, <1>4 DEF DueInv, WaitInv
<1>6. PutInv'
  BY <1>1 DEF PutInv, WaitInv
<1>7. LifeInv'
  BY <1>1 DEF LifeInv, WaitInv, Quiet
<1>8. \A i \in DOMAIN todo : i \in Nat /\ i >= 1
  <2>. HIDE DEF Batch
  <2>. QED
    BY <1>2
<1>9. 1 \in DOMAIN todo /\ Head(todo) = todo[1] /\ Head(todo) \in Batch
  <2>. HIDE DEF Batch
  <2>. QED
    BY <1>1, <1>2, HeadTailType
<1>10. PICK req \in Head(todo) :
         Handle(req) /\ todo' = Loop(Head(todo) \ {req}) \o Tail(todo)
  BY DEF SendRequest
<1>11. PICK d \in {0, 1} :
           /\ \A i \in DOMAIN todo' :
                /\ i \in Nat /\ i + d \in DOMAIN todo
                /\ todo'[i] \subseteq todo[i + d]
                /\ i + d = 1 => req \notin todo'[i]
           /\ \A i \in DOMAIN todo : \A r \in todo[i] :
                (i = 1 /\ r = req) \/ \E j \in DOMAIN todo' : r \in todo'[j]
  BY <1>1, <1>2, <1>10, SentTodo
<1>12. req \in Wish
  BY <1>9 DEF Batch
<1>13. Sent(req, d)
  BY <1>1, <1>8, <1>9, <1>10, <1>11, <1>12 DEF Sent
<1>. QED
  BY <1>3, <1>4, <1>5, <1>6, <1>7, <1>10, <1>13

\* The other resources' view does not change.
LEMMA SentViews ==
  ASSUME NEW req, NEW d \in {0, 1}, Sent(req, d)
  PROVE  /\ \A c : Published(c)' = Published(c) /\ \A r : Wants(c, r)' <=> Wants(c, r)
         /\ req \in Request /\ req \in Requests
         /\ \A r \in Requests : r = req \/ r \in Requests'
<1>1. f5ipam' = f5ipam
  BY DEF Sent
<1>2. req \in Requests
  BY DEF Sent, Requests
<1>3. \A r \in Requests : r = req \/ r \in Requests'
  BY DEF Sent, Requests
<1>4. \A c : Published(c)' = Published(c) /\ \A r : Wants(c, r)' <=> Wants(c, r)
  BY <1>1 DEF Published, Wants, Wanted
<1>. QED
  BY <1>2, <1>3, <1>4 DEF Sent, Wish

\* What is still to be sent stays in order, and finds nothing in its way.
LEMMA SentTodoKeeps ==
  ASSUME TodoInv, NEW req, NEW d \in {0, 1}, Sent(req, d),
         \A a \in aRecords' :
           \/ a \in aRecords
           \/ a.hostname = req.host /\ req.op = CREATE /\ (req.ip # NoIP => a.ipaddress = req.ip),
         \A f \in Answers' : f \in Answers \/ f.req = req,
         req.op \in {CREATE, DELETE}
  PROVE  TodoInv'
<1>1. ASSUME NEW i \in DOMAIN todo', NEW r \in todo'[i]
      PROVE  /\ i \in Nat /\ i + d \in DOMAIN todo /\ r \in todo[i + d] /\ ~(i + d < 1)
             /\ i + d = 1 => r # req
  BY <1>1 DEF Sent
<1>2. 1 \in DOMAIN todo /\ req \in todo[1]
  BY DEF Sent
<1>3. \A c : Published(c)' = Published(c) /\ \A r : Wants(c, r)' <=> Wants(c, r)
  BY SentViews
<1>4. ASSUME NEW i \in DOMAIN todo', NEW r \in todo'[i], r.op = DELETE
      PROVE  /\ ~Wants(r.cr, r)'
             /\ \A s \in Published(r.cr)' : s.host = r.host => s.cidr = r.cidr
             /\ \A f \in Answers' : f.req.op = DELETE
             /\ \A j \in DOMAIN todo' : \A q \in todo'[j] : q.op = CREATE => i < j
  <2>1. i \in Nat /\ i + d \in DOMAIN todo /\ r \in todo[i + d] /\ ~(i + d < 1)
    BY <1>1
  <2>2. req.op = DELETE
    BY <1>2, <1>4, <2>1 DEF TodoInv
  <2>3. \A f \in Answers' : f.req.op = DELETE
    BY <1>4, <2>1, <2>2 DEF TodoInv
  <2>4. ASSUME NEW j \in DOMAIN todo', NEW q \in todo'[j], q.op = CREATE
        PROVE  i < j
    <3>1. j \in Nat /\ j + d \in DOMAIN todo /\ q \in todo[j + d]
      BY <1>1
    <3>2. i + d < j + d
      BY <1>4, <2>1, <2>4, <3>1 DEF TodoInv
    <3>. QED
      BY <2>1, <3>1, <3>2
  <2>5. ~Wants(r.cr, r) /\ \A s \in Published(r.cr) : s.host = r.host => s.cidr = r.cidr
    BY <1>4, <2>1 DEF TodoInv
  <2>. QED
    BY <1>3, <2>3, <2>4, <2>5
<1>5. ASSUME NEW i \in DOMAIN todo', NEW r \in todo'[i], r.op = CREATE, r.ip # NoIP
      PROVE  /\ InRow(r.cidr, r.ip)
             /\ \A a \in aRecords' : a.hostname # r.host /\ a.ipaddress # r.ip
             /\ \A j \in DOMAIN todo' : \A q \in todo'[j] :
                  /\ q.ip = NoIP => i < j
                  /\ q.ip # NoIP /\ (q.ip = r.ip \/ q.host = r.host) => q = r /\ i = j
  <2>1. i \in Nat /\ i + d \in DOMAIN todo /\ r \in todo[i + d] /\ ~(i + d < 1)
        /\ (i + d = 1 => r # req)
    BY <1>1
  <2>2. /\ InRow(r.cidr, r.ip)
        /\ \A a \in aRecords : a.hostname # r.host /\ a.ipaddress # r.ip
        /\ \A j \in DOMAIN todo : \A q \in todo[j] :
             /\ q.ip = NoIP => i + d < j
             /\ q.ip # NoIP /\ (q.ip = r.ip \/ q.host = r.host) => q = r /\ i + d = j
    BY <1>5, <2>1 DEF TodoInv
  <2>3. req.ip # NoIP /\ req.ip # r.ip /\ req.host # r.host
    BY <1>2, <2>1, <2>2
  <2>4. \A a \in aRecords' : a.hostname # r.host /\ a.ipaddress # r.ip
    BY <2>2, <2>3
  <2>5. ASSUME NEW j \in DOMAIN todo', NEW q \in todo'[j]
        PROVE  /\ q.ip = NoIP => i < j
               /\ q.ip # NoIP /\ (q.ip = r.ip \/ q.host = r.host) => q = r /\ i = j
    <3>1. j \in Nat /\ j + d \in DOMAIN todo /\ q \in todo[j + d]
      BY <1>1
    <3>2. /\ q.ip = NoIP => i + d < j + d
          /\ q.ip # NoIP /\ (q.ip = r.ip \/ q.host = r.host) => q = r /\ i + d = j + d
      BY <2>2, <3>1
    <3>. QED
      BY <2>1, <3>1, <3>2
  <2>. QED
    BY <2>2, <2>4, <2>5
<1>6. ASSUME NEW i \in DOMAIN todo', NEW r \in todo'[i]
      PROVE  r.host \in OwnHosts(r.cr) /\ (r.op = CREATE => Wants(r.cr, r)')
  BY <1>1, <1>3 DEF TodoInv
<1>. QED
  BY <1>4, <1>5, <1>6 DEF TodoInv, InRow

\* Requests to create: nothing goes, and what is recorded is answered.
LEMMA SendCreates ==
  ASSUME SysInv, WaitInv, NEW req, NEW d \in {0, 1}, Sent(req, d), req.op = CREATE,
         Due = {}, Due' = {}, DueInv', PutInv', LifeInv', NEW F, NEW N,
         Answers' = Answers \cup F, aRecords' = aRecords \cup N,
         \A f \in F : f.req = req /\ f.ok /\ Rec(req.host, f.ip)' /\ InRow(req.cidr, f.ip),
         \A a \in N : /\ a.hostname = req.host
                      /\ req.ip # NoIP => a.ipaddress = req.ip
                      /\ \E f \in F : f.ip = a.ipaddress
                      /\ \A b \in aRecords : b.hostname # req.host,
         \A a, b \in N : a = b,
         req.ip # NoIP => Rec(req.host, req.ip)'
  PROVE  WaitInv'
<1>1. /\ \A c : Published(c)' = Published(c) /\ \A r : Wants(c, r)' <=> Wants(c, r)
      /\ req \in Request /\ req \in Requests
      /\ \A r \in Requests : r = req \/ r \in Requests'
  BY SentViews
<1>2. \A h, ip : Rec(h, ip) => Rec(h, ip)'
  BY DEF Rec
<1>3. TodoInv'
  BY SentTodoKeeps DEF WaitInv
<1>4. Wants(req.cr, req) /\ req.host \in OwnHosts(req.cr)
  BY <1>1 DEF WaitInv, TodoInv, Requests
<1>5. AnswerInv'
  <2>1. ASSUME NEW f \in Answers
        PROVE  /\ f.ok /\ f.req.host \in OwnHosts(f.req.cr)
               /\ f.req.op = CREATE =>
                    Wants(f.req.cr, f.req)' /\ Rec(f.req.host, f.ip)' /\ InRow(f.req.cidr, f.ip)
               /\ f.req.op = DELETE => ~Wants(f.req.cr, f.req)'
    BY <1>1, <1>2 DEF WaitInv, AnswerInv
  <2>2. ASSUME NEW f \in F
        PROVE  /\ f.ok /\ f.req.host \in OwnHosts(f.req.cr) /\ f.req.op = CREATE
               /\ Wants(f.req.cr, f.req)' /\ Rec(f.req.host, f.ip)' /\ InRow(f.req.cidr, f.ip)
    BY <1>1, <1>4
  <2>. QED
    BY <2>1, <2>2 DEF AnswerInv, InRow, CREATE, DELETE
<1>6. StatusInv'
  <2>1. ASSUME NEW c \in CR, NEW s \in Published(c)
        PROVE  Accounted(c, s)'
    <3>1. Accounted(c, s) /\ s.ip # NoIP
      BY EntryFacts DEF WaitInv, StatusInv
    <3>2. CASE Wants(c, s) /\ Rec(s.host, s.ip)
      BY <1>1, <1>2, <3>2 DEF Accounted
    <3>3. CASE /\ Wants(c, s)
               /\ \E r \in Requests : r.op = CREATE /\ r.cr = c /\ Same(r, s) /\ r.ip = s.ip
      <4>1. PICK r \in Requests : r.op = CREATE /\ r.cr = c /\ Same(r, s) /\ r.ip = s.ip
        BY <3>3
      <4>2. CASE r = req
        <5>1. Rec(s.host, s.ip)'
          BY <3>1, <4>1, <4>2 DEF Same
        <5>. QED
          BY <1>1, <3>3, <5>1 DEF Accounted
      <4>3. CASE r \in Requests'
        BY <1>1, <3>3, <4>1, <4>3 DEF Accounted
      <4>. QED
        BY <1>1, <4>2, <4>3
    <3>4. CASE /\ ~Wants(c, s) /\ Rec(s.host, s.ip)
               /\ \E r \in Requests : r.op = DELETE /\ r.cr = c /\ Same(r, s)
      <4>1. PICK r \in Requests : r.op = DELETE /\ r.cr = c /\ Same(r, s)
        BY <3>4
      <4>2. r # req
        BY <4>1 DEF CREATE, DELETE
      <4>. QED
        BY <1>1, <1>2, <3>4, <4>1, <4>2 DEF Accounted
    <3>5. CASE ~Wants(c, s) /\ \E f \in Answers : f.req.op = DELETE /\ f.req.cr = c /\ Same(f.req, s)
      <4>1. PICK f \in Answers' : f.req.op = DELETE /\ f.req.cr = c /\ Same(f.req, s)
        BY <3>5
      <4>. QED
        BY <1>1, <3>5, <4>1 DEF Accounted
    <3>. QED
      BY <3>1, <3>2, <3>3, <3>4, <3>5 DEF Accounted
  <2>2. f5ipam' = f5ipam
    BY DEF Sent
  <2>. QED
    BY <1>1, <2>1, <2>2 DEF WaitInv, StatusInv
<1>7. RecordInv'
  <2>1. ASSUME NEW a \in aRecords'
        PROVE  (Shown(a) \/ Answered(a) \/ Released(a))'
    <3>1. CASE a \in N
      <4>1. PICK f \in F : f.ip = a.ipaddress /\ f.req = req /\ a.hostname = req.host
        BY <3>1
      <4>2. f \in Answers'
        BY <4>1
      <4>. QED
        BY <4>1, <4>2 DEF Answered
    <3>2. CASE a \in aRecords /\ Shown(a)
      BY <1>1, <3>2 DEF Shown
    <3>3. CASE a \in aRecords /\ Answered(a)
      <4>1. PICK f \in Answers' : /\ f.req.op = CREATE /\ f.req.host = a.hostname
                                  /\ f.ip = a.ipaddress
        BY <3>3 DEF Answered
      <4>. QED
        BY <4>1 DEF Answered
    <3>4. CASE a \in aRecords /\ Released(a)
      <4>1. PICK r \in Requests : r.op = DELETE /\ r.host = a.hostname
        BY <3>4 DEF Released
      <4>2. r # req
        BY <4>1 DEF CREATE, DELETE
      <4>. QED
        BY <1>1, <4>1, <4>2 DEF Released
    <3>. QED
      BY <3>1, <3>2, <3>3, <3>4 DEF WaitInv, RecordInv
  <2>2. ASSUME NEW a \in aRecords', NEW b \in aRecords', a.hostname = b.hostname
        PROVE  a = b
    BY <2>2 DEF WaitInv, RecordInv
  <2>. QED
    BY <2>1, <2>2 DEF RecordInv
<1>. QED
  BY <1>3, <1>5, <1>6, <1>7 DEF WaitInv

LEMMA RespondAnswers ==
  ASSUME NEW req, NEW ip, NEW ok, Respond(req, ip, ok), put' = put
  PROVE  Answers' = Answers \cup {[req |-> req, ip |-> ip, ok |-> ok]}
<1>1. BagToSet(inFlight') = BagToSet(inFlight) \cup {[req |-> req, ip |-> ip, ok |-> ok]}
  BY BagGains DEF Respond
<1>. QED
  BY <1>1 DEF Answers

\* An address is granted: to restore an entry, or as the next one of the range.
LEMMA SendGrants ==
  ASSUME SoundPool, Settling, SysInv, WaitInv, NEW req, NEW d \in {0, 1}, Sent(req, d),
         GrantAsked(req) \/ GrantNext(req),
         Due = {}, Due' = {}, DueInv', PutInv', LifeInv'
  PROVE  WaitInv'
<1>1. req \in Request /\ 1 \in DOMAIN todo /\ req \in todo[1] /\ put' = put /\ req.host \in Host
  BY SentViews DEF Sent, Request
<1>2. PICK i, ip : /\ i \in Row /\ ip = Pool[i].ipaddress
                   /\ aRecords' = aRecords \cup {[ipaddress |-> ip, hostname |-> req.host]}
                   /\ Respond(req, ip, TRUE) /\ req.op = CREATE
                   /\ \/ req.ip # NoIP /\ ip = req.ip
                      \/ req.ip = NoIP /\ Pool[i].cidr = req.cidr
  <2>1. PICK i \in Row :
          /\ aRecords' = aRecords \cup
               {[ipaddress |-> Pool[i].ipaddress, hostname |-> req.host]}
          /\ Respond(req, Pool[i].ipaddress, TRUE)
          /\ req.op = CREATE
          /\ \/ req.ip # NoIP /\ Pool[i].ipaddress = req.ip
             \/ req.ip = NoIP /\ Pool[i].cidr = req.cidr
    BY <1>1, GrantStep
  <2>. QED
    BY <2>1
<1>3. PICK f, b : /\ f = [req |-> req, ip |-> ip, ok |-> TRUE]
                  /\ b = [ipaddress |-> ip, hostname |-> req.host]
  OBVIOUS
<1>4. /\ f.req = req /\ f.ip = ip /\ f.ok
      /\ b.ipaddress = ip /\ b.hostname = req.host
      /\ Answers' = Answers \cup {f} /\ aRecords' = aRecords \cup {b}
  BY <1>1, <1>2, <1>3, RespondAnswers
<1>5. Rec(req.host, ip)'
  BY <1>3, <1>4 DEF Rec
<1>6. InRow(req.cidr, ip) /\ \A a \in aRecords : a.hostname # req.host
  <2>1. CASE req.ip # NoIP
    BY <1>1, <1>2, <2>1 DEF WaitInv, TodoInv
  <2>2. CASE req.ip = NoIP
    <3>1. GetIPAddress(req.host) = NoIP
      BY <2>2 DEF GrantAsked, GrantNext, SoundPool
    <3>2. \A jp : ~Rec(req.host, jp)
      BY <1>1, <3>1, KnownAddress
    <3>3. \A a \in aRecords : Rec(a.hostname, a.ipaddress)
      BY RecordFacts
    <3>. QED
      BY <1>2, <2>2, <3>2, <3>3 DEF InRow
  <2>. QED
    BY <2>1, <2>2
<1>7. PICK F, N : F = {f} /\ N = {b}
  OBVIOUS
<1>8. /\ Answers' = Answers \cup F /\ aRecords' = aRecords \cup N
      /\ \A x \in F : x.req = req /\ x.ok /\ Rec(req.host, x.ip)' /\ InRow(req.cidr, x.ip)
      /\ \A a \in N : /\ a.hostname = req.host
                      /\ req.ip # NoIP => a.ipaddress = req.ip
                      /\ \E x \in F : x.ip = a.ipaddress
                      /\ \A y \in aRecords : y.hostname # req.host
      /\ \A x, y \in N : x = y
      /\ req.ip # NoIP => Rec(req.host, req.ip)'
  BY <1>2, <1>4, <1>5, <1>6, <1>7
<1>. QED
  BY <1>2, <1>8, SendCreates

\* What is asked for again is answered with the address the host has: as no removal
\* is on its way, that is the address it is shown with, under the same CIDR.
LEMMA SendKnown ==
  ASSUME Settling, SysInv, WaitInv, NEW req, NEW d \in {0, 1}, Sent(req, d),
         AnswerKnown(req), Due = {}, Due' = {}, DueInv', PutInv', LifeInv'
  PROVE  WaitInv'
<1>1. /\ req \in Request /\ 1 \in DOMAIN todo /\ req \in todo[1] /\ put' = put
      /\ req.host \in Host /\ req.cr \in CR
      /\ \A i \in DOMAIN todo : i \in Nat /\ ~(i < 1)
  BY SentViews DEF Sent, Request
<1>2. PICK ip : ip = GetIPAddress(req.host)
  OBVIOUS
<1>3. /\ req.op = CREATE /\ req.ip = NoIP /\ ip # NoIP /\ Respond(req, ip, TRUE)
      /\ aRecords' = aRecords
  BY <1>2 DEF AnswerKnown, storeVars
<1>4. Rec(req.host, ip)
  BY <1>1, <1>2, <1>3, KnownAddress
<1>5. PICK f : f = [req |-> req, ip |-> ip, ok |-> TRUE]
  OBVIOUS
<1>6. f.req = req /\ f.ip = ip /\ f.ok /\ Answers' = Answers \cup {f}
  BY <1>1, <1>3, <1>5, RespondAnswers
<1>7. InRow(req.cidr, ip)
  <2>1. PICK a \in aRecords : a.hostname = req.host /\ a.ipaddress = ip
    BY <1>4 DEF Rec
  <2>2. Wants(req.cr, req) /\ req.host \in OwnHosts(req.cr)
    BY <1>1, <1>3 DEF WaitInv, TodoInv
  <2>3. \A s : Wants(req.cr, s) /\ s.host = req.host => s.cidr = req.cidr
    BY <1>1, <2>2, WantsFacts DEF WaitInv
  <2>4. ~Released(a)
    <3>1. ASSUME NEW r \in Requests, r.op = DELETE
          PROVE  FALSE
      <4>1. PICK i \in DOMAIN todo : r \in todo[i]
        BY DEF Requests
      <4>2. i < 1
        BY <1>1, <1>3, <3>1, <4>1 DEF WaitInv, TodoInv
      <4>. QED
        BY <1>1, <4>2
    <3>. QED
      BY <3>1 DEF Released
  <2>5. CASE Shown(a)
    <3>0. PICK c \in CR : \E s \in Published(c) :
                            Wants(c, s) /\ s.host = a.hostname /\ s.ip = a.ipaddress
      BY <2>5 DEF Shown
    <3>1. PICK s \in Published(c) :
                 Wants(c, s) /\ s.host = a.hostname /\ s.ip = a.ipaddress
      BY <3>0
    <3>2. c = req.cr
      BY <1>1, <2>1, <2>2, <3>1, OwnHost DEF WaitInv, StatusInv
    <3>3. s.cidr = req.cidr
      BY <2>1, <2>3, <3>1, <3>2
    <3>. QED
      BY <2>1, <3>1, <3>3 DEF WaitInv, StatusInv
  <2>6. CASE Answered(a)
    <3>1. PICK x \in Answers : /\ x.req.op = CREATE /\ x.req.host = a.hostname
                               /\ x.ip = a.ipaddress
      BY <2>6 DEF Answered
    <3>2. /\ x.req.host \in OwnHosts(x.req.cr) /\ Wants(x.req.cr, x.req)
          /\ InRow(x.req.cidr, x.ip) /\ x.req.cr \in CR
      BY <3>1, AnswerTypes DEF WaitInv, AnswerInv
    <3>3. x.req.cr = req.cr
      BY <1>1, <2>1, <2>2, <3>1, <3>2, OwnHost
    <3>4. x.req.cidr = req.cidr
      BY <2>1, <2>3, <3>1, <3>2, <3>3
    <3>. QED
      BY <2>1, <3>1, <3>2, <3>4
  <2>. QED
    BY <2>4, <2>5, <2>6 DEF WaitInv, RecordInv
<1>8. Rec(req.host, ip)'
  BY <1>3, <1>4 DEF Rec
<1>9. PICK F, N : F = {f} /\ N = {}
  OBVIOUS
<1>10. /\ Answers' = Answers \cup F /\ aRecords' = aRecords \cup N
       /\ \A x \in F : x.req = req /\ x.ok /\ Rec(req.host, x.ip)' /\ InRow(req.cidr, x.ip)
       /\ \A a \in N : /\ a.hostname = req.host
                       /\ req.ip # NoIP => a.ipaddress = req.ip
                       /\ \E x \in F : x.ip = a.ipaddress
                       /\ \A y \in aRecords : y.hostname # req.host
       /\ \A x, y \in N : x = y
       /\ req.ip # NoIP => Rec(req.host, req.ip)'
  BY <1>3, <1>6, <1>7, <1>8, <1>9
<1>. QED
  BY <1>3, <1>10, SendCreates

\* No address is left, or the CIDR is not one of the ranges.
LEMMA SendDrops ==
  ASSUME SysInv, WaitInv, NEW req, NEW d \in {0, 1}, Sent(req, d), DropExhausted(req),
         Due = {}, Due' = {}, DueInv', PutInv', LifeInv'
  PROVE  WaitInv'
<1>1. /\ req.op = CREATE /\ req.ip = NoIP /\ aRecords' = aRecords /\ Answers' = Answers
  BY DEF DropExhausted, ctlrVars, Answers, Sent
<1>2. PICK F, N : F = {} /\ N = {}
  OBVIOUS
<1>3. /\ Answers' = Answers \cup F /\ aRecords' = aRecords \cup N
      /\ \A x \in F : x.req = req /\ x.ok /\ Rec(req.host, x.ip)' /\ InRow(req.cidr, x.ip)
      /\ \A a \in N : /\ a.hostname = req.host
                      /\ req.ip # NoIP => a.ipaddress = req.ip
                      /\ \E x \in F : x.ip = a.ipaddress
                      /\ \A y \in aRecords : y.hostname # req.host
      /\ \A x, y \in N : x = y
      /\ req.ip # NoIP => Rec(req.host, req.ip)'
  BY <1>1, <1>2
<1>. QED
  BY <1>1, <1>3, SendCreates, ZenonT(40)

\* What is restored is in a row of its own, and free.
LEMMA NoneRefused ==
  ASSUME SoundPool, Settling, SysInv, WaitInv, NEW req, NEW d \in {0, 1}, Sent(req, d)
  PROVE  ~RefuseAsked(req)
<1>. SUFFICES ASSUME RefuseAsked(req) PROVE FALSE
  OBVIOUS
<1>1. req.op = CREATE /\ req.ip # NoIP /\ ~CanAllocate(req.cidr, req.ip)
  BY DEF RefuseAsked, SoundPool
<1>2. InRow(req.cidr, req.ip) /\ \A a \in aRecords : a.ipaddress # req.ip
  BY <1>1 DEF Sent, WaitInv, TodoInv
<1>3. PICK i \in Row : Pool[i].ipaddress = req.ip /\ Pool[i].cidr = req.cidr
  BY <1>2 DEF InRow
<1>4. status[i] = AVAILABLE
  BY <1>2, <1>3 DEF SysInv, OwnerInv, CtlrTypeOK, StoreTypeOK, TablesAgree
<1>5. i \in AvailableAt(req.cidr, req.ip)
  BY <1>3, <1>4 DEF AvailableAt, AvailableIn
<1>6. req.cidr \in PoolCidr /\ req.ip \in Net[req.cidr]
  BY <1>3, RowFacts DEF Settling
<1>. QED
  BY <1>1, <1>5, <1>6 DEF CanAllocate

\* An address is released, by the name of the host: the entry that showed it is of
\* the CIDR that is given up.
LEMMA SendDeletes ==
  ASSUME SoundPool, Settling, SysInv, WaitInv, NEW req, NEW d \in {0, 1}, Sent(req, d),
         HandleDelete(req), Due = {}, Due' = {}, DueInv', PutInv', LifeInv'
  PROVE  WaitInv'
<1>1. /\ req \in Request /\ 1 \in DOMAIN todo /\ req \in todo[1] /\ put' = put
      /\ req.host \in Host /\ req.cr \in CR /\ req.op = DELETE /\ Respond(req, NoIP, TRUE)
  <2>1. req.op = DELETE /\ Respond(req, NoIP, TRUE)
    BY DEF HandleDelete
  <2>2. req \in Request /\ 1 \in DOMAIN todo /\ req \in todo[1] /\ put' = put
    BY DEF Sent, Wish
  <2>3. req.host \in Host /\ req.cr \in CR
    BY <2>2 DEF Request
  <2>. QED
    BY <2>1, <2>2, <2>3
<1>2. /\ \A c : Published(c)' = Published(c) /\ \A r : Wants(c, r)' <=> Wants(c, r)
      /\ \A r \in Requests : r = req \/ r \in Requests'
  BY SentViews
<1>3. PICK f : f = [req |-> req, ip |-> NoIP, ok |-> TRUE]
  OBVIOUS
<1>4. f.req = req /\ f.ok /\ Answers' = Answers \cup {f}
  BY <1>1, <1>3, RespondAnswers
<1>5. /\ aRecords' \subseteq aRecords
      /\ \A a \in aRecords' : a.hostname # req.host
      /\ \A a \in aRecords : a.hostname # req.host => a \in aRecords'
  <2>1. PICK ip : ip = GetIPAddress(req.host)
    OBVIOUS
  <2>2. CASE ip # NoIP
    <3>1. PICK b : b = [ipaddress |-> ip, hostname |-> req.host]
      OBVIOUS
    <3>2. b \in aRecords /\ aRecords' = aRecords \ {b} /\ b.hostname = req.host
      BY <1>1, <2>1, <2>2, <3>1, DeleteStep DEF SysInv
    <3>3. \A a \in aRecords : a.hostname = req.host => a = b
      BY <3>2 DEF WaitInv, RecordInv
    <3>. QED
      BY <3>2, <3>3
  <2>3. CASE ip = NoIP
    <3>1. aRecords' = aRecords
      BY <2>1, <2>3 DEF HandleDelete, storeVars
    <3>2. \A a \in aRecords : a.hostname # req.host
      BY <1>1, <2>1, <2>3, KnownAddress, RecordFacts
    <3>. QED
      BY <3>1, <3>2
  <2>. QED
    BY <2>2, <2>3
<1>6. \A h, ip : Rec(h, ip) /\ h # req.host => Rec(h, ip)'
  <2>. SUFFICES ASSUME NEW h, NEW ip, Rec(h, ip), h # req.host
                PROVE  Rec(h, ip)'
    OBVIOUS
  <2>1. PICK a : a = [ipaddress |-> ip, hostname |-> h]
    OBVIOUS
  <2>2. a \in aRecords /\ a.hostname = h
    BY <2>1 DEF Rec
  <2>. QED
    BY <1>5, <2>1, <2>2 DEF Rec
<1>7. /\ ~Wants(req.cr, req) /\ req.host \in OwnHosts(req.cr)
      /\ \A s \in Published(req.cr) : s.host = req.host => s.cidr = req.cidr
      /\ \A x \in Answers : x.req.op = DELETE
  BY <1>1 DEF WaitInv, TodoInv
<1>8. TodoInv'
  <2>1. \A a \in aRecords' :
          \/ a \in aRecords
          \/ a.hostname = req.host /\ req.op = CREATE /\ (req.ip # NoIP => a.ipaddress = req.ip)
    BY <1>5
  <2>2. \A x \in Answers' : x \in Answers \/ x.req = req
    BY <1>4
  <2>. QED
    BY <1>1, <2>1, <2>2, SentTodoKeeps DEF WaitInv
<1>9. AnswerInv'
  <2>1. ASSUME NEW x \in Answers'
        PROVE  /\ x.ok /\ x.req.host \in OwnHosts(x.req.cr) /\ x.req.op = DELETE
               /\ ~Wants(x.req.cr, x.req)'
    BY <1>1, <1>2, <1>4, <1>7 DEF WaitInv, AnswerInv
  <2>. QED
    BY <2>1 DEF AnswerInv, CREATE, DELETE
<1>10. StatusInv'
  <2>1. ASSUME NEW c \in CR, NEW s \in Published(c)
        PROVE  Accounted(c, s)'
    <3>1. Accounted(c, s) /\ s.host \in OwnHosts(c)
      BY DEF WaitInv, StatusInv
    <3>2. CASE s.host = req.host
      <4>1. c = req.cr /\ Same(req, s)
        BY <1>1, <1>7, <3>1, <3>2, OwnHost DEF Same
      <4>2. ~Wants(c, s)'
        BY <1>2, <1>7, <4>1, SameWants
      <4>3. f \in Answers'
        BY <1>4
      <4>. QED
        BY <1>1, <1>4, <4>1, <4>2, <4>3 DEF Accounted
    <3>3. CASE s.host # req.host
      <4>1. Rec(s.host, s.ip) => Rec(s.host, s.ip)'
        BY <1>6, <3>3
      <4>2. \A r \in Requests : Same(r, s) => r \in Requests'
        BY <1>2, <3>3 DEF Same
      <4>3. \A x \in Answers : x \in Answers'
        BY <1>4
      <4>. QED
        BY <1>2, <3>1, <4>1, <4>2, <4>3 DEF Accounted
    <3>. QED
      BY <3>2, <3>3
  <2>2. f5ipam' = f5ipam
    BY DEF Sent
  <2>. QED
    BY <1>2, <2>1, <2>2 DEF WaitInv, StatusInv
<1>11. RecordInv'
  <2>1. ASSUME NEW a \in aRecords'
        PROVE  (Shown(a) \/ Answered(a) \/ Released(a))'
    <3>1. a \in aRecords /\ a.hostname # req.host
      BY <1>5
    <3>2. Shown(a) => Shown(a)'
      BY <1>2 DEF Shown
    <3>3. Answered(a) => Answered(a)'
      BY <1>4 DEF Answered
    <3>4. Released(a) => Released(a)'
      BY <1>2, <3>1 DEF Released
    <3>. QED
      BY <3>1, <3>2, <3>3, <3>4 DEF WaitInv, RecordInv
  <2>. QED
    BY <1>5, <2>1 DEF WaitInv, RecordInv
<1>. QED
  BY <1>8, <1>9, <1>10, <1>11 DEF WaitInv

LEMMA SendWaits ==
  ASSUME SoundPool, Settling, SysInv, WaitInv, SendRequest
  PROVE  WaitInv'
<1>1. Due = {} /\ Due' = {} /\ DueInv' /\ PutInv' /\ LifeInv'
  BY SentFacts
<1>2. PICK req : \E d \in {0, 1} : Sent(req, d) /\ Handle(req)
  BY SentFacts
<1>3. PICK d \in {0, 1} : Sent(req, d)
  BY <1>2
<1>4. CASE GrantAsked(req) \/ GrantNext(req)
  BY <1>1, <1>3, <1>4, SendGrants
<1>5. CASE RefuseAsked(req)
  BY <1>3, <1>5, NoneRefused
<1>6. CASE AnswerKnown(req)
  BY <1>1, <1>3, <1>6, SendKnown
<1>7. CASE DropExhausted(req)
  BY <1>1, <1>3, <1>7, SendDrops
<1>8. CASE HandleDelete(req)
  BY <1>1, <1>3, <1>8, SendDeletes
<1>. QED
  BY <1>2, <1>4, <1>5, <1>6, <1>7, <1>8 DEF Handle

-----------------------------------------------------------------------------
(* processResponse.                                                        *)

\* An answer is taken when it changes nothing more.
LEMMA AnswersShrink ==
  ASSUME TodoInv, AnswerInv, StatusInv, RecordInv, Due = {}, Due' = {},
         UNCHANGED <<aRecords, f5ipam, todo>>, Answers' \subseteq Answers,
         \A f \in Answers :
           \/ f \in Answers'
           \/ f.req.op = DELETE /\ \A s \in Published(f.req.cr) : ~Same(f.req, s)
  PROVE  TodoInv' /\ AnswerInv' /\ StatusInv' /\ RecordInv'
<1>1. /\ \A c : Published(c)' = Published(c) /\ \A r : Wants(c, r)' <=> Wants(c, r)
      /\ Requests' = Requests /\ \A h, ip : Rec(h, ip)' <=> Rec(h, ip)
  BY DEF Published, Wants, Wanted, Requests, Rec
<1>2. TodoInv'
  BY <1>1 DEF TodoInv, InRow
<1>3. AnswerInv'
  BY <1>1 DEF AnswerInv, InRow
<1>4. StatusInv'
  <2>1. ASSUME NEW c \in CR, NEW s \in Published(c)
        PROVE  Accounted(c, s)'
    BY <1>1 DEF StatusInv, Accounted
  <2>. QED
    BY <1>1, <2>1 DEF StatusInv
<1>5. RecordInv'
  <2>1. ASSUME NEW a \in aRecords
        PROVE  (Shown(a) \/ Answered(a) \/ Released(a))'
    <3>1. Shown(a) => Shown(a)'
      BY <1>1 DEF Shown
    <3>2. Answered(a) => Answered(a)'
      BY DEF Answered, CREATE, DELETE
    <3>3. Released(a) => Released(a)'
      BY <1>1 DEF Released
    <3>. QED
      BY <3>1, <3>2, <3>3 DEF RecordInv
  <2>. QED
    BY <2>1 DEF RecordInv
<1>. QED
  BY <1>2, <1>3, <1>4, <1>5

LEMMA TakeWaits ==
  ASSUME Settling, SysInv, WaitInv, TakeResponse
  PROVE  WaitInv'
<1>1. /\ put = {} /\ UNCHANGED <<aRecords, f5ipam, up, rscQueue, todo, stale>>
  BY DEF TakeResponse
<1>2. PICK resp \in BagToSet(inFlight) :
        Receive(resp) /\ (GetFails(resp) \/ GetToRecord(resp) \/ GetToRemove(resp))
  BY DEF TakeResponse
<1>3. Due = {} /\ up
  BY <1>2 DEF WaitInv, DueInv, LifeInv, Quiet
<1>4. Due' = {} /\ DueInv' /\ LifeInv'
  <2>1. Due' = Due
    BY <1>1 DEF Due, Coming, ListedEvent, Idle
  <2>. QED
    BY <1>1, <1>3, <2>1 DEF DueInv, LifeInv, WaitInv
<1>5. PICK c, st, found : /\ c = resp.req.cr /\ st = f5ipam[c].status
                          /\ found = Found(st, resp.req)
  OBVIOUS
<1>6. /\ resp \in Answers /\ resp.ok /\ c \in CR
      /\ resp.req.op \in {CREATE, DELETE} /\ CREATE # DELETE
      /\ resp.req.op = CREATE => Wants(c, resp.req)
  <2>1. resp \in Answers
    BY <1>2 DEF Answers
  <2>2. resp.req.op \in {CREATE, DELETE} /\ c \in CR
    BY <1>5, <2>1, AnswerTypes DEF Request
  <2>. QED
    BY <1>5, <2>1, <2>2 DEF WaitInv, AnswerInv, CREATE, DELETE
<1>7. resp.req.op = CREATE => f5ipam[c].live
  BY <1>6, WantsFacts DEF WaitInv
<1>8. /\ BagToSet(inFlight') \subseteq BagToSet(inFlight)
      /\ \A f \in BagToSet(inFlight) : f = resp \/ f \in BagToSet(inFlight')
  BY <1>2, BagLoses DEF Receive
<1>9. CASE put' = {}
  <2>1. /\ Answers' \subseteq Answers /\ \A f \in Answers : f = resp \/ f \in Answers'
    BY <1>1, <1>8, <1>9 DEF Answers
  <2>2. resp.req.op = DELETE /\ \A s \in Published(c) : ~Same(resp.req, s)
    <3>1. CASE ~f5ipam[c].live
      <4>1. Published(c) = {}
        BY <1>6, <3>1 DEF WaitInv, StatusInv, Published, ToSet
      <4>. QED
        BY <1>6, <1>7, <3>1, <4>1
    <3>2. CASE f5ipam[c].live
      <4>1. ~GetFails(resp)
        BY <1>5, <3>2 DEF GetFails, Settling
      <4>2. ~GetToRecord(resp)
        BY <1>9 DEF GetToRecord, Prepared
      <4>3. resp.req.op = DELETE /\ found = {}
        BY <1>2, <1>5, <1>6, <1>9, <4>1, <4>2 DEF GetToRemove, Prepared
      <4>4. \A i \in DOMAIN st : ~Same(resp.req, st[i])
        BY <1>5, <4>3 DEF Found, Matches, Same
      <4>. QED
        BY <1>5, <1>6, <4>3, <4>4, EntryFacts
    <3>. QED
      BY <3>1, <3>2
  <2>3. TodoInv' /\ AnswerInv' /\ StatusInv' /\ RecordInv'
    BY <1>1, <1>3, <1>4, <1>5, <2>1, <2>2, AnswersShrink DEF WaitInv
  <2>4. PutInv'
    BY <1>9 DEF PutInv
  <2>. QED
    BY <1>4, <2>3, <2>4 DEF WaitInv
<1>10. CASE put' # {}
  <2>1. f5ipam[c].live /\ (GetToRecord(resp) \/ GetToRemove(resp))
    BY <1>2, <1>5, <1>10 DEF GetFails, GetToRecord, GetToRemove
  <2>2. PICK new : /\ put' = Prepared(resp, new)
                   /\ resp.req.op = CREATE => new = Recorded(st, resp.req, resp.ip)
                   /\ resp.req.op = DELETE =>
                        \E i \in found : (\A j \in found : j <= i) /\ new = RemoveAt(st, i)
    <3>1. CASE GetToRecord(resp)
      BY <1>5, <1>6, <3>1 DEF GetToRecord
    <3>2. CASE GetToRemove(resp)
      <4>1. resp.req.op = DELETE
        BY <1>6, <3>2 DEF GetToRemove
      <4>2. PICK i \in found : (\A j \in found : j <= i) /\ put' = Prepared(resp, RemoveAt(st, i))
        BY <1>5, <1>10, <3>2 DEF GetToRemove
      <4>. QED
        BY <1>6, <4>1, <4>2
    <3>. QED
      BY <2>1, <3>1, <3>2
  <2>3. PICK p : p = [resp |-> resp, rv |-> f5ipam[c].rv, spec |-> f5ipam[c].spec,
                      status |-> new]
    OBVIOUS
  <2>4. put' = {p} /\ p.resp = resp /\ p.rv = f5ipam[c].rv /\ p.status = new
    BY <1>5, <2>2, <2>3 DEF Prepared
  <2>5. Answers' = Answers
    BY <1>1, <1>2, <1>8, <2>4 DEF Answers
  <2>6. TodoInv' /\ AnswerInv' /\ StatusInv' /\ RecordInv'
    BY <1>1, <1>3, <1>4, <2>5, AnswersShrink DEF WaitInv
  <2>7. PutInv'
    BY <1>1, <1>5, <2>1, <2>2, <2>4 DEF PutInv
  <2>. QED
    BY <1>4, <2>6, <2>7 DEF WaitInv
<1>. QED
  BY <1>9, <1>10

\* What is left when one entry is removed.
LEMMA RemovedElements ==
  ASSUME NEW S, NEW s \in Seq(S), NEW i \in DOMAIN s, NEW t, t = RemoveAt(s, i)
  PROVE  /\ t # s
         /\ \A j \in DOMAIN t :
              \E k \in DOMAIN s : k # i /\ t[j] = s[k] /\ k = IF j < i THEN j ELSE j + 1
         /\ \A k \in DOMAIN s : k # i => \E j \in DOMAIN t : t[j] = s[k]
<1>. DEFINE a == SubSeq(s, 1, i - 1)
            b == SubSeq(s, i + 1, Len(s))
            n == Len(s)
<1>1. n \in Nat /\ i \in 1..n /\ DOMAIN s = 1..n
  OBVIOUS
<1>2. /\ a \in Seq(S) /\ Len(a) = i - 1 /\ \A j \in 1..i - 1 : a[j] = s[j]
      /\ b \in Seq(S) /\ Len(b) = n - i /\ \A j \in 1..n - i : b[j] = s[i + j]
  OBVIOUS
<1>3. t = a \o b
  BY DEF RemoveAt
<1>. HIDE DEF a, b, n
<1>4. /\ t \in Seq(S) /\ Len(t) = Len(a) + Len(b)
      /\ \A j \in 1..Len(a) + Len(b) : t[j] = IF j <= Len(a) THEN a[j] ELSE b[j - Len(a)]
  BY <1>2, <1>3, JoinedElements
<1>5. Len(a) + Len(b) = n - 1
  BY <1>1, <1>2
<1>6. DOMAIN t = 1..n - 1 /\ Len(t) = n - 1
  BY <1>4, <1>5
<1>7. ASSUME NEW j \in 1..n - 1
      PROVE  t[j] = IF j < i THEN s[j] ELSE s[j + 1]
  <2>1. CASE j < i
    <3>1. j \in 1..i - 1 /\ j <= Len(a)
      BY <1>1, <1>2, <2>1
    <3>. QED
      BY <1>2, <1>4, <1>5, <2>1, <3>1
  <2>2. CASE ~(j < i)
    <3>1. j - (i - 1) \in 1..n - i /\ i + (j - (i - 1)) = j + 1 /\ ~(j <= i - 1)
      BY <1>1, <2>2
    <3>2. t[j] = b[j - (i - 1)]
      BY <1>2, <1>4, <1>5, <3>1
    <3>. QED
      BY <1>2, <2>2, <3>1, <3>2
  <2>. QED
    BY <2>1, <2>2
<1>8. ASSUME NEW j \in 1..n - 1
      PROVE  \E k \in 1..n : k # i /\ t[j] = s[k] /\ k = IF j < i THEN j ELSE j + 1
  BY <1>1, <1>7
<1>9. ASSUME NEW k \in 1..n, k # i
      PROVE  \E j \in 1..n - 1 : t[j] = s[k]
  <2>1. CASE k < i
    <3>1. k \in 1..n - 1
      BY <1>1, <2>1
    <3>. QED
      BY <1>7, <2>1, <3>1
  <2>2. CASE k > i
    <3>1. k - 1 \in 1..n - 1 /\ ~(k - 1 < i) /\ k - 1 + 1 = k
      BY <1>1, <2>2
    <3>. QED
      BY <1>7, <3>1
  <2>. QED
    BY <1>1, <1>9, <2>1, <2>2
<1>10. t # s
  BY <1>1, <1>6 DEF n
<1>. QED
  BY <1>1, <1>6, <1>8, <1>9, <1>10

\* Recording an address that is shown already changes nothing.
LEMMA RecordedAgain ==
  ASSUME NEW st \in Seq(IPSpec), NEW req, NEW ip, Found(st, req) # {},
         \A i \in Found(st, req) : st[i].ip = ip
  PROVE  Recorded(st, req, ip) = st
<1>1. Recorded(st, req, ip)
        = [i \in DOMAIN st |-> IF Matches(st[i], req) THEN [st[i] EXCEPT !.ip = ip] ELSE st[i]]
  BY DEF Recorded, Found
<1>2. ASSUME NEW i \in DOMAIN st, Matches(st[i], req)
      PROVE  [st[i] EXCEPT !.ip = ip] = st[i]
  <2>1. st[i].ip = ip
    BY <1>2 DEF Found
  <2>2. st[i] \in IPSpec
    BY ElementType
  <2>3. PICK h, c : h = st[i].host /\ c = st[i].cidr
    OBVIOUS
  <2>4. st[i] = [host |-> h, cidr |-> c, ip |-> ip]
    BY <2>1, <2>2, <2>3, IPSpecFacts
  <2>. QED
    BY <2>4
<1>3. Recorded(st, req, ip) = [i \in DOMAIN st |-> st[i]]
  BY <1>1, <1>2
<1>. QED
  BY <1>3

\* Answers are alive while they are on their way, and what is written changes no Spec.
LEMMA PutFrame ==
  ASSUME Settling, SysInv, WaitInv, PutUpdate
  PROVE  \E p \in put :
           /\ put' = {} /\ UNCHANGED <<aRecords, todo>>
           /\ p.resp.req.cr \in CR /\ p.resp \in Answers /\ p.resp.req.op \in {CREATE, DELETE}
           /\ Answers' \subseteq Answers /\ \A f \in Answers : f = p.resp \/ f \in Answers'
           /\ \A d \in CR : f5ipam'[d].live = f5ipam[d].live /\ f5ipam'[d].spec = f5ipam[d].spec
           /\ \A d \in CR : \A r : Wants(d, r)' <=> Wants(d, r)
           /\ \A d \in CR : d # p.resp.req.cr => f5ipam'[d].status = f5ipam[d].status
           /\ f5ipam'[p.resp.req.cr].status = p.status
           /\ Due = {} /\ Due' = {} /\ DueInv' /\ PutInv' /\ LifeInv'
<1>1. PICK p \in put : Accepted(p) \/ Refused(p)
  BY DEF PutUpdate
<1>2. PICK c : c = p.resp.req.cr
  OBVIOUS
<1>3. put' = {} /\ UNCHANGED <<aRecords, inFlight, todo, up, stale>> /\ put = {p}
  BY DEF PutUpdate, SysInv, FICTypeOK
<1>4. /\ p.resp \in Answers /\ c \in CR /\ p.resp.req.op \in {CREATE, DELETE}
      /\ Answers' \subseteq Answers /\ \A f \in Answers : f = p.resp \/ f \in Answers'
  <2>1. p.resp \in Answers
    BY DEF Answers
  <2>2. Answers' \subseteq Answers /\ \A f \in Answers : f = p.resp \/ f \in Answers'
    BY <1>3 DEF Answers
  <2>. QED
    BY <1>2, <2>1, <2>2, AnswerTypes DEF Request
<1>5. Accepted(p)
  BY <1>1 DEF Refused, Settling, WaitInv, PutInv
<1>6. /\ f5ipam' \in [CR -> Resource] /\ rscQueue' \in Seq(Event)
      /\ \A d \in CR : f5ipam'[d].live = f5ipam[d].live /\ f5ipam'[d].spec = f5ipam[d].spec
  BY <1>5, AcceptedKeeps
<1>7. \A d \in CR : \A r : Wants(d, r)' <=> Wants(d, r)
  BY <1>6 DEF Wants, Wanted
<1>8. Due = {} /\ up
  BY <1>3 DEF WaitInv, DueInv, LifeInv, Quiet
<1>9. p.spec = f5ipam[c].spec
  BY <1>2, <1>5 DEF Accepted, SysInv, PutIsCurrent
<1>10. /\ \A d \in CR : d # c => f5ipam'[d].status = f5ipam[d].status
       /\ f5ipam'[c].status = p.status
  <2>1. f5ipam \in [CR -> Resource]
    BY DEF SysInv, FICTypeOK
  <2>2. CASE /\ UNCHANGED f5ipam
             /\ [spec |-> p.spec, status |-> p.status]
                  = [spec |-> f5ipam[c].spec, status |-> f5ipam[c].status]
    BY <1>9, <2>2
  <2>3. CASE f5ipam' = [f5ipam EXCEPT ![c] =
               [live |-> TRUE, rv |-> @.rv + 1, spec |-> p.spec, status |-> p.status]]
    BY <1>4, <2>1, <2>3
  <2>. QED
    BY <1>2, <1>5, <2>2, <2>3 DEF Accepted
<1>11. \A i \in DOMAIN rscQueue' : Idle(rscQueue'[i])
  <2>1. \A j \in DOMAIN rscQueue : Idle(rscQueue[j])
    BY <1>8 DEF Due, ToSet
  <2>2. CASE rscQueue' = rscQueue
    BY <2>1, <2>2
  <2>3. CASE Notify(UpdateEvent(c, f5ipam[c].spec, p.spec))
    <3>1. PICK e : e = UpdateEvent(c, f5ipam[c].spec, p.spec)
      OBVIOUS
    <3>2. Idle(e)
      BY <1>9, <3>1, EventFacts
    <3>3. e \in Event
      <4>1. f5ipam[c].spec \in Seq(Asked) /\ <<>> \in Seq(IPSpec)
        BY <1>4 DEF SysInv, FICTypeOK, Resource
      <4>. QED
        BY <1>4, <1>9, <3>1, <4>1, EventTypes
    <3>4. \A i \in DOMAIN rscQueue' :
            rscQueue'[i] = e \/ \E j \in DOMAIN rscQueue : rscQueue'[i] = rscQueue[j]
      BY <2>3, <3>1, <3>3, QueueGains DEF SysInv, FICTypeOK
    <3>. QED
      BY <2>1, <3>2, <3>4
  <2>. QED
    BY <1>2, <1>5, <2>2, <2>3 DEF Accepted
<1>12. \A e \in Coming' : Idle(e)
  <2>1. up' /\ stale' = stale
    BY <1>3, <1>8
  <2>2. \A e \in Coming : Idle(e)
    BY <1>8 DEF Due
  <2>3. CASE stale = <<>>
    BY <2>1, <2>3 DEF Coming
  <2>4. CASE stale # <<>>
    <3>1. ASSUME NEW d \in CR, f5ipam'[d].live
          PROVE  Idle(ListedEvent(d)')
      <4>1. f5ipam[d].live /\ ListedEvent(d) \in Coming
        BY <1>6, <1>8, <2>4, <3>1 DEF Coming
      <4>2. Idle(ListedEvent(d))
        BY <2>2, <4>1
      <4>3. Head(stale)[d].live
        BY <4>2, EventFacts DEF ListedEvent
      <4>4. ListedEvent(d)' = ListedEvent(d)
        BY <1>6, <2>1, <4>3 DEF ListedEvent
      <4>. QED
        BY <4>2, <4>4
    <3>2. ASSUME NEW d \in CR, Head(stale)[d].live
          PROVE  f5ipam'[d].live
      <4>1. ~f5ipam[d].live => Tombstone(d) \in Coming
        BY <1>8, <2>4, <3>2 DEF Coming
      <4>. QED
        BY <1>6, <2>2, <4>1, EventFacts
    <3>. QED
      BY <2>1, <2>4, <3>1, <3>2 DEF Coming
  <2>. QED
    BY <2>3, <2>4
<1>13. Due' = {}
  <2>1. \A e \in ToSet(rscQueue') : Idle(e)
    BY <1>11 DEF ToSet
  <2>2. Due' = {e \in ToSet(rscQueue') \cup Coming' : ~Idle(e)}
    BY DEF Due, Idle
  <2>. QED
    BY <1>12, <2>1, <2>2
<1>14. DueInv'
  BY <1>11, <1>13 DEF DueInv, Idle
<1>15. PutInv' /\ LifeInv'
  BY <1>3, <1>8 DEF PutInv, LifeInv
<1>. QED
  BY <1>2, <1>3, <1>4, <1>6, <1>7, <1>8, <1>10, <1>13, <1>14, <1>15

\* An address that is already shown is not written again; a new one is added.
LEMMA PutRecords ==
  ASSUME SysInv, WaitInv, NEW p \in put, p.resp.req.op = CREATE, p.resp.req.cr \in CR
  PROVE  \E req, ip, c, st, x :
           /\ req = p.resp.req /\ ip = p.resp.ip /\ c = p.resp.req.cr
           /\ st = f5ipam[c].status
           /\ x = [host |-> req.host, cidr |-> req.cidr, ip |-> ip]
           /\ Wants(c, req) /\ Rec(req.host, ip) /\ InRow(req.cidr, ip)
           /\ req.host \in OwnHosts(c) /\ f5ipam[c].live
           /\ \/ p.status = st /\ \E s \in Published(c) : Same(s, req) /\ s.ip = ip
              \/ /\ \A s \in Published(c) : ~Same(s, req)
                 /\ p.status = Append(st, x)
<1>0. PICK req, ip, st : /\ req = p.resp.req /\ ip = p.resp.ip
                         /\ st = f5ipam[req.cr].status /\ req.cr \in CR
  OBVIOUS
<1>. SUFFICES /\ Wants(req.cr, req) /\ Rec(req.host, ip) /\ InRow(req.cidr, ip)
              /\ req.host \in OwnHosts(req.cr) /\ f5ipam[req.cr].live
              /\ \/ p.status = st /\ \E s \in Published(req.cr) : Same(s, req) /\ s.ip = ip
                 \/ /\ \A s \in Published(req.cr) : ~Same(s, req)
                    /\ p.status = Append(st, [host |-> req.host, cidr |-> req.cidr, ip |-> ip])
  BY <1>0
<1>. USE <1>0
<1>1. p.resp \in Answers
  BY DEF Answers
<1>2. /\ Wants(req.cr, req) /\ Rec(req.host, ip) /\ InRow(req.cidr, ip)
      /\ req.host \in OwnHosts(req.cr)
  BY <1>1 DEF WaitInv, AnswerInv
<1>3. f5ipam[req.cr].live /\ p.status = Recorded(st, req, ip)
  BY DEF WaitInv, PutInv
<1>4. st \in Seq(IPSpec)
  BY DEF SysInv, FICTypeOK, Resource
<1>5. Published(req.cr) = {st[i] : i \in DOMAIN st}
  BY EntryFacts
<1>6. \A i \in DOMAIN st : i \in Found(st, req) <=> Same(st[i], req)
  BY DEF Found, Matches, Same
<1>7. CASE Found(st, req) = {}
  BY <1>2, <1>3, <1>5, <1>6, <1>7 DEF Recorded, Found
<1>8. CASE Found(st, req) # {}
  <2>1. ASSUME NEW i \in Found(st, req)
        PROVE  st[i] \in Published(req.cr) /\ Same(st[i], req) /\ st[i].ip = ip
    <3>1. i \in DOMAIN st
      BY DEF Found
    <3>2. st[i] \in Published(req.cr) /\ Same(st[i], req) /\ st[i].host = req.host
      BY <1>5, <1>6, <3>1 DEF Same
    <3>3. Wants(req.cr, st[i])
      BY <1>2, <3>2, SameWants
    <3>4. st[i].ip # NoIP
      BY <3>2, EntryFacts
    <3>5. Accounted(req.cr, st[i])
      BY <3>2 DEF WaitInv, StatusInv
    <3>6. Due = {}
      BY DEF WaitInv, DueInv, Quiet
    <3>7. ASSUME NEW r \in Requests, r.op = CREATE, Same(r, st[i]), r.ip = st[i].ip
          PROVE  FALSE
      <4>1. \A a \in aRecords : a.hostname # r.host
        BY <3>4, <3>7 DEF WaitInv, TodoInv, Requests
      <4>2. r.host = req.host
        BY <3>2, <3>7 DEF Same
      <4>3. PICK a : a = [ipaddress |-> ip, hostname |-> req.host]
        OBVIOUS
      <4>4. a \in aRecords /\ a.hostname = req.host
        BY <1>2, <4>3 DEF Rec
      <4>. QED
        BY <4>1, <4>2, <4>4
    <3>8. Rec(st[i].host, st[i].ip)
      BY <3>3, <3>5, <3>6, <3>7 DEF Accounted
    <3>9. st[i].ip = ip
      BY <1>2, <3>2, <3>8, OneRecord DEF WaitInv
    <3>. QED
      BY <3>2, <3>9
  <2>2. p.status = st
    <3>1. \A i \in Found(st, req) : st[i].ip = ip
      BY <2>1
    <3>. QED
      BY <1>3, <1>4, <1>8, <3>1, RecordedAgain
  <2>. QED
    BY <1>2, <1>3, <1>8, <2>1, <2>2
<1>. QED
  BY <1>7, <1>8

\* The entry that is removed is the one of the released host.
LEMMA PutRemoves ==
  ASSUME SysInv, WaitInv, NEW p \in put, p.resp.req.op = DELETE,
         NEW req, req = p.resp.req, req.cr \in CR, NEW st, st = f5ipam[req.cr].status
  PROVE  /\ ~Wants(req.cr, req) /\ f5ipam[req.cr].live
         /\ \E x \in Published(req.cr) :
              /\ Same(x, req)
              /\ ToSet(p.status) = Published(req.cr) \ {x}
              /\ \A s \in Published(req.cr) : Same(s, req) => s = x
         /\ KeysApart(p.status)
<1>1. p.resp \in Answers
  BY DEF Answers
<1>2. ~Wants(req.cr, req)
  BY <1>1 DEF WaitInv, AnswerInv
<1>3. f5ipam[req.cr].live /\ \E i \in Found(st, req) : p.status = RemoveAt(st, i)
  BY DEF WaitInv, PutInv
<1>4. PICK i \in DOMAIN st : Same(st[i], req) /\ p.status = RemoveAt(st, i)
  BY <1>3 DEF Found, Matches, Same
<1>5. st \in Seq(IPSpec) /\ KeysApart(st)
  BY DEF SysInv, FICTypeOK, Resource, WaitInv, StatusInv
<1>6. PICK t, x : t = p.status /\ x = st[i]
  OBVIOUS
<1>7. /\ \A j \in DOMAIN t :
           \E k \in DOMAIN st : k # i /\ t[j] = st[k] /\ k = IF j < i THEN j ELSE j + 1
      /\ \A k \in DOMAIN st : k # i => \E j \in DOMAIN t : t[j] = st[k]
  <2>1. t = RemoveAt(st, i) /\ st \in Seq(IPSpec)
    BY <1>4, <1>5, <1>6
  <2>. QED
    BY <2>1, RemovedElements
<1>8. ASSUME NEW k \in DOMAIN st, Same(st[k], req)
      PROVE  k = i
  <2>1. Same(st[k], st[i])
    BY <1>4, <1>8 DEF Same
  <2>. QED
    BY <1>5, <2>1 DEF KeysApart
<1>9. Published(req.cr) = {st[k] : k \in DOMAIN st} /\ ToSet(t) = {t[j] : j \in DOMAIN t}
  BY EntryFacts DEF ToSet
<1>10. \A k \in DOMAIN st : st[k] = x => k = i
  BY <1>4, <1>6, <1>8
<1>11. ToSet(t) = Published(req.cr) \ {x}
  <2>1. \A s : s \in ToSet(t) => s \in Published(req.cr) /\ s # x
    BY <1>7, <1>9, <1>10
  <2>2. \A s : s \in Published(req.cr) /\ s # x => s \in ToSet(t)
    BY <1>6, <1>7, <1>9
  <2>. QED
    BY <2>1, <2>2
<1>12. KeysApart(t)
  <2>. SUFFICES ASSUME NEW j \in DOMAIN t, NEW k \in DOMAIN t, Same(t[j], t[k])
                PROVE  j = k
    BY DEF KeysApart
  <2>1. PICK m \in DOMAIN st : t[j] = st[m] /\ m = IF j < i THEN j ELSE j + 1
    BY <1>7
  <2>2. PICK n \in DOMAIN st : t[k] = st[n] /\ n = IF k < i THEN k ELSE k + 1
    BY <1>7
  <2>3. m = n
    BY <1>5, <2>1, <2>2 DEF KeysApart
  <2>4. j \in Nat /\ k \in Nat /\ i \in Nat
    <3>1. t \in Seq(IPSpec)
      BY <1>4, <1>5, <1>6, RemoveAtType
    <3>. QED
      BY <1>5, <3>1
  <2>5. m = (IF j < i THEN j ELSE j + 1) /\ m = (IF k < i THEN k ELSE k + 1)
    BY <2>1, <2>2, <2>3
  <2>6. CASE j < i
    BY <2>4, <2>5, <2>6
  <2>7. CASE ~(j < i)
    BY <2>4, <2>5, <2>7
  <2>. QED
    BY <2>6, <2>7
<1>13. x \in Published(req.cr) /\ \A s \in Published(req.cr) : Same(s, req) => s = x
  BY <1>6, <1>8, <1>9
<1>. QED
  BY <1>2, <1>3, <1>4, <1>6, <1>11, <1>12, <1>13

LEMMA AppendElements ==
  ASSUME NEW st \in Seq(IPSpec), NEW x
  PROVE  /\ ToSet(Append(st, x)) = ToSet(st) \cup {x}
         /\ KeysApart(st) /\ (\A i \in DOMAIN st : ~Same(st[i], x)) => KeysApart(Append(st, x))
<1>1. PICK n, t : n = Len(st) /\ t = Append(st, x)
  OBVIOUS
<1>2. /\ n \in Nat /\ DOMAIN st = 1..n /\ DOMAIN t = 1..n + 1 /\ t[n + 1] = x
      /\ \A i \in 1..n : t[i] = st[i]
  BY <1>1
<1>3. \A i \in 1..n + 1 : i \in 1..n \/ i = n + 1
  BY <1>2
<1>4. n + 1 \in 1..n + 1 /\ \A i \in 1..n : i \in 1..n + 1
  BY <1>2
<1>5. ToSet(t) = ToSet(st) \cup {x}
  <2>1. \A y : y \in ToSet(t) => y \in ToSet(st) \/ y = x
    BY <1>2, <1>3 DEF ToSet
  <2>2. \A y : y \in ToSet(st) \/ y = x => y \in ToSet(t)
    BY <1>2, <1>4 DEF ToSet
  <2>. QED
    BY <2>1, <2>2
<1>6. ASSUME KeysApart(st), \A i \in DOMAIN st : ~Same(st[i], x)
      PROVE  KeysApart(t)
  <2>. SUFFICES ASSUME NEW i \in 1..n + 1, NEW j \in 1..n + 1, Same(t[i], t[j])
                PROVE  i = j
    BY <1>2 DEF KeysApart
  <2>1. CASE i \in 1..n /\ j \in 1..n
    BY <1>2, <1>6, <2>1 DEF KeysApart
  <2>2. CASE i \in 1..n /\ j = n + 1
    BY <1>2, <1>6, <2>2
  <2>3. CASE j \in 1..n /\ i = n + 1
    <3>1. Same(t[j], t[i])
      BY DEF Same
    <3>. QED
      BY <1>2, <1>6, <2>3, <3>1
  <2>. QED
    BY <1>3, <2>1, <2>2, <2>3
<1>. QED
  BY <1>1, <1>5, <1>6

\* What a PUT for a created host leaves.
LEMMA PutCreated ==
  ASSUME SysInv, WaitInv, NEW p \in put, p.resp.req.op = CREATE, p.resp.req.cr \in CR
  PROVE  \E req, ip, c, x :
           /\ req = p.resp.req /\ ip = p.resp.ip /\ c = p.resp.req.cr
           /\ x = [host |-> req.host, cidr |-> req.cidr, ip |-> ip]
           /\ ToSet(p.status) = Published(c) \cup {x}
           /\ KeysApart(p.status)
           /\ Wants(c, req) /\ Rec(req.host, ip) /\ InRow(req.cidr, ip)
           /\ req.host \in OwnHosts(c) /\ f5ipam[c].live
           /\ p.status = f5ipam[c].status \/ \A s \in Published(c) : ~Same(s, req)
<1>1. PICK req, ip, c, st, x :
        /\ req = p.resp.req /\ ip = p.resp.ip /\ c = p.resp.req.cr
        /\ st = f5ipam[c].status
        /\ x = [host |-> req.host, cidr |-> req.cidr, ip |-> ip]
        /\ Wants(c, req) /\ Rec(req.host, ip) /\ InRow(req.cidr, ip)
        /\ req.host \in OwnHosts(c) /\ f5ipam[c].live
        /\ \/ p.status = st /\ \E s \in Published(c) : Same(s, req) /\ s.ip = ip
           \/ /\ \A s \in Published(c) : ~Same(s, req)
              /\ p.status = Append(st, x)
  BY PutRecords
<1>2. /\ Wants(c, req) /\ Rec(req.host, ip) /\ InRow(req.cidr, ip)
      /\ req.host \in OwnHosts(c) /\ f5ipam[c].live
      /\ \/ p.status = st /\ \E s \in Published(c) : Same(s, req) /\ s.ip = ip
         \/ /\ \A s \in Published(c) : ~Same(s, req)
            /\ p.status = Append(st, x)
  BY <1>1
<1>3. st \in Seq(IPSpec) /\ KeysApart(st) /\ Published(c) = ToSet(st)
  BY <1>1 DEF SysInv, FICTypeOK, Resource, WaitInv, StatusInv, Published
<1>6. c \in CR
  BY <1>1
<1>4. CASE p.status = st /\ \E s \in Published(c) : Same(s, req) /\ s.ip = ip
  <2>1. PICK s \in Published(c) : Same(s, req) /\ s.ip = ip
    BY <1>4
  <2>2. s \in IPSpec
    BY <1>6, EntryFacts
  <2>3. s = x
    BY <1>1, <2>1, <2>2, IPSpecFacts DEF Same
  <2>4. ToSet(p.status) = Published(c) \cup {x} /\ KeysApart(p.status)
    BY <1>3, <1>4, <2>1, <2>3
  <2>. QED
    BY <1>1, <1>2, <1>4, <2>4
<1>5. CASE /\ \A s \in Published(c) : ~Same(s, req)
           /\ p.status = Append(st, x)
  <2>1. \A i \in DOMAIN st : ~Same(st[i], x)
    <3>1. x.host = req.host /\ x.cidr = req.cidr
      BY <1>1
    <3>2. \A i \in DOMAIN st : ~Same(st[i], req)
      BY <1>3, <1>5 DEF ToSet
    <3>. QED
      BY <3>1, <3>2 DEF Same
  <2>2. ToSet(Append(st, x)) = ToSet(st) \cup {x} /\ KeysApart(Append(st, x))
    BY <1>3, <2>1, AppendElements
  <2>. QED
    BY <1>1, <1>2, <1>3, <1>5, <2>2
<1>. QED
  BY <1>2, <1>4, <1>5

LEMMA PutWaits ==
  ASSUME Settling, SysInv, WaitInv, PutUpdate
  PROVE  WaitInv'
<1>1. PICK p \in put :
           /\ put' = {} /\ UNCHANGED <<aRecords, todo>>
           /\ p.resp.req.cr \in CR /\ p.resp \in Answers /\ p.resp.req.op \in {CREATE, DELETE}
           /\ Answers' \subseteq Answers /\ \A f \in Answers : f = p.resp \/ f \in Answers'
           /\ \A d \in CR : f5ipam'[d].live = f5ipam[d].live /\ f5ipam'[d].spec = f5ipam[d].spec
           /\ \A d \in CR : \A r : Wants(d, r)' <=> Wants(d, r)
           /\ \A d \in CR : d # p.resp.req.cr => f5ipam'[d].status = f5ipam[d].status
           /\ f5ipam'[p.resp.req.cr].status = p.status
           /\ Due = {} /\ Due' = {} /\ DueInv' /\ PutInv' /\ LifeInv'
  BY PutFrame
<1>2. PICK req, ip, c : req = p.resp.req /\ ip = p.resp.ip /\ c = req.cr
  OBVIOUS
<1>3. c \in CR
  BY <1>1, <1>2
<1>4. /\ \A d \in CR : d # c => Published(d)' = Published(d)
      /\ Published(c)' = ToSet(p.status)
      /\ Requests' = Requests /\ \A h, jp : Rec(h, jp)' <=> Rec(h, jp)
  BY <1>1, <1>2, <1>3 DEF Published, Requests, Rec
<1>5. /\ \A i \in DOMAIN todo : \A r \in todo[i] : r.cr \in CR
      /\ \A f \in Answers : f.req.cr \in CR
  <2>1. todo \in Seq(Batch)
    BY DEF SysInv, FICTypeOK, Batch, Wish
  <2>2. \A i \in DOMAIN todo : todo[i] \in Batch
    <3>. HIDE DEF Batch
    <3>. QED
      BY <2>1
  <2>. QED
    BY <2>2, AnswerTypes DEF Batch, Wish, Request
<1>6. AnswerInv'
  BY <1>1, <1>4, <1>5 DEF AnswerInv, WaitInv, InRow
<1>7. CREATE # DELETE
  BY DEF CREATE, DELETE
<1>8. CASE req.op = CREATE
  <2>1. PICK x : x = [host |-> req.host, cidr |-> req.cidr, ip |-> ip]
    OBVIOUS
  <2>2. /\ ToSet(p.status) = Published(c) \cup {x} /\ KeysApart(p.status)
        /\ Wants(c, req) /\ Rec(req.host, ip) /\ InRow(req.cidr, ip)
        /\ req.host \in OwnHosts(c) /\ f5ipam[c].live
    <3>1. p.resp.req.op = CREATE /\ p.resp.req.cr \in CR
      BY <1>1, <1>2, <1>8
    <3>2. PICK rq, jp, d, y :
              /\ rq = p.resp.req /\ jp = p.resp.ip /\ d = p.resp.req.cr
              /\ y = [host |-> rq.host, cidr |-> rq.cidr, ip |-> jp]
              /\ ToSet(p.status) = Published(d) \cup {y}
              /\ KeysApart(p.status)
              /\ Wants(d, rq) /\ Rec(rq.host, jp) /\ InRow(rq.cidr, jp)
              /\ rq.host \in OwnHosts(d) /\ f5ipam[d].live
              /\ p.status = f5ipam[d].status \/ \A s \in Published(d) : ~Same(s, rq)
      BY <3>1, PutCreated
    <3>3. rq = req /\ jp = ip /\ d = c /\ y = x
      BY <1>2, <2>1, <3>2
    <3>. QED
      BY <3>2, <3>3
  <2>3. x.host = req.host /\ x.cidr = req.cidr /\ x.ip = ip /\ Same(x, req)
    BY <2>1 DEF Same
  <2>4. TodoInv'
    <3>1. \A i \in DOMAIN todo : \A r \in todo[i] : r.op # DELETE
      BY <1>1, <1>2, <1>7, <1>8 DEF WaitInv, TodoInv
    <3>. QED
      BY <1>1, <1>5, <3>1 DEF TodoInv, WaitInv, InRow
  <2>5. StatusInv'
    <3>1. ASSUME NEW d \in CR, NEW s \in Published(d)
          PROVE  Accounted(d, s)'
      BY <1>1, <1>2, <1>4, <1>7, <1>8 DEF Accounted, WaitInv, StatusInv
    <3>2. Accounted(c, x)'
      BY <1>1, <1>3, <1>4, <2>2, <2>3, SameWants DEF Accounted
    <3>3. ASSUME NEW d \in CR
          PROVE  /\ KeysApart(f5ipam'[d].status)
                 /\ \A s \in Published(d)' :
                      InRow(s.cidr, s.ip) /\ s.host \in OwnHosts(d) /\ Accounted(d, s)'
      <4>1. CASE d = c
        BY <1>1, <1>2, <1>4, <2>2, <2>3, <3>1, <3>2, <4>1 DEF WaitInv, StatusInv
      <4>2. CASE d # c
        BY <1>1, <1>2, <1>4, <3>1, <4>2 DEF WaitInv, StatusInv
      <4>. QED
        BY <4>1, <4>2
    <3>4. ASSUME NEW d \in CR
          PROVE  /\ f5ipam'[d].spec \in SpecChoice[d] \cup {<<>>}
                 /\ ~f5ipam'[d].live => f5ipam'[d].spec = <<>> /\ f5ipam'[d].status = <<>>
      BY <1>1, <1>2, <2>2 DEF WaitInv, StatusInv
    <3>. QED
      BY <3>3, <3>4 DEF StatusInv, InRow
  <2>6. RecordInv'
    <3>1. ASSUME NEW a \in aRecords
          PROVE  (Shown(a) \/ Answered(a) \/ Released(a))'
      <4>1. Shown(a) => Shown(a)'
        BY <1>1, <1>4, <2>2 DEF Shown
      <4>2. ASSUME Answered(a)
            PROVE  (Shown(a) \/ Answered(a))'
        <5>1. PICK f \in Answers : /\ f.req.op = CREATE /\ f.req.host = a.hostname
                                   /\ f.ip = a.ipaddress
          BY <4>2 DEF Answered
        <5>2. CASE f = p.resp
          <6>1. x \in Published(c)' /\ x.host = a.hostname /\ x.ip = a.ipaddress
            BY <1>2, <1>4, <2>2, <2>3, <5>1, <5>2
          <6>2. Wants(c, x)'
            BY <1>1, <1>3, <2>2, <2>3, SameWants
          <6>. QED
            BY <1>3, <6>1, <6>2 DEF Shown
        <5>3. CASE f \in Answers'
          BY <5>1, <5>3 DEF Answered
        <5>. QED
          BY <1>1, <5>2, <5>3
      <4>3. Released(a) => Released(a)'
        BY <1>1, <1>4 DEF Released
      <4>. QED
        BY <4>1, <4>2, <4>3 DEF WaitInv, RecordInv
    <3>. QED
      BY <1>1, <3>1 DEF WaitInv, RecordInv
  <2>. QED
    BY <1>1, <1>6, <2>4, <2>5, <2>6 DEF WaitInv
<1>9. CASE req.op = DELETE
  <2>1. PICK x \in Published(c) :
          /\ ~Wants(c, req) /\ f5ipam[c].live
          /\ Same(x, req) /\ ToSet(p.status) = Published(c) \ {x}
          /\ \A s \in Published(c) : Same(s, req) => s = x
          /\ KeysApart(p.status)
    BY <1>2, <1>3, <1>9, PutRemoves
  <2>2. \A d \in CR : Published(d)' \subseteq Published(d)
    BY <1>4, <2>1
  <2>3. TodoInv'
    BY <1>1, <1>5, <2>2 DEF TodoInv, WaitInv, InRow
  <2>4. StatusInv'
    <3>1. ASSUME NEW d \in CR, NEW s \in Published(d)'
          PROVE  Accounted(d, s)'
      <4>1. s \in Published(d) /\ (d = c => s # x)
        BY <1>4, <2>1, <2>2
      <4>2. ~(d = c /\ Same(req, s))
        BY <2>1, <4>1 DEF Same
      <4>. QED
        BY <1>1, <1>2, <1>4, <4>1, <4>2 DEF Accounted, WaitInv, StatusInv
    <3>2. ASSUME NEW d \in CR
          PROVE  /\ KeysApart(f5ipam'[d].status)
                 /\ f5ipam'[d].spec \in SpecChoice[d] \cup {<<>>}
                 /\ ~f5ipam'[d].live => f5ipam'[d].spec = <<>> /\ f5ipam'[d].status = <<>>
      BY <1>1, <1>2, <2>1 DEF WaitInv, StatusInv
    <3>. QED
      BY <2>2, <3>1, <3>2 DEF StatusInv, WaitInv, InRow
  <2>5. RecordInv'
    <3>1. ASSUME NEW a \in aRecords
          PROVE  (Shown(a) \/ Answered(a) \/ Released(a))'
      <4>1. ASSUME Shown(a)
            PROVE  Shown(a)'
        <5>1. PICK d \in CR : \E s \in Published(d) :
                                Wants(d, s) /\ s.host = a.hostname /\ s.ip = a.ipaddress
          BY <4>1 DEF Shown
        <5>2. PICK s \in Published(d) : Wants(d, s) /\ s.host = a.hostname /\ s.ip = a.ipaddress
          BY <5>1
        <5>3. ~(d = c /\ s = x)
          BY <2>1, <5>2, SameWants
        <5>4. s \in Published(d)' /\ Wants(d, s)'
          BY <1>1, <1>4, <2>1, <5>2, <5>3
        <5>. QED
          BY <5>2, <5>4 DEF Shown
      <4>2. Answered(a) => Answered(a)'
        BY <1>1, <1>2, <1>7, <1>9 DEF Answered
      <4>3. Released(a) => Released(a)'
        BY <1>1, <1>4 DEF Released
      <4>. QED
        BY <4>1, <4>2, <4>3 DEF WaitInv, RecordInv
    <3>. QED
      BY <1>1, <3>1 DEF WaitInv, RecordInv
  <2>. QED
    BY <1>1, <1>6, <2>3, <2>4, <2>5 DEF WaitInv
<1>. QED
  BY <1>1, <1>2, <1>8, <1>9

-----------------------------------------------------------------------------
(* The invariant is inductive.                                             *)

LEMMA StutterWaits ==
  ASSUME WaitInv, UNCHANGED sysVars
  PROVE  WaitInv'
<1>1. Due' = Due /\ UNCHANGED <<aRecords, inFlight, f5ipam, todo, put, up, rscQueue, stale>>
  BY DEF sysVars, Due, Coming, ListedEvent
<1>2. TodoInv' /\ AnswerInv' /\ PutInv' /\ StatusInv' /\ RecordInv'
  BY <1>1, Kept DEF WaitInv
<1>3. /\ \A e \in Due' : Quiet' /\ Justified(e)'
      /\ \A e, f \in Due' : e = f
  BY <1>1, DueKept DEF WaitInv
<1>4. Coming' = Coming
  BY <1>1 DEF Coming, ListedEvent
<1>5. DueInv'
  BY <1>1, <1>3, <1>4 DEF WaitInv, DueInv
<1>6. LifeInv'
  BY <1>1 DEF WaitInv, LifeInv, Quiet
<1>. QED
  BY <1>2, <1>5, <1>6 DEF WaitInv

LEMMA WaitInductive ==
  ASSUME SoundPool, Settling, SysInv, WaitInv, [Next]_vars
  PROVE  WaitInv'
<1>1. ASSUME NEW c \in CR, UserDelete(c)
      PROVE  WaitInv'
  BY <1>1, UserDeleteWaits
<1>2. ASSUME NEW c \in CR, NEW spec \in SpecChoice[c], UserCreate(c, spec)
      PROVE  WaitInv'
  BY <1>2, UserCreateWaits
<1>3. ASSUME NEW c \in CR, NEW spec \in SpecChoice[c], UserEdit(c, spec)
      PROVE  WaitInv'
  BY <1>3, UserEditWaits
<1>4. CASE LoseWatch
  BY <1>4, LoseWatchWaits
<1>5. CASE Relist
  BY <1>5, RelistWaits
<1>6. CASE ProcessResource
  BY <1>6, ProcessWaits
<1>7. CASE SendRequest
  BY <1>7, SendWaits
<1>8. CASE TakeResponse
  BY <1>8, TakeWaits
<1>9. CASE PutUpdate
  BY <1>9, PutWaits
<1>10. CASE Crash
  BY <1>10, CrashWaits
<1>11. CASE Panic
  BY <1>11, PanicWaits
<1>12. CASE Start
  BY <1>12, StartWaits
<1>13. CASE UNCHANGED vars
  BY <1>13, StutterWaits DEF vars
<1>. QED
  BY <1>1, <1>2, <1>3, <1>4, <1>5, <1>6, <1>7, <1>8, <1>9, <1>10, <1>11, <1>12, <1>13
     DEF Next

LEMMA WaitInit == Init => WaitInv
<1>. SUFFICES ASSUME Init
              PROVE  WaitInv
  OBVIOUS
<1>1. /\ aRecords = {} /\ inFlight = EmptyBag /\ todo = <<>> /\ put = {} /\ ~up
      /\ rscQueue = <<>> /\ stale = <<>>
      /\ \A c \in CR : ~f5ipam[c].live /\ f5ipam[c].spec = <<>> /\ f5ipam[c].status = <<>>
  BY DEF Init, CtlrInit, StoreInit
<1>2. BagToSet(inFlight) = {}
  BY <1>1 DEF BagToSet, EmptyBag, SetToBag
<1>3. Due = {} /\ Answers = {} /\ Quiet
  BY <1>1, <1>2 DEF Due, Coming, ToSet, Answers, Quiet
<1>4. \A c \in CR : Published(c) = {}
  BY <1>1 DEF Published, ToSet
<1>5. DueInv /\ TodoInv /\ AnswerInv /\ PutInv /\ RecordInv /\ LifeInv
  BY <1>1, <1>3 DEF DueInv, TodoInv, AnswerInv, PutInv, RecordInv, LifeInv
<1>6. StatusInv
  BY <1>1, <1>4 DEF StatusInv, KeysApart
<1>. QED
  BY <1>5, <1>6 DEF WaitInv

\* An event that changes something meets a system that has settled, and every
\* entry, record, request and answer is accounted for until the next one does.
THEOREM WaitInvariant ==
  ASSUME SoundPool, Settling PROVE Spec => [](SysInv /\ WaitInv)
<1>1. SysInv /\ WaitInv /\ [Next]_vars => WaitInv'
  BY WaitInductive
<1>. QED
  BY <1>1, WaitInit, SystemInvariant, PTL DEF Spec

\* Once the controller has settled, every resource shows exactly the addresses the
\* store holds for the hosts it asks for, and the store holds no others.
THEOREM SettledSystemAgrees == ASSUME SoundPool, Settling PROVE Spec => []Agreement
<1>1. ASSUME SysInv, WaitInv, Quiescent
      PROVE  /\ \A c \in CR :
                  Published(c) =
                    {[host |-> s.host, cidr |-> s.cidr, ip |-> GetIPAddress(s.host)] :
                       s \in {x \in Wanted(c) : AddressesOf(x.host) # {}}}
             /\ \A r \in aRecords : \E c \in CR : \E s \in Wanted(c) : s.host = r.hostname
  <2>. USE <1>1
  <2>1. /\ \A c \in CR : \A s \in Published(c) : Wants(c, s) /\ Rec(s.host, s.ip)
        /\ \A a \in aRecords : Shown(a)
    BY SettledFacts
  <2>2. ASSUME NEW c \in CR, NEW s \in Published(c)
        PROVE  \E x \in Wanted(c) :
                 /\ AddressesOf(x.host) # {}
                 /\ s = [host |-> x.host, cidr |-> x.cidr, ip |-> GetIPAddress(x.host)]
    <3>1. Wants(c, s) /\ Rec(s.host, s.ip) /\ s.host \in Host /\ s.ip \in IP
      BY <2>1, RecordFacts
    <3>2. AddressesOf(s.host) # {} /\ GetIPAddress(s.host) = s.ip
      BY <3>1, KnownAddress, OneRecord DEF WaitInv
    <3>3. s = [host |-> s.host, cidr |-> s.cidr, ip |-> s.ip]
      BY EntryFacts, IPSpecFacts
    <3>4. PICK x : x = [host |-> s.host, cidr |-> s.cidr]
      OBVIOUS
    <3>5. x \in Wanted(c) /\ x.host = s.host /\ x.cidr = s.cidr
      BY <3>1, <3>4 DEF Wants
    <3>. QED
      BY <3>2, <3>3, <3>5
  <2>3. ASSUME NEW c \in CR, NEW x \in Wanted(c), AddressesOf(x.host) # {}
        PROVE  [host |-> x.host, cidr |-> x.cidr, ip |-> GetIPAddress(x.host)] \in Published(c)
    <3>1. PICK a \in aRecords : a.hostname = x.host
      BY <2>3 DEF AddressesOf
    <3>2. PICK d \in CR : \E s \in Published(d) :
                            Wants(d, s) /\ s.host = a.hostname /\ s.ip = a.ipaddress
      BY <2>1, <3>1 DEF Shown
    <3>3. PICK s \in Published(d) : Wants(d, s) /\ s.host = x.host /\ s.ip = a.ipaddress
      BY <3>1, <3>2
    <3>4. Wants(c, x)
      BY WantedFacts DEF Wants, WaitInv
    <3>5. d = c
      BY <3>3, <3>4, WantsFacts, OwnHost DEF WaitInv
    <3>6. s.cidr = x.cidr
      BY <3>3, <3>4, <3>5, WantsFacts DEF WaitInv
    <3>7. Rec(s.host, s.ip) /\ s.host \in Host
      BY <2>1, <3>3, RecordFacts
    <3>8. GetIPAddress(s.host) = s.ip
      BY <2>3, <3>3, <3>7, KnownAddress, OneRecord DEF WaitInv
    <3>9. s = [host |-> s.host, cidr |-> s.cidr, ip |-> s.ip]
      BY <3>3, EntryFacts, IPSpecFacts
    <3>. QED
      BY <3>3, <3>5, <3>6, <3>8, <3>9
  <2>4. ASSUME NEW r \in aRecords
        PROVE  \E c \in CR : \E s \in Wanted(c) : s.host = r.hostname
    <3>1. PICK c \in CR : \E s \in Published(c) : Wants(c, s) /\ s.host = r.hostname
      BY <2>1 DEF Shown
    <3>2. PICK s \in Published(c) : Wants(c, s) /\ s.host = r.hostname
      BY <3>1
    <3>3. PICK x : x = [host |-> s.host, cidr |-> s.cidr]
      OBVIOUS
    <3>4. x \in Wanted(c) /\ x.host = r.hostname
      BY <3>2, <3>3 DEF Wants
    <3>. QED
      BY <3>4
  <2>. QED
    BY <2>2, <2>3, <2>4
<1>2. SysInv /\ WaitInv => Agreement
  BY <1>1 DEF Agreement
<1>. QED
  BY <1>2, WaitInvariant, PTL

-----------------------------------------------------------------------------
(* Every step is one of the address book.                                  *)

Asks(c) == {KeyOf(s) : s \in Wanted(c)}
Shows(c) == {<<KeyOf(s), s.ip>> : s \in Published(c)}

\* The steps of the address book, each by what one resource asks for and shows.
LEMMA BookStays ==
  ASSUME \A d \in CR : Asks(d)' = Asks(d) /\ Shows(d)' = Shows(d)
  PROVE  UNCHANGED Book!vars
<1>1. [d \in CR |-> Asks(d)]' = [d \in CR |-> Asks(d)]
  OBVIOUS
<1>2. [d \in CR |-> Shows(d)]' = [d \in CR |-> Shows(d)]
  OBVIOUS
<1>. QED
  BY <1>1, <1>2 DEF Book!vars, Asks, Shows

LEMMA BookFrame ==
  ASSUME NEW c \in CR, NEW W, NEW S, Asks(c)' = W, Shows(c)' = S,
         \A d \in CR : d # c => Asks(d)' = Asks(d) /\ Shows(d)' = Shows(d)
  PROVE  /\ [d \in CR |-> Asks(d)]' = [[d \in CR |-> Asks(d)] EXCEPT ![c] = W]
         /\ [d \in CR |-> Shows(d)]' = [[d \in CR |-> Shows(d)] EXCEPT ![c] = S]
         /\ W = Asks(c) => [d \in CR |-> Asks(d)]' = [d \in CR |-> Asks(d)]
         /\ S = Shows(c) => [d \in CR |-> Shows(d)]' = [d \in CR |-> Shows(d)]
         /\ [d \in CR |-> Asks(d)][c] = Asks(c) /\ [d \in CR |-> Shows(d)][c] = Shows(c)
OBVIOUS

LEMMA BookAsks ==
  ASSUME NEW c \in CR, NEW spec \in SpecChoice[c],
         Asks(c)' = {KeyOf(s) : s \in ToSet(spec)}, Shows(c)' = Shows(c),
         \A d \in CR : d # c => Asks(d)' = Asks(d) /\ Shows(d)' = Shows(d),
         \A e \in Shows(c) : e[1] \in Asks(c)
  PROVE  Book!Next
<1>1. PICK W : W = {KeyOf(s) : s \in ToSet(spec)}
  OBVIOUS
<1>2. Book!Ask(c, W)
  BY <1>1, BookFrame DEF Book!Ask, Asks, Shows
<1>3. W \in [d \in CR |-> {{KeyOf(s) : s \in ToSet(t)} : t \in SpecChoice[d]}][c]
  BY <1>1
<1>. QED
  BY <1>2, <1>3 DEF Book!Next

LEMMA BookRemoves ==
  ASSUME NEW c \in CR, Asks(c)' = {}, Shows(c)' = {},
         \A d \in CR : d # c => Asks(d)' = Asks(d) /\ Shows(d)' = Shows(d)
  PROVE  Book!Next
<1>1. Book!Remove(c)
  BY BookFrame DEF Book!Remove, Asks, Shows
<1>. QED
  BY <1>1 DEF Book!Next

LEMMA BookPublishes ==
  ASSUME NEW c \in CR, NEW k \in Host \X Cidr, NEW ip \in IP,
         k \in Asks(c), ip \in Net[k[2]], \A e \in Shows(c) : e[1] # k,
         \A d \in CR : \A e \in Shows(d) : e[2] = ip => e[1] \notin Asks(d),
         Asks(c)' = Asks(c), Shows(c)' = Shows(c) \cup {<<k, ip>>},
         \A d \in CR : d # c => Asks(d)' = Asks(d) /\ Shows(d)' = Shows(d)
  PROVE  Book!Next
<1>1. /\ [d \in CR |-> Asks(d)]' = [d \in CR |-> Asks(d)]
      /\ [d \in CR |-> Shows(d)]' =
           [[d \in CR |-> Shows(d)] EXCEPT ![c] = Shows(c) \cup {<<k, ip>>}]
  BY BookFrame
<1>2. Book!Publish(c, k, ip)
  BY <1>1 DEF Book!Publish, Asks, Shows
<1>. QED
  BY <1>2 DEF Book!Next

LEMMA BookWithdraws ==
  ASSUME NEW c \in CR, NEW e \in Shows(c), e[1] \notin Asks(c),
         Asks(c)' = Asks(c), Shows(c)' = Shows(c) \ {e},
         \A d \in CR : d # c => Asks(d)' = Asks(d) /\ Shows(d)' = Shows(d)
  PROVE  Book!Next
<1>1. Book!Withdraw(c, e)
  BY BookFrame DEF Book!Withdraw, Asks, Shows
<1>2. e \in [d \in CR |-> Shows(d)][c]
  OBVIOUS
<1>. QED
  BY <1>1, <1>2 DEF Book!Next, Shows

\* A key is its host and its CIDR.
LEMMA KeyFacts ==
  ASSUME Settling, SysInv, StatusInv, NEW c \in CR
  PROVE  /\ \A r : KeyOf(r) \in Asks(c) <=> Wants(c, r)
         /\ \A r, s : KeyOf(r) = KeyOf(s) <=> Same(r, s)
<1>1. \A r, s : KeyOf(r) = KeyOf(s) <=> Same(r, s)
  BY DEF KeyOf, Same
<1>2. ASSUME NEW r, KeyOf(r) \in Asks(c)
      PROVE  Wants(c, r)
  <2>1. PICK x \in Wanted(c) : Same(r, x)
    BY <1>1, <1>2 DEF Asks
  <2>2. x = [host |-> x.host, cidr |-> x.cidr]
    BY WantedFacts
  <2>. QED
    BY <2>1, <2>2 DEF Same, Wants
<1>3. ASSUME NEW r, Wants(c, r)
      PROVE  KeyOf(r) \in Asks(c)
  <2>1. PICK x : x = [host |-> r.host, cidr |-> r.cidr]
    OBVIOUS
  <2>2. x \in Wanted(c) /\ KeyOf(x) = KeyOf(r)
    BY <1>3, <2>1 DEF Wants, KeyOf
  <2>. QED
    BY <2>2 DEF Asks
<1>. QED
  BY <1>1, <1>2, <1>3

\* What a user's write changes.
LEMMA UserViews ==
  ASSUME SysInv, WaitInv, Quiescent, NEW c \in CR, NEW live, NEW spec, NEW st, NEW e,
         UserWrite(c, live, spec, st, e)
  PROVE  /\ Asks(c)' = {KeyOf(s) : s \in ToSet(spec)}
         /\ Shows(c)' = {<<KeyOf(s), s.ip>> : s \in ToSet(st)}
         /\ \A d \in CR : d # c => Asks(d)' = Asks(d) /\ Shows(d)' = Shows(d)
<1>1. /\ f5ipam'[c].spec = spec /\ f5ipam'[c].status = st
      /\ \A d \in CR \ {c} : f5ipam'[d] = f5ipam[d]
  BY UserFrame
<1>. QED
  BY <1>1 DEF Asks, Shows, Wanted, Published

LEMMA UserSteps ==
  ASSUME Settling, SysInv, WaitInv, NEW c \in CR,
         \/ \E spec \in SpecChoice[c] : UserCreate(c, spec) \/ UserEdit(c, spec)
         \/ UserDelete(c)
  PROVE  Book!Next
<1>1. Quiescent
  BY DEF Settling, UserCreate, UserEdit, UserDelete, UserMayEdit
<1>2. ASSUME NEW spec \in SpecChoice[c], UserCreate(c, spec)
      PROVE  Book!Next
  <2>1. Published(c) = {}
    BY <1>2 DEF UserCreate, WaitInv, StatusInv, Published, ToSet
  <2>2. Shows(c) = {} /\ {<<KeyOf(s), s.ip>> : s \in ToSet(<<>>)} = {}
    BY <2>1 DEF Shows, ToSet
  <2>3. UserWrite(c, TRUE, spec, <<>>, CreateEvent(c, spec, <<>>))
    BY <1>2 DEF UserCreate
  <2>4. /\ Asks(c)' = {KeyOf(s) : s \in ToSet(spec)} /\ Shows(c)' = Shows(c)
        /\ \A d \in CR : d # c => Asks(d)' = Asks(d) /\ Shows(d)' = Shows(d)
    BY <1>1, <2>2, <2>3, UserViews
  <2>. QED
    BY <2>2, <2>4, BookAsks
<1>3. ASSUME NEW spec \in SpecChoice[c], UserEdit(c, spec)
      PROVE  Book!Next
  <2>1. UserWrite(c, TRUE, spec, f5ipam[c].status, UpdateEvent(c, f5ipam[c].spec, spec))
    BY <1>3 DEF UserEdit
  <2>2. /\ Asks(c)' = {KeyOf(s) : s \in ToSet(spec)} /\ Shows(c)' = Shows(c)
        /\ \A d \in CR : d # c => Asks(d)' = Asks(d) /\ Shows(d)' = Shows(d)
    BY <1>1, <2>1, UserViews DEF Shows, Published
  <2>3. \A e \in Shows(c) : e[1] \in Asks(c)
    <3>1. \A s \in Published(c) : Wants(c, s)
      BY <1>1, SettledFacts
    <3>2. \A s \in Published(c) : KeyOf(s) \in Asks(c)
      BY <3>1, KeyFacts DEF WaitInv
    <3>. QED
      BY <3>2 DEF Shows
  <2>. QED
    BY <2>2, <2>3, BookAsks
<1>4. CASE UserDelete(c)
  <2>1. UserWrite(c, FALSE, <<>>, <<>>, DeleteEvent(c, f5ipam[c].status))
    BY <1>4 DEF UserDelete
  <2>2. ToSet(<<>>) = {}
    BY DEF ToSet
  <2>3. /\ Asks(c)' = {} /\ Shows(c)' = {}
        /\ \A d \in CR : d # c => Asks(d)' = Asks(d) /\ Shows(d)' = Shows(d)
    <3>1. /\ Asks(c)' = {KeyOf(s) : s \in ToSet(<<>>)}
          /\ Shows(c)' = {<<KeyOf(s), s.ip>> : s \in ToSet(<<>>)}
          /\ \A d \in CR : d # c => Asks(d)' = Asks(d) /\ Shows(d)' = Shows(d)
      BY <1>1, <2>1, UserViews
    <3>. QED
      BY <2>2, <3>1
  <2>. QED
    BY <2>3, BookRemoves
<1>. QED
  BY <1>2, <1>3, <1>4

\* A Status update adds a wanted entry whose address no wanted entry has, takes one
\* away that is not wanted, or changes nothing.
LEMMA PutSteps ==
  ASSUME Settling, SysInv, WaitInv, PutUpdate
  PROVE  Book!Next \/ UNCHANGED Book!vars
<1>1. PICK p \in put :
           /\ p.resp.req.cr \in CR /\ p.resp \in Answers /\ p.resp.req.op \in {CREATE, DELETE}
           /\ \A d \in CR : f5ipam'[d].live = f5ipam[d].live /\ f5ipam'[d].spec = f5ipam[d].spec
           /\ \A d \in CR : d # p.resp.req.cr => f5ipam'[d].status = f5ipam[d].status
           /\ f5ipam'[p.resp.req.cr].status = p.status
           /\ Due = {}
  BY PutFrame
<1>2. PICK req, ip, c : req = p.resp.req /\ ip = p.resp.ip /\ c = req.cr /\ c \in CR
  BY <1>1
<1>3. /\ \A d \in CR : Asks(d)' = Asks(d)
      /\ \A d \in CR : d # c => Shows(d)' = Shows(d)
      /\ Shows(c)' = {<<KeyOf(s), s.ip>> : s \in ToSet(p.status)}
  BY <1>1, <1>2 DEF Asks, Shows, Wanted, Published
<1>4. CASE req.op = CREATE
  <2>1. PICK x : x = [host |-> req.host, cidr |-> req.cidr, ip |-> ip]
    OBVIOUS
  <2>2. /\ ToSet(p.status) = Published(c) \cup {x}
        /\ Wants(c, req) /\ Rec(req.host, ip) /\ InRow(req.cidr, ip)
        /\ p.status = f5ipam[c].status \/ \A s \in Published(c) : ~Same(s, req)
    <3>1. p.resp.req.op = CREATE /\ p.resp.req.cr \in CR
      BY <1>1, <1>2, <1>4
    <3>2. PICK rq, jp, d, y :
              /\ rq = p.resp.req /\ jp = p.resp.ip /\ d = p.resp.req.cr
              /\ y = [host |-> rq.host, cidr |-> rq.cidr, ip |-> jp]
              /\ ToSet(p.status) = Published(d) \cup {y}
              /\ KeysApart(p.status)
              /\ Wants(d, rq) /\ Rec(rq.host, jp) /\ InRow(rq.cidr, jp)
              /\ rq.host \in OwnHosts(d) /\ f5ipam[d].live
              /\ p.status = f5ipam[d].status \/ \A s \in Published(d) : ~Same(s, rq)
      BY <3>1, PutCreated
    <3>3. rq = req /\ jp = ip /\ d = c /\ y = x
      BY <1>2, <2>1, <3>2
    <3>. QED
      BY <3>2, <3>3
  <2>3. CASE p.status = f5ipam[c].status
    <3>1. Shows(c)' = Shows(c)
      BY <1>3, <2>3 DEF Shows, Published
    <3>. QED
      BY <1>3, <3>1, BookStays
  <2>4. CASE \A s \in Published(c) : ~Same(s, req)
    <3>1. PICK k : k = KeyOf(req)
      OBVIOUS
    <3>2. k \in Asks(c) /\ \A e \in Shows(c) : e[1] # k
      <4>1. k \in Asks(c)
        BY <1>2, <2>2, <3>1, KeyFacts DEF WaitInv
      <4>2. \A s \in Published(c) : KeyOf(s) # k
        BY <1>2, <2>4, <3>1, KeyFacts DEF WaitInv
      <4>. QED
        BY <4>1, <4>2 DEF Shows
    <3>3. k \in Host \X Cidr /\ ip \in IP /\ ip \in Net[k[2]]
      <4>1. req \in Request
        BY <1>1, <1>2, AnswerTypes
      <4>2. ip \in IP
        BY <2>2, RecordFacts
      <4>3. ip \in Net[req.cidr]
        BY <2>2 DEF InRow, Settling
      <4>. QED
        BY <3>1, <4>1, <4>2, <4>3 DEF KeyOf, Request
    <3>4. ASSUME NEW d \in CR, NEW s \in Published(d), s.ip = ip, Wants(d, s)
          PROVE  FALSE
      <4>1. Accounted(d, s)
        BY DEF WaitInv, StatusInv
      <4>2. CASE Rec(s.host, s.ip)
        <5>1. s.host = req.host
          BY <2>2, <3>4, <4>2, RecordFacts
        <5>2. d = c
          BY <1>2, <2>2, <3>4, <5>1, WantsFacts, OwnHost DEF WaitInv
        <5>3. s.cidr = req.cidr
          BY <1>2, <2>2, <3>4, <5>1, <5>2, WantsFacts DEF WaitInv
        <5>. QED
          BY <2>4, <5>1, <5>2, <5>3 DEF Same
      <4>3. CASE \E r \in Requests : r.op = CREATE /\ Same(r, s) /\ r.ip = s.ip
        <5>1. PICK r \in Requests : r.op = CREATE /\ r.ip = ip
          BY <3>4, <4>3
        <5>2. ip # NoIP
          BY <3>4, EntryFacts
        <5>3. \A a \in aRecords : a.ipaddress # ip
          BY <5>1, <5>2 DEF WaitInv, TodoInv, Requests
        <5>4. PICK a : a = [ipaddress |-> ip, hostname |-> req.host]
          OBVIOUS
        <5>5. a \in aRecords /\ a.ipaddress = ip
          BY <2>2, <5>4 DEF Rec
        <5>. QED
          BY <5>3, <5>5
      <4>. QED
        BY <1>1, <3>4, <4>1, <4>2, <4>3 DEF Accounted
    <3>5. \A d \in CR : \A e \in Shows(d) : e[2] = ip => e[1] \notin Asks(d)
      <4>1. \A d \in CR : \A s \in Published(d) : s.ip = ip => KeyOf(s) \notin Asks(d)
        BY <3>4, KeyFacts DEF WaitInv
      <4>. QED
        BY <4>1 DEF Shows
    <3>6. Shows(c)' = Shows(c) \cup {<<k, ip>>}
      <4>1. KeyOf(x) = k /\ x.ip = ip
        BY <2>1, <3>1 DEF KeyOf
      <4>. QED
        BY <1>3, <2>2, <4>1 DEF Shows
    <3>. QED
      BY <1>2, <1>3, <3>2, <3>3, <3>5, <3>6, BookPublishes
  <2>. QED
    BY <2>2, <2>3, <2>4
<1>5. CASE req.op = DELETE
  <2>1. PICK x \in Published(c) :
          /\ ~Wants(c, req) /\ Same(x, req)
          /\ ToSet(p.status) = Published(c) \ {x}
          /\ \A s \in Published(c) : Same(s, req) => s = x
    BY <1>2, <1>5, PutRemoves
  <2>2. PICK e : e = <<KeyOf(x), x.ip>>
    OBVIOUS
  <2>3. e \in Shows(c) /\ e[1] \notin Asks(c)
    BY <1>2, <2>1, <2>2, SameWants, KeyFacts DEF Shows, WaitInv
  <2>4. \A s \in Published(c) : <<KeyOf(s), s.ip>> = e => s = x
    BY <2>1, <2>2 DEF KeyOf, Same
  <2>5. Shows(c)' = Shows(c) \ {e}
    <3>1. \A f : f \in Shows(c)' => f \in Shows(c) /\ f # e
      BY <1>3, <2>1, <2>4 DEF Shows
    <3>2. \A f : f \in Shows(c) /\ f # e => f \in Shows(c)'
      BY <1>3, <2>1, <2>2 DEF Shows
    <3>. QED
      BY <3>1, <3>2
  <2>. QED
    BY <1>2, <1>3, <2>3, <2>5, BookWithdraws
<1>. QED
  BY <1>1, <1>2, <1>4, <1>5

\* With users who wait, over clean restarts and broken watches, the controller is an
\* address book: no wanted entry is changed or withdrawn, and none is added whose
\* address another wanted host shows.
THEOREM SystemImplementsAddressBook ==
  ASSUME SoundPool, Settling PROVE Spec => ImplementsAddressBook
<1>1. Init => Book!Init
  <2>. SUFFICES ASSUME Init
                PROVE  Book!Init
    OBVIOUS
  <2>1. \A c \in CR : Asks(c) = {} /\ Shows(c) = {}
    BY DEF Init, Asks, Shows, Wanted, Published, ToSet
  <2>. QED
    BY <2>1 DEF Book!Init, Asks, Shows
<1>2. SysInv /\ WaitInv /\ [Next]_vars => [Book!Next]_(Book!vars)
  <2>. SUFFICES ASSUME SysInv, WaitInv, [Next]_vars
                PROVE  Book!Next \/ UNCHANGED Book!vars
    OBVIOUS
  <2>1. ASSUME NEW c \in CR,
               \/ \E spec \in SpecChoice[c] : UserCreate(c, spec) \/ UserEdit(c, spec)
               \/ UserDelete(c)
        PROVE  Book!Next
    BY <2>1, UserSteps
  <2>2. CASE PutUpdate
    BY <2>2, PutSteps
  <2>3. CASE UNCHANGED f5ipam
    <3>1. \A d \in CR : Asks(d)' = Asks(d) /\ Shows(d)' = Shows(d)
      BY <2>3 DEF Asks, Shows, Wanted, Published
    <3>. QED
      BY <3>1, BookStays
  <2>4. CASE LoseWatch \/ Relist \/ ProcessResource \/ SendRequest \/ TakeResponse
             \/ Crash \/ Panic \/ Start \/ UNCHANGED vars
    <3>1. UNCHANGED f5ipam
      BY <2>4 DEF LoseWatch, Relist, ProcessResource, SendRequest, TakeResponse, Crash,
                  Panic, Start, Die, vars, sysVars
    <3>. QED
      BY <2>3, <3>1
  <2>. QED
    BY <2>1, <2>2, <2>4 DEF Next
<1>. QED
  BY <1>1, <1>2, WaitInvariant, PTL DEF Spec, ImplementsAddressBook, Book!Spec

\* An address that a wanted entry shows is shown by no other wanted entry.
LEMMA ShownOnce ==
  ASSUME Settling, SysInv, WaitInv, NEW c \in CR, NEW d \in CR,
         NEW s \in Published(c), NEW t \in Published(d), Wants(c, s), Wants(d, t), s.ip = t.ip
  PROVE  c = d /\ Same(s, t)
<1>. DEFINE Restored(b, x) == \E r \in Requests : /\ r.op = CREATE /\ r.cr = b
                                                  /\ Same(r, x) /\ r.ip = x.ip
<1>. DEFINE Listed(b) == \E e \in Due : e.op = CREATE /\ e.cr = b
<1>1. /\ Rec(s.host, s.ip) \/ Listed(c) \/ Restored(c, s)
      /\ Rec(t.host, t.ip) \/ Listed(d) \/ Restored(d, t)
  BY DEF WaitInv, StatusInv, Accounted
<1>2. s.ip # NoIP
  BY EntryFacts
<1>3. ASSUME NEW b \in CR, NEW x \in Published(b), x.ip = s.ip, Restored(b, x)
      PROVE  /\ \A h : ~Rec(h, s.ip)
             /\ \A e \in CR : ~Listed(e)
  <2>1. PICK r \in Requests : r.op = CREATE /\ r.ip = s.ip
    BY <1>3
  <2>2. \A a \in aRecords : a.ipaddress # s.ip
    BY <1>2, <2>1 DEF WaitInv, TodoInv, Requests
  <2>3. ASSUME NEW h, Rec(h, s.ip)
        PROVE  FALSE
    <3>1. PICK a : a = [ipaddress |-> s.ip, hostname |-> h]
      OBVIOUS
    <3>. QED
      BY <2>2, <2>3, <3>1 DEF Rec
  <2>4. Due = {}
    BY <2>1 DEF WaitInv, DueInv, Quiet, Requests
  <2>. QED
    BY <2>3, <2>4
<1>4. ASSUME NEW b \in CR, NEW x \in Published(b), x.ip = s.ip, Listed(b)
      PROVE  /\ \A h : ~Rec(h, s.ip)
             /\ \A e \in CR : Listed(e) => e = b
             /\ Apart(f5ipam[b].status)
  <2>1. PICK e \in Due : e.op = CREATE /\ e.cr = b
    BY <1>4
  <2>2. /\ Apart(f5ipam[b].status)
        /\ \A a \in aRecords : a.ipaddress # s.ip
    BY <1>4, <2>1 DEF WaitInv, DueInv, Justified
  <2>3. ASSUME NEW h, Rec(h, s.ip)
        PROVE  FALSE
    <3>1. PICK a : a = [ipaddress |-> s.ip, hostname |-> h]
      OBVIOUS
    <3>. QED
      BY <2>2, <2>3, <3>1 DEF Rec
  <2>4. \A f \in Due : f = e
    BY DEF WaitInv, DueInv
  <2>. QED
    BY <2>1, <2>2, <2>3, <2>4
<1>5. CASE Rec(s.host, s.ip) /\ Rec(t.host, t.ip)
  <2>1. s.host = t.host
    BY <1>5, RecordFacts
  <2>2. c = d
    BY <2>1, WantsFacts, OwnHost DEF WaitInv
  <2>. QED
    BY <2>1, <2>2, WantsFacts DEF WaitInv, Same
<1>6. CASE Listed(c) /\ Listed(d)
  <2>1. c = d /\ Apart(f5ipam[c].status)
    BY <1>4, <1>6
  <2>2. s = t
    <3>1. PICK i \in DOMAIN f5ipam[c].status, j \in DOMAIN f5ipam[c].status :
            s = f5ipam[c].status[i] /\ t = f5ipam[c].status[j]
      BY <2>1 DEF Published, ToSet
    <3>. QED
      BY <2>1, <3>1 DEF Apart
  <2>. QED
    BY <2>1, <2>2 DEF Same
<1>7. CASE Restored(c, s) /\ Restored(d, t)
  <2>1. PICK q \in Requests : q.op = CREATE /\ q.cr = c /\ Same(q, s) /\ q.ip = s.ip
    BY <1>7
  <2>2. PICK r \in Requests : r.op = CREATE /\ r.cr = d /\ Same(r, t) /\ r.ip = s.ip
    BY <1>7
  <2>3. q = r
    BY <1>2, <2>1, <2>2 DEF WaitInv, TodoInv, Requests
  <2>. QED
    BY <2>1, <2>2, <2>3 DEF Same
<1>. HIDE DEF Restored, Listed
<1>. QED
  BY <1>1, <1>3, <1>4, <1>5, <1>6, <1>7

\* At every moment, not only when all has settled, no address is shown for two hosts
\* that are asked for, and no such host shows two.
THEOREM WantedHaveTheirOwn ==
  ASSUME SoundPool, Settling PROVE Spec => []Book!WantedExclusive
<1>1. ASSUME SysInv, WaitInv
      PROVE  Book!WantedExclusive
  <2>. USE <1>1
  <2>1. ASSUME NEW c \in CR, NEW d \in CR, NEW s \in Published(c), NEW t \in Published(d),
               KeyOf(s) \in Asks(c), KeyOf(t) \in Asks(d),
               s.ip = t.ip \/ (c = d /\ KeyOf(s) = KeyOf(t))
        PROVE  c = d /\ s = t
    <3>1. Wants(c, s) /\ Wants(d, t)
      BY <2>1, KeyFacts DEF WaitInv
    <3>2. c = d /\ Same(s, t)
      BY <2>1, <3>1, ShownOnce, KeyFacts DEF WaitInv
    <3>3. PICK i \in DOMAIN f5ipam[c].status, j \in DOMAIN f5ipam[c].status :
            s = f5ipam[c].status[i] /\ t = f5ipam[c].status[j]
      BY <3>2 DEF Published, ToSet
    <3>. QED
      BY <3>2, <3>3 DEF WaitInv, StatusInv, KeysApart
  <2>2. \A c, d \in CR : \A e \in Shows(c), f \in Shows(d) :
          /\ e[1] \in Asks(c) /\ f[1] \in Asks(d)
          /\ e[2] = f[2] \/ (c = d /\ e[1] = f[1])
          => c = d /\ e = f
    BY <2>1 DEF Shows
  <2>. QED
    BY <2>2 DEF Book!WantedExclusive, Asks, Shows
<1>2. SysInv /\ WaitInv => Book!WantedExclusive
  BY <1>1
<1>. QED
  BY <1>2, WaitInvariant, PTL

================================================================================
