----------------------------- MODULE GrowthProofs -----------------------------
(***************************************************************************)
(* What is published stays, and stays exclusive, over crashes at any       *)
(* moment, lost and conflicting calls, broken watches and any edits of a   *)
(* user who only adds hosts, for any number of hosts, addresses and ranges *)
(* of one resource; and, of any number of resources whose hosts are only   *)
(* added, no host is forgotten.                                            *)
(***************************************************************************)
EXTENDS FICSystemProofs

-----------------------------------------------------------------------------
(* The invariant.  After a restart it is in three phases: the first list   *)
(* is queued and nothing has happened; the entries of the Status wait in   *)
(* front of all other requests; every published entry is recorded.         *)

Rec(h, ip) == [ipaddress |-> ip, hostname |-> h] \in aRecords

\* The address is in a row of the CIDR that the host is asked for under.
InRange(h, ip) ==
  \E i \in Row : Pool[i].ipaddress = ip /\ [host |-> h, cidr |-> Pool[i].cidr] \in Asked

Fresh == aRecords = {} /\ todo = <<>> /\ BagToSet(inFlight) = {} /\ put = {}

\* Each request is granted, and its host keeps what the answer says.
AnswerInv ==
  \A resp \in BagToSet(inFlight) \cup {p.resp : p \in put} :
    resp.req.op = CREATE /\ resp.ok /\ Rec(resp.req.host, resp.ip)

RecordInv ==
  /\ \A r, s \in aRecords : r.hostname = s.hostname => r = s
  /\ \A r \in aRecords : InRange(r.hostname, r.ipaddress)

Apart(st) ==
  \A i, j \in DOMAIN st : st[i].host = st[j].host \/ st[i].ip = st[j].ip => i = j

StatusInv ==
  \A c \in CR :
    /\ Apart(f5ipam[c].status)
    /\ \A s \in Published(c) : InRange(s.host, s.ip)

\* Only the first event of a life carries a Status, the one that is stored.
GrowingEvent(e) ==
  /\ e.op # DELETE
  /\ e.op = UPDATE => ToSet(e.old) \subseteq ToSet(e.spec)

QueueInv ==
  \A i \in DOMAIN rscQueue :
    /\ GrowingEvent(rscQueue[i])
    /\ rscQueue[i].status # <<>> =>
         /\ i = 1 /\ Fresh
         /\ rscQueue[i].op = CREATE
         /\ rscQueue[i].status = f5ipam[rscQueue[i].cr].status

Restored == \A i \in DOMAIN rscQueue : rscQueue[i].status = <<>>

\* A request that restores an entry finds its address free and its host without
\* one, and no request for a new address is in front of it.
TodoInv ==
  \A i \in DOMAIN todo : \A r \in todo[i] :
    /\ r.op = CREATE
    /\ r.ip # NoIP =>
         /\ InRange(r.host, r.ip)
         /\ \A a \in aRecords : a.hostname # r.host /\ a.ipaddress # r.ip
         /\ \A j \in DOMAIN todo : \A q \in todo[j] :
              /\ q.ip = NoIP => i < j
              /\ q.ip # NoIP /\ (q.ip = r.ip \/ q.host = r.host) => q = r /\ i = j

Pending(h, ip) == \E i \in DOMAIN todo : \E r \in todo[i] : r.host = h /\ r.ip = ip

HeldInv ==
  up /\ Restored =>
    \A c \in CR : \A s \in Published(c) : Rec(s.host, s.ip) \/ Pending(s.host, s.ip)

PutInv ==
  \A p \in put :
    p.rv = f5ipam[p.resp.req.cr].rv
    => p.status = Recorded(f5ipam[p.resp.req.cr].status, p.resp.req, p.resp.ip)

\* Nothing happens for a resource before the informer knows it.
Unborn(c) == ~f5ipam[c].live \/ (stale # <<>> /\ ~Head(stale)[c].live)

LifeInv ==
  /\ ~up => Fresh /\ rscQueue = <<>> /\ stale = <<>>
  /\ \A c \in CR :
       /\ Unborn(c) => Fresh /\ rscQueue = <<>> /\ f5ipam[c].status = <<>>
       /\ stale # <<>> /\ Head(stale)[c].live =>
            /\ f5ipam[c].live
            /\ ToSet(Head(stale)[c].spec) \subseteq ToSet(f5ipam[c].spec)

GrowInv ==
  /\ AnswerInv /\ RecordInv /\ StatusInv /\ QueueInv /\ TodoInv
  /\ HeldInv /\ PutInv /\ LifeInv

-----------------------------------------------------------------------------
(* Events.                                                                 *)

\* What the informer adds to the queue leaves the first event alone.
LEMMA QueueKeeps ==
  ASSUME SysInv, QueueInv, NEW e \in Event, e.status = <<>>, GrowingEvent(e), Notify(e),
         \/ Restored
         \/ /\ UNCHANGED <<aRecords, todo, inFlight, put>>
            /\ \A c \in CR : f5ipam'[c].status = f5ipam[c].status
  PROVE  QueueInv' /\ (Restored' => Restored)
<1>1. /\ \A i \in DOMAIN rscQueue' :
           \/ rscQueue'[i] = e
           \/ \E j \in DOMAIN rscQueue : rscQueue'[i] = rscQueue[j] /\ (j = 1 => i = 1)
      /\ \A j \in DOMAIN rscQueue : \E i \in DOMAIN rscQueue' : rscQueue'[i] = rscQueue[j]
  BY QueueGains DEF SysInv, FICTypeOK
<1>2. Restored' => Restored
  BY <1>1 DEF Restored
<1>3. \A j \in DOMAIN rscQueue : rscQueue[j].cr \in CR
  <2>1. \A j \in DOMAIN rscQueue : rscQueue[j] \in Event
    BY ElementType DEF SysInv, FICTypeOK
  <2>. QED
    BY <2>1 DEF Event
<1>4. ASSUME NEW i \in DOMAIN rscQueue'
      PROVE  /\ GrowingEvent(rscQueue'[i])
             /\ rscQueue'[i].status # <<>> =>
                  /\ i = 1 /\ Fresh'
                  /\ rscQueue'[i].op = CREATE
                  /\ rscQueue'[i].status = f5ipam'[rscQueue'[i].cr].status
  <2>1. CASE rscQueue'[i] = e
    BY <2>1
  <2>2. ASSUME NEW j \in DOMAIN rscQueue, rscQueue'[i] = rscQueue[j], j = 1 => i = 1
        PROVE  /\ GrowingEvent(rscQueue'[i])
               /\ rscQueue'[i].status # <<>> =>
                    /\ i = 1 /\ Fresh'
                    /\ rscQueue'[i].op = CREATE
                    /\ rscQueue'[i].status = f5ipam'[rscQueue'[i].cr].status
    <3>1. GrowingEvent(rscQueue[j])
      BY DEF QueueInv
    <3>2. CASE Restored
      BY <2>2, <3>1, <3>2 DEF Restored
    <3>3. CASE /\ UNCHANGED <<aRecords, todo, inFlight, put>>
               /\ \A c \in CR : f5ipam'[c].status = f5ipam[c].status
      BY <1>3, <2>2, <3>1, <3>3 DEF QueueInv, Fresh
    <3>. QED
      BY <3>2, <3>3
  <2>. QED
    BY <1>1, <2>1, <2>2
<1>. QED
  BY <1>2, <1>4 DEF QueueInv, GrowingEvent

\* A user of whom only additions are expected.
LEMMA GrowUser ==
  ASSUME Growing, SysInv, GrowInv, NEW c \in CR,
         \/ \E spec \in SpecChoice[c] : UserCreate(c, spec) \/ UserEdit(c, spec)
         \/ UserDelete(c)
  PROVE  GrowInv'
<1>0. /\ f5ipam[c] \in Resource /\ f5ipam \in [CR -> Resource]
      /\ f5ipam[c].spec \in Seq(Asked) /\ f5ipam[c].rv \in Nat
      /\ SpecChoice[c] \subseteq Seq(Asked)
      /\ <<>> \in Seq(Asked) /\ <<>> \in Seq(IPSpec)
  BY AskedFacts DEF SysInv, FICTypeOK, Resource
<1>1. \E spec \in Seq(Asked), e \in Event :
        /\ UserWrite(c, TRUE, spec, f5ipam[c].status, e)
        /\ e.status = <<>> /\ GrowingEvent(e)
        /\ f5ipam[c].live => ToSet(f5ipam[c].spec) \subseteq ToSet(spec)
  <2>1. ASSUME NEW spec \in SpecChoice[c], UserCreate(c, spec)
        PROVE  \E e \in Event : /\ UserWrite(c, TRUE, spec, f5ipam[c].status, e)
                                /\ e.status = <<>> /\ GrowingEvent(e) /\ ~f5ipam[c].live
    <3>. DEFINE e == CreateEvent(c, spec, <<>>)
    <3>1. e \in Event
      BY <1>0, EventTypes
    <3>2. e.status = <<>> /\ GrowingEvent(e)
      BY DEF CreateEvent, GrowingEvent, CREATE, DELETE, UPDATE
    <3>3. ~f5ipam[c].live /\ UserWrite(c, TRUE, spec, <<>>, e)
      BY <2>1 DEF UserCreate
    <3>4. f5ipam[c].status = <<>>
      BY <3>3 DEF GrowInv, LifeInv, Unborn
    <3>. HIDE DEF e
    <3>. QED
      BY <3>1, <3>2, <3>3, <3>4
  <2>2. ASSUME NEW spec \in SpecChoice[c], UserEdit(c, spec)
        PROVE  \E e \in Event : /\ UserWrite(c, TRUE, spec, f5ipam[c].status, e)
                                /\ e.status = <<>> /\ GrowingEvent(e)
                                /\ ToSet(f5ipam[c].spec) \subseteq ToSet(spec)
    <3>. DEFINE e == UpdateEvent(c, f5ipam[c].spec, spec)
    <3>1. e \in Event
      BY <1>0, EventTypes
    <3>2. ToSet(f5ipam[c].spec) \subseteq ToSet(spec)
      BY <2>2 DEF UserEdit, Growing
    <3>3. e.status = <<>> /\ GrowingEvent(e)
      BY <3>2 DEF UpdateEvent, GrowingEvent, DELETE, UPDATE
    <3>4. UserWrite(c, TRUE, spec, f5ipam[c].status, e)
      BY <2>2 DEF UserEdit
    <3>. HIDE DEF e
    <3>. QED
      BY <3>1, <3>2, <3>3, <3>4
  <2>3. ~UserDelete(c)
    BY DEF UserDelete, Growing
  <2>. QED
    BY <1>0, <2>1, <2>2, <2>3
<1>2. PICK spec \in Seq(Asked), e \in Event :
        /\ UserWrite(c, TRUE, spec, f5ipam[c].status, e)
        /\ e.status = <<>> /\ GrowingEvent(e)
        /\ f5ipam[c].live => ToSet(f5ipam[c].spec) \subseteq ToSet(spec)
  BY <1>1
<1>3. /\ Notify(e)
      /\ UNCHANGED <<status, aRecords, inFlight, up, todo, put, stale, crashes, gaps>>
      /\ \A d \in CR : /\ d = c
                       /\ f5ipam'[d].live = TRUE /\ f5ipam'[d].rv = f5ipam[d].rv + 1
                       /\ f5ipam'[d].spec = spec /\ f5ipam'[d].status = f5ipam[d].status
  BY <1>0, <1>2 DEF UserWrite, Growing
<1>4. \A d \in CR : Published(d)' = Published(d)
  BY <1>3 DEF Published
<1>5. QueueInv' /\ (Restored' => Restored)
  BY <1>2, <1>3, QueueKeeps DEF GrowInv
<1>6. AnswerInv' /\ RecordInv' /\ TodoInv'
  BY <1>3 DEF GrowInv, AnswerInv, RecordInv, TodoInv, Rec, InRange
<1>7. StatusInv'
  BY <1>3, <1>4 DEF GrowInv, StatusInv, InRange
<1>8. HeldInv'
  <2>. SUFFICES ASSUME up', Restored', NEW d \in CR, NEW s \in Published(d)'
                PROVE  (Rec(s.host, s.ip) \/ Pending(s.host, s.ip))'
    BY DEF HeldInv
  <2>1. Rec(s.host, s.ip) \/ Pending(s.host, s.ip)
    BY <1>3, <1>4, <1>5 DEF GrowInv, HeldInv
  <2>. QED
    BY <1>3, <2>1 DEF Rec, Pending
<1>9. PutInv'
  <2>1. ASSUME NEW p \in put' PROVE p.rv # f5ipam'[p.resp.req.cr].rv
    <3>1. p \in put /\ p.resp.req.cr \in CR /\ p.rv \in Nat
      BY <1>3 DEF SysInv, FICTypeOK, Put, Response, Request
    <3>2. p.rv <= f5ipam[p.resp.req.cr].rv
      BY <3>1 DEF SysInv, PutIsCurrent
    <3>. QED
      BY <1>0, <1>3, <3>1, <3>2
  <2>. QED
    BY <2>1 DEF PutInv
<1>10. LifeInv'
  <2>1. ~up \/ stale # <<>> => rscQueue' = rscQueue
    BY <1>3 DEF Notify, Watching
  <2>2. ~up' => Fresh' /\ rscQueue' = <<>> /\ stale' = <<>>
    BY <1>3, <2>1 DEF GrowInv, LifeInv, Fresh
  <2>3. ASSUME NEW d \in CR
        PROVE  /\ Unborn(d)' => Fresh' /\ rscQueue' = <<>> /\ f5ipam'[d].status = <<>>
               /\ stale' # <<>> /\ Head(stale')[d].live =>
                    /\ f5ipam'[d].live
                    /\ ToSet(Head(stale')[d].spec) \subseteq ToSet(f5ipam'[d].spec)
    <3>1. ASSUME Unborn(d)' PROVE Fresh' /\ rscQueue' = <<>> /\ f5ipam'[d].status = <<>>
      <4>1. stale # <<>> /\ Unborn(d)
        BY <1>3, <3>1 DEF Unborn
      <4>. QED
        BY <1>3, <2>1, <4>1 DEF GrowInv, LifeInv, Fresh
    <3>2. ASSUME stale' # <<>>, Head(stale')[d].live
          PROVE  f5ipam'[d].live /\ ToSet(Head(stale')[d].spec) \subseteq ToSet(f5ipam'[d].spec)
      <4>1. f5ipam[d].live /\ ToSet(Head(stale)[d].spec) \subseteq ToSet(f5ipam[d].spec)
        BY <1>3, <3>2 DEF GrowInv, LifeInv
      <4>. QED
        BY <1>2, <1>3, <4>1
    <3>. QED
      BY <3>1, <3>2
  <2>. QED
    BY <2>2, <2>3 DEF LifeInv
<1>. QED
  BY <1>5, <1>6, <1>7, <1>8, <1>9, <1>10 DEF GrowInv

\* A step of the informer or of the process alone.
LEMMA RestKeeps ==
  ASSUME GrowInv, UNCHANGED <<aRecords, f5ipam>>
  PROVE  /\ RecordInv' /\ StatusInv'
         /\ UNCHANGED <<inFlight, put>> => AnswerInv' /\ PutInv'
         /\ UNCHANGED todo =>
              TodoInv' /\ ((up' => up) /\ (Restored' => Restored) => HeldInv')
<1>1. UNCHANGED <<inFlight, put>> => AnswerInv'
  BY DEF GrowInv, AnswerInv, Rec
<1>2. RecordInv'
  BY DEF GrowInv, RecordInv, InRange
<1>3. StatusInv'
  BY DEF GrowInv, StatusInv, Published, InRange
<1>4. UNCHANGED todo => TodoInv'
  BY DEF GrowInv, TodoInv, InRange
<1>5. UNCHANGED put => PutInv'
  BY DEF GrowInv, PutInv
<1>6. ASSUME UNCHANGED todo, up' => up, Restored' => Restored PROVE HeldInv'
  <2>1. HeldInv
    BY DEF GrowInv
  <2>2. \A c \in CR : Published(c)' = Published(c)
    BY DEF Published
  <2>3. \A h, ip : Rec(h, ip)' = Rec(h, ip) /\ Pending(h, ip)' = Pending(h, ip)
    BY <1>6 DEF Rec, Pending
  <2>. QED
    BY <1>6, <2>1, <2>2, <2>3 DEF HeldInv
<1>. QED
  BY <1>1, <1>2, <1>3, <1>4, <1>5, <1>6

\* A watch breaks: the informer knows what is stored.
LEMMA GrowLoseWatch ==
  ASSUME GrowInv, LoseWatch
  PROVE  GrowInv'
<1>1. /\ UNCHANGED <<status, aRecords, inFlight, f5ipam, up, rscQueue, todo, put>>
      /\ up /\ stale' = <<f5ipam>>
  BY DEF LoseWatch
<1>2. AnswerInv' /\ RecordInv' /\ StatusInv' /\ QueueInv' /\ TodoInv' /\ HeldInv' /\ PutInv'
  <2>1. QueueInv' /\ (Restored' => Restored)
    BY <1>1 DEF GrowInv, QueueInv, Fresh, Restored
  <2>. QED
    BY <1>1, <2>1, RestKeeps
<1>3. LifeInv'
  <2>1. \A c \in CR : Unborn(c)' => ~f5ipam[c].live
    BY <1>1 DEF Unborn
  <2>2. \A c \in CR : Unborn(c)' => Fresh /\ rscQueue = <<>> /\ f5ipam[c].status = <<>>
    BY <2>1 DEF GrowInv, LifeInv, Unborn
  <2>3. Head(stale') = f5ipam'
    BY <1>1
  <2>. QED
    BY <1>1, <2>2, <2>3 DEF LifeInv, Fresh
<1>. QED
  BY <1>2, <1>3 DEF GrowInv

\* The informer lists again: what it adds to the queue carries no Status.
LEMMA RelistQueue ==
  ASSUME Growing, SysInv, GrowInv, Relist
  PROVE  /\ QueueInv' /\ (Restored' => Restored)
         /\ \A c \in CR : Unborn(c)' => rscQueue' = <<>>
<1>1. stale # <<>> /\ stale' = <<>>
      /\ UNCHANGED <<aRecords, inFlight, f5ipam, up, todo, put>>
  BY Zenon DEF Relist, Watching
<1>2. \A c \in CR : Head(stale)[c].live =>
        f5ipam[c].live /\ ToSet(Head(stale)[c].spec) \subseteq ToSet(f5ipam[c].spec)
  BY <1>1 DEF GrowInv, LifeInv
<1>3. /\ rscQueue' \in Seq(Event)
      /\ \A i \in DOMAIN rscQueue' :
           \/ \E j \in DOMAIN rscQueue : rscQueue'[i] = rscQueue[j] /\ (j = 1 => i = 1)
           \/ \E c \in CR : f5ipam[c].live /\ rscQueue'[i] = ListedEvent(c)
      /\ \A j \in DOMAIN rscQueue : \E i \in DOMAIN rscQueue' : rscQueue'[i] = rscQueue[j]
  BY <1>2, RelistElements DEF SysInv, FICTypeOK
<1>4. ASSUME NEW c \in CR, f5ipam[c].live
      PROVE  ListedEvent(c).status = <<>> /\ GrowingEvent(ListedEvent(c))
  <2>1. CASE Head(stale)[c].live
    BY <1>2, <2>1 DEF ListedEvent, UpdateEvent, GrowingEvent, UPDATE, DELETE
  <2>2. CASE ~Head(stale)[c].live
    <3>1. f5ipam[c].status = <<>>
      BY <1>1, <2>2 DEF GrowInv, LifeInv, Unborn
    <3>. QED
      BY <2>2, <3>1 DEF ListedEvent, CreateEvent, GrowingEvent, CREATE, UPDATE, DELETE
  <2>. QED
    BY <2>1, <2>2
<1>5. \A i \in DOMAIN rscQueue' :
        \/ \E j \in DOMAIN rscQueue : rscQueue'[i] = rscQueue[j] /\ (j = 1 => i = 1)
        \/ rscQueue'[i].status = <<>> /\ GrowingEvent(rscQueue'[i])
  BY <1>3, <1>4
<1>6. QueueInv'
  <2>1. Fresh => Fresh'
    BY <1>1 DEF Fresh
  <2>2. ASSUME NEW i \in DOMAIN rscQueue', NEW j \in DOMAIN rscQueue,
               rscQueue'[i] = rscQueue[j], j = 1 => i = 1
        PROVE  /\ GrowingEvent(rscQueue'[i])
               /\ rscQueue'[i].status # <<>> =>
                    /\ i = 1 /\ Fresh'
                    /\ rscQueue'[i].op = CREATE
                    /\ rscQueue'[i].status = f5ipam'[rscQueue'[i].cr].status
    BY <1>1, <2>1, <2>2 DEF GrowInv, QueueInv
  <2>3. \A i \in DOMAIN rscQueue' :
          /\ GrowingEvent(rscQueue'[i])
          /\ rscQueue'[i].status # <<>> =>
               /\ i = 1 /\ Fresh'
               /\ rscQueue'[i].op = CREATE
               /\ rscQueue'[i].status = f5ipam'[rscQueue'[i].cr].status
    BY <1>5, <2>2
  <2>. QED
    BY <2>3 DEF QueueInv, GrowingEvent
<1>7. Restored' => Restored
  BY <1>3 DEF Restored
<1>8. ASSUME NEW c \in CR, Unborn(c)'
      PROVE  rscQueue' = <<>>
  <2>1. ~f5ipam[c].live
    BY <1>1, <1>8 DEF Unborn
  <2>2. rscQueue = <<>>
    BY <2>1 DEF GrowInv, LifeInv, Unborn
  <2>3. DOMAIN rscQueue = {}
    BY <2>2
  <2>4. \A d \in CR : ~f5ipam[d].live
    BY <2>1 DEF Growing
  <2>5. DOMAIN rscQueue' = {}
    BY <1>3, <2>3, <2>4, Zenon
  <2>. QED
    BY <1>3, <2>5
<1>. QED
  BY <1>6, <1>7, <1>8

LEMMA GrowRelist ==
  ASSUME Growing, SysInv, GrowInv, Relist
  PROVE  GrowInv'
<1>1. /\ UNCHANGED <<status, aRecords, inFlight, f5ipam, up, todo, put>>
      /\ up /\ stale' = <<>>
  BY DEF Relist
<1>2. QueueInv' /\ (Restored' => Restored) /\ \A c \in CR : Unborn(c)' => rscQueue' = <<>>
  BY RelistQueue
<1>3. AnswerInv' /\ RecordInv' /\ StatusInv' /\ TodoInv' /\ HeldInv' /\ PutInv'
  BY <1>1, <1>2, RestKeeps
<1>4. LifeInv'
  <2>1. \A c \in CR : Unborn(c)' => ~f5ipam[c].live
    BY <1>1 DEF Unborn
  <2>2. \A c \in CR : Unborn(c)' => Fresh /\ f5ipam[c].status = <<>>
    BY <2>1 DEF GrowInv, LifeInv, Unborn
  <2>. QED
    BY <1>1, <1>2, <2>2 DEF LifeInv, Fresh
<1>. QED
  BY <1>2, <1>3, <1>4 DEF GrowInv

-----------------------------------------------------------------------------
(* processResource.                                                        *)

LEMMA GrowProcess ==
  ASSUME Growing, SysInv, GrowInv, ProcessResource
  PROVE  GrowInv'
<1>. DEFINE e == Head(rscQueue)
<1>1. /\ todo = <<>> /\ rscQueue # <<>> /\ rscQueue' = Tail(rscQueue)
      /\ UNCHANGED <<status, aRecords, inFlight, f5ipam, up, put, stale>>
      /\ \/ e.op = CREATE /\ todo' = CreateRequests(e)
         \/ e.op = DELETE
         \/ e.op = UPDATE /\ todo' = UpdateRequests(e)
  BY DEF ProcessResource
<1>2. rscQueue \in Seq(Event) /\ e = rscQueue[1] /\ 1 \in DOMAIN rscQueue /\ e \in Event
  BY <1>1, HeadTailType DEF SysInv, FICTypeOK
<1>. HIDE DEF e
<1>3. \A i \in DOMAIN rscQueue' :
        i + 1 \in DOMAIN rscQueue /\ i + 1 # 1 /\ rscQueue'[i] = rscQueue[i + 1]
  BY <1>1, <1>2
<1>4. Restored' /\ QueueInv'
  <2>1. \A i \in DOMAIN rscQueue' :
          rscQueue'[i].status = <<>> /\ GrowingEvent(rscQueue'[i])
    BY <1>3 DEF GrowInv, QueueInv
  <2>. QED
    BY <2>1 DEF Restored, QueueInv, GrowingEvent
<1>5. AnswerInv' /\ RecordInv' /\ StatusInv' /\ PutInv'
  BY <1>1, RestKeeps
<1>6. LifeInv'
  BY <1>1 DEF GrowInv, LifeInv, Unborn
<1>7. /\ GrowingEvent(e)
      /\ e.status # <<>> => Fresh /\ e.op = CREATE /\ e.status = f5ipam[e.cr].status
  BY <1>2 DEF GrowInv, QueueInv
<1>8. up
  BY <1>1 DEF GrowInv, LifeInv
<1>9. e.cr \in CR
  BY <1>2 DEF Event
<1>10. CASE e.status = <<>>
  <2>1. \A i \in DOMAIN todo' : \A r \in todo'[i] : r.op = CREATE /\ r.ip = NoIP
    <3>1. CASE e.op = CREATE /\ todo' = CreateRequests(e)
      <4>1. \A i \in DOMAIN todo' : \E s \in Asked : todo'[i] = {SpecRequest(e.cr, s, CREATE)}
        <5>1. Len(e.status) = 0 /\ Len(e.spec) \in Nat /\ DOMAIN e.spec = 1..Len(e.spec)
          BY <1>2, <1>10, CreateElements
        <5>2. \A i \in DOMAIN todo' : i \in 1..Len(e.spec)
                                      /\ todo'[i] = {SpecRequest(e.cr, e.spec[i], CREATE)}
          <6>. DEFINE z == Len(e.status)
          <6>1. /\ DOMAIN todo' = 1..z + Len(e.spec)
                /\ \A i \in 1..z + Len(e.spec) :
                     todo'[i] = IF i <= z THEN {StatusRequest(e.cr, e.status[i], CREATE)}
                                ELSE {SpecRequest(e.cr, e.spec[i - z], CREATE)}
            BY <1>2, <3>1, CreateElements, Zenon
          <6>2. z = 0
            BY <5>1
          <6>. HIDE DEF z
          <6>3. \A i \in 1..z + Len(e.spec) : ~(i <= z) /\ i - z = i /\ i \in 1..Len(e.spec)
            BY <5>1, <6>2
          <6>. QED
            BY <6>1, <6>3
        <5>3. \A i \in 1..Len(e.spec) : e.spec[i] \in Asked
          BY <1>2, <5>1, CreateElements, ElementType
        <5>. QED
          BY <5>2, <5>3
      <4>. QED
        BY <4>1 DEF SpecRequest
    <3>2. CASE e.op = UPDATE /\ todo' = UpdateRequests(e)
      BY <1>2, <1>7, <3>2, UpdateElements DEF GrowingEvent
    <3>. QED
      BY <1>1, <1>7, <3>1, <3>2 DEF GrowingEvent
  <2>2. TodoInv'
    BY <2>1 DEF TodoInv
  <2>3. Restored
    <3>1. \A i \in DOMAIN rscQueue : rscQueue[i].status # <<>> => i = 1
      BY DEF GrowInv, QueueInv
    <3>. QED
      BY <1>2, <1>10, <3>1 DEF Restored
  <2>4. \A c \in CR : \A s \in Published(c) : Rec(s.host, s.ip)
    BY <1>1, <1>8, <2>3 DEF GrowInv, HeldInv, Pending
  <2>5. HeldInv'
    BY <1>1, <2>4 DEF HeldInv, Published, Rec
  <2>. QED
    BY <1>4, <1>5, <1>6, <2>2, <2>5 DEF GrowInv
<1>11. CASE e.status # <<>>
  <2>. DEFINE n == Len(e.status)
              m == Len(e.spec)
  <2>1. Fresh /\ todo' = CreateRequests(e) /\ e.status = f5ipam[e.cr].status
    BY <1>1, <1>7, <1>11 DEF CREATE, UPDATE, DELETE
  <2>2. /\ n \in Nat /\ m \in Nat /\ DOMAIN e.status = 1..n /\ DOMAIN todo' = 1..n + m
        /\ \A i \in 1..n + m :
             todo'[i] = IF i <= n THEN {StatusRequest(e.cr, e.status[i], CREATE)}
                        ELSE {SpecRequest(e.cr, e.spec[i - n], CREATE)}
    <3>1. /\ DOMAIN CreateRequests(e) = 1..n + m
          /\ \A i \in 1..n + m :
               CreateRequests(e)[i] = IF i <= n THEN {StatusRequest(e.cr, e.status[i], CREATE)}
                                      ELSE {SpecRequest(e.cr, e.spec[i - n], CREATE)}
      BY <1>2, CreateElements, Zenon
    <3>2. n \in Nat /\ m \in Nat /\ DOMAIN e.status = 1..n
      BY <1>2, CreateElements
    <3>. HIDE DEF n, m
    <3>. QED
      BY <2>1, <3>1, <3>2
  <2>3. \A i \in 1..n : /\ e.status[i] \in IPSpec /\ e.status[i].ip # NoIP
                        /\ InRange(e.status[i].host, e.status[i].ip)
    <3>1. ASSUME NEW i \in 1..n
          PROVE  /\ e.status[i] \in IPSpec /\ e.status[i].ip # NoIP
                 /\ InRange(e.status[i].host, e.status[i].ip)
      <4>1. e.status[i] \in IPSpec
        BY <1>2, <2>2, CreateElements, ElementType
      <4>2. e.status[i].ip # NoIP
        BY <4>1, IPSpecFacts, StoreAssumption
      <4>3. e.status[i] \in Published(e.cr)
        BY <2>1, <2>2 DEF Published, ToSet
      <4>. QED
        BY <1>9, <4>1, <4>2, <4>3 DEF GrowInv, StatusInv
    <3>. QED
      BY <3>1
  <2>4. Apart(e.status)
    BY <1>9, <2>1 DEF GrowInv, StatusInv
  <2>. HIDE DEF n, m
  <2>5. ASSUME NEW i \in 1..n + m, NEW r \in todo'[i]
        PROVE  /\ r.op = CREATE
               /\ r.ip # NoIP => /\ i \in 1..n /\ r.host = e.status[i].host
                                 /\ r.ip = e.status[i].ip
               /\ r.ip = NoIP => i > n
    <3>1. CASE i <= n
      <4>1. i \in 1..n /\ r = StatusRequest(e.cr, e.status[i], CREATE)
        BY <2>2, <2>5, <3>1
      <4>. QED
        BY <2>3, <4>1 DEF StatusRequest
    <3>2. CASE i > n
      <4>1. r = SpecRequest(e.cr, e.spec[i - n], CREATE)
        BY <2>2, <2>5, <3>2
      <4>. QED
        BY <3>2, <4>1 DEF SpecRequest
    <3>. QED
      BY <2>2, <3>1, <3>2
  <2>6. TodoInv'
    <3>1. ASSUME NEW i \in 1..n + m, NEW r \in todo'[i], r.ip # NoIP,
                 NEW j \in 1..n + m, NEW q \in todo'[j]
          PROVE  /\ q.ip = NoIP => i < j
                 /\ q.ip # NoIP /\ (q.ip = r.ip \/ q.host = r.host) => q = r /\ i = j
      <4>1. q.ip = NoIP => i < j
        BY <2>2, <2>5, <3>1
      <4>2. ASSUME q.ip # NoIP, q.ip = r.ip \/ q.host = r.host
            PROVE  q = r /\ i = j
        <5>1. i \in 1..n /\ j \in 1..n /\ i = j
          BY <2>2, <2>4, <2>5, <3>1, <4>2 DEF Apart
        <5>. QED
          BY <2>2, <3>1, <5>1
      <4>. QED
        BY <4>1, <4>2
    <3>2. ASSUME NEW i \in 1..n + m, NEW r \in todo'[i], r.ip # NoIP
          PROVE  InRange(r.host, r.ip)' /\ aRecords' = {}
      <4>1. InRange(r.host, r.ip)
        BY <2>3, <2>5, <3>2
      <4>. QED
        BY <1>1, <2>1, <4>1 DEF InRange, Fresh
    <3>. QED
      BY <2>2, <2>5, <3>1, <3>2 DEF TodoInv
  <2>7. HeldInv'
    <3>1. ASSUME NEW c \in CR, NEW s \in Published(c)'
          PROVE  Pending(s.host, s.ip)'
      <4>1. PICK i \in 1..n : s = e.status[i]
        <5>1. c = e.cr
          BY <1>9 DEF Growing
        <5>. QED
          BY <1>1, <2>1, <2>2, <5>1 DEF Published, ToSet
      <4>2. i \in 1..n + m /\ StatusRequest(e.cr, e.status[i], CREATE) \in todo'[i]
        BY <2>2
      <4>. QED
        BY <2>2, <4>1, <4>2 DEF Pending, StatusRequest
    <3>. QED
      BY <3>1 DEF HeldInv
  <2>. QED
    BY <1>4, <1>5, <1>6, <2>6, <2>7 DEF GrowInv
<1>. QED
  BY <1>10, <1>11

-----------------------------------------------------------------------------
(* The request loop.                                                       *)

\* Each request is answered with the address its host keeps, or dropped.
LEMMA HandleGrows ==
  ASSUME Growing, SoundPool, SysInv, GrowInv, todo # <<>>, NEW req \in Head(todo),
         Handle(req)
  PROVE  \/ \E ip : /\ aRecords' = aRecords \cup {[ipaddress |-> ip, hostname |-> req.host]}
                    /\ InRange(req.host, ip)
                    /\ \A a \in aRecords : a.hostname # req.host
                    /\ Respond(req, ip, TRUE)
                    /\ req.ip \in {ip, NoIP}
         \/ /\ req.ip = NoIP /\ UNCHANGED aRecords
            /\ UNCHANGED inFlight \/ \E ip : Respond(req, ip, TRUE) /\ Rec(req.host, ip)
<1>1. req \in Request /\ AskedFor(req) /\ req.host \in Host /\ req.cidr \in Cidr
  <2>1. Head(todo) \in Batch
    BY HeadTailType DEF SysInv, FICTypeOK, Batch, Wish
  <2>2. req \in Wish
    BY <2>1 DEF Batch
  <2>. QED
    BY <2>2 DEF Wish, Request
<1>2. 1 \in DOMAIN todo /\ req \in todo[1]
  BY DEF SysInv, FICTypeOK
<1>3. /\ req.op = CREATE
      /\ req.ip # NoIP => /\ InRange(req.host, req.ip)
                         /\ \A a \in aRecords : a.hostname # req.host /\ a.ipaddress # req.ip
  BY <1>2 DEF GrowInv, TodoInv
<1>4. ASSUME RefuseAsked(req) PROVE FALSE
  <2>1. PICK i \in Row : /\ Pool[i].ipaddress = req.ip
                        /\ [host |-> req.host, cidr |-> Pool[i].cidr] \in Asked
    BY <1>3, <1>4 DEF RefuseAsked, InRange
  <2>2. Pool[i].cidr = req.cidr
    BY <1>1, <2>1 DEF AskedFor, Growing
  <2>3. status[i] = AVAILABLE
    BY <1>3, <1>4, <2>1 DEF RefuseAsked, SysInv, OwnerInv, CtlrTypeOK, StoreTypeOK, TablesAgree
  <2>4. i \in AvailableAt(req.cidr, req.ip)
    BY <2>1, <2>2, <2>3 DEF AvailableAt, AvailableIn
  <2>5. Pool[i].cidr \in PoolCidr
    BY <2>1, RowFacts
  <2>6. CanAllocate(req.cidr, req.ip)
    BY <2>1, <2>2, <2>4, <2>5 DEF CanAllocate, Growing
  <2>. QED
    BY <1>4, <2>6 DEF RefuseAsked, SoundPool
<1>5. ASSUME HandleDelete(req) PROVE FALSE
  BY <1>3, <1>5 DEF HandleDelete, CREATE, DELETE
<1>6. CASE GrantAsked(req) \/ GrantNext(req)
  <2>1. PICK i \in Row :
          /\ aRecords' = aRecords \cup
               {[ipaddress |-> Pool[i].ipaddress, hostname |-> req.host]}
          /\ Respond(req, Pool[i].ipaddress, TRUE)
          /\ \/ req.ip # NoIP /\ Pool[i].ipaddress = req.ip
             \/ req.ip = NoIP /\ Pool[i].cidr = req.cidr
    BY <1>1, <1>6, GrantStep
  <2>2. \A a \in aRecords : a.hostname # req.host
    <3>1. CASE req.ip # NoIP
      BY <1>3, <3>1
    <3>2. CASE req.ip = NoIP
      <4>1. GetIPAddress(req.host) = NoIP
        BY <1>6, <3>2 DEF GrantAsked, GrantNext, SoundPool
      <4>2. AddressesOf(req.host) \subseteq IP
        BY DEF SysInv, OwnerInv, CtlrTypeOK, StoreTypeOK, ARecord, AddressesOf
      <4>3. AddressesOf(req.host) = {}
        <5>1. AddressesOf(req.host) # {} => Min(AddressesOf(req.host)) \in IP
          BY <4>2, MinIsMember, StoreAssumption
        <5>. QED
          BY <4>1, <5>1, StoreAssumption DEF GetIPAddress
      <4>. QED
        BY <4>3 DEF AddressesOf
    <3>. QED
      BY <3>1, <3>2
  <2>3. InRange(req.host, Pool[i].ipaddress)
    BY <1>1, <1>3, <2>1 DEF InRange, AskedFor
  <2>. QED
    BY <2>1, <2>2, <2>3
<1>7. CASE AnswerKnown(req)
  <2>1. Rec(req.host, GetIPAddress(req.host))
    BY <1>1, <1>7, GetIPAddressFinds DEF AnswerKnown, SysInv, OwnerInv, CtlrTypeOK, Rec
  <2>. QED
    BY <1>7, <2>1 DEF AnswerKnown, storeVars
<1>8. CASE DropExhausted(req)
  BY <1>8 DEF DropExhausted, ctlrVars
<1>. QED
  BY <1>4, <1>5, <1>6, <1>7, <1>8 DEF Handle

LEMMA GrowSend ==
  ASSUME Growing, SoundPool, SysInv, GrowInv, SendRequest
  PROVE  GrowInv'
<1>1. todo \in Seq(Batch) /\ todo # <<>>
  BY DEF SysInv, FICTypeOK, SendRequest, Batch, Wish
<1>2. PICK req \in Head(todo) :
        Handle(req) /\ todo' = Loop(Head(todo) \ {req}) \o Tail(todo)
  BY DEF SendRequest
<1>3. UNCHANGED <<f5ipam, up, rscQueue, put, stale>>
  BY DEF SendRequest
<1>4. 1 \in DOMAIN todo /\ req \in todo[1] /\ \A i \in DOMAIN todo : i \in Nat /\ ~(i < 1)
  BY <1>1
<1>5. PICK d \in {0, 1} :
        /\ \A i \in DOMAIN todo' :
             /\ i \in Nat /\ i + d \in DOMAIN todo
             /\ todo'[i] \subseteq todo[i + d]
             /\ i + d = 1 => req \notin todo'[i]
        /\ \A i \in DOMAIN todo : \A r \in todo[i] :
             (i = 1 /\ r = req) \/ \E j \in DOMAIN todo' : r \in todo'[j]
  BY <1>1, <1>2, SentTodo
<1>15. ASSUME NEW i \in DOMAIN todo', NEW r \in todo'[i]
       PROVE  /\ i \in Nat /\ i + d \in DOMAIN todo /\ r \in todo[i + d]
              /\ i + d = 1 => r # req
  BY <1>5, <1>15
<1>6. up /\ Restored /\ \A c \in CR : ~Unborn(c)
  BY <1>1 DEF GrowInv, LifeInv, QueueInv, Restored, Fresh
<1>7. QueueInv' /\ LifeInv'
  <2>1. QueueInv'
    BY <1>3, <1>6 DEF GrowInv, QueueInv, Restored, GrowingEvent
  <2>2. LifeInv'
    BY <1>3, <1>6 DEF GrowInv, LifeInv, Unborn
  <2>. QED
    BY <2>1, <2>2
<1>8. StatusInv' /\ PutInv'
  BY <1>3 DEF GrowInv, StatusInv, PutInv, Published, InRange
<1>9. \A c \in CR : Published(c)' = Published(c) /\ \A s \in Published(c) : s.ip # NoIP
  <2>1. \A c \in CR : f5ipam[c].status \in Seq(IPSpec)
    BY DEF SysInv, FICTypeOK, Resource
  <2>2. \A c \in CR : Published(c) \subseteq IPSpec
    BY <2>1, ToSetType DEF Published
  <2>. QED
    BY <1>3, <2>2, IPSpecFacts, StoreAssumption DEF Published
<1>10. \A r \in todo[1] : r.ip = NoIP =>
         \A i \in DOMAIN todo : \A q \in todo[i] : q.ip = NoIP
  BY <1>4 DEF GrowInv, TodoInv
<1>11. ASSUME NEW ip,
              aRecords' = aRecords \cup {[ipaddress |-> ip, hostname |-> req.host]},
              InRange(req.host, ip),
              \A a \in aRecords : a.hostname # req.host,
              Respond(req, ip, TRUE),
              req.ip \in {ip, NoIP}
       PROVE  GrowInv'
  <2>. DEFINE new == [ipaddress |-> ip, hostname |-> req.host]
  <2>1. new.ipaddress = ip /\ new.hostname = req.host /\ aRecords' = aRecords \cup {new}
    BY <1>11
  <2>2. (\A h, x : Rec(h, x) => Rec(h, x)') /\ Rec(req.host, ip)'
    BY <2>1 DEF Rec
  <2>. HIDE DEF new
  <2>3. AnswerInv'
    <3>1. BagToSet(inFlight') = BagToSet(inFlight) \cup {[req |-> req, ip |-> ip, ok |-> TRUE]}
      BY <1>11, BagGains DEF Respond
    <3>2. req.op = CREATE
      BY <1>4 DEF GrowInv, TodoInv
    <3>. QED
      BY <1>3, <2>2, <3>1, <3>2 DEF GrowInv, AnswerInv
  <2>4. RecordInv'
    BY <1>11, <2>1 DEF GrowInv, RecordInv, InRange
  <2>5. TodoInv'
    <3>1. ASSUME NEW i \in DOMAIN todo', NEW r \in todo'[i], r.ip # NoIP
          PROVE  /\ InRange(r.host, r.ip)
                 /\ \A a \in aRecords' : a.hostname # r.host /\ a.ipaddress # r.ip
      <4>1. i + d \in DOMAIN todo /\ r \in todo[i + d] /\ (i + d = 1 => r # req)
        BY <1>15, Zenon
      <4>2. req.ip = ip /\ req.ip # NoIP
        BY <1>4, <1>10, <1>11, <3>1, <4>1
      <4>3. req.host # r.host /\ ip # r.ip
        BY <1>4, <3>1, <4>1, <4>2 DEF GrowInv, TodoInv
      <4>. QED
        BY <2>1, <3>1, <4>1, <4>3 DEF GrowInv, TodoInv
    <3>2. ASSUME NEW i \in DOMAIN todo', NEW r \in todo'[i], r.ip # NoIP,
                 NEW j \in DOMAIN todo', NEW q \in todo'[j]
          PROVE  /\ q.ip = NoIP => i < j
                 /\ q.ip # NoIP /\ (q.ip = r.ip \/ q.host = r.host) => q = r /\ i = j
      <4>1. /\ i + d \in DOMAIN todo /\ r \in todo[i + d] /\ i \in Nat
            /\ j + d \in DOMAIN todo /\ q \in todo[j + d] /\ j \in Nat
        BY <1>15, Zenon
      <4>2. /\ q.ip = NoIP => i + d < j + d
            /\ q.ip # NoIP /\ (q.ip = r.ip \/ q.host = r.host) => q = r /\ i + d = j + d
        BY <3>2, <4>1 DEF GrowInv, TodoInv
      <4>. QED
        BY <4>1, <4>2
    <3>3. ASSUME NEW i \in DOMAIN todo', NEW r \in todo'[i]
          PROVE  r.op = CREATE
      <4>1. i + d \in DOMAIN todo /\ r \in todo[i + d]
        BY <1>15, Zenon
      <4>. QED
        BY <4>1 DEF GrowInv, TodoInv
    <3>4. \A h, x : InRange(h, x)' <=> InRange(h, x)
      BY DEF InRange
    <3>. QED
      BY <3>1, <3>2, <3>3, <3>4 DEF TodoInv
  <2>6. HeldInv'
    <3>1. ASSUME NEW c \in CR, NEW s \in Published(c)
          PROVE  Rec(s.host, s.ip)' \/ Pending(s.host, s.ip)'
      <4>1. CASE Rec(s.host, s.ip)
        BY <2>2, <4>1
      <4>2. CASE Pending(s.host, s.ip)
        <5>1. PICK i \in DOMAIN todo : \E r \in todo[i] : r.host = s.host /\ r.ip = s.ip
          BY <4>2 DEF Pending
        <5>2. PICK r \in todo[i] : r.host = s.host /\ r.ip = s.ip
          BY <5>1
        <5>3. CASE r = req
          BY <1>9, <1>11, <2>2, <5>2, <5>3
        <5>4. CASE \E j \in DOMAIN todo' : r \in todo'[j]
          BY <5>2, <5>4 DEF Pending
        <5>. QED
          BY <1>5, <5>3, <5>4
      <4>. QED
        BY <1>6, <4>1, <4>2 DEF GrowInv, HeldInv
    <3>. QED
      BY <1>9, <3>1 DEF HeldInv
  <2>. QED
    BY <1>7, <1>8, <2>3, <2>4, <2>5, <2>6 DEF GrowInv
<1>12. ASSUME req.ip = NoIP, UNCHANGED aRecords,
              UNCHANGED inFlight \/ \E ip : Respond(req, ip, TRUE) /\ Rec(req.host, ip)
       PROVE  GrowInv'
  <2>1. AnswerInv'
    <3>1. CASE UNCHANGED inFlight
      BY <1>3, <1>12, <3>1 DEF GrowInv, AnswerInv, Rec
    <3>2. ASSUME NEW ip, Respond(req, ip, TRUE), Rec(req.host, ip) PROVE AnswerInv'
      <4>1. BagToSet(inFlight') = BagToSet(inFlight) \cup {[req |-> req, ip |-> ip, ok |-> TRUE]}
        BY <3>2, BagGains DEF Respond
      <4>2. req.op = CREATE
        BY <1>4 DEF GrowInv, TodoInv
      <4>3. \A h, x : Rec(h, x)' <=> Rec(h, x)
        BY <1>12 DEF Rec
      <4>. QED
        BY <1>3, <3>2, <4>1, <4>2, <4>3 DEF GrowInv, AnswerInv
    <3>. QED
      BY <1>12, <3>1, <3>2
  <2>2. RecordInv'
    BY <1>12 DEF GrowInv, RecordInv, InRange
  <2>3. TodoInv'
    <3>1. ASSUME NEW i \in DOMAIN todo', NEW r \in todo'[i]
          PROVE  r.op = CREATE /\ r.ip = NoIP
      <4>1. i + d \in DOMAIN todo /\ r \in todo[i + d]
        BY <1>15, Zenon
      <4>. QED
        BY <1>4, <1>10, <1>12, <4>1 DEF GrowInv, TodoInv
    <3>. QED
      BY <3>1 DEF TodoInv
  <2>4. HeldInv'
    <3>1. ASSUME NEW c \in CR, NEW s \in Published(c)
          PROVE  Rec(s.host, s.ip)'
      <4>1. ~Pending(s.host, s.ip)
        BY <1>4, <1>9, <1>10, <1>12 DEF Pending
      <4>. QED
        BY <1>6, <1>12, <4>1 DEF GrowInv, HeldInv, Rec
    <3>. QED
      BY <1>9, <3>1 DEF HeldInv
  <2>. QED
    BY <1>7, <1>8, <2>1, <2>2, <2>3, <2>4 DEF GrowInv
<1>. QED
  BY <1>1, <1>2, <1>11, <1>12, HandleGrows

-----------------------------------------------------------------------------
(* processResponse.                                                        *)

LEMMA GrowTake ==
  ASSUME SysInv, GrowInv, TakeResponse
  PROVE  GrowInv'
<1>1. PICK resp \in BagToSet(inFlight) :
        Receive(resp) /\ (GetFails(resp) \/ GetToRecord(resp) \/ GetToRemove(resp))
  BY DEF TakeResponse
<1>2. UNCHANGED <<aRecords, f5ipam, up, rscQueue, todo, stale>>
  BY DEF TakeResponse
<1>3. resp.req.op = CREATE /\ resp.ok
  BY DEF GrowInv, AnswerInv
<1>4. up /\ Restored /\ \A c \in CR : ~Unborn(c)
  BY <1>1 DEF GrowInv, LifeInv, QueueInv, Restored, Fresh
<1>5. put' = {} \/ put' = Prepared(resp, Recorded(f5ipam[resp.req.cr].status, resp.req, resp.ip))
  BY <1>1, <1>3 DEF GetFails, GetToRecord, GetToRemove, CREATE, DELETE
<1>6. \A p \in put' :
        /\ p.resp = resp
        /\ p.status = Recorded(f5ipam[resp.req.cr].status, resp.req, resp.ip)
  BY <1>5 DEF Prepared
<1>7. AnswerInv'
  <2>1. BagToSet(inFlight') \subseteq BagToSet(inFlight)
    BY <1>1, BagLoses DEF Receive
  <2>2. \A h, x : Rec(h, x)' <=> Rec(h, x)
    BY <1>2 DEF Rec
  <2>. QED
    BY <1>6, <2>1, <2>2 DEF GrowInv, AnswerInv
<1>8. PutInv'
  BY <1>2, <1>6 DEF PutInv
<1>9. Restored' => Restored
  BY <1>4
<1>10. RecordInv' /\ StatusInv' /\ TodoInv' /\ HeldInv'
  BY <1>2, <1>9, RestKeeps
<1>11. QueueInv' /\ LifeInv'
  <2>1. QueueInv'
    BY <1>2, <1>4 DEF GrowInv, QueueInv, Restored, GrowingEvent
  <2>2. LifeInv'
    BY <1>2, <1>4 DEF GrowInv, LifeInv, Unborn
  <2>. QED
    BY <2>1, <2>2
<1>. QED
  BY <1>7, <1>8, <1>10, <1>11 DEF GrowInv

\* What a PUT that is still current would store: what is stored, and perhaps an
\* entry for a new host with the address that the store holds for it.
LEMMA PutAdds ==
  ASSUME Growing, SysInv, GrowInv, NEW p \in put,
         p.rv = f5ipam[p.resp.req.cr].rv
  PROVE  /\ p.resp.req.cr \in CR
         /\ Rec(p.resp.req.host, p.resp.ip)
         /\ Apart(p.status)
         /\ Published(p.resp.req.cr) \subseteq ToSet(p.status)
         /\ \A s \in ToSet(p.status) :
              \/ s \in Published(p.resp.req.cr)
              \/ s.host = p.resp.req.host /\ s.ip = p.resp.ip
<1>. DEFINE req == p.resp.req
            ip == p.resp.ip
            st == f5ipam[req.cr].status
            new == [host |-> req.host, cidr |-> req.cidr, ip |-> ip]
<1>1. req.cr \in CR /\ p.status \in Seq(IPSpec) /\ st \in Seq(IPSpec)
  BY DEF SysInv, FICTypeOK, Put, Response, Request, Resource
<1>2. Rec(req.host, ip)
  BY DEF GrowInv, AnswerInv
<1>3. p.status = Recorded(st, req, ip) /\ Apart(st)
  BY <1>1 DEF GrowInv, PutInv, StatusInv
<1>4. up /\ Restored
  BY DEF GrowInv, LifeInv, QueueInv, Restored, Fresh
<1>. HIDE DEF req, ip
<1>5. ASSUME NEW i \in DOMAIN st
      PROVE  /\ st[i] \in IPSpec /\ st[i] \in ToSet(st)
             /\ st[i].host = req.host <=> st[i].ip = ip
  <2>1. st[i] \in IPSpec /\ st[i] \in Published(req.cr)
    <3>. HIDE DEF st
    <3>1. st[i] \in IPSpec /\ st[i] \in ToSet(st)
      BY <1>1, ElementType DEF ToSet
    <3>. QED
      BY <3>1 DEF Published, st
  <2>. DEFINE s == st[i]
  <2>. HIDE DEF s
  <2>2. s \in IPSpec /\ s \in Published(req.cr)
    BY <2>1 DEF s
  <2>3. Rec(s.host, s.ip) \/ Pending(s.host, s.ip)
    BY <1>1, <1>4, <2>2 DEF GrowInv, HeldInv
  <2>4. s.ip # NoIP
    BY <2>2, IPSpecFacts, StoreAssumption
  <2>5. ASSUME s.host = req.host \/ s.ip = ip PROVE Rec(s.host, s.ip)
    <3>1. ASSUME Pending(s.host, s.ip) PROVE FALSE
      <4>1. PICK k \in DOMAIN todo : \E r \in todo[k] : r.host = s.host /\ r.ip = s.ip
        BY <3>1 DEF Pending
      <4>2. \A a \in aRecords : a.hostname # s.host /\ a.ipaddress # s.ip
        BY <2>4, <4>1 DEF GrowInv, TodoInv
      <4>. QED
        BY <1>2, <2>5, <4>2 DEF Rec
    <3>. QED
      BY <2>3, <3>1
  <2>6. Rec(s.host, s.ip) => (s.host = req.host <=> s.ip = ip)
    <3>. DEFINE a == [ipaddress |-> s.ip, hostname |-> s.host]
                b == [ipaddress |-> ip, hostname |-> req.host]
    <3>1. /\ a.ipaddress = s.ip /\ a.hostname = s.host
          /\ b.ipaddress = ip /\ b.hostname = req.host
      OBVIOUS
    <3>2. Rec(s.host, s.ip) => a \in aRecords /\ b \in aRecords
      BY <1>2 DEF Rec
    <3>. HIDE DEF a, b
    <3>. QED
      BY <3>1, <3>2 DEF SysInv, OwnerInv, ExclusiveOwner, GrowInv, RecordInv
  <2>. QED
    BY <2>2, <2>5, <2>6 DEF s, Published, st
<1>6. CASE \E i \in DOMAIN st : Matches(st[i], req)
  <2>1. \A i \in DOMAIN st : Matches(st[i], req) => [st[i] EXCEPT !.ip = ip] = st[i]
    <3>1. ASSUME NEW i \in DOMAIN st, Matches(st[i], req)
          PROVE  [st[i] EXCEPT !.ip = ip] = st[i]
      <4>1. st[i].ip = ip
        BY <1>5, <3>1 DEF Matches
      <4>2. st[i] = [host |-> st[i].host, cidr |-> st[i].cidr, ip |-> st[i].ip]
        BY <1>5, IPSpecFacts
      <4>. QED
        BY <4>1, <4>2
    <3>. QED
      BY <3>1
  <2>2. p.status = st
    <3>1. p.status = [i \in DOMAIN st |->
             IF Matches(st[i], req) THEN [st[i] EXCEPT !.ip = ip] ELSE st[i]]
      BY <1>3, <1>6 DEF Recorded
    <3>. HIDE DEF st
    <3>2. st = [i \in DOMAIN st |-> st[i]]
      BY <1>1
    <3>. QED
      BY <2>1, <3>1, <3>2
  <2>. QED
    BY <1>1, <1>2, <1>3, <2>2 DEF Published, req, ip
<1>7. CASE ~\E i \in DOMAIN st : Matches(st[i], req)
  <2>1. p.status = Append(st, new)
    BY <1>3, <1>7 DEF Recorded
  <2>. HIDE DEF st
  <2>. DEFINE n == Len(st)
  <2>2. n \in Nat /\ DOMAIN st = 1..n
    BY <1>1
  <2>3. /\ DOMAIN p.status = 1..n + 1 /\ p.status[n + 1] = new
        /\ \A i \in 1..n : p.status[i] = st[i]
    <3>. DEFINE x == new
    <3>1. p.status = Append(st, x)
      BY <2>1
    <3>. HIDE DEF x
    <3>2. /\ DOMAIN p.status = 1..n + 1 /\ p.status[n + 1] = x
          /\ \A i \in 1..n : p.status[i] = st[i]
      BY <1>1, <3>1
    <3>. QED
      BY <3>2 DEF x
  <2>. HIDE DEF n, new
  <2>4. new \in IPSpec /\ new.host = req.host /\ new.cidr = req.cidr /\ new.ip = ip
    <3>1. n + 1 \in DOMAIN p.status
      BY <2>2, <2>3
    <3>2. p.status[n + 1] \in IPSpec
      BY <1>1, <3>1, ElementType
    <3>. QED
      BY <2>3, <3>2 DEF new
  <2>5. ASSUME NEW i \in 1..n
        PROVE  st[i].host # req.host /\ st[i].ip # ip
    <3>1. st[i].host = req.host => st[i].cidr = req.cidr
      <4>. DEFINE s == [host |-> st[i].host, cidr |-> st[i].cidr]
                  t == [host |-> new.host, cidr |-> new.cidr]
      <4>1. s \in Asked /\ t \in Asked
        BY <1>5, <2>2, <2>4, IPSpecFacts
      <4>2. s.host = st[i].host /\ s.cidr = st[i].cidr /\ t.host = req.host /\ t.cidr = req.cidr
        BY <2>4
      <4>. HIDE DEF s, t
      <4>. QED
        BY <4>1, <4>2 DEF Growing
    <3>. QED
      BY <1>5, <1>7, <2>2, <3>1 DEF Matches
  <2>6. \A i \in 1..n + 1 : i \in 1..n \/ i = n + 1
    BY <2>2
  <2>7. Apart(p.status)
    <3>1. \A i, j \in 1..n : st[i].host = st[j].host \/ st[i].ip = st[j].ip => i = j
      BY <1>3, <2>2 DEF Apart
    <3>2. ASSUME NEW i \in 1..n + 1, NEW j \in 1..n + 1,
                 p.status[i].host = p.status[j].host \/ p.status[i].ip = p.status[j].ip
          PROVE  i = j
      BY <2>3, <2>4, <2>5, <2>6, <3>1, <3>2
    <3>. QED
      BY <2>3, <3>2 DEF Apart
  <2>8. ToSet(st) \subseteq ToSet(p.status)
    <3>1. \A i \in 1..n : i \in 1..n + 1
      BY <2>2
    <3>. QED
      BY <2>2, <2>3, <3>1 DEF ToSet
  <2>9. \A s \in ToSet(p.status) : s \in ToSet(st) \/ s = new
    BY <2>2, <2>3, <2>6 DEF ToSet
  <2>10. Published(req.cr) = ToSet(st)
    BY DEF Published, st
  <2>. QED
    BY <1>1, <1>2, <2>4, <2>7, <2>8, <2>9, <2>10 DEF req, ip
<1>. QED
  BY <1>6, <1>7

LEMMA GrowPut ==
  ASSUME Growing, SysInv, GrowInv, PutUpdate
  PROVE  GrowInv'
<1>1. PICK p \in put : Accepted(p) \/ UNCHANGED <<f5ipam, rscQueue>>
  BY DEF PutUpdate, Refused
<1>2. put' = {} /\ UNCHANGED <<aRecords, inFlight, up, todo, stale>>
  BY DEF PutUpdate
<1>3. up /\ Restored /\ \A c \in CR : ~Unborn(c)
  BY DEF GrowInv, LifeInv, QueueInv, Restored, Fresh
<1>4. AnswerInv' /\ RecordInv' /\ TodoInv' /\ PutInv'
  <2>1. AnswerInv'
    BY <1>2 DEF GrowInv, AnswerInv, Rec
  <2>2. RecordInv' /\ TodoInv'
    BY <1>2 DEF GrowInv, RecordInv, TodoInv, InRange
  <2>3. PutInv'
    BY <1>2 DEF PutInv
  <2>. QED
    BY <2>1, <2>2, <2>3
<1>5. CASE UNCHANGED <<f5ipam, rscQueue>>
  <2>1. StatusInv' /\ HeldInv'
    BY <1>2, <1>3, <1>5, RestKeeps
  <2>2. QueueInv' /\ LifeInv'
    BY <1>2, <1>3, <1>5 DEF GrowInv, QueueInv, Restored, GrowingEvent, LifeInv, Unborn
  <2>. QED
    BY <1>4, <2>1, <2>2 DEF GrowInv
<1>6. CASE Accepted(p) /\ ~UNCHANGED <<f5ipam, rscQueue>>
  <2>. DEFINE c == p.resp.req.cr
              e == UpdateEvent(c, f5ipam[c].spec, p.spec)
  <2>1. /\ f5ipam[c].live /\ p.rv = f5ipam[c].rv
        /\ f5ipam' = [f5ipam EXCEPT ![c] =
             [live |-> TRUE, rv |-> @.rv + 1, spec |-> p.spec, status |-> p.status]]
        /\ Notify(e)
    BY <1>6 DEF Accepted
  <2>2. /\ c \in CR /\ Rec(p.resp.req.host, p.resp.ip) /\ Apart(p.status)
        /\ \A s \in ToSet(p.status) :
             s \in Published(c) \/ (s.host = p.resp.req.host /\ s.ip = p.resp.ip)
    BY <2>1, PutAdds
  <2>3. p.spec = f5ipam[c].spec /\ p.spec \in Seq(Asked)
    BY <2>1 DEF SysInv, PutIsCurrent, FICTypeOK, Put
  <2>4. e \in Event
    <3>1. <<>> \in Seq(IPSpec)
      OBVIOUS
    <3>. QED
      BY <2>2, <2>3, <3>1, EventTypes
  <2>5. e.status = <<>> /\ GrowingEvent(e)
    BY <2>3 DEF UpdateEvent, GrowingEvent, DELETE, UPDATE
  <2>. HIDE DEF e
  <2>6. \A d \in CR : /\ d = c
                     /\ f5ipam'[d].live = TRUE
                     /\ f5ipam'[d].spec = f5ipam[d].spec
                     /\ f5ipam'[d].status = p.status
    BY <2>1, <2>2, <2>3 DEF Growing, SysInv, FICTypeOK
  <2>7. QueueInv' /\ (Restored' => Restored)
    BY <1>3, <2>1, <2>4, <2>5, QueueKeeps DEF GrowInv
  <2>8. \A d \in CR : Published(d)' = ToSet(p.status)
    BY <2>6 DEF Published
  <2>9. StatusInv'
    <3>1. InRange(p.resp.req.host, p.resp.ip)
      <4>. DEFINE a == [ipaddress |-> p.resp.ip, hostname |-> p.resp.req.host]
      <4>1. a \in aRecords /\ a.ipaddress = p.resp.ip /\ a.hostname = p.resp.req.host
        BY <2>2 DEF Rec
      <4>. HIDE DEF a
      <4>. QED
        BY <4>1 DEF GrowInv, RecordInv
    <3>2. \A s \in ToSet(p.status) : InRange(s.host, s.ip)
      BY <2>2, <3>1 DEF GrowInv, StatusInv
    <3>3. \A h, x : InRange(h, x)' <=> InRange(h, x)
      BY DEF InRange
    <3>. QED
      BY <2>2, <2>6, <2>8, <3>2, <3>3 DEF StatusInv
  <2>10. HeldInv'
    <3>1. \A s \in ToSet(p.status) : Rec(s.host, s.ip) \/ Pending(s.host, s.ip)
      BY <1>3, <2>2 DEF GrowInv, HeldInv
    <3>2. \A h, x : (Rec(h, x)' <=> Rec(h, x)) /\ (Pending(h, x)' <=> Pending(h, x))
      BY <1>2 DEF Rec, Pending
    <3>. QED
      BY <2>8, <3>1, <3>2 DEF HeldInv
  <2>11. LifeInv'
    BY <1>2, <1>3, <2>6 DEF GrowInv, LifeInv, Unborn
  <2>. QED
    BY <1>4, <2>7, <2>9, <2>10, <2>11 DEF GrowInv
<1>. QED
  BY <1>1, <1>5, <1>6

-----------------------------------------------------------------------------
(* The life of the process.                                                *)

LEMMA GrowDie ==
  ASSUME GrowInv, Die
  PROVE  GrowInv'
<1>1. /\ ~up' /\ aRecords' = {} /\ BagToSet(inFlight') = {}
      /\ rscQueue' = <<>> /\ todo' = <<>> /\ put' = {} /\ stale' = <<>>
      /\ f5ipam' = f5ipam
  BY DEF Die, StoreReset, BagToSet, EmptyBag, SetToBag
<1>2. AnswerInv' /\ RecordInv' /\ QueueInv' /\ TodoInv' /\ HeldInv' /\ PutInv'
  BY <1>1 DEF AnswerInv, RecordInv, QueueInv, TodoInv, HeldInv, PutInv
<1>3. StatusInv'
  BY <1>1 DEF GrowInv, StatusInv, Published, InRange
<1>4. LifeInv'
  <2>1. Fresh'
    BY <1>1 DEF Fresh
  <2>2. \A c \in CR : Unborn(c)' => Unborn(c)
    BY <1>1 DEF Unborn
  <2>. QED
    BY <1>1, <2>1, <2>2 DEF GrowInv, LifeInv
<1>. QED
  BY <1>2, <1>3, <1>4 DEF GrowInv

\* The first list announces the resource, if there is one, with its Status.
LEMMA GrowStart ==
  ASSUME Growing, SysInv, GrowInv, Start
  PROVE  GrowInv'
<1>. DEFINE listed == ListOrder[{c \in CR : f5ipam[c].live}]
<1>1. /\ UNCHANGED <<aRecords, inFlight, f5ipam, todo, put, stale>>
      /\ ~up /\ up'
      /\ rscQueue' = [i \in DOMAIN listed |->
           CreateEvent(listed[i], f5ipam[listed[i]].spec, f5ipam[listed[i]].status)]
  BY DEF Start
<1>2. Fresh /\ stale = <<>>
  BY <1>1 DEF GrowInv, LifeInv
<1>3. listed \in Seq(CR) /\ ToSet(listed) = {c \in CR : f5ipam[c].live} /\ IsInjective(listed)
  BY SystemAssumption
<1>. HIDE DEF listed
<1>4. \A i \in DOMAIN listed : i = 1 /\ listed[i] \in CR /\ f5ipam[listed[i]].live
  <2>1. \A i \in DOMAIN listed : listed[i] \in CR /\ f5ipam[listed[i]].live
    BY <1>3 DEF ToSet
  <2>2. \A i \in DOMAIN listed : 1 \in DOMAIN listed
    BY <1>3
  <2>. QED
    BY <1>3, <2>1, <2>2 DEF IsInjective, Growing
<1>5. QueueInv'
  <2>1. ASSUME NEW i \in DOMAIN listed
        PROVE  /\ i = 1
               /\ rscQueue'[i].op = CREATE
               /\ rscQueue'[i].status = f5ipam[rscQueue'[i].cr].status
    BY <1>1, <1>4 DEF CreateEvent
  <2>2. Fresh'
    BY <1>1, <1>2 DEF Fresh
  <2>. QED
    BY <1>1, <2>1, <2>2 DEF QueueInv, GrowingEvent, CREATE, UPDATE, DELETE
<1>6. AnswerInv' /\ RecordInv' /\ StatusInv' /\ TodoInv' /\ PutInv'
  BY <1>1, RestKeeps
<1>7. HeldInv'
  <2>1. ASSUME NEW c \in CR, NEW s \in Published(c), Restored' PROVE FALSE
    <3>1. f5ipam[c].status # <<>>
      BY <2>1 DEF Published, ToSet
    <3>2. f5ipam[c].live
      BY <3>1 DEF GrowInv, LifeInv, Unborn
    <3>3. PICK i \in DOMAIN listed : listed[i] = c
      BY <1>3, <3>2 DEF ToSet
    <3>4. rscQueue'[i].status = f5ipam[c].status
      BY <1>1, <3>3 DEF CreateEvent
    <3>. QED
      BY <1>1, <2>1, <3>1, <3>3, <3>4 DEF Restored
  <2>2. \A c \in CR : Published(c)' = Published(c)
    BY <1>1 DEF Published
  <2>. QED
    BY <2>1, <2>2 DEF HeldInv
<1>8. LifeInv'
  <2>1. ASSUME NEW c \in CR, Unborn(c)'
        PROVE  Fresh' /\ rscQueue' = <<>> /\ f5ipam'[c].status = <<>>
    <3>1. ~f5ipam[c].live /\ Unborn(c)
      BY <1>1, <1>2, <2>1 DEF Unborn
    <3>2. DOMAIN listed = {}
      BY <1>4, <3>1 DEF Growing
    <3>3. rscQueue' = <<>>
      BY <1>1, <3>2
    <3>. QED
      BY <1>1, <1>2, <3>1, <3>3 DEF GrowInv, LifeInv, Fresh
  <2>. QED
    BY <1>1, <1>2, <2>1 DEF LifeInv
<1>. QED
  BY <1>5, <1>6, <1>7, <1>8 DEF GrowInv

LEMMA GrowInit ==
  ASSUME Growing, Init
  PROVE  GrowInv
<1>1. /\ ~up /\ aRecords = {} /\ BagToSet(inFlight) = {}
      /\ rscQueue = <<>> /\ todo = <<>> /\ put = {} /\ stale = <<>>
      /\ \A c \in CR : f5ipam[c].status = <<>>
  BY DEF Init, CtlrInit, StoreInit, BagToSet, EmptyBag, SetToBag
<1>2. AnswerInv /\ RecordInv /\ QueueInv /\ TodoInv /\ HeldInv /\ PutInv
  BY <1>1 DEF AnswerInv, RecordInv, QueueInv, TodoInv, HeldInv, PutInv
<1>3. StatusInv
  BY <1>1 DEF StatusInv, Apart, Published, ToSet
<1>4. LifeInv
  BY <1>1 DEF LifeInv, Fresh
<1>. QED
  BY <1>2, <1>3, <1>4 DEF GrowInv

LEMMA GrowInductive ==
  ASSUME Growing, SoundPool, SysInv, GrowInv, [Next]_vars
  PROVE  GrowInv'
<1>1. CASE UNCHANGED vars
  <2>1. UNCHANGED <<aRecords, inFlight, f5ipam, up, rscQueue, todo, put, stale>>
    BY <1>1 DEF vars, sysVars
  <2>2. QueueInv' /\ (Restored' => Restored)
    BY <2>1 DEF GrowInv, QueueInv, Fresh, Restored, GrowingEvent
  <2>3. LifeInv'
    BY <2>1 DEF GrowInv, LifeInv, Unborn, Fresh
  <2>. QED
    BY <2>1, <2>2, <2>3, RestKeeps DEF GrowInv
<1>2. CASE \E c \in CR :
             \/ \E spec \in SpecChoice[c] : UserCreate(c, spec) \/ UserEdit(c, spec)
             \/ UserDelete(c)
  BY <1>2, GrowUser
<1>3. CASE LoseWatch
  BY <1>3, GrowLoseWatch
<1>4. CASE Relist
  BY <1>4, GrowRelist
<1>5. CASE ProcessResource
  BY <1>5, GrowProcess
<1>6. CASE SendRequest
  BY <1>6, GrowSend
<1>7. CASE TakeResponse
  BY <1>7, GrowTake
<1>8. CASE PutUpdate
  BY <1>8, GrowPut
<1>9. CASE Crash \/ Panic
  BY <1>9, GrowDie DEF Crash, Panic
<1>10. CASE Start
  BY <1>10, GrowStart
<1>. QED
  BY <1>1, <1>2, <1>3, <1>4, <1>5, <1>6, <1>7, <1>8, <1>9, <1>10 DEF Next

-----------------------------------------------------------------------------
(* Theorems.                                                               *)

\* Whatever the API server loses and whenever the process dies, the Status, the
\* queue, the pending requests and the store stay in step with each other.
THEOREM GrowthInvariant ==
  ASSUME Growing, SoundPool
  PROVE  Spec => [](SysInv /\ GrowInv)
<1>1. Init => SysInv /\ GrowInv
  BY SysInit, GrowInit
<1>2. SysInv /\ GrowInv /\ [Next]_vars => (SysInv /\ GrowInv)'
  BY SysInductive, GrowInductive
<1>. QED
  BY <1>1, <1>2, PTL DEF Spec

\* No address is published for two hosts, however often the process dies and
\* whatever has become of the answers and writes that were under way.
THEOREM PublishedStaysExclusive ==
  ASSUME Growing, SoundPool
  PROVE  Spec => []PublishedExclusive
<1>1. GrowInv => PublishedExclusive
  <2>. SUFFICES ASSUME GrowInv, NEW c \in CR, NEW d \in CR,
                       NEW s \in Published(c), NEW t \in Published(d), s.ip = t.ip
                PROVE  s.host = t.host
    BY DEF PublishedExclusive
  <2>1. c = d
    BY DEF Growing
  <2>2. PICK i \in DOMAIN f5ipam[c].status : s = f5ipam[c].status[i]
    BY DEF Published, ToSet
  <2>3. PICK j \in DOMAIN f5ipam[c].status : t = f5ipam[c].status[j]
    BY <2>1 DEF Published, ToSet
  <2>4. i = j
    BY <2>2, <2>3 DEF GrowInv, StatusInv, Apart
  <2>. QED
    BY <2>2, <2>3, <2>4
<1>. QED
  BY <1>1, GrowthInvariant, PTL

\* Once published, an address stays with its host for ever: no restart hands it to
\* another host or gives its host another.
THEOREM PublishedStays ==
  ASSUME Growing, SoundPool
  PROVE  Spec => StickyAddress
<1>1. SysInv /\ GrowInv /\ [Next]_vars
        => [\A c \in CR : Published(c) \subseteq Published(c)']_vars
  <2>. SUFFICES ASSUME SysInv, GrowInv, Next, NEW c \in CR
                PROVE  Published(c) \subseteq Published(c)'
    OBVIOUS
  <2>1. CASE UNCHANGED f5ipam
    BY <2>1 DEF Published
  <2>2. CASE PutUpdate
    <3>1. PICK p \in put : Accepted(p) \/ UNCHANGED f5ipam
      BY <2>2 DEF PutUpdate, Refused
    <3>2. CASE Accepted(p) /\ ~UNCHANGED f5ipam
      <4>1. /\ p.rv = f5ipam[p.resp.req.cr].rv
            /\ f5ipam' = [f5ipam EXCEPT ![p.resp.req.cr] =
                 [live |-> TRUE, rv |-> @.rv + 1, spec |-> p.spec, status |-> p.status]]
        BY <3>2 DEF Accepted
      <4>2. /\ p.resp.req.cr \in CR
            /\ Published(p.resp.req.cr) \subseteq ToSet(p.status)
        BY <4>1, PutAdds
      <4>3. c = p.resp.req.cr
        BY <4>2 DEF Growing
      <4>4. f5ipam'[c].status = p.status
        BY <4>1, <4>3 DEF SysInv, FICTypeOK
      <4>. QED
        BY <4>2, <4>3, <4>4 DEF Published
    <3>. QED
      BY <2>1, <3>1, <3>2
  <2>3. ASSUME NEW d \in CR,
               \/ \E spec \in SpecChoice[d] : UserCreate(d, spec) \/ UserEdit(d, spec)
               \/ UserDelete(d)
        PROVE  Published(c) \subseteq Published(c)'
    <3>1. c = d /\ ~UserDelete(d)
      BY DEF Growing, UserDelete
    <3>2. \E live, spec, st, e :
            /\ UserWrite(c, live, spec, st, e)
            /\ st = f5ipam[c].status \/ ~f5ipam[c].live
      BY <2>3, <3>1 DEF UserCreate, UserEdit
    <3>3. PICK live, spec, st, e :
            /\ UserWrite(c, live, spec, st, e)
            /\ st = f5ipam[c].status \/ ~f5ipam[c].live
      BY <3>2
    <3>4. ~f5ipam[c].live => f5ipam[c].status = <<>>
      BY DEF GrowInv, LifeInv, Unborn
    <3>5. f5ipam'[c].status = st
      BY <3>3 DEF UserWrite, SysInv, FICTypeOK
    <3>. QED
      BY <3>3, <3>4, <3>5 DEF Published, ToSet
  <2>4. LoseWatch \/ Relist \/ ProcessResource \/ SendRequest \/ TakeResponse \/ Crash \/ Panic
           \/ Start => UNCHANGED f5ipam
    BY DEF LoseWatch, Relist, ProcessResource, SendRequest, TakeResponse, Crash, Panic, Start, Die
  <2>. QED
    BY <2>1, <2>2, <2>3, <2>4 DEF Next
<1>. QED
  BY <1>1, GrowthInvariant, PTL DEF Spec, StickyAddress

\* When all has settled, every published address is held by its host: no entry that
\* a crash left behind is shown without a record, nor one whose CREATE was refused.
THEOREM PublishedIsHeld ==
  ASSUME Growing, SoundPool
  PROVE  Spec => []PublishedHeld
<1>1. GrowInv => PublishedHeld
  <2>. SUFFICES ASSUME GrowInv, Quiescent, NEW c \in CR, NEW s \in Published(c)
                PROVE  s.ip \in AddressesOf(s.host)
    BY DEF PublishedHeld
  <2>1. up /\ Restored /\ ~Pending(s.host, s.ip)
    BY DEF Quiescent, Restored, Pending
  <2>2. Rec(s.host, s.ip)
    BY <2>1 DEF GrowInv, HeldInv
  <2>. DEFINE a == [ipaddress |-> s.ip, hostname |-> s.host]
  <2>3. a \in aRecords /\ a.hostname = s.host /\ a.ipaddress = s.ip
    BY <2>2 DEF Rec
  <2>. HIDE DEF a
  <2>. QED
    BY <2>3 DEF AddressesOf
<1>. QED
  BY <1>1, GrowthInvariant, PTL

-----------------------------------------------------------------------------
(* Nobody is forgotten: any number of resources, whose users only add      *)
(* hosts.  Each wanted host has an address, or no address is left for it,  *)
(* or its request is on the way: it waits in todo, an event that will make *)
(* it is queued, or the informer, whose watch is broken, will find it when *)
(* it lists again.                                                         *)

Sending(s) ==
  \E i \in DOMAIN todo : \E r \in todo[i] :
    r.host = s.host /\ r.cidr = s.cidr /\ r.ip = NoIP

\* The event makes processResource ask for the host.
Brings(e, c, s) ==
  /\ e.cr = c /\ s \in ToSet(e.spec)
  /\ e.op = CREATE \/ (e.op = UPDATE /\ s \notin ToSet(e.old))

Queued(c, s) == \E i \in DOMAIN rscQueue : Brings(rscQueue[i], c, s)

Missed(c, s) ==
  stale # <<>> /\ (Head(stale)[c].live => s \notin ToSet(Head(stale)[c].spec))

Served(s) == AddressesOf(s.host) # {} \/ AvailableIn(s.cidr) = {}

OnlyAdds ==
  /\ \A i \in DOMAIN todo : \A r \in todo[i] : r.op = CREATE
  /\ \A i \in DOMAIN rscQueue : GrowingEvent(rscQueue[i])
  /\ \A c \in CR :
       /\ ~f5ipam[c].live => f5ipam[c].spec = <<>>
       /\ stale # <<>> /\ Head(stale)[c].live =>
            f5ipam[c].live /\ ToSet(Head(stale)[c].spec) \subseteq Wanted(c)

SoughtInv ==
  up => \A c \in CR : \A s \in Wanted(c) :
          Served(s) \/ Sending(s) \/ Queued(c, s) \/ Missed(c, s)

DemandInv == OnlyAdds /\ SoughtInv

\* An additional event takes no other from the queue.
LEMMA QueuedStays ==
  ASSUME SysInv, OnlyAdds, NEW e \in Event, GrowingEvent(e), Notify(e)
  PROVE  /\ \A i \in DOMAIN rscQueue' : GrowingEvent(rscQueue'[i])
         /\ \A c, s : Queued(c, s) => Queued(c, s)'
         /\ \A c, s : up /\ Watching /\ Brings(e, c, s) => Queued(c, s)'
<1>1. /\ \A i \in DOMAIN rscQueue' :
           \/ rscQueue'[i] = e
           \/ \E j \in DOMAIN rscQueue : rscQueue'[i] = rscQueue[j] /\ (j = 1 => i = 1)
      /\ \A j \in DOMAIN rscQueue : \E i \in DOMAIN rscQueue' : rscQueue'[i] = rscQueue[j]
      /\ up /\ Watching => \E i \in DOMAIN rscQueue' : rscQueue'[i] = e
  BY QueueGains DEF SysInv, FICTypeOK
<1>2. \A i \in DOMAIN rscQueue' : GrowingEvent(rscQueue'[i])
  BY <1>1 DEF OnlyAdds
<1>3. \A c, s : Queued(c, s) => Queued(c, s)'
  BY <1>1 DEF Queued, Brings
<1>4. \A c, s : up /\ Watching /\ Brings(e, c, s) => Queued(c, s)'
  BY <1>1 DEF Queued, Brings
<1>. QED
  BY <1>2, <1>3, <1>4

LEMMA DemandUser ==
  ASSUME GrowOnly, SysInv, DemandInv, NEW c \in CR,
         \/ \E spec \in SpecChoice[c] : UserCreate(c, spec) \/ UserEdit(c, spec)
         \/ UserDelete(c)
  PROVE  DemandInv'
<1>0. /\ f5ipam \in [CR -> Resource] /\ f5ipam[c].spec \in Seq(Asked)
      /\ SpecChoice[c] \subseteq Seq(Asked)
      /\ <<>> \in Seq(Asked) /\ <<>> \in Seq(IPSpec)
  BY AskedFacts DEF SysInv, FICTypeOK, Resource
<1>1. \E spec, st : \E e \in Event :
        /\ UserWrite(c, TRUE, spec, st, e)
        /\ GrowingEvent(e)
        /\ Wanted(c) \subseteq ToSet(spec)
        /\ \A s \in ToSet(spec) : s \in Wanted(c) \/ Brings(e, c, s)
  <2>1. ASSUME NEW spec \in SpecChoice[c], UserCreate(c, spec)
        PROVE  \E e \in Event :
                 /\ UserWrite(c, TRUE, spec, <<>>, e)
                 /\ GrowingEvent(e)
                 /\ Wanted(c) \subseteq ToSet(spec)
                 /\ \A s \in ToSet(spec) : s \in Wanted(c) \/ Brings(e, c, s)
    <3>. DEFINE e == CreateEvent(c, spec, <<>>)
    <3>1. e \in Event
      BY <1>0, EventTypes
    <3>2. GrowingEvent(e) /\ \A s \in ToSet(spec) : Brings(e, c, s)
      BY DEF CreateEvent, GrowingEvent, Brings, CREATE, DELETE, UPDATE
    <3>3. ~f5ipam[c].live /\ UserWrite(c, TRUE, spec, <<>>, e)
      BY <2>1 DEF UserCreate
    <3>4. Wanted(c) = {}
      BY <3>3 DEF DemandInv, OnlyAdds, Wanted, ToSet
    <3>. HIDE DEF e
    <3>. QED
      BY <3>1, <3>2, <3>3, <3>4
  <2>2. ASSUME NEW spec \in SpecChoice[c], UserEdit(c, spec)
        PROVE  \E e \in Event :
                 /\ UserWrite(c, TRUE, spec, f5ipam[c].status, e)
                 /\ GrowingEvent(e)
                 /\ Wanted(c) \subseteq ToSet(spec)
                 /\ \A s \in ToSet(spec) : s \in Wanted(c) \/ Brings(e, c, s)
    <3>. DEFINE e == UpdateEvent(c, f5ipam[c].spec, spec)
    <3>1. e \in Event
      BY <1>0, EventTypes
    <3>2. Wanted(c) \subseteq ToSet(spec)
      BY <2>2 DEF UserEdit, Wanted
    <3>3. GrowingEvent(e) /\ \A s \in ToSet(spec) : s \in Wanted(c) \/ Brings(e, c, s)
      BY <3>2 DEF UpdateEvent, GrowingEvent, Brings, Wanted, DELETE, UPDATE
    <3>4. UserWrite(c, TRUE, spec, f5ipam[c].status, e)
      BY <2>2 DEF UserEdit
    <3>. HIDE DEF e
    <3>. QED
      BY <3>1, <3>2, <3>3, <3>4
  <2>3. ~UserDelete(c)
    BY DEF UserDelete
  <2>. QED
    BY <2>1, <2>2, <2>3
<1>2. PICK spec, st : \E e \in Event :
        /\ UserWrite(c, TRUE, spec, st, e)
        /\ GrowingEvent(e)
        /\ Wanted(c) \subseteq ToSet(spec)
        /\ \A s \in ToSet(spec) : s \in Wanted(c) \/ Brings(e, c, s)
  BY <1>1
<1>3. PICK e \in Event :
        /\ UserWrite(c, TRUE, spec, st, e)
        /\ GrowingEvent(e)
        /\ Wanted(c) \subseteq ToSet(spec)
        /\ \A s \in ToSet(spec) : s \in Wanted(c) \/ Brings(e, c, s)
  BY <1>2
<1>4. /\ Notify(e)
      /\ UNCHANGED <<status, aRecords, inFlight, up, todo, put, stale, crashes, gaps>>
      /\ f5ipam'[c].live /\ Wanted(c)' = ToSet(spec)
      /\ \A d \in CR : d # c => f5ipam'[d] = f5ipam[d]
  BY <1>0, <1>3 DEF UserWrite, Wanted
<1>5. /\ \A i \in DOMAIN rscQueue' : GrowingEvent(rscQueue'[i])
      /\ \A d, s : Queued(d, s) => Queued(d, s)'
      /\ \A d, s : up /\ Watching /\ Brings(e, d, s) => Queued(d, s)'
  BY <1>3, <1>4, QueuedStays DEF DemandInv
<1>6. OnlyAdds'
  <2>1. ASSUME NEW d \in CR
        PROVE  /\ ~f5ipam'[d].live => f5ipam'[d].spec = <<>>
               /\ stale' # <<>> /\ Head(stale')[d].live =>
                    f5ipam'[d].live /\ ToSet(Head(stale')[d].spec) \subseteq Wanted(d)'
    <3>1. CASE d = c
      BY <1>3, <1>4, <3>1 DEF DemandInv, OnlyAdds
    <3>2. CASE d # c
      BY <1>4, <3>2 DEF DemandInv, OnlyAdds, Wanted
    <3>. QED
      BY <3>1, <3>2
  <2>. QED
    BY <1>4, <1>5, <2>1 DEF DemandInv, OnlyAdds, GrowingEvent
<1>7. SoughtInv'
  <2>1. \A d, s : /\ Served(s)' <=> Served(s)
                  /\ Sending(s)' <=> Sending(s)
                  /\ Missed(d, s)' <=> Missed(d, s)
    BY <1>4 DEF Served, Sending, Missed, AddressesOf, AvailableIn
  <2>2. ASSUME up, NEW d \in CR, NEW s \in Wanted(d)'
        PROVE  Served(s)' \/ Sending(s)' \/ Queued(d, s)' \/ Missed(d, s)'
    <3>1. CASE s \in Wanted(d)
      BY <1>5, <2>1, <2>2, <3>1 DEF DemandInv, SoughtInv
    <3>2. CASE s \notin Wanted(d)
      <4>1. d = c /\ Brings(e, c, s)
        BY <1>3, <1>4, <2>2, <3>2 DEF Wanted
      <4>2. stale # <<>> => Missed(d, s)
        BY <3>2 DEF DemandInv, OnlyAdds, Missed
      <4>. QED
        BY <1>5, <2>1, <2>2, <4>1, <4>2 DEF Watching
    <3>. QED
      BY <3>1, <3>2
  <2>. QED
    BY <1>4, <2>2 DEF SoughtInv
<1>. QED
  BY <1>6, <1>7 DEF DemandInv

LEMMA DemandInform ==
  ASSUME SysInv, DemandInv, LoseWatch \/ Relist
  PROVE  DemandInv'
<1>1. CASE LoseWatch
  <2>1. /\ stale = <<>> /\ stale' = <<f5ipam>> /\ Head(stale') = f5ipam
        /\ UNCHANGED <<status, aRecords, f5ipam, up, rscQueue, todo>>
    BY <1>1 DEF LoseWatch, Watching
  <2>2. OnlyAdds'
    <3>1. \A c \in CR : Wanted(c)' = ToSet(f5ipam[c].spec)
      BY <2>1 DEF Wanted
    <3>. QED
      BY <2>1, <3>1 DEF DemandInv, OnlyAdds, GrowingEvent
  <2>3. SoughtInv'
    <3>1. \A c, s : /\ ~Missed(c, s) /\ (Served(s)' <=> Served(s))
                    /\ (Sending(s)' <=> Sending(s)) /\ (Queued(c, s)' <=> Queued(c, s))
      BY <2>1 DEF Missed, Served, Sending, Queued, Brings, AddressesOf, AvailableIn
    <3>2. \A c \in CR : Wanted(c)' = Wanted(c)
      BY <2>1 DEF Wanted
    <3>. QED
      BY <2>1, <3>1, <3>2 DEF DemandInv, SoughtInv
  <2>. QED
    BY <2>2, <2>3 DEF DemandInv
<1>2. CASE Relist
  <2>1. /\ up /\ stale # <<>> /\ stale' = <<>>
        /\ UNCHANGED <<status, aRecords, f5ipam, up, todo>>
    BY <1>2 DEF Relist, Watching
  <2>2. /\ \A j \in DOMAIN rscQueue : \E i \in DOMAIN rscQueue' : rscQueue'[i] = rscQueue[j]
        /\ \A i \in DOMAIN rscQueue' :
             \/ \E j \in DOMAIN rscQueue : rscQueue'[i] = rscQueue[j]
             \/ \E c \in CR : f5ipam[c].live /\ rscQueue'[i] = ListedEvent(c)
             \/ \E c \in CR : /\ Head(stale)[c].live /\ ~f5ipam[c].live
                              /\ rscQueue'[i] = Tombstone(c)
        /\ \A c \in CR : f5ipam[c].live =>
             \E i \in DOMAIN rscQueue' : rscQueue'[i] = ListedEvent(c)
    BY <1>2, RelistElements DEF SysInv, FICTypeOK
  <2>3. \A c \in CR : Head(stale)[c].live =>
          f5ipam[c].live /\ ToSet(Head(stale)[c].spec) \subseteq Wanted(c)
    BY <2>1 DEF DemandInv, OnlyAdds
  <2>4. ASSUME NEW c \in CR, f5ipam[c].live
        PROVE  /\ GrowingEvent(ListedEvent(c))
               /\ \A s \in Wanted(c) : Missed(c, s) => Brings(ListedEvent(c), c, s)
    <3>1. CASE Head(stale)[c].live
      BY <2>3, <3>1 DEF ListedEvent, UpdateEvent, GrowingEvent, Brings, Missed, Wanted,
                        UPDATE, DELETE
    <3>2. CASE ~Head(stale)[c].live
      BY <3>2 DEF ListedEvent, CreateEvent, GrowingEvent, Brings, Missed, Wanted,
                  CREATE, UPDATE, DELETE
    <3>. QED
      BY <3>1, <3>2
  <2>5. \A i \in DOMAIN rscQueue' : GrowingEvent(rscQueue'[i])
    <3>1. \A i \in DOMAIN rscQueue : GrowingEvent(rscQueue[i])
      BY DEF DemandInv, OnlyAdds
    <3>. QED
      BY <2>2, <2>3, <2>4, <3>1
  <2>6. OnlyAdds'
    <3>1. \A c \in CR : ~f5ipam'[c].live => f5ipam'[c].spec = <<>>
      BY <2>1 DEF DemandInv, OnlyAdds
    <3>2. \A i \in DOMAIN todo' : \A r \in todo'[i] : r.op = CREATE
      BY <2>1 DEF DemandInv, OnlyAdds
    <3>. QED
      BY <2>1, <2>5, <3>1, <3>2 DEF OnlyAdds, GrowingEvent
  <2>7. SoughtInv'
    <3>1. \A s : (Served(s)' <=> Served(s)) /\ (Sending(s)' <=> Sending(s))
      BY <2>1 DEF Served, Sending, AddressesOf, AvailableIn
    <3>2. \A c, s : Queued(c, s) => Queued(c, s)'
      BY <2>2 DEF Queued, Brings
    <3>3. ASSUME NEW c \in CR, NEW s \in Wanted(c), Missed(c, s)
          PROVE  Queued(c, s)'
      <4>1. f5ipam[c].live
        BY DEF DemandInv, OnlyAdds, Wanted, ToSet
      <4>2. PICK i \in DOMAIN rscQueue' : rscQueue'[i] = ListedEvent(c)
        BY <2>2, <4>1
      <4>3. Brings(ListedEvent(c), c, s)
        BY <2>4, <3>3, <4>1
      <4>. QED
        BY <4>2, <4>3 DEF Queued, Brings
    <3>4. \A c \in CR : Wanted(c)' = Wanted(c)
      BY <2>1 DEF Wanted
    <3>. QED
      BY <2>1, <3>1, <3>2, <3>3, <3>4 DEF DemandInv, SoughtInv
  <2>. QED
    BY <2>6, <2>7 DEF DemandInv
<1>. QED
  BY <1>1, <1>2

LEMMA DemandProcess ==
  ASSUME SysInv, DemandInv, ProcessResource
  PROVE  DemandInv'
<1>. DEFINE e == Head(rscQueue)
<1>1. /\ todo = <<>> /\ rscQueue # <<>> /\ rscQueue' = Tail(rscQueue)
      /\ UNCHANGED <<status, aRecords, f5ipam, up, stale>>
      /\ \/ e.op = CREATE /\ todo' = CreateRequests(e)
         \/ e.op = DELETE
         \/ e.op = UPDATE /\ todo' = UpdateRequests(e)
  BY DEF ProcessResource
<1>2. rscQueue \in Seq(Event) /\ e = rscQueue[1] /\ 1 \in DOMAIN rscQueue /\ e \in Event
  BY <1>1, HeadTailType DEF SysInv, FICTypeOK
<1>. HIDE DEF e
<1>3. \A i \in DOMAIN rscQueue' :
        i + 1 \in DOMAIN rscQueue /\ rscQueue'[i] = rscQueue[i + 1]
  BY <1>1, <1>2
<1>4. \A j \in DOMAIN rscQueue : j = 1 \/ \E i \in DOMAIN rscQueue' : rscQueue'[i] = rscQueue[j]
  <2>1. \A j \in DOMAIN rscQueue :
          j # 1 => j - 1 \in DOMAIN rscQueue' /\ rscQueue'[j - 1] = rscQueue[j]
    BY <1>1, <1>2
  <2>. QED
    BY <2>1
<1>5. GrowingEvent(e)
  BY <1>2 DEF DemandInv, OnlyAdds
<1>6. /\ \A i \in DOMAIN todo' : \A r \in todo'[i] : r.op = CREATE
      /\ \A c, s : Brings(e, c, s) => Sending(s)'
  <2>1. CASE e.op = CREATE /\ todo' = CreateRequests(e)
    <3>. DEFINE n == Len(e.status)
                m == Len(e.spec)
    <3>1. /\ DOMAIN todo' = 1..n + m
          /\ \A i \in 1..n + m :
               todo'[i] = IF i <= n THEN {StatusRequest(e.cr, e.status[i], CREATE)}
                          ELSE {SpecRequest(e.cr, e.spec[i - n], CREATE)}
      BY <1>2, <2>1, CreateElements, Zenon
    <3>2. n \in Nat /\ m \in Nat /\ DOMAIN e.spec = 1..m
      BY <1>2, CreateElements
    <3>. HIDE DEF n, m
    <3>3. \A i \in DOMAIN todo' : \A r \in todo'[i] : r.op = CREATE
      BY <3>1 DEF StatusRequest, SpecRequest
    <3>4. ASSUME NEW c, NEW s, Brings(e, c, s)
          PROVE  Sending(s)'
      <4>1. PICK j \in 1..m : s = e.spec[j]
        BY <3>2, <3>4 DEF Brings, ToSet
      <4>. DEFINE k == n + j
      <4>2. k \in 1..n + m /\ ~(k <= n) /\ k - n = j
        BY <3>2
      <4>. HIDE DEF k
      <4>3. todo'[k] = {SpecRequest(e.cr, s, CREATE)}
        BY <3>1, <4>1, <4>2
      <4>. QED
        <5>1. k \in DOMAIN todo'
          BY <3>1, <4>2
        <5>. DEFINE r == SpecRequest(e.cr, s, CREATE)
        <5>2. r \in todo'[k] /\ r.host = s.host /\ r.cidr = s.cidr /\ r.ip = NoIP
          BY <4>3 DEF SpecRequest
        <5>. HIDE DEF r
        <5>. QED
          BY <5>1, <5>2 DEF Sending
    <3>. QED
      BY <3>3, <3>4
  <2>2. CASE e.op = UPDATE /\ todo' = UpdateRequests(e)
    <3>1. ToSet(e.old) \subseteq ToSet(e.spec)
      BY <1>5, <2>2 DEF GrowingEvent
    <3>2. \A i \in DOMAIN todo' : \A r \in todo'[i] : r.op = CREATE
      BY <1>2, <2>2, <3>1, UpdateElements
    <3>3. ASSUME NEW c, NEW s, Brings(e, c, s)
          PROVE  Sending(s)'
      <4>. DEFINE S == SpecDiff(e, e.spec, e.old, CREATE)
      <4>1. SpecRequest(e.cr, s, CREATE) \in S
        BY <2>2, <3>3 DEF Brings, SpecDiff, CREATE, UPDATE
      <4>2. SpecDiff(e, e.old, e.spec, DELETE) = {}
        BY <3>1 DEF SpecDiff
      <4>3. S \in SUBSET Wish
        BY <1>2, SpecDiffType DEF Event
      <4>4. todo' = <<>> \o <<S>>
        BY <2>2, <4>1, <4>2 DEF UpdateRequests, Loop
      <4>. HIDE DEF S
      <4>5. 1 \in DOMAIN todo' /\ todo'[1] = S
        BY <4>4
      <4>. QED
        BY <4>1, <4>5 DEF Sending, SpecRequest
    <3>. QED
      BY <3>2, <3>3
  <2>. QED
    BY <1>1, <1>5, <2>1, <2>2 DEF GrowingEvent
<1>7. OnlyAdds'
  <2>1. \A i \in DOMAIN rscQueue' : GrowingEvent(rscQueue'[i])
    BY <1>3 DEF DemandInv, OnlyAdds
  <2>2. \A c \in CR : Wanted(c)' = Wanted(c)
    BY <1>1 DEF Wanted
  <2>. QED
    BY <1>1, <1>6, <2>1, <2>2 DEF DemandInv, OnlyAdds, GrowingEvent
<1>8. SoughtInv'
  <2>1. \A c, s : (Served(s)' <=> Served(s)) /\ ~Sending(s) /\ (Missed(c, s)' <=> Missed(c, s))
    BY <1>1 DEF Served, Sending, Missed, AddressesOf, AvailableIn
  <2>2. ASSUME NEW c, NEW s, Queued(c, s)
        PROVE  Queued(c, s)' \/ Sending(s)'
    <3>1. PICK j \in DOMAIN rscQueue : Brings(rscQueue[j], c, s)
      BY <2>2 DEF Queued
    <3>2. CASE j = 1
      BY <1>2, <1>6, <3>1, <3>2
    <3>3. CASE \E i \in DOMAIN rscQueue' : rscQueue'[i] = rscQueue[j]
      BY <3>1, <3>3 DEF Queued, Brings
    <3>. QED
      BY <1>4, <3>2, <3>3
  <2>3. \A c \in CR : Wanted(c)' = Wanted(c)
    BY <1>1 DEF Wanted
  <2>. QED
    BY <1>1, <2>1, <2>2, <2>3 DEF DemandInv, SoughtInv
<1>. QED
  BY <1>7, <1>8 DEF DemandInv

\* A request for a new address is served, or nothing is left to serve it with; and
\* no address comes back to a range.
LEMMA HandleServes ==
  ASSUME SoundPool, SysInv, NEW req \in Wish, Handle(req), req.op = CREATE
  PROVE  /\ aRecords \subseteq aRecords'
         /\ \A c : AvailableIn(c)' \subseteq AvailableIn(c)
         /\ req.ip = NoIP => (\E a \in aRecords' : a.hostname = req.host)
                             \/ AvailableIn(req.cidr) = {}
<1>1. req \in Request /\ req.host \in Host /\ req.cidr \in Cidr
  BY DEF Wish, Request
<1>2. CASE GrantAsked(req) \/ GrantNext(req)
  <2>1. PICK i \in Row :
          /\ aRecords' = aRecords \cup
               {[ipaddress |-> Pool[i].ipaddress, hostname |-> req.host]}
          /\ Respond(req, Pool[i].ipaddress, TRUE)
          /\ \/ req.ip # NoIP /\ Pool[i].ipaddress = req.ip
             \/ req.ip = NoIP /\ Pool[i].cidr = req.cidr
    BY <1>1, <1>2, GrantStep DEF SysInv, OwnerInv
  <2>2. \E rows : SetStatus(rows, ALLOCATED)
    BY <1>2 DEF GrantAsked, AllocateIPAddress, GrantNext, GetNextIPAddress, SoundPool
  <2>3. \A c : AvailableIn(c)' \subseteq AvailableIn(c)
    BY <2>2 DEF SetStatus, AvailableIn, ALLOCATED, AVAILABLE
  <2>. DEFINE a == [ipaddress |-> Pool[i].ipaddress, hostname |-> req.host]
  <2>4. a \in aRecords' /\ a.hostname = req.host
    BY <2>1
  <2>. HIDE DEF a
  <2>. QED
    BY <2>1, <2>3, <2>4
<1>3. CASE RefuseAsked(req)
  BY <1>3 DEF RefuseAsked, storeVars, AvailableIn
<1>4. CASE AnswerKnown(req)
  <2>1. [ipaddress |-> GetIPAddress(req.host), hostname |-> req.host] \in aRecords
    BY <1>1, <1>4, GetIPAddressFinds DEF AnswerKnown, SysInv, OwnerInv, CtlrTypeOK
  <2>. DEFINE a == [ipaddress |-> GetIPAddress(req.host), hostname |-> req.host]
  <2>2. a \in aRecords /\ a.hostname = req.host
    BY <2>1
  <2>. HIDE DEF a
  <2>. QED
    BY <1>4, <2>2 DEF AnswerKnown, storeVars, AvailableIn
<1>5. CASE DropExhausted(req)
  <2>1. AvailableIn(req.cidr) = {}
    <3>1. \A i \in Row : Pool[i].cidr \in PoolCidr
      BY RowFacts
    <3>. QED
      BY <1>5, <3>1 DEF DropExhausted, CanAllocateNext, AvailableIn, SoundPool
  <2>. QED
    BY <1>5, <2>1 DEF DropExhausted, ctlrVars, AvailableIn
<1>6. ~HandleDelete(req)
  BY DEF HandleDelete, CREATE, DELETE
<1>. QED
  BY <1>2, <1>3, <1>4, <1>5, <1>6 DEF Handle

LEMMA DemandSend ==
  ASSUME SoundPool, SysInv, DemandInv, SendRequest
  PROVE  DemandInv'
<1>1. todo \in Seq(Batch) /\ todo # <<>>
  BY DEF SysInv, FICTypeOK, SendRequest, Batch, Wish
<1>2. PICK req \in Head(todo) :
        Handle(req) /\ todo' = Loop(Head(todo) \ {req}) \o Tail(todo)
  BY DEF SendRequest
<1>3. UNCHANGED <<f5ipam, up, rscQueue, put, stale>>
  BY DEF SendRequest
<1>4. 1 \in DOMAIN todo /\ req \in todo[1] /\ req \in Wish
  <2>1. Head(todo) \in Batch
    BY <1>1, HeadTailType
  <2>2. Head(todo) \subseteq Wish
    BY <2>1 DEF Batch
  <2>. QED
    BY <1>1, <2>2
<1>5. PICK d \in {0, 1} :
        /\ \A i \in DOMAIN todo' :
             /\ i \in Nat /\ i + d \in DOMAIN todo
             /\ todo'[i] \subseteq todo[i + d]
             /\ i + d = 1 => req \notin todo'[i]
        /\ \A i \in DOMAIN todo : \A r \in todo[i] :
             (i = 1 /\ r = req) \/ \E j \in DOMAIN todo' : r \in todo'[j]
  BY <1>1, <1>2, SentTodo
<1>6. req.op = CREATE
  BY <1>4 DEF DemandInv, OnlyAdds
<1>7. /\ aRecords \subseteq aRecords'
      /\ \A c : AvailableIn(c)' \subseteq AvailableIn(c)
      /\ req.ip = NoIP => (\E a \in aRecords' : a.hostname = req.host)
                          \/ AvailableIn(req.cidr) = {}
  BY <1>2, <1>4, <1>6, HandleServes
<1>8. OnlyAdds'
  <2>1. \A i \in DOMAIN todo' : \A r \in todo'[i] : r.op = CREATE
    BY <1>5 DEF DemandInv, OnlyAdds
  <2>2. \A c \in CR : Wanted(c)' = Wanted(c)
    BY <1>3 DEF Wanted
  <2>. QED
    BY <1>3, <2>1, <2>2 DEF DemandInv, OnlyAdds, GrowingEvent
<1>9. SoughtInv'
  <2>1. \A s : Served(s) => Served(s)'
    BY <1>7 DEF Served, AddressesOf
  <2>2. ASSUME NEW s, Sending(s)
        PROVE  Served(s)' \/ Sending(s)'
    <3>1. PICK i \in DOMAIN todo : \E r \in todo[i] :
            r.host = s.host /\ r.cidr = s.cidr /\ r.ip = NoIP
      BY <2>2 DEF Sending
    <3>2. PICK r \in todo[i] : r.host = s.host /\ r.cidr = s.cidr /\ r.ip = NoIP
      BY <3>1
    <3>3. CASE r = req
      BY <1>7, <3>2, <3>3 DEF Served, AddressesOf
    <3>4. CASE \E j \in DOMAIN todo' : r \in todo'[j]
      BY <3>2, <3>4 DEF Sending
    <3>. QED
      BY <1>5, <3>3, <3>4
  <2>3. \A c, s : (Queued(c, s)' <=> Queued(c, s)) /\ (Missed(c, s)' <=> Missed(c, s))
    BY <1>3 DEF Queued, Brings, Missed
  <2>4. \A c \in CR : Wanted(c)' = Wanted(c)
    BY <1>3 DEF Wanted
  <2>. QED
    BY <1>3, <2>1, <2>2, <2>3, <2>4 DEF DemandInv, SoughtInv
<1>. QED
  BY <1>8, <1>9 DEF DemandInv

LEMMA DemandRespond ==
  ASSUME SysInv, DemandInv, TakeResponse \/ PutUpdate
  PROVE  DemandInv'
<1>1. UNCHANGED <<status, aRecords, up, todo, stale>>
  BY DEF TakeResponse, PutUpdate
<1>2. /\ \A c \in CR : f5ipam'[c].live = f5ipam[c].live /\ f5ipam'[c].spec = f5ipam[c].spec
      /\ \A i \in DOMAIN rscQueue' : GrowingEvent(rscQueue'[i])
      /\ \A c, s : Queued(c, s) => Queued(c, s)'
  <2>1. CASE UNCHANGED <<f5ipam, rscQueue>>
    BY <2>1 DEF DemandInv, OnlyAdds, Queued, Brings
  <2>2. ASSUME NEW p \in put, Accepted(p), ~UNCHANGED <<f5ipam, rscQueue>>
        PROVE  /\ \A c \in CR : /\ f5ipam'[c].live = f5ipam[c].live
                               /\ f5ipam'[c].spec = f5ipam[c].spec
               /\ \A i \in DOMAIN rscQueue' : GrowingEvent(rscQueue'[i])
               /\ \A c, s : Queued(c, s) => Queued(c, s)'
    <3>. DEFINE c == p.resp.req.cr
                e == UpdateEvent(c, f5ipam[c].spec, p.spec)
    <3>1. c \in CR /\ p.spec \in Seq(Asked) /\ <<>> \in Seq(IPSpec)
      BY DEF SysInv, FICTypeOK, Put, Response, Request
    <3>2. p.spec = f5ipam[c].spec /\ Notify(e)
      BY <2>2 DEF Accepted, SysInv, PutIsCurrent
    <3>3. e \in Event
      BY <3>1, <3>2, EventTypes
    <3>4. GrowingEvent(e)
      BY <3>2 DEF UpdateEvent, GrowingEvent, DELETE, UPDATE
    <3>. HIDE DEF e
    <3>. QED
      BY <2>2, <3>2, <3>3, <3>4, AcceptedKeeps, QueuedStays DEF DemandInv
  <2>. QED
    BY <2>1, <2>2 DEF TakeResponse, PutUpdate, Refused
<1>3. \A c \in CR : Wanted(c)' = Wanted(c)
  BY <1>2 DEF Wanted
<1>4. OnlyAdds'
  BY <1>1, <1>2, <1>3 DEF DemandInv, OnlyAdds, GrowingEvent
<1>5. SoughtInv'
  <2>1. \A c, s : /\ (Served(s)' <=> Served(s)) /\ (Sending(s)' <=> Sending(s))
                  /\ (Missed(c, s)' <=> Missed(c, s))
    BY <1>1 DEF Served, Sending, Missed, AddressesOf, AvailableIn
  <2>. QED
    BY <1>1, <1>2, <1>3, <2>1 DEF DemandInv, SoughtInv
<1>. QED
  BY <1>4, <1>5 DEF DemandInv

\* A new process asks for every wanted host again.
LEMMA DemandLife ==
  ASSUME SysInv, DemandInv, Crash \/ Panic \/ Start
  PROVE  DemandInv'
<1>1. CASE Crash \/ Panic
  <2>1. ~up' /\ rscQueue' = <<>> /\ todo' = <<>> /\ stale' = <<>> /\ f5ipam' = f5ipam
    BY <1>1 DEF Crash, Panic, Die
  <2>. QED
    BY <2>1 DEF DemandInv, OnlyAdds, SoughtInv
<1>2. CASE Start
  <2>1. up' /\ UNCHANGED <<todo, stale, f5ipam>>
    BY <1>2 DEF Start
  <2>2. /\ \A i \in DOMAIN rscQueue' : \E c \in CR :
             /\ f5ipam[c].live
             /\ rscQueue'[i] = CreateEvent(c, f5ipam[c].spec, f5ipam[c].status)
        /\ \A c \in CR : f5ipam[c].live =>
             \E i \in DOMAIN rscQueue' :
               rscQueue'[i] = CreateEvent(c, f5ipam[c].spec, f5ipam[c].status)
    BY <1>2, StartElements DEF SysInv, FICTypeOK
  <2>3. \A c \in CR : Wanted(c)' = Wanted(c)
    BY <2>1 DEF Wanted
  <2>4. OnlyAdds'
    <3>1. \A i \in DOMAIN rscQueue' : GrowingEvent(rscQueue'[i])
      BY <2>2 DEF CreateEvent, GrowingEvent, CREATE, UPDATE, DELETE
    <3>. QED
      BY <2>1, <2>3, <3>1 DEF DemandInv, OnlyAdds, GrowingEvent
  <2>5. ASSUME NEW c \in CR, NEW s \in Wanted(c)
        PROVE  Queued(c, s)'
    <3>1. f5ipam[c].live
      BY DEF DemandInv, OnlyAdds, Wanted, ToSet
    <3>2. PICK i \in DOMAIN rscQueue' :
            rscQueue'[i] = CreateEvent(c, f5ipam[c].spec, f5ipam[c].status)
      BY <2>2, <3>1
    <3>. QED
      BY <3>2 DEF Queued, Brings, CreateEvent, Wanted
  <2>. QED
    BY <2>3, <2>4, <2>5 DEF DemandInv, SoughtInv
<1>. QED
  BY <1>1, <1>2

LEMMA DemandInductive ==
  ASSUME GrowOnly, SoundPool, SysInv, DemandInv, [Next]_vars
  PROVE  DemandInv'
<1>1. CASE UNCHANGED vars
  <2>1. UNCHANGED <<status, aRecords, f5ipam, up, rscQueue, todo, stale>>
    BY <1>1 DEF vars, sysVars
  <2>2. \A c \in CR : Wanted(c)' = Wanted(c)
    BY <2>1 DEF Wanted
  <2>3. \A c, s : /\ (Served(s)' <=> Served(s)) /\ (Sending(s)' <=> Sending(s))
                  /\ (Queued(c, s)' <=> Queued(c, s)) /\ (Missed(c, s)' <=> Missed(c, s))
    BY <2>1 DEF Served, Sending, Queued, Brings, Missed, AddressesOf, AvailableIn
  <2>4. OnlyAdds'
    BY <2>1, <2>2 DEF DemandInv, OnlyAdds, GrowingEvent
  <2>. QED
    BY <2>1, <2>2, <2>3, <2>4 DEF DemandInv, SoughtInv
<1>2. CASE \E c \in CR :
             \/ \E spec \in SpecChoice[c] : UserCreate(c, spec) \/ UserEdit(c, spec)
             \/ UserDelete(c)
  BY <1>2, DemandUser
<1>3. CASE LoseWatch \/ Relist
  BY <1>3, DemandInform
<1>4. CASE ProcessResource
  BY <1>4, DemandProcess
<1>5. CASE SendRequest
  BY <1>5, DemandSend
<1>6. CASE TakeResponse \/ PutUpdate
  BY <1>6, DemandRespond
<1>7. CASE Crash \/ Panic \/ Start
  BY <1>7, DemandLife
<1>. QED
  BY <1>1, <1>2, <1>3, <1>4, <1>5, <1>6, <1>7 DEF Next

LEMMA DemandInit == Init => DemandInv
BY DEF Init, DemandInv, OnlyAdds, SoughtInv, Wanted, ToSet

\* However often the process dies, whatever calls and writes are lost and whatever a
\* broken watch hides: no host that any resource asks for is forgotten.  When all has
\* settled, one without an address has a CIDR with none left.
THEOREM NobodyIsForgotten ==
  ASSUME GrowOnly, SoundPool
  PROVE  Spec => []NoStarvation
<1>1. Init => SysInv /\ DemandInv
  BY SysInit, DemandInit
<1>2. SysInv /\ DemandInv /\ [Next]_vars => (SysInv /\ DemandInv)'
  BY SysInductive, DemandInductive
<1>3. DemandInv => NoStarvation
  <2>. SUFFICES ASSUME DemandInv, Quiescent, NEW c \in CR, NEW s \in Wanted(c)
                PROVE  Served(s)
    BY DEF NoStarvation, Served
  <2>1. up /\ ~Sending(s) /\ ~Queued(c, s)
    BY DEF Quiescent, Sending, Queued
  <2>2. ~Missed(c, s)
    <3>1. CASE Watching
      BY <3>1 DEF Watching, Missed
    <3>2. CASE stale = <<f5ipam>>
      <4>1. Head(stale) = f5ipam
        BY <3>2
      <4>2. f5ipam[c].live
        BY DEF DemandInv, OnlyAdds, Wanted, ToSet
      <4>. QED
        BY <4>1, <4>2 DEF Missed, Wanted
    <3>. QED
      BY <3>1, <3>2 DEF Quiescent
  <2>. QED
    BY <2>1, <2>2 DEF DemandInv, SoughtInv
<1>. QED
  BY <1>1, <1>2, <1>3, PTL DEF Spec

=============================================================================
