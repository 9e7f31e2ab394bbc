---------------------------- MODULE FICSystemProofs ----------------------------
(***************************************************************************)
(* Theorems about the whole program, for any number of resources, hosts,   *)
(* edits, lost calls, broken watches and crashes.                          *)
(***************************************************************************)
EXTENDS FICSystem, IPAMControllerProofs

-----------------------------------------------------------------------------
(* Induction and recursion over the naturals.                              *)

LEMMA Induction ==
  ASSUME NEW S, 0 \in S, \A k \in Nat : k \in S => k + 1 \in S
  PROVE  Nat \subseteq S
<1>. SUFFICES ASSUME Nat \ S # {}
              PROVE  FALSE
  OBVIOUS
<1>. DEFINE G == Nat \ S
            n == Min(G)
<1>0. G \subseteq Nat /\ G # {}
  OBVIOUS
<1>1. n \in Nat \ S /\ \A y \in Nat \ S : n <= y
  <2>1. n \in G /\ \A y \in G : n <= y
    <3>. HIDE DEF G
    <3>. QED
      BY <1>0, MinIsMember
  <2>. QED
    BY <2>1
<1>. HIDE DEF n, G
<1>2. n # 0 /\ n - 1 \in Nat /\ ~(n <= n - 1)
  BY <1>1
<1>3. n - 1 \in S
  BY <1>1, <1>2
<1>4. (n - 1) + 1 \in S
  BY <1>2, <1>3
<1>. QED
  BY <1>1, <1>4

\* f takes the step n times.
Iterates(f, T, a, step, n) ==
  f \in [0..n -> T] /\ f[0] = a /\ \A k \in 1..n : f[k] = step[<<k, f[k-1]>>]

LEMMA Recursion ==
  ASSUME NEW T, NEW a \in T, NEW step \in [Nat \X T -> T], NEW n \in Nat
  PROVE  \E f : Iterates(f, T, a, step, n)
<1>. DEFINE S == {m \in Nat : \E f : Iterates(f, T, a, step, m)}
<1>1. 0 \in S
  <2>. DEFINE f == [k \in 0..0 |-> a]
  <2>1. Iterates(f, T, a, step, 0)
    BY DEF Iterates
  <2>. QED
    BY <2>1
<1>2. ASSUME NEW m \in Nat, m \in S
      PROVE  m + 1 \in S
  <2>1. PICK f : Iterates(f, T, a, step, m)
    BY <1>2
  <2>. DEFINE v == step[<<m+1, f[m]>>]
              g == [k \in 0..m+1 |-> IF k = m+1 THEN v ELSE f[k]]
  <2>2. v \in T
    BY <2>1 DEF Iterates
  <2>3. g \in [0..m+1 -> T]
    BY <2>1, <2>2 DEF Iterates
  <2>4. \A k \in 0..m : g[k] = f[k]
    OBVIOUS
  <2>5. g[m+1] = v /\ g[m] = f[m]
    OBVIOUS
  <2>. HIDE DEF g
  <2>6. ASSUME NEW k \in 1..m+1
        PROVE  g[k] = step[<<k, g[k-1]>>]
    <3>1. CASE k = m+1
      <4>1. k - 1 = m
        BY <3>1
      <4>. QED
        BY <2>5, <3>1, <4>1
    <3>2. CASE k \in 1..m
      BY <2>1, <2>4, <3>2 DEF Iterates
    <3>. QED
      BY <3>1, <3>2
  <2>7. Iterates(g, T, a, step, m+1)
    BY <2>1, <2>3, <2>4, <2>6 DEF Iterates
  <2>. QED
    BY <2>7
<1>3. n \in S
  <2>. HIDE DEF S
  <2>. QED
    BY <1>1, <1>2, Induction
<1>. QED
  BY <1>3

-----------------------------------------------------------------------------
(* Sequences.                                                              *)

LEMMA InsertAtType ==
  ASSUME NEW S, NEW s \in Seq(S), NEW e \in S, NEW i \in 1..Len(s) + 1
  PROVE  InsertAt(s, i, e) \in Seq(S)
<1>1. SubSeq(s, 1, i - 1) \in Seq(S) /\ SubSeq(s, i, Len(s)) \in Seq(S)
  OBVIOUS
<1>2. <<e>> \in Seq(S)
  OBVIOUS
<1>. QED
  BY <1>1, <1>2 DEF InsertAt

LEMMA RemoveAtType ==
  ASSUME NEW S, NEW s \in Seq(S), NEW i \in DOMAIN s
  PROVE  RemoveAt(s, i) \in Seq(S)
<1>1. SubSeq(s, 1, i - 1) \in Seq(S) /\ SubSeq(s, i + 1, Len(s)) \in Seq(S)
  OBVIOUS
<1>. QED
  BY <1>1 DEF RemoveAt

\* A function over the positions of a sequence is a sequence.
LEMMA MapType ==
  ASSUME NEW S, NEW T, NEW s \in Seq(S), NEW f, DOMAIN f = DOMAIN s,
         \A i \in DOMAIN s : f[i] \in T, f = [i \in DOMAIN s |-> f[i]]
  PROVE  f \in Seq(T)
<1>1. Len(s) \in Nat /\ DOMAIN s = 1..Len(s)
  OBVIOUS
<1>2. f \in [1..Len(s) -> T]
  BY <1>1
<1>. QED
  BY <1>1, <1>2

LEMMA ElementType ==
  ASSUME NEW S, NEW s \in Seq(S), NEW i \in DOMAIN s
  PROVE  s[i] \in S
OBVIOUS

LEMMA HeadTailType ==
  ASSUME NEW S, NEW s \in Seq(S), s # <<>>
  PROVE  Head(s) \in S /\ Tail(s) \in Seq(S)
OBVIOUS

LEMMA ToSetType ==
  ASSUME NEW S, NEW s \in Seq(S)
  PROVE  ToSet(s) \subseteq S
BY DEF ToSet

LEMMA JoinedElements ==
  ASSUME NEW S, NEW a \in Seq(S), NEW b \in Seq(S)
  PROVE  /\ a \o b \in Seq(S) /\ Len(a \o b) = Len(a) + Len(b)
         /\ \A i \in 1..Len(a) + Len(b) :
              (a \o b)[i] = IF i <= Len(a) THEN a[i] ELSE b[i - Len(a)]
OBVIOUS

LEMMA EmptyJoin ==
  ASSUME NEW S, NEW t \in Seq(S)
  PROVE  <<>> \o t = t
OBVIOUS

LEMMA ConsElements ==
  ASSUME NEW S, NEW x \in S, NEW t \in Seq(S)
  PROVE  /\ DOMAIN (<<x>> \o t) = 1..Len(t) + 1
         /\ (<<x>> \o t)[1] = x
         /\ \A i \in 1..Len(t) : (<<x>> \o t)[i + 1] = t[i]
OBVIOUS

LEMMA InsertParts ==
  ASSUME NEW q, NEW e, NEW k \in Nat, NEW m, m = k + 1
  PROVE  InsertAt(q, m, e) = SubSeq(q, 1, k) \o <<e>> \o SubSeq(q, m, Len(q))
<1>1. m - 1 = k
  OBVIOUS
<1>. QED
  BY <1>1, Zenon DEF InsertAt

LEMMA InsertedElements ==
  ASSUME NEW S, NEW q \in Seq(S), NEW e \in S, NEW k \in DOMAIN q
  PROVE  /\ Len(InsertAt(q, k + 1, e)) = Len(q) + 1
         /\ \A i \in 1..Len(q) + 1 :
              InsertAt(q, k + 1, e)[i] =
                IF i <= k THEN q[i] ELSE IF i = k + 1 THEN e ELSE q[i - 1]
<1>. DEFINE a == SubSeq(q, 1, k)
            b == SubSeq(q, k + 1, Len(q))
<1>0. k \in Nat /\ Len(q) \in Nat
  OBVIOUS
<1>1. InsertAt(q, k + 1, e) = a \o <<e>> \o b
  BY <1>0, InsertParts
<1>2. /\ a \in Seq(S) /\ Len(a) = k /\ \A i \in 1..k : a[i] = q[i]
      /\ b \in Seq(S) /\ Len(b) = Len(q) - k
      /\ \A i \in 1..Len(q) - k : b[i] = q[k + i]
  OBVIOUS
<1>. HIDE DEF a, b
<1>. DEFINE d == a \o <<e>>
<1>4. d \in Seq(S) /\ Len(d) = k + 1
      /\ \A i \in 1..k + 1 : d[i] = IF i <= k THEN q[i] ELSE e
  BY <1>2
<1>. HIDE DEF d
<1>5. /\ Len(d \o b) = Len(d) + Len(b)
      /\ \A i \in 1..Len(d) + Len(b) :
           (d \o b)[i] = IF i <= Len(d) THEN d[i] ELSE b[i - Len(d)]
  BY <1>2, <1>4, JoinedElements
<1>6. Len(d) + Len(b) = Len(q) + 1
  BY <1>2, <1>4
<1>7. ASSUME NEW i \in 1..Len(q) + 1
      PROVE  (d \o b)[i] = IF i <= k THEN q[i] ELSE IF i = k + 1 THEN e ELSE q[i - 1]
  <2>1. CASE i <= k + 1
    <3>1. i \in 1..k + 1 /\ i \in 1..Len(d) + Len(b)
      BY <1>6, <2>1
    <3>. QED
      BY <1>4, <1>5, <2>1, <3>1
  <2>2. CASE i > k + 1
    <3>1. i - (k + 1) \in 1..Len(q) - k /\ k + (i - (k + 1)) = i - 1
      BY <2>2
    <3>2. b[i - (k + 1)] = q[i - 1]
      BY <1>2, <3>1
    <3>3. (d \o b)[i] = b[i - (k + 1)]
      BY <1>4, <1>5, <1>6, <2>2
    <3>. QED
      BY <2>2, <3>2, <3>3
  <2>3. i <= k + 1 \/ i > k + 1
    BY <1>0
  <2>. QED
    BY <2>1, <2>2, <2>3
<1>8. InsertAt(q, k + 1, e) = d \o b
  BY <1>1 DEF d
<1>. QED
  BY <1>5, <1>6, <1>7, <1>8

-----------------------------------------------------------------------------
(* What processResource makes of an event.                                 *)

Wish == {req \in Request : AskedFor(req)}
Batch == (SUBSET Wish) \ {{}}

\* What users ask for are host specs, and what is published are entries for them.
LEMMA AskedFacts ==
  /\ Asked \subseteq HostSpec
  /\ \A c \in CR : SpecChoice[c] \subseteq Seq(Asked)
<1>1. ASSUME NEW c \in CR, NEW spec \in SpecChoice[c]
      PROVE  spec \in Seq(HostSpec) /\ ToSet(spec) \subseteq Asked
  <2>1. spec \in Seq(HostSpec)
    BY SystemAssumption
  <2>2. ToSet(spec) \subseteq Asked
    BY DEF Asked
  <2>. QED
    BY <2>1, <2>2
<1>2. Asked \subseteq HostSpec
  <2>1. ASSUME NEW s \in Asked PROVE s \in HostSpec
    <3>1. PICK c \in CR : \E spec \in SpecChoice[c] : s \in ToSet(spec)
      BY DEF Asked
    <3>. QED
      BY <1>1, <3>1, ToSetType
  <2>. QED
    BY <2>1
<1>3. ASSUME NEW c \in CR, NEW spec \in SpecChoice[c]
      PROVE  spec \in Seq(Asked)
  <2>1. spec \in Seq(HostSpec) /\ \A i \in DOMAIN spec : spec[i] \in Asked
    BY <1>1, <1>3 DEF ToSet
  <2>2. Len(spec) \in Nat /\ DOMAIN spec = 1..Len(spec) /\ spec = [i \in 1..Len(spec) |-> spec[i]]
    BY <2>1
  <2>. QED
    BY <2>1, <2>2
<1>. QED
  BY <1>2, <1>3

LEMMA IPSpecFacts ==
  /\ \A s \in IPSpec : /\ s.host \in Host /\ s.cidr \in Cidr /\ s.ip \in IP
                       /\ [host |-> s.host, cidr |-> s.cidr] \in Asked
                       /\ s = [host |-> s.host, cidr |-> s.cidr, ip |-> s.ip]
  /\ \A h, c, ip : [host |-> h, cidr |-> c] \in Asked /\ ip \in IP
                   => [host |-> h, cidr |-> c, ip |-> ip] \in IPSpec
<1>1. ASSUME NEW s \in IPSpec
      PROVE  /\ s.host \in Host /\ s.cidr \in Cidr /\ s.ip \in IP
             /\ [host |-> s.host, cidr |-> s.cidr] \in Asked
             /\ s = [host |-> s.host, cidr |-> s.cidr, ip |-> s.ip]
  <2>1. PICK t \in Asked, ip \in IP : s = [host |-> t.host, cidr |-> t.cidr, ip |-> ip]
    BY DEF IPSpec
  <2>2. t.host \in Host /\ t.cidr \in Cidr /\ t = [host |-> t.host, cidr |-> t.cidr]
    BY AskedFacts DEF HostSpec
  <2>. QED
    BY <2>1, <2>2
<1>2. ASSUME NEW h, NEW c, NEW ip, [host |-> h, cidr |-> c] \in Asked, ip \in IP
      PROVE  [host |-> h, cidr |-> c, ip |-> ip] \in IPSpec
  <2>. DEFINE t == [host |-> h, cidr |-> c]
  <2>1. t.host = h /\ t.cidr = c /\ t \in Asked
    BY <1>2
  <2>. HIDE DEF t
  <2>. QED
    BY <1>2, <2>1 DEF IPSpec
<1>. QED
  BY <1>1, <1>2

LEMMA StatusRequestsType ==
  ASSUME NEW e \in Event, NEW op \in {CREATE, DELETE}
  PROVE  StatusRequests(e, op) \in Seq(Batch)
<1>1. e.status \in Seq(IPSpec) /\ e.cr \in CR
  BY DEF Event
<1>2. ASSUME NEW i \in DOMAIN e.status
      PROVE  {StatusRequest(e.cr, e.status[i], op)} \in Batch
  <2>1. e.status[i] \in IPSpec
    BY <1>1, ElementType
  <2>2. StatusRequest(e.cr, e.status[i], op) \in Wish
    BY <1>1, <2>1, IPSpecFacts DEF StatusRequest, Request, Wish, AskedFor
  <2>. QED
    BY <2>2 DEF Batch
<1>. HIDE DEF Batch
<1>. QED
  BY <1>1, <1>2, MapType DEF StatusRequests

LEMMA SpecRequestType ==
  ASSUME NEW c \in CR, NEW s \in Asked, NEW op \in {CREATE, DELETE}
  PROVE  SpecRequest(c, s, op) \in Wish
<1>1. s.host \in Host /\ s.cidr \in Cidr /\ s = [host |-> s.host, cidr |-> s.cidr]
  BY AskedFacts DEF HostSpec
<1>. QED
  BY <1>1 DEF SpecRequest, Request, Wish, AskedFor

LEMMA SpecRequestsType ==
  ASSUME NEW e \in Event
  PROVE  SpecRequests(e) \in Seq(Batch)
<1>1. e.spec \in Seq(Asked) /\ e.cr \in CR
  BY DEF Event
<1>2. ASSUME NEW i \in DOMAIN e.spec
      PROVE  {SpecRequest(e.cr, e.spec[i], CREATE)} \in Batch
  <2>1. e.spec[i] \in Asked
    BY <1>1, ElementType
  <2>. QED
    BY <1>1, <2>1, SpecRequestType DEF Batch
<1>. HIDE DEF Batch
<1>. QED
  BY <1>1, <1>2, MapType DEF SpecRequests

LEMMA LoopType ==
  ASSUME NEW S \in SUBSET Wish
  PROVE  Loop(S) \in Seq(Batch)
<1>1. S # {} => S \in Batch
  BY DEF Batch
<1>. HIDE DEF Batch
<1>. QED
  BY <1>1 DEF Loop

LEMMA SpecDiffType ==
  ASSUME NEW e \in Event, NEW from \in Seq(Asked), NEW to, NEW op \in {CREATE, DELETE}
  PROVE  SpecDiff(e, from, to, op) \in SUBSET Wish
<1>1. e.cr \in CR
  BY DEF Event
<1>2. ToSet(from) \subseteq Asked
  BY ToSetType
<1>. QED
  BY <1>1, <1>2, SpecRequestType DEF SpecDiff

LEMMA EventRequestsType ==
  ASSUME NEW e \in Event
  PROVE  /\ CreateRequests(e) \in Seq(Batch)
         /\ StatusRequests(e, DELETE) \in Seq(Batch)
         /\ UpdateRequests(e) \in Seq(Batch)
<1>1. CreateRequests(e) \in Seq(Batch)
  BY StatusRequestsType, SpecRequestsType DEF CreateRequests
<1>2. StatusRequests(e, DELETE) \in Seq(Batch)
  BY StatusRequestsType
<1>3. UpdateRequests(e) \in Seq(Batch)
  <2>1. e.old \in Seq(Asked) /\ e.spec \in Seq(Asked)
    BY DEF Event
  <2>2. /\ Loop(SpecDiff(e, e.old, e.spec, DELETE)) \in Seq(Batch)
        /\ Loop(SpecDiff(e, e.spec, e.old, CREATE)) \in Seq(Batch)
    BY <2>1, SpecDiffType, LoopType
  <2>. HIDE DEF Batch
  <2>. QED
    BY <2>2 DEF UpdateRequests
<1>. QED
  BY <1>1, <1>2, <1>3

\* A new resource: first what its Status restores, then what its Spec asks for.
LEMMA CreateElements ==
  ASSUME NEW e \in Event
  PROVE  /\ CreateRequests(e) \in Seq(Batch)
         /\ e.status \in Seq(IPSpec) /\ e.spec \in Seq(Asked)
         /\ DOMAIN CreateRequests(e) = 1..Len(e.status) + Len(e.spec)
         /\ \A i \in 1..Len(e.status) + Len(e.spec) :
              CreateRequests(e)[i] =
                IF i <= Len(e.status)
                THEN {StatusRequest(e.cr, e.status[i], CREATE)}
                ELSE {SpecRequest(e.cr, e.spec[i - Len(e.status)], CREATE)}
<1>. DEFINE a == StatusRequests(e, CREATE)
            b == SpecRequests(e)
            n == Len(e.status)
            m == Len(e.spec)
<1>1. e.status \in Seq(IPSpec) /\ e.spec \in Seq(Asked)
  BY DEF Event
<1>2. n \in Nat /\ m \in Nat /\ DOMAIN e.status = 1..n /\ DOMAIN e.spec = 1..m
  BY <1>1
<1>3. a \in Seq(Batch) /\ b \in Seq(Batch)
  BY StatusRequestsType, SpecRequestsType
<1>. HIDE DEF n, m
<1>4. /\ DOMAIN a = 1..n /\ \A i \in 1..n : a[i] = {StatusRequest(e.cr, e.status[i], CREATE)}
      /\ DOMAIN b = 1..m /\ \A i \in 1..m : b[i] = {SpecRequest(e.cr, e.spec[i], CREATE)}
  BY <1>2 DEF StatusRequests, SpecRequests
<1>. HIDE DEF a, b, Batch
<1>5. Len(a) = n /\ Len(b) = m
  BY <1>2, <1>3, <1>4
<1>6. /\ a \o b \in Seq(Batch) /\ Len(a \o b) = n + m
      /\ \A i \in 1..n + m : (a \o b)[i] = IF i <= n THEN a[i] ELSE b[i - n]
  BY <1>3, <1>5, JoinedElements
<1>7. ASSUME NEW i \in 1..n + m
      PROVE  (a \o b)[i] = IF i <= n THEN {StatusRequest(e.cr, e.status[i], CREATE)}
                            ELSE {SpecRequest(e.cr, e.spec[i - n], CREATE)}
  <2>1. i <= n => i \in 1..n
    BY <1>2
  <2>2. ~(i <= n) => i - n \in 1..m
    BY <1>2
  <2>. QED
    BY <1>4, <1>6, <2>1, <2>2
<1>8. DOMAIN (a \o b) = 1..n + m
  BY <1>2, <1>6
<1>9. CreateRequests(e) = a \o b
  BY DEF CreateRequests, a, b
<1>. QED
  BY <1>1, <1>6, <1>7, <1>8, <1>9 DEF n, m

\* A grown resource: only additions.
LEMMA UpdateElements ==
  ASSUME NEW e \in Event, ToSet(e.old) \subseteq ToSet(e.spec)
  PROVE  \A i \in DOMAIN UpdateRequests(e) : \A r \in UpdateRequests(e)[i] :
           r.op = CREATE /\ r.ip = NoIP
<1>. DEFINE S == SpecDiff(e, e.spec, e.old, CREATE)
<1>1. SpecDiff(e, e.old, e.spec, DELETE) = {}
  BY DEF SpecDiff
<1>2. \A r \in S : r.op = CREATE /\ r.ip = NoIP
  BY DEF SpecDiff, SpecRequest
<1>3. S \subseteq Wish
  BY SpecDiffType DEF Event
<1>4. UpdateRequests(e) = <<>> \o Loop(S)
  BY <1>1 DEF UpdateRequests, Loop
<1>. HIDE DEF S
<1>5. <<>> \o Loop(S) = Loop(S)
  <2>1. Loop(S) \in Seq(Batch)
    BY <1>3, LoopType
  <2>. HIDE DEF Batch
  <2>. QED
    BY <2>1
<1>6. \A i \in DOMAIN Loop(S) : Loop(S)[i] = S
  BY DEF Loop
<1>. QED
  BY <1>2, <1>4, <1>5, <1>6

\* The request that is sent goes; all others stay in their order.
LEMMA SentTodo ==
  ASSUME todo \in Seq(Batch), todo # <<>>, NEW req \in Head(todo),
         todo' = Loop(Head(todo) \ {req}) \o Tail(todo)
  PROVE  \E d \in {0, 1} :
           /\ \A i \in DOMAIN todo' :
                /\ i \in Nat /\ i + d \in DOMAIN todo
                /\ todo'[i] \subseteq todo[i + d]
                /\ i + d = 1 => req \notin todo'[i]
           /\ \A i \in DOMAIN todo : \A r \in todo[i] :
                (i = 1 /\ r = req) \/ \E j \in DOMAIN todo' : r \in todo'[j]
<1>. DEFINE rest == Head(todo) \ {req}
            n == Len(todo)
            tail == Tail(todo)
<1>1. /\ n \in Nat /\ n >= 1 /\ DOMAIN todo = 1..n /\ Head(todo) = todo[1]
      /\ tail \in Seq(Batch) /\ Len(tail) = n - 1 /\ DOMAIN tail = 1..n - 1
      /\ \A i \in 1..n - 1 : tail[i] = todo[i + 1]
  <2>. HIDE DEF Batch
  <2>. QED
    OBVIOUS
<1>0. todo' = Loop(rest) \o tail
  OBVIOUS
<1>. HIDE DEF n, tail
<1>2. CASE rest = {}
  <2>1. todo' = tail
    <3>1. todo' = <<>> \o tail
      BY <1>0, <1>2 DEF Loop
    <3>2. <<>> \o tail = tail
      BY <1>1, EmptyJoin, Zenon
    <3>. QED
      BY <3>1, <3>2, Zenon
  <2>2. DOMAIN todo' = 1..n - 1 /\ \A i \in 1..n - 1 : todo'[i] = todo[i + 1]
    <3>. HIDE DEF Batch
    <3>. QED
      BY <1>1, <2>1
  <2>3. \A r \in todo[1] : r = req
    BY <1>1, <1>2
  <2>4. ASSUME NEW i \in 1..n, NEW r \in todo[i]
        PROVE  (i = 1 /\ r = req) \/ \E j \in 1..n - 1 : r \in todo'[j]
    <3>1. CASE i = 1
      BY <2>3, <3>1
    <3>2. CASE i # 1
      <4>1. i - 1 \in 1..n - 1 /\ i - 1 + 1 = i
        BY <1>1, <3>2
      <4>. QED
        BY <2>2, <2>4, <4>1
    <3>. QED
      BY <3>1, <3>2
  <2>5. \A i \in 1..n - 1 : i \in Nat /\ i + 1 \in 1..n /\ i + 1 # 1
    BY <1>1
  <2>. QED
    BY <1>1, <2>2, <2>4, <2>5
<1>3. CASE rest # {}
  <2>1. todo' = <<rest>> \o tail
    BY <1>0, <1>3 DEF Loop
  <2>2. rest \in Batch
    <3>1. Head(todo) \in Batch
      BY HeadTailType
    <3>. QED
      BY <1>3, <3>1 DEF Batch
  <2>3. /\ DOMAIN todo' = 1..n
        /\ todo'[1] = rest
        /\ \A i \in 1..n : i # 1 => todo'[i] = todo[i]
    <3>. DEFINE u == <<rest>> \o tail
    <3>1. /\ DOMAIN u = 1..Len(tail) + 1 /\ u[1] = rest
          /\ \A i \in 1..Len(tail) : u[i + 1] = tail[i]
      BY <1>1, <2>2, ConsElements
    <3>. HIDE DEF u, rest, Batch
    <3>2. Len(tail) = n - 1 /\ n - 1 + 1 = n
      BY <1>1
    <3>3. ASSUME NEW i \in 1..n, i # 1
          PROVE  u[i] = todo[i]
      <4>1. i - 1 \in 1..n - 1 /\ i - 1 + 1 = i
        BY <1>1, <3>3
      <4>2. u[i - 1 + 1] = tail[i - 1] /\ tail[i - 1] = todo[i - 1 + 1]
        BY <1>1, <3>1, <3>2, <4>1
      <4>. QED
        BY <4>1, <4>2
    <3>4. todo' = u
      BY <2>1 DEF u
    <3>. QED
      BY <3>1, <3>2, <3>3, <3>4
  <2>4. \A i \in 1..n : i \in Nat /\ i + 0 = i
    BY <1>1
  <2>5. ASSUME NEW i \in 1..n
        PROVE  todo'[i] \subseteq todo[i + 0] /\ (i + 0 = 1 => req \notin todo'[i])
    BY <1>1, <2>3, <2>4
  <2>6. ASSUME NEW i \in 1..n, NEW r \in todo[i]
        PROVE  (i = 1 /\ r = req) \/ \E j \in 1..n : r \in todo'[j]
    BY <1>1, <2>3, <2>6
  <2>7. \A i \in DOMAIN todo' :
          /\ i \in Nat /\ i + 0 \in DOMAIN todo
          /\ todo'[i] \subseteq todo[i + 0]
          /\ i + 0 = 1 => req \notin todo'[i]
    <3>1. DOMAIN todo' = 1..n /\ DOMAIN todo = 1..n
      BY <1>1, <2>3
    <3>. QED
      BY <2>4, <2>5, <3>1
  <2>8. \A i \in DOMAIN todo : \A r \in todo[i] :
          (i = 1 /\ r = req) \/ \E j \in DOMAIN todo' : r \in todo'[j]
    BY <1>1, <2>3, <2>6
  <2>. QED
    BY <2>7, <2>8, Zenon
<1>. QED
  BY <1>2, <1>3

-----------------------------------------------------------------------------
(* What the informer makes of the resources.                               *)

LEMMA EventTypes ==
  ASSUME NEW c \in CR, NEW old \in Seq(Asked), NEW spec \in Seq(Asked),
         NEW st \in Seq(IPSpec)
  PROVE  /\ CreateEvent(c, spec, st) \in Event
         /\ UpdateEvent(c, old, spec) \in Event
         /\ DeleteEvent(c, st) \in Event
         /\ Tombstone(c) \in Event
BY DEF CreateEvent, UpdateEvent, DeleteEvent, Tombstone, Event

\* x is in the sequence once at most.
Once(q, x) == \A i, j \in DOMAIN q : q[i] = x /\ q[j] = x => i = j

\* r is q with e somewhere in it, and in front only when q is empty.
LEMMA EnqueuedPlace ==
  ASSUME NEW q \in Seq(Event), NEW e \in Event, NEW r \in Enqueued(q, e)
  PROVE  \E k \in 1..Len(q) + 1 :
           /\ r \in Seq(Event) /\ Len(r) = Len(q) + 1 /\ (k = 1 => q = <<>>)
           /\ \A i \in 1..Len(q) + 1 :
                r[i] = IF i < k THEN q[i] ELSE IF i = k THEN e ELSE q[i - 1]
<1>1. CASE r = Append(q, e)
  <2>. DEFINE n == Len(q)
  <2>1. /\ n \in Nat /\ r \in Seq(Event) /\ Len(r) = n + 1
        /\ \A i \in 1..n : r[i] = q[i]
        /\ r[n + 1] = e
        /\ (n = 0 => q = <<>>)
    BY <1>1
  <2>. HIDE DEF n
  <2>2. n + 1 \in 1..n + 1 /\ (n + 1 = 1 => q = <<>>)
    BY <2>1
  <2>3. ASSUME NEW i \in 1..n + 1
        PROVE  r[i] = IF i < n + 1 THEN q[i] ELSE IF i = n + 1 THEN e ELSE q[i - 1]
    <3>1. CASE i < n + 1
      <4>1. i \in 1..n
        BY <2>1, <3>1
      <4>. QED
        BY <2>1, <3>1, <4>1
    <3>2. CASE i = n + 1
      BY <2>1, <3>2
    <3>. QED
      BY <2>1, <3>1, <3>2
  <2>. QED
    BY <2>1, <2>2, <2>3 DEF n
<1>2. ASSUME NEW m \in DOMAIN q, r = InsertAt(q, m + 1, e)
      PROVE  \E k \in 1..Len(q) + 1 :
               /\ r \in Seq(Event) /\ Len(r) = Len(q) + 1 /\ (k = 1 => q = <<>>)
               /\ \A i \in 1..Len(q) + 1 :
                    r[i] = IF i < k THEN q[i] ELSE IF i = k THEN e ELSE q[i - 1]
  <2>1. m + 1 \in 1..Len(q) + 1 /\ m \in Nat /\ m + 1 # 1 /\ Len(q) \in Nat
    OBVIOUS
  <2>2. r \in Seq(Event)
    BY <1>2, <2>1, InsertAtType
  <2>3. /\ Len(r) = Len(q) + 1
        /\ \A i \in 1..Len(q) + 1 :
             r[i] = IF i <= m THEN q[i] ELSE IF i = m + 1 THEN e ELSE q[i - 1]
    BY <1>2, InsertedElements
  <2>4. \A i \in 1..Len(q) + 1 : i <= m <=> i < m + 1
    BY <2>1
  <2>. QED
    BY <2>1, <2>2, <2>3, <2>4
<1>. QED
  BY <1>1, <1>2 DEF Enqueued

\* A new event comes somewhere behind the first.
LEMMA EnqueuedElements ==
  ASSUME NEW q \in Seq(Event), NEW e \in Event, NEW r \in Enqueued(q, e)
  PROVE  /\ r \in Seq(Event)
         /\ \A i \in DOMAIN r :
              \/ r[i] = e
              \/ \E j \in DOMAIN q : r[i] = q[j] /\ (j = 1 => i = 1)
         /\ \A j \in DOMAIN q : \E i \in DOMAIN r : r[i] = q[j]
         /\ \E i \in DOMAIN r : r[i] = e
         /\ \A x : x # e /\ Once(q, x) => Once(r, x)
         /\ (\A j \in DOMAIN q : q[j] # e) => Once(r, e)
<1>. DEFINE n == Len(q)
<1>1. PICK k \in 1..n + 1 :
        /\ r \in Seq(Event) /\ Len(r) = n + 1 /\ (k = 1 => q = <<>>)
        /\ \A i \in 1..n + 1 : r[i] = IF i < k THEN q[i] ELSE IF i = k THEN e ELSE q[i - 1]
  BY EnqueuedPlace
<1>2. n \in Nat /\ DOMAIN q = 1..n /\ DOMAIN r = 1..n + 1 /\ (q = <<>> => n = 0)
  BY <1>1
<1>. HIDE DEF n
<1>. DEFINE from == [i \in 1..n + 1 |-> IF i < k THEN i ELSE i - 1]
<1>3. ASSUME NEW i \in 1..n + 1, i # k
      PROVE  /\ from[i] \in 1..n /\ r[i] = q[from[i]]
             /\ (from[i] = 1 => i = 1)
             /\ from[i] = IF i < k THEN i ELSE i - 1
  <2>1. CASE i < k
    BY <1>1, <1>2, <1>3, <2>1
  <2>2. CASE i > k
    <3>1. i - 1 \in 1..n /\ from[i] = i - 1 /\ r[i] = q[i - 1]
      BY <1>1, <1>2, <2>2
    <3>2. i - 1 = 1 => k = 1
      BY <1>2, <2>2
    <3>. QED
      BY <1>1, <1>2, <2>2, <3>1, <3>2
  <2>. QED
    BY <1>2, <1>3, <2>1, <2>2
<1>4. \A i, j \in 1..n + 1 : i # k /\ j # k /\ from[i] = from[j] => i = j
  <2>1. ASSUME NEW i \in 1..n + 1, NEW j \in 1..n + 1, i # k, j # k, from[i] = from[j]
        PROVE  i = j
    <3>. DEFINE u == from[i]
    <3>1. /\ u = IF i < k THEN i ELSE i - 1
          /\ u = IF j < k THEN j ELSE j - 1
      BY <1>3, <2>1
    <3>. HIDE DEF u, from
    <3>2. CASE i < k /\ j < k
      BY <3>1, <3>2
    <3>3. CASE i > k /\ j > k
      BY <1>2, <3>1, <3>3
    <3>4. CASE i < k /\ j > k
      BY <1>2, <3>1, <3>4
    <3>5. CASE i > k /\ j < k
      BY <1>2, <3>1, <3>5
    <3>. QED
      BY <1>2, <2>1, <3>2, <3>3, <3>4, <3>5
  <2>. QED
    BY <2>1
<1>. HIDE DEF from
<1>5. r[k] = e
  BY <1>1
<1>6. ASSUME NEW j \in 1..n
      PROVE  \E i \in 1..n + 1 : r[i] = q[j]
  <2>1. CASE j < k
    <3>1. j \in 1..n + 1 /\ r[j] = q[j]
      BY <1>1, <1>2, <2>1
    <3>. QED
      BY <3>1
  <2>2. CASE j >= k
    <3>1. j + 1 \in 1..n + 1 /\ ~(j + 1 < k) /\ j + 1 # k /\ (j + 1) - 1 = j
      BY <1>2, <2>2
    <3>2. r[j + 1] = q[j]
      BY <1>1, <3>1
    <3>. QED
      BY <3>1, <3>2
  <2>. QED
    BY <1>2, <2>1, <2>2
<1>7. ASSUME NEW x, x # e, Once(q, x)
      PROVE  Once(r, x)
  <2>1. ASSUME NEW i \in 1..n + 1, NEW j \in 1..n + 1, r[i] = x, r[j] = x
        PROVE  i = j
    <3>1. i # k /\ j # k
      BY <1>5, <1>7, <2>1
    <3>2. /\ from[i] \in 1..n /\ q[from[i]] = x
          /\ from[j] \in 1..n /\ q[from[j]] = x
      BY <1>3, <2>1, <3>1
    <3>3. from[i] = from[j]
      BY <1>2, <1>7, <3>2 DEF Once
    <3>. QED
      BY <1>4, <3>1, <3>3
  <2>. QED
    BY <1>2, <2>1 DEF Once
<1>8. ASSUME \A j \in 1..n : q[j] # e
      PROVE  Once(r, e)
  <2>1. \A i \in 1..n + 1 : r[i] = e => i = k
    BY <1>3, <1>8
  <2>. QED
    BY <1>2, <2>1 DEF Once
<1>9. \A i \in 1..n + 1 : r[i] = e \/ \E j \in 1..n : r[i] = q[j] /\ (j = 1 => i = 1)
  BY <1>3, <1>5
<1>. QED
  BY <1>1, <1>2, <1>5, <1>6, <1>7, <1>8, <1>9

LEMMA NotifyType ==
  ASSUME rscQueue \in Seq(Event), NEW e \in Event, Notify(e)
  PROVE  rscQueue' \in Seq(Event)
BY EnqueuedElements DEF Notify

LEMMA QueueGains ==
  ASSUME rscQueue \in Seq(Event), NEW e \in Event, Notify(e)
  PROVE  /\ \A i \in DOMAIN rscQueue' :
              \/ rscQueue'[i] = e
              \/ \E j \in DOMAIN rscQueue : rscQueue'[i] = rscQueue[j] /\ (j = 1 => i = 1)
         /\ \A j \in DOMAIN rscQueue : \E i \in DOMAIN rscQueue' : rscQueue'[i] = rscQueue[j]
         /\ up /\ Watching => \E i \in DOMAIN rscQueue' : rscQueue'[i] = e
<1>1. CASE up /\ Watching
  <2>1. rscQueue' \in Enqueued(rscQueue, e)
    BY <1>1 DEF Notify
  <2>. QED
    BY <2>1, EnqueuedElements
<1>2. CASE ~(up /\ Watching)
  <2>1. rscQueue' = rscQueue
    BY <1>2 DEF Notify
  <2>. QED
    BY <1>2, <2>1
<1>. QED
  BY <1>1, <1>2

\* A list of the resources in some set.
LEMMA ListType ==
  ASSUME NEW S \in SUBSET CR
  PROVE  ListOrder[S] \in Seq(CR)
BY SystemAssumption

LEMMA StartEventsType ==
  ASSUME f5ipam \in [CR -> Resource], Start
  PROVE  rscQueue' \in Seq(Event)
<1>. DEFINE listed == ListOrder[{c \in CR : f5ipam[c].live}]
<1>1. listed \in Seq(CR)
  BY ListType
<1>2. ASSUME NEW i \in DOMAIN listed
      PROVE  CreateEvent(listed[i], f5ipam[listed[i]].spec, f5ipam[listed[i]].status) \in Event
  <2>1. listed[i] \in CR
    BY <1>1, ElementType
  <2>2. f5ipam[listed[i]].spec \in Seq(Asked) /\ f5ipam[listed[i]].status \in Seq(IPSpec)
    BY <2>1 DEF Resource
  <2>. QED
    BY <2>1, <2>2, EventTypes
<1>3. rscQueue' = [i \in DOMAIN listed |->
        CreateEvent(listed[i], f5ipam[listed[i]].spec, f5ipam[listed[i]].status)]
  BY DEF Start
<1>. HIDE DEF listed
<1>. QED
  BY <1>1, <1>2, <1>3, MapType

\* The first list: one CREATE event for each resource there is.
LEMMA StartElements ==
  ASSUME f5ipam \in [CR -> Resource], Start
  PROVE  /\ \A i \in DOMAIN rscQueue' : \E c \in CR :
              /\ f5ipam[c].live
              /\ rscQueue'[i] = CreateEvent(c, f5ipam[c].spec, f5ipam[c].status)
         /\ \A c \in CR : f5ipam[c].live =>
              \E i \in DOMAIN rscQueue' :
                rscQueue'[i] = CreateEvent(c, f5ipam[c].spec, f5ipam[c].status)
         /\ \A i, j \in DOMAIN rscQueue' : rscQueue'[i] = rscQueue'[j] => i = j
<1>. DEFINE listed == ListOrder[{c \in CR : f5ipam[c].live}]
<1>1. /\ listed \in Seq(CR) /\ ToSet(listed) = {c \in CR : f5ipam[c].live}
      /\ \A i, j \in DOMAIN listed : listed[i] = listed[j] => i = j
  BY SystemAssumption DEF IsInjective
<1>2. rscQueue' = [i \in DOMAIN listed |->
                     CreateEvent(listed[i], f5ipam[listed[i]].spec, f5ipam[listed[i]].status)]
  BY DEF Start
<1>. HIDE DEF listed
<1>3. \A i, j \in DOMAIN rscQueue' : rscQueue'[i] = rscQueue'[j] => i = j
  BY <1>1, <1>2 DEF CreateEvent
<1>. QED
  BY <1>1, <1>2, <1>3 DEF ToSet

\* What a list tells the informer of a resource that it finds.
ListedEvent(c) ==
  IF Head(stale)[c].live THEN UpdateEvent(c, Head(stale)[c].spec, f5ipam[c].spec)
  ELSE CreateEvent(c, f5ipam[c].spec, f5ipam[c].status)

\* One event after the other, each somewhere behind the first that was there.
LEMMA EnqueuedAllElements ==
  ASSUME NEW q \in Seq(Event), NEW events \in Seq(Event), NEW r \in EnqueuedAll(q, events)
  PROVE  /\ r \in Seq(Event)
         /\ \A i \in DOMAIN r :
              \/ \E m \in DOMAIN events : r[i] = events[m]
              \/ \E j \in DOMAIN q : r[i] = q[j] /\ (j = 1 => i = 1)
         /\ \A j \in DOMAIN q : \E i \in DOMAIN r : r[i] = q[j]
         /\ \A m \in DOMAIN events : \E i \in DOMAIN r : r[i] = events[m]
         /\ \A x : Once(q, x) /\ (\A m \in DOMAIN events : events[m] # x) => Once(r, x)
         /\ \A x : Once(events, x) /\ (\A j \in DOMAIN q : q[j] # x) => Once(r, x)
<1>. DEFINE L == Len(events)
            T == SUBSET Seq(Event)
            Next1(Q, e) == UNION {Enqueued(u, e) : u \in Q}
            step == [x \in Nat \X T |-> IF x[1] \in 1..L THEN Next1(x[2], events[x[1]]) ELSE {}]
            IsPlaced(u) == u = [n \in 0..L |-> IF n = 0 THEN {q} ELSE Next1(u[n - 1], events[n])]
            placed == CHOOSE u : IsPlaced(u)
<1>0. L \in Nat /\ DOMAIN events = 1..L /\ \A n \in 1..L : events[n] \in Event
  OBVIOUS
<1>1. \A Q \in T, e \in Event : Next1(Q, e) \in T
  <2>1. ASSUME NEW Q \in T, NEW e \in Event, NEW v \in Next1(Q, e)
        PROVE  v \in Seq(Event)
    <3>1. PICK u \in Q : v \in Enqueued(u, e)
      OBVIOUS
    <3>2. u \in Seq(Event)
      OBVIOUS
    <3>. QED
      BY <3>1, <3>2, EnqueuedElements
  <2>. QED
    BY <2>1
<1>2. {q} \in T /\ step \in [Nat \X T -> T]
  <2>1. {q} \in T
    OBVIOUS
  <2>2. ASSUME NEW x \in Nat \X T
        PROVE  (IF x[1] \in 1..L THEN Next1(x[2], events[x[1]]) ELSE {}) \in T
    <3>1. x[2] \in T /\ {} \in T
      OBVIOUS
    <3>. HIDE DEF T, L, Next1
    <3>. QED
      BY <1>0, <1>1, <3>1
  <2>. HIDE DEF T, L, Next1
  <2>. QED
    BY <2>1, <2>2
<1>3. PICK f : Iterates(f, T, {q}, step, L)
  <2>. HIDE DEF step, T, L
  <2>. QED
    BY <1>0, <1>2, Recursion
<1>4. /\ f \in [0..L -> T] /\ f[0] = {q}
      /\ \A n \in 1..L : f[n] = Next1(f[n - 1], events[n])
  <2>1. f \in [0..L -> T] /\ f[0] = {q} /\ \A n \in 1..L : f[n] = step[<<n, f[n - 1]>>]
    BY <1>3 DEF Iterates
  <2>2. ASSUME NEW n \in 1..L
        PROVE  f[n] = Next1(f[n - 1], events[n])
    <3>1. n \in Nat /\ n - 1 \in 0..L
      BY <1>0
    <3>2. f[n - 1] \in T
      <4>. HIDE DEF T, L, Next1, step
      <4>. QED
        BY <2>1, <3>1
    <3>3. <<n, f[n - 1]>> \in Nat \X T
      BY <3>1, <3>2
    <3>4. step[<<n, f[n - 1]>>] = Next1(f[n - 1], events[n])
      <4>. HIDE DEF T, L, Next1
      <4>. QED
        BY <3>3
    <3>. QED
      BY <2>1, <3>4
  <2>. QED
    BY <2>1, <2>2
<1>5. IsPlaced(placed)
  <2>1. IsPlaced(f)
    <3>1. \A n \in 0..L : f[n] = IF n = 0 THEN {q} ELSE Next1(f[n - 1], events[n])
      <4>1. \A n \in 0..L : n = 0 \/ n \in 1..L
        BY <1>0
      <4>. QED
        BY <1>4, <4>1
    <3>2. f = [n \in 0..L |-> f[n]]
      BY <1>4
    <3>. HIDE DEF L, Next1
    <3>. QED
      BY <3>1, <3>2, Zenon
  <2>. HIDE DEF IsPlaced
  <2>. QED
    BY <2>1
<1>6. EnqueuedAll(q, events) = placed[L]
  BY DEF EnqueuedAll
<1>. HIDE DEF placed, step
<1>. DEFINE Fits(n, v) ==
              /\ v \in Seq(Event)
              /\ \A i \in DOMAIN v :
                   \/ \E m \in 1..n : v[i] = events[m]
                   \/ \E j \in DOMAIN q : v[i] = q[j] /\ (j = 1 => i = 1)
              /\ \A j \in DOMAIN q : \E i \in DOMAIN v : v[i] = q[j]
              /\ \A m \in 1..n : \E i \in DOMAIN v : v[i] = events[m]
              /\ \A x : Once(q, x) /\ (\A m \in 1..n : events[m] # x) => Once(v, x)
              /\ \A x : Once(events, x) /\ (\A j \in DOMAIN q : q[j] # x) => Once(v, x)
            G == {n \in Nat : n \in 0..L => \A v \in placed[n] : Fits(n, v)}
<1>7. placed[0] = {q} /\ \A n \in 1..L : placed[n] = Next1(placed[n - 1], events[n])
  <2>. HIDE DEF Next1, L
  <2>1. \A n \in 0..L : placed[n] = IF n = 0 THEN {q} ELSE Next1(placed[n - 1], events[n])
    BY <1>5
  <2>2. 0 \in 0..L /\ \A n \in 1..L : n \in 0..L /\ n # 0
    BY <1>0
  <2>. QED
    BY <2>1, <2>2
<1>8. 0 \in G
  <2>1. Fits(0, q)
    BY DEF Once
  <2>. HIDE DEF Fits
  <2>. QED
    BY <1>7, <2>1
<1>9. ASSUME NEW k \in Nat, k \in G
      PROVE  k + 1 \in G
  <2>. SUFFICES ASSUME k + 1 \in 0..L, NEW v \in placed[k + 1]
                PROVE  Fits(k + 1, v)
    <3>. HIDE DEF T, L, Next1, Fits
    <3>. QED
      OBVIOUS
  <2>. DEFINE e == events[k + 1]
  <2>1. k + 1 \in 1..L /\ k \in 0..L /\ (k + 1) - 1 = k
    BY <1>0
  <2>2. PICK u \in placed[k] : v \in Enqueued(u, e)
    BY <1>7, <2>1
  <2>3. Fits(k, u)
    BY <1>9, <2>1
  <2>4. e \in Event /\ u \in Seq(Event)
    BY <1>0, <2>1, <2>3
  <2>. HIDE DEF e, L
  <2>5. /\ v \in Seq(Event)
        /\ \A i \in DOMAIN v : v[i] = e \/ \E j \in DOMAIN u : v[i] = u[j] /\ (j = 1 => i = 1)
        /\ \A j \in DOMAIN u : \E i \in DOMAIN v : v[i] = u[j]
        /\ \E i \in DOMAIN v : v[i] = e
        /\ \A x : x # e /\ Once(u, x) => Once(v, x)
        /\ (\A j \in DOMAIN u : u[j] # e) => Once(v, e)
    BY <2>2, <2>4, EnqueuedElements
  <2>6. e = events[k + 1] /\ \A m \in 1..k + 1 : m \in 1..k \/ m = k + 1
    BY <1>0 DEF e
  <2>7. \A m \in 1..k : m \in 1..k + 1
    OBVIOUS
  <2>8. k + 1 \in 1..k + 1
    OBVIOUS
  <2>9. ASSUME NEW i \in DOMAIN v
        PROVE  \/ \E m \in 1..k + 1 : v[i] = events[m]
               \/ \E j \in DOMAIN q : v[i] = q[j] /\ (j = 1 => i = 1)
    <3>1. CASE v[i] = e
      BY <2>6, <2>8, <3>1
    <3>2. ASSUME NEW j \in DOMAIN u, v[i] = u[j], j = 1 => i = 1
          PROVE  \/ \E m \in 1..k + 1 : v[i] = events[m]
                 \/ \E l \in DOMAIN q : v[i] = q[l] /\ (l = 1 => i = 1)
      <4>1. \/ \E m \in 1..k : u[j] = events[m]
            \/ \E l \in DOMAIN q : u[j] = q[l] /\ (l = 1 => j = 1)
        BY <2>3
      <4>. QED
        BY <2>7, <3>2, <4>1
    <3>. QED
      BY <2>5, <3>1, <3>2
  <2>10. ASSUME NEW j \in DOMAIN q
         PROVE  \E i \in DOMAIN v : v[i] = q[j]
    <3>1. PICK l \in DOMAIN u : u[l] = q[j]
      BY <2>3
    <3>. QED
      BY <2>5, <3>1
  <2>11. ASSUME NEW m \in 1..k + 1
         PROVE  \E i \in DOMAIN v : v[i] = events[m]
    <3>1. CASE m = k + 1
      BY <2>5, <2>6, <3>1
    <3>2. CASE m \in 1..k
      <4>1. PICK l \in DOMAIN u : u[l] = events[m]
        BY <2>3, <3>2
      <4>. QED
        BY <2>5, <4>1
    <3>. QED
      BY <2>6, <3>1, <3>2
  <2>12. ASSUME NEW x, Once(q, x), \A m \in 1..k + 1 : events[m] # x
         PROVE  Once(v, x)
    <3>1. x # e /\ \A m \in 1..k : events[m] # x
      BY <2>6, <2>7, <2>8, <2>12
    <3>2. Once(u, x)
      BY <2>3, <2>12, <3>1
    <3>. QED
      BY <2>5, <3>1, <3>2
  <2>13. ASSUME NEW x, Once(events, x), \A j \in DOMAIN q : q[j] # x
         PROVE  Once(v, x)
    <3>1. CASE x # e
      <4>1. Once(u, x)
        BY <2>3, <2>13
      <4>. QED
        BY <2>5, <3>1, <4>1
    <3>2. CASE x = e
      <4>1. \A m \in 1..k : events[m] # e
        <5>1. \A m \in 1..k : m \in DOMAIN events /\ m # k + 1
          BY <1>0, <2>1 DEF L
        <5>2. k + 1 \in DOMAIN events
          BY <1>0, <2>1 DEF L
        <5>. QED
          BY <2>6, <2>13, <3>2, <5>1, <5>2 DEF Once
      <4>2. ASSUME NEW i \in DOMAIN u
            PROVE  u[i] # e
        <5>1. \/ \E m \in 1..k : u[i] = events[m]
              \/ \E j \in DOMAIN q : u[i] = q[j] /\ (j = 1 => i = 1)
          BY <2>3, Zenon
        <5>. QED
          BY <2>13, <3>2, <4>1, <5>1, Zenon
      <4>. QED
        BY <2>5, <3>2, <4>2
    <3>. QED
      BY <3>1, <3>2
  <2>. QED
    BY <2>5, <2>9, <2>10, <2>11, <2>12, <2>13
<1>10. L \in G
  <2>. HIDE DEF G, L
  <2>. QED
    BY <1>0, <1>8, <1>9, Induction
<1>11. Fits(L, r)
  <2>1. L \in 0..L
    BY <1>0
  <2>. HIDE DEF Fits
  <2>. QED
    BY <1>6, <1>10, <2>1
<1>. HIDE DEF L
<1>. QED
  BY <1>0, <1>11

\* Another list joins the queue: one event for each resource there is, one
\* tombstone for each that is gone.
LEMMA RelistElements ==
  ASSUME f5ipam \in [CR -> Resource], stale \in Seq([CR -> Resource]),
         rscQueue \in Seq(Event), Relist
  PROVE  /\ rscQueue' \in Seq(Event)
         /\ \A i \in DOMAIN rscQueue' :
              \/ \E j \in DOMAIN rscQueue : rscQueue'[i] = rscQueue[j] /\ (j = 1 => i = 1)
              \/ \E c \in CR : f5ipam[c].live /\ rscQueue'[i] = ListedEvent(c)
              \/ \E c \in CR : /\ Head(stale)[c].live /\ ~f5ipam[c].live
                               /\ rscQueue'[i] = Tombstone(c)
         /\ \A j \in DOMAIN rscQueue : \E i \in DOMAIN rscQueue' : rscQueue'[i] = rscQueue[j]
         /\ \A c \in CR : f5ipam[c].live =>
              \E i \in DOMAIN rscQueue' : rscQueue'[i] = ListedEvent(c)
         /\ \A c \in CR : Head(stale)[c].live /\ ~f5ipam[c].live =>
              \E i \in DOMAIN rscQueue' : rscQueue'[i] = Tombstone(c)
         /\ \A x : /\ Once(rscQueue, x)
                   /\ \A c \in CR : f5ipam[c].live => x # ListedEvent(c)
                   /\ \A c \in CR : Head(stale)[c].live /\ ~f5ipam[c].live => x # Tombstone(c)
                   => Once(rscQueue', x)
         /\ \A x : (\A j \in DOMAIN rscQueue : rscQueue[j] # x) => Once(rscQueue', x)
<1>. DEFINE now == ListOrder[{c \in CR : f5ipam[c].live}]
            gone == ListOrder[{c \in CR : Head(stale)[c].live /\ ~f5ipam[c].live}]
            a == [i \in DOMAIN now |-> ListedEvent(now[i])]
            b == [i \in DOMAIN gone |-> Tombstone(gone[i])]
<1>1. stale # <<>> /\ rscQueue' \in EnqueuedAll(rscQueue, a \o b)
  <2>. DEFINE news == [i \in DOMAIN now |->
                         IF Head(stale)[now[i]].live
                         THEN UpdateEvent(now[i], Head(stale)[now[i]].spec, f5ipam[now[i]].spec)
                         ELSE CreateEvent(now[i], f5ipam[now[i]].spec, f5ipam[now[i]].status)]
  <2>1. stale # <<>> /\ rscQueue' \in EnqueuedAll(rscQueue, news \o b)
    BY Zenon DEF Relist, Watching
  <2>2. news = a
    BY Zenon DEF ListedEvent
  <2>. QED
    BY <2>1, <2>2
<1>2. /\ now \in Seq(CR) /\ ToSet(now) = {c \in CR : f5ipam[c].live}
      /\ gone \in Seq(CR) /\ ToSet(gone) = {c \in CR : Head(stale)[c].live /\ ~f5ipam[c].live}
      /\ \A i, j \in DOMAIN now : now[i] = now[j] => i = j
      /\ \A i, j \in DOMAIN gone : gone[i] = gone[j] => i = j
  BY SystemAssumption DEF IsInjective
<1>. HIDE DEF now, gone
<1>3. \A c \in CR : ListedEvent(c) \in Event /\ Tombstone(c) \in Event
  <2>1. Head(stale) \in [CR -> Resource]
    BY <1>1, HeadTailType
  <2>2. \A c \in CR : /\ Head(stale)[c].spec \in Seq(Asked) /\ f5ipam[c].spec \in Seq(Asked)
                      /\ f5ipam[c].status \in Seq(IPSpec)
    BY <2>1 DEF Resource
  <2>. QED
    BY <2>2, EventTypes DEF ListedEvent
<1>4. a \in Seq(Event) /\ b \in Seq(Event)
  <2>1. /\ \A i \in DOMAIN now : now[i] \in CR
        /\ \A i \in DOMAIN gone : gone[i] \in CR
    BY <1>2, ElementType
  <2>2. /\ DOMAIN a = DOMAIN now /\ \A i \in DOMAIN now : a[i] \in Event
        /\ DOMAIN b = DOMAIN gone /\ \A i \in DOMAIN gone : b[i] \in Event
        /\ a = [i \in DOMAIN now |-> a[i]] /\ b = [i \in DOMAIN gone |-> b[i]]
    BY <1>3, <2>1
  <2>. HIDE DEF a, b
  <2>3. a \in Seq(Event)
    BY <1>2, <2>2, MapType
  <2>4. b \in Seq(Event)
    BY <1>2, <2>2, MapType
  <2>. QED
    BY <2>3, <2>4
<1>5. /\ \A i \in DOMAIN a : \E c \in CR : f5ipam[c].live /\ a[i] = ListedEvent(c)
      /\ \A c \in CR : f5ipam[c].live => \E i \in DOMAIN a : a[i] = ListedEvent(c)
  BY <1>2 DEF ToSet
<1>6. /\ \A i \in DOMAIN b : \E c \in CR : /\ Head(stale)[c].live /\ ~f5ipam[c].live
                                           /\ b[i] = Tombstone(c)
      /\ \A c \in CR : Head(stale)[c].live /\ ~f5ipam[c].live =>
           \E i \in DOMAIN b : b[i] = Tombstone(c)
  BY <1>2 DEF ToSet
<1>18. \A i, j \in DOMAIN a : a[i] = a[j] => i = j
  BY <1>2 DEF ListedEvent, UpdateEvent, CreateEvent
<1>19. \A i, j \in DOMAIN b : b[i] = b[j] => i = j
  BY <1>2 DEF Tombstone
<1>20. \A i \in DOMAIN a, j \in DOMAIN b : a[i].op # b[j].op
  BY DEF ListedEvent, UpdateEvent, CreateEvent, Tombstone, UPDATE, CREATE, TOMBSTONE
<1>. HIDE DEF a, b
<1>. DEFINE k == Len(a)
            m == Len(b)
            ev == a \o b
<1>7. /\ k \in Nat /\ m \in Nat /\ DOMAIN a = 1..k /\ DOMAIN b = 1..m
      /\ ev \in Seq(Event) /\ DOMAIN ev = 1..k + m
      /\ \A i \in 1..k + m : ev[i] = IF i <= k THEN a[i] ELSE b[i - k]
  BY <1>4, JoinedElements
<1>8. rscQueue' \in EnqueuedAll(rscQueue, ev)
  BY <1>1
<1>. HIDE DEF k, m, ev
<1>9. ASSUME NEW i \in 1..k + m
      PROVE  \/ i \in 1..k /\ ev[i] = a[i]
             \/ ~(i <= k) /\ i - k \in 1..m /\ ev[i] = b[i - k]
  BY <1>7
<1>10. /\ \A i \in 1..k : i \in 1..k + m /\ ev[i] = a[i]
       /\ \A i \in 1..m : k + i \in 1..k + m /\ ev[k + i] = b[i]
  <2>1. ASSUME NEW i \in 1..m
        PROVE  k + i \in 1..k + m /\ ~(k + i <= k) /\ (k + i) - k = i
    BY <1>7
  <2>. QED
    BY <1>7, <2>1
<1>11. \A i \in DOMAIN ev :
         \/ \E c \in CR : f5ipam[c].live /\ ev[i] = ListedEvent(c)
         \/ \E c \in CR : Head(stale)[c].live /\ ~f5ipam[c].live /\ ev[i] = Tombstone(c)
  <2>1. ASSUME NEW i \in 1..k + m
        PROVE  \/ \E c \in CR : f5ipam[c].live /\ ev[i] = ListedEvent(c)
               \/ \E c \in CR : Head(stale)[c].live /\ ~f5ipam[c].live /\ ev[i] = Tombstone(c)
    <3>1. CASE i \in 1..k /\ ev[i] = a[i]
      BY <1>5, <1>7, <3>1
    <3>2. CASE i - k \in 1..m /\ ev[i] = b[i - k]
      BY <1>6, <1>7, <3>2
    <3>. QED
      BY <1>9, <3>1, <3>2
  <2>. QED
    BY <1>7, <2>1
<1>12. \A x : Once(ev, x)
  <2>1. ASSUME NEW i \in 1..k + m, NEW j \in 1..k + m, ev[i] = ev[j]
        PROVE  i = j
    <3>1. CASE i \in 1..k /\ ev[i] = a[i] /\ j \in 1..k /\ ev[j] = a[j]
      BY <1>7, <1>18, <2>1, <3>1
    <3>2. CASE /\ i - k \in 1..m /\ ev[i] = b[i - k]
               /\ j - k \in 1..m /\ ev[j] = b[j - k]
      <4>1. i - k = j - k
        BY <1>7, <1>19, <2>1, <3>2
      <4>. QED
        BY <1>7, <4>1
    <3>3. CASE i \in 1..k /\ ev[i] = a[i] /\ j - k \in 1..m /\ ev[j] = b[j - k]
      BY <1>7, <1>20, <2>1, <3>3
    <3>4. CASE j \in 1..k /\ ev[j] = a[j] /\ i - k \in 1..m /\ ev[i] = b[i - k]
      BY <1>7, <1>20, <2>1, <3>4
    <3>. QED
      BY <1>9, <3>1, <3>2, <3>3, <3>4
  <2>. QED
    BY <1>7, <2>1 DEF Once
<1>13. /\ rscQueue' \in Seq(Event)
       /\ \A i \in DOMAIN rscQueue' :
            \/ \E j \in DOMAIN ev : rscQueue'[i] = ev[j]
            \/ \E j \in DOMAIN rscQueue : rscQueue'[i] = rscQueue[j] /\ (j = 1 => i = 1)
       /\ \A j \in DOMAIN rscQueue : \E i \in DOMAIN rscQueue' : rscQueue'[i] = rscQueue[j]
       /\ \A j \in DOMAIN ev : \E i \in DOMAIN rscQueue' : rscQueue'[i] = ev[j]
       /\ \A x : Once(rscQueue, x) /\ (\A j \in DOMAIN ev : ev[j] # x) => Once(rscQueue', x)
       /\ \A x : Once(ev, x) /\ (\A j \in DOMAIN rscQueue : rscQueue[j] # x) => Once(rscQueue', x)
  BY <1>7, <1>8, EnqueuedAllElements
<1>14. ASSUME NEW c \in CR, f5ipam[c].live
       PROVE  \E i \in DOMAIN rscQueue' : rscQueue'[i] = ListedEvent(c)
  <2>1. PICK i \in 1..k : a[i] = ListedEvent(c)
    BY <1>5, <1>7, <1>14
  <2>2. i \in DOMAIN ev /\ ev[i] = a[i]
    BY <1>7, <1>10
  <2>. QED
    BY <1>13, <2>1, <2>2
<1>15. ASSUME NEW c \in CR, Head(stale)[c].live, ~f5ipam[c].live
       PROVE  \E i \in DOMAIN rscQueue' : rscQueue'[i] = Tombstone(c)
  <2>1. PICK i \in 1..m : b[i] = Tombstone(c)
    BY <1>6, <1>7, <1>15
  <2>2. k + i \in DOMAIN ev /\ ev[k + i] = b[i]
    BY <1>7, <1>10
  <2>. QED
    BY <1>13, <2>1, <2>2
<1>16. ASSUME NEW i \in DOMAIN rscQueue'
       PROVE  \/ \E j \in DOMAIN rscQueue : rscQueue'[i] = rscQueue[j] /\ (j = 1 => i = 1)
              \/ \E c \in CR : f5ipam[c].live /\ rscQueue'[i] = ListedEvent(c)
              \/ \E c \in CR : /\ Head(stale)[c].live /\ ~f5ipam[c].live
                               /\ rscQueue'[i] = Tombstone(c)
  <2>1. ASSUME NEW j \in DOMAIN ev, rscQueue'[i] = ev[j]
        PROVE  \/ \E c \in CR : f5ipam[c].live /\ rscQueue'[i] = ListedEvent(c)
               \/ \E c \in CR : /\ Head(stale)[c].live /\ ~f5ipam[c].live
                                /\ rscQueue'[i] = Tombstone(c)
    BY <1>11, <2>1
  <2>. QED
    BY <1>13, <2>1
<1>17. ASSUME NEW x, Once(rscQueue, x),
              \A c \in CR : f5ipam[c].live => x # ListedEvent(c),
              \A c \in CR : Head(stale)[c].live /\ ~f5ipam[c].live => x # Tombstone(c)
       PROVE  Once(rscQueue', x)
  <2>1. \A j \in DOMAIN ev : ev[j] # x
    BY <1>11, <1>17
  <2>. QED
    BY <1>13, <1>17, <2>1
<1>. QED
  BY <1>12, <1>13, <1>14, <1>15, <1>16, <1>17

-----------------------------------------------------------------------------
(* The inductive invariant: types, the invariant of the request loop, and  *)
(* that a PUT of the version that is still stored carries its Spec.        *)

PutIsCurrent ==
  \A p \in put :
    /\ p.rv <= f5ipam[p.resp.req.cr].rv
    /\ p.rv = f5ipam[p.resp.req.cr].rv => p.spec = f5ipam[p.resp.req.cr].spec

SysInv == FICTypeOK /\ OwnerInv /\ PutIsCurrent

LEMMA OwnerUnchanged ==
  ASSUME OwnerInv, UNCHANGED <<status, aRecords, inFlight>>
  PROVE  OwnerInv'
BY DEF OwnerInv, CtlrTypeOK, StoreTypeOK, TablesAgree, ExclusiveOwner, Announcing

\* A user's write raises the version.
LEMMA UserWriteKeeps ==
  ASSUME SysInv, UserMayEdit, NEW c \in CR, NEW live \in BOOLEAN,
         NEW spec \in Seq(Asked), NEW st \in Seq(IPSpec), NEW e \in Event,
         UserWrite(c, live, spec, st, e)
  PROVE  SysInv'
<1>1. OwnerInv'
  BY OwnerUnchanged DEF SysInv, UserWrite
<1>2. rscQueue' \in Seq(Event)
  BY NotifyType DEF SysInv, FICTypeOK, UserWrite
<1>3. f5ipam' \in [CR -> Resource]
  <2>1. [live |-> live, rv |-> f5ipam[c].rv + 1, spec |-> spec, status |-> st] \in Resource
    BY DEF SysInv, FICTypeOK, Resource
  <2>. QED
    BY <2>1 DEF SysInv, FICTypeOK, UserWrite
<1>4. edits' \in 0..MaxEdits
  BY SystemAssumption DEF SysInv, FICTypeOK, UserWrite, UserMayEdit
<1>5. PutIsCurrent'
  <2>1. \A d \in CR : \/ f5ipam'[d] = f5ipam[d]
                      \/ f5ipam'[d].rv = f5ipam[d].rv + 1 /\ f5ipam[d].rv \in Nat
    BY DEF SysInv, FICTypeOK, UserWrite, Resource
  <2>2. \A p \in put : p.resp.req.cr \in CR /\ p.rv \in Nat
    BY DEF SysInv, FICTypeOK, Put, Response, Request
  <2>3. put' = put
    BY DEF UserWrite
  <2>4. ASSUME NEW p \in put, NEW d \in CR, d = p.resp.req.cr
        PROVE  /\ p.rv <= f5ipam'[d].rv
               /\ p.rv = f5ipam'[d].rv => p.spec = f5ipam'[d].spec
    <3>1. p.rv <= f5ipam[d].rv /\ (p.rv = f5ipam[d].rv => p.spec = f5ipam[d].spec)
      BY <2>4 DEF SysInv, PutIsCurrent
    <3>. QED
      BY <2>1, <2>2, <3>1
  <2>. QED
    BY <2>2, <2>3, <2>4 DEF PutIsCurrent
<1>6. CtlrTypeOK'
  BY <1>1 DEF OwnerInv
<1>. QED
  BY <1>1, <1>2, <1>3, <1>4, <1>5, <1>6 DEF SysInv, FICTypeOK, UserWrite

LEMMA UserStep ==
  ASSUME SysInv, NEW c \in CR,
         \/ \E spec \in SpecChoice[c] : UserCreate(c, spec) \/ UserEdit(c, spec)
         \/ UserDelete(c)
  PROVE  SysInv'
<1>1. f5ipam[c].spec \in Seq(Asked) /\ f5ipam[c].status \in Seq(IPSpec)
  BY DEF SysInv, FICTypeOK, Resource
<1>2. <<>> \in Seq(Asked) /\ <<>> \in Seq(IPSpec)
  OBVIOUS
<1>3. SpecChoice[c] \subseteq Seq(Asked)
  BY AskedFacts
<1>4. ASSUME NEW spec \in SpecChoice[c], UserCreate(c, spec)
      PROVE  SysInv'
  BY <1>2, <1>3, <1>4, EventTypes, UserWriteKeeps DEF UserCreate
<1>5. ASSUME NEW spec \in SpecChoice[c], UserEdit(c, spec)
      PROVE  SysInv'
  BY <1>1, <1>3, <1>5, EventTypes, UserWriteKeeps DEF UserEdit
<1>6. ASSUME UserDelete(c)
      PROVE  SysInv'
  BY <1>1, <1>2, <1>6, EventTypes, UserWriteKeeps DEF UserDelete
<1>. QED
  BY <1>4, <1>5, <1>6

\* The informer: only its queue and what it knows change.
LEMMA InformerStep ==
  ASSUME SysInv, LoseWatch \/ Relist
  PROVE  SysInv'
<1>1. OwnerInv'
  BY OwnerUnchanged DEF SysInv, LoseWatch, Relist
<1>2. CtlrTypeOK'
  BY <1>1 DEF OwnerInv
<1>3. PutIsCurrent'
  BY DEF SysInv, PutIsCurrent, LoseWatch, Relist
<1>4. CASE LoseWatch
  <2>1. stale' \in Seq([CR -> Resource]) /\ Len(stale') <= 1
    BY <1>4 DEF LoseWatch, SysInv, FICTypeOK
  <2>2. gaps' \in 0..MaxGaps
    BY <1>4, SystemAssumption DEF LoseWatch, SysInv, FICTypeOK
  <2>. QED
    BY <1>1, <1>2, <1>3, <1>4, <2>1, <2>2 DEF LoseWatch, SysInv, FICTypeOK
<1>5. CASE Relist
  <2>1. rscQueue' \in Seq(Event)
    BY <1>5, RelistElements DEF SysInv, FICTypeOK
  <2>3. UNCHANGED <<inFlight, f5ipam, up, todo, put, edits, crashes, gaps>> /\ stale' = <<>>
    BY <1>5 DEF Relist, counters
  <2>2. stale' \in Seq([CR -> Resource]) /\ Len(stale') <= 1
    BY <2>3
  <2>. QED
    BY <1>1, <1>2, <1>3, <2>1, <2>2, <2>3 DEF SysInv, FICTypeOK
<1>. QED
  BY <1>4, <1>5

LEMMA ProcessStep ==
  ASSUME SysInv, ProcessResource
  PROVE  SysInv'
<1>1. OwnerInv' /\ CtlrTypeOK'
  BY OwnerUnchanged DEF SysInv, ProcessResource, OwnerInv
<1>2. PutIsCurrent'
  BY DEF SysInv, PutIsCurrent, ProcessResource
<1>3. Head(rscQueue) \in Event /\ rscQueue' \in Seq(Event)
  BY HeadTailType DEF SysInv, FICTypeOK, ProcessResource
<1>4. todo' \in Seq(Batch)
  BY <1>3, EventRequestsType DEF ProcessResource
<1>. QED
  BY <1>1, <1>2, <1>3, <1>4 DEF SysInv, FICTypeOK, ProcessResource, counters, Batch, Wish

LEMMA SendStep ==
  ASSUME SoundPool, SysInv, SendRequest
  PROVE  SysInv'
<1>1. todo \in Seq(Batch) /\ todo # <<>>
  BY DEF SysInv, FICTypeOK, SendRequest, Batch, Wish
<1>2. Head(todo) \in Batch /\ Tail(todo) \in Seq(Batch)
  BY <1>1, HeadTailType
<1>3. PICK req \in Head(todo) :
        Handle(req) /\ todo' = Loop(Head(todo) \ {req}) \o Tail(todo)
  BY DEF SendRequest
<1>4. req \in Wish /\ Head(todo) \ {req} \in SUBSET Wish
  BY <1>2 DEF Batch
<1>5. OwnerInv' /\ CtlrTypeOK'
  BY <1>3, <1>4, HandleOwner DEF SysInv, OwnerInv, Wish
<1>8. \A resp \in BagToSet(inFlight') : AskedFor(resp.req)
  <2>1. CASE UNCHANGED inFlight
    BY <2>1 DEF SysInv, FICTypeOK
  <2>2. ASSUME NEW ip, NEW ok, Respond(req, ip, ok)
        PROVE  \A resp \in BagToSet(inFlight') : AskedFor(resp.req)
    <3>1. BagToSet(inFlight') = BagToSet(inFlight) \cup {[req |-> req, ip |-> ip, ok |-> ok]}
      BY <2>2, BagGains DEF Respond
    <3>. QED
      BY <1>4, <3>1 DEF SysInv, FICTypeOK, Wish
  <2>. QED
    BY <1>3, <2>1, <2>2, HandleResponds
<1>6. todo' \in Seq(Batch)
  <2>1. Loop(Head(todo) \ {req}) \in Seq(Batch)
    BY <1>4, LoopType
  <2>. HIDE DEF Batch
  <2>. QED
    BY <1>2, <1>3, <2>1
<1>7. PutIsCurrent'
  BY DEF SysInv, PutIsCurrent, SendRequest
<1>. QED
  BY <1>5, <1>6, <1>7, <1>8 DEF SysInv, FICTypeOK, SendRequest, counters, Batch, Wish

\* What was read goes into the PUT, with the version it was read at.
LEMMA PreparedKeeps ==
  ASSUME FICTypeOK, NEW resp \in Response, f5ipam[resp.req.cr].live,
         NEW st \in Seq(IPSpec), put' = Prepared(resp, st), UNCHANGED f5ipam
  PROVE  put' \subseteq Put /\ (\A p, q \in put' : p = q) /\ PutIsCurrent'
<1>. DEFINE c == resp.req.cr
            p == [resp |-> resp, rv |-> f5ipam[c].rv, spec |-> f5ipam[c].spec, status |-> st]
<1>1. f5ipam[c].rv \in Nat /\ f5ipam[c].spec \in Seq(Asked)
  BY DEF FICTypeOK, Resource, Response, Request
<1>2. put' = {p}
  BY DEF Prepared
<1>3. p \in Put
  BY <1>1 DEF Put
<1>4. p.resp.req.cr = c /\ p.rv = f5ipam[c].rv /\ p.spec = f5ipam[c].spec
  OBVIOUS
<1>. HIDE DEF p, c
<1>5. PutIsCurrent'
  BY <1>1, <1>2, <1>4 DEF PutIsCurrent
<1>. QED
  BY <1>2, <1>3, <1>5

LEMMA RecordedType ==
  ASSUME NEW st \in Seq(IPSpec), NEW req \in Wish, NEW ip \in IP
  PROVE  Recorded(st, req, ip) \in Seq(IPSpec)
<1>1. \A i \in DOMAIN st : st[i] \in IPSpec /\ [st[i] EXCEPT !.ip = ip] \in IPSpec
  <2>1. ASSUME NEW i \in DOMAIN st
        PROVE  st[i] \in IPSpec
    BY ElementType
  <2>2. ASSUME NEW i \in DOMAIN st
        PROVE  [st[i] EXCEPT !.ip = ip] \in IPSpec
    <3>. DEFINE h == st[i].host
                c == st[i].cidr
    <3>1. st[i] = [host |-> h, cidr |-> c, ip |-> st[i].ip]
      BY <2>1, IPSpecFacts
    <3>2. [st[i] EXCEPT !.ip = ip] = [host |-> h, cidr |-> c, ip |-> ip]
      BY <3>1
    <3>3. [host |-> h, cidr |-> c] \in Asked
      BY <2>1, IPSpecFacts
    <3>. HIDE DEF h, c
    <3>. QED
      BY <3>2, <3>3, IPSpecFacts
  <2>. QED
    BY <2>1, <2>2
<1>2. [host |-> req.host, cidr |-> req.cidr, ip |-> ip] \in IPSpec
  BY IPSpecFacts DEF Wish, AskedFor
<1>. DEFINE T == IPSpec
            f == [i \in DOMAIN st |->
                   IF Matches(st[i], req) THEN [st[i] EXCEPT !.ip = ip] ELSE st[i]]
<1>3. f \in Seq(T)
  <2>1. \A i \in DOMAIN st : f[i] \in T
    BY <1>1
  <2>2. DOMAIN f = DOMAIN st /\ f = [i \in DOMAIN st |-> f[i]]
    OBVIOUS
  <2>. HIDE DEF f, T
  <2>. QED
    BY <2>1, <2>2, MapType, st \in Seq(T) DEF T
<1>4. Append(st, [host |-> req.host, cidr |-> req.cidr, ip |-> ip]) \in Seq(IPSpec)
  BY <1>2
<1>. QED
  BY <1>3, <1>4 DEF Recorded

LEMMA TakeStep ==
  ASSUME SysInv, TakeResponse
  PROVE  SysInv'
<1>1. PICK resp \in BagToSet(inFlight) :
        Receive(resp) /\ (GetFails(resp) \/ GetToRecord(resp) \/ GetToRemove(resp))
  BY DEF TakeResponse
<1>2. UNCHANGED <<status, aRecords, f5ipam, up, rscQueue, todo, stale, edits, crashes, gaps>>
  BY DEF TakeResponse, counters
<1>3. OwnerInv' /\ CtlrTypeOK'
  <2>1. Deliver
    BY <1>1, <1>2 DEF Deliver, storeVars
  <2>. QED
    BY <2>1, DeliverOwner DEF SysInv, OwnerInv
<1>4. resp \in Response
  BY DEF SysInv, OwnerInv, CtlrTypeOK
<1>5. f5ipam[resp.req.cr].status \in Seq(IPSpec) /\ resp.req \in Request
  BY <1>4 DEF SysInv, FICTypeOK, Resource, Response, Request
<1>7. resp.req \in Wish /\ \A x \in BagToSet(inFlight') : AskedFor(x.req)
  <2>1. BagToSet(inFlight') \subseteq BagToSet(inFlight)
    BY <1>1, BagLoses DEF Receive
  <2>. QED
    BY <1>1, <1>5, <2>1 DEF SysInv, FICTypeOK, Wish
<1>6. put' \subseteq Put /\ (\A p, q \in put' : p = q) /\ PutIsCurrent'
  <2>1. CASE put' = {}
    BY <2>1 DEF PutIsCurrent
  <2>2. CASE GetToRecord(resp)
    <3>1. resp.ip \in IP
      BY <2>2 DEF GetToRecord, SysInv, OwnerInv, Announcing
    <3>2. Recorded(f5ipam[resp.req.cr].status, resp.req, resp.ip) \in Seq(IPSpec)
      BY <1>5, <1>7, <3>1, RecordedType
    <3>. QED
      BY <1>2, <1>4, <2>2, <3>2, PreparedKeeps DEF GetToRecord, SysInv
  <2>3. CASE GetToRemove(resp) /\ put' # {}
    <3>1. PICK i \in Found(f5ipam[resp.req.cr].status, resp.req) :
            put' = Prepared(resp, RemoveAt(f5ipam[resp.req.cr].status, i))
      BY <2>3 DEF GetToRemove
    <3>2. i \in DOMAIN f5ipam[resp.req.cr].status
      BY DEF Found
    <3>3. RemoveAt(f5ipam[resp.req.cr].status, i) \in Seq(IPSpec)
      BY <1>5, <3>2, RemoveAtType
    <3>. QED
      BY <1>2, <1>4, <2>3, <3>1, <3>3, PreparedKeeps DEF GetToRemove, SysInv
  <2>. QED
    BY <1>1, <2>1, <2>2, <2>3 DEF GetFails
<1>. QED
  BY <1>2, <1>3, <1>6, <1>7 DEF SysInv, FICTypeOK

\* A PUT that is accepted carries the Spec that is stored.
LEMMA AcceptedKeeps ==
  ASSUME SysInv, NEW p \in put, Accepted(p)
  PROVE  /\ f5ipam' \in [CR -> Resource]
         /\ rscQueue' \in Seq(Event)
         /\ \A c \in CR : f5ipam'[c].live = f5ipam[c].live /\ f5ipam'[c].spec = f5ipam[c].spec
<1>. DEFINE c == p.resp.req.cr
<1>1. c \in CR /\ p \in Put
  BY DEF SysInv, FICTypeOK, Put, Response, Request
<1>2. p.spec = f5ipam[c].spec /\ p.spec \in Seq(Asked) /\ p.status \in Seq(IPSpec)
  BY <1>1 DEF Accepted, SysInv, PutIsCurrent, Put
<1>3. CASE UNCHANGED <<f5ipam, rscQueue>>
  BY <1>3 DEF SysInv, FICTypeOK
<1>4. CASE /\ f5ipam' = [f5ipam EXCEPT ![c] =
                [live |-> TRUE, rv |-> @.rv + 1, spec |-> p.spec, status |-> p.status]]
           /\ Notify(UpdateEvent(c, f5ipam[c].spec, p.spec))
  <2>1. f5ipam[c] \in Resource /\ f5ipam \in [CR -> Resource] /\ f5ipam[c].live
    BY <1>1 DEF SysInv, FICTypeOK, Accepted
  <2>2. [live |-> TRUE, rv |-> f5ipam[c].rv + 1, spec |-> p.spec, status |-> p.status]
          \in Resource
    BY <1>2, <2>1 DEF Resource
  <2>4. f5ipam' \in [CR -> Resource]
    BY <1>1, <1>4, <2>1, <2>2
  <2>5. UpdateEvent(c, f5ipam[c].spec, p.spec) \in Event
    <3>1. <<>> \in Seq(IPSpec)
      OBVIOUS
    <3>. QED
      BY <1>1, <1>2, <3>1, EventTypes
  <2>6. rscQueue' \in Seq(Event)
    BY <1>4, <2>5, NotifyType DEF SysInv, FICTypeOK
  <2>7. \A d \in CR : f5ipam'[d].live = f5ipam[d].live /\ f5ipam'[d].spec = f5ipam[d].spec
    BY <1>1, <1>2, <1>4, <2>1 DEF Resource
  <2>. QED
    BY <2>4, <2>6, <2>7
<1>. QED
  BY <1>3, <1>4 DEF Accepted

LEMMA PutStep ==
  ASSUME SysInv, PutUpdate
  PROVE  SysInv'
<1>1. PICK p \in put : Accepted(p) \/ UNCHANGED <<f5ipam, rscQueue>>
  BY DEF PutUpdate, Refused
<1>2. f5ipam' \in [CR -> Resource] /\ rscQueue' \in Seq(Event)
  BY <1>1, AcceptedKeeps DEF SysInv, FICTypeOK
<1>3. OwnerInv' /\ CtlrTypeOK'
  BY OwnerUnchanged DEF SysInv, PutUpdate, OwnerInv
<1>4. put' = {} /\ PutIsCurrent'
  BY DEF PutUpdate, PutIsCurrent
<1>. QED
  BY <1>2, <1>3, <1>4 DEF SysInv, FICTypeOK, PutUpdate, counters

LEMMA DieKeeps ==
  ASSUME SysInv, Die, UNCHANGED <<edits, gaps>>, crashes' \in 0..MaxCrashes
  PROVE  SysInv'
<1>1. OwnerInv'
  BY DEF Die, StoreReset, OwnerInv, CtlrTypeOK, StoreTypeOK, TablesAgree, ExclusiveOwner,
         Announcing, BagToSet, EmptyBag, SetToBag, ALLOCATED, AVAILABLE
<1>2. CtlrTypeOK'
  BY <1>1 DEF OwnerInv
<1>3. PutIsCurrent'
  BY DEF Die, PutIsCurrent
<1>4. up' = FALSE /\ rscQueue' = <<>> /\ todo' = <<>> /\ put' = {} /\ stale' = <<>>
      /\ f5ipam' = f5ipam
  BY DEF Die
<1>5. up' \in BOOLEAN
  BY <1>4
<1>6. /\ f5ipam' \in [CR -> Resource]
      /\ rscQueue' \in Seq(Event) /\ todo' \in Seq(Batch)
      /\ stale' \in Seq([CR -> Resource]) /\ Len(stale') <= 1
  BY <1>4 DEF SysInv, FICTypeOK
<1>7. BagToSet(inFlight') = {}
  BY DEF Die, BagToSet, EmptyBag, SetToBag
<1>. QED
  BY <1>1, <1>2, <1>3, <1>4, <1>5, <1>6, <1>7 DEF SysInv, FICTypeOK, Batch, Wish

LEMMA ProcessLifeStep ==
  ASSUME SysInv, Crash \/ Panic \/ Start
  PROVE  SysInv'
<1>1. CASE Crash
  <2>1. crashes' \in 0..MaxCrashes
    BY <1>1, SystemAssumption DEF Crash, SysInv, FICTypeOK
  <2>. QED
    BY <1>1, <2>1, DieKeeps DEF Crash
<1>2. CASE Panic
  BY <1>2, DieKeeps DEF Panic, counters, SysInv, FICTypeOK
<1>3. CASE Start
  <2>1. OwnerInv' /\ CtlrTypeOK'
    BY <1>3, OwnerUnchanged DEF SysInv, Start, OwnerInv
  <2>2. rscQueue' \in Seq(Event)
    BY <1>3, StartEventsType DEF SysInv, FICTypeOK
  <2>3. UNCHANGED <<inFlight, f5ipam, todo, put, stale, edits, crashes, gaps>> /\ up' = TRUE
    BY <1>3 DEF Start, counters
  <2>4. PutIsCurrent'
    BY <2>3 DEF SysInv, PutIsCurrent
  <2>. QED
    BY <2>1, <2>2, <2>3, <2>4 DEF SysInv, FICTypeOK
<1>. QED
  BY <1>1, <1>2, <1>3

LEMMA SysInductive ==
  ASSUME SoundPool, SysInv, [Next]_vars
  PROVE  SysInv'
<1>1. CASE UNCHANGED vars
  <2>1. OwnerInv' /\ CtlrTypeOK'
    BY <1>1, OwnerUnchanged DEF vars, sysVars, SysInv, OwnerInv
  <2>2. UNCHANGED <<inFlight, f5ipam, up, rscQueue, todo, put, stale, edits, crashes, gaps>>
    BY <1>1 DEF vars, sysVars, counters
  <2>. QED
    BY <2>1, <2>2 DEF SysInv, FICTypeOK, PutIsCurrent
<1>2. CASE \E c \in CR :
             \/ \E spec \in SpecChoice[c] : UserCreate(c, spec) \/ UserEdit(c, spec)
             \/ UserDelete(c)
  BY <1>2, UserStep
<1>3. CASE LoseWatch \/ Relist
  BY <1>3, InformerStep
<1>4. CASE ProcessResource
  BY <1>4, ProcessStep
<1>5. CASE SendRequest
  BY <1>5, SendStep
<1>6. CASE TakeResponse
  BY <1>6, TakeStep
<1>7. CASE PutUpdate
  BY <1>7, PutStep
<1>8. CASE Crash \/ Panic \/ Start
  BY <1>8, ProcessLifeStep
<1>. QED
  BY <1>1, <1>2, <1>3, <1>4, <1>5, <1>6, <1>7, <1>8 DEF Next

LEMMA SysInit == Init => SysInv
<1>. SUFFICES ASSUME Init PROVE SysInv
  OBVIOUS
<1>1. OwnerInv
  BY DEF Init, CtlrInit, StoreInit, OwnerInv, CtlrTypeOK, StoreTypeOK, TablesAgree,
         ExclusiveOwner, Announcing, BagToSet, EmptyBag, SetToBag, ALLOCATED, AVAILABLE
<1>2. CtlrTypeOK
  BY <1>1 DEF OwnerInv
<1>3. f5ipam \in [CR -> Resource]
  <2>1. [live |-> FALSE, rv |-> 0, spec |-> <<>>, status |-> <<>>] \in Resource
    BY DEF Resource
  <2>. QED
    BY <2>1 DEF Init
<1>4. rscQueue \in Seq(Event) /\ todo \in Seq(Batch)
      /\ stale \in Seq([CR -> Resource]) /\ Len(stale) <= 1
  BY DEF Init
<1>5. put = {} /\ PutIsCurrent
  BY DEF Init, PutIsCurrent
<1>6. edits \in 0..MaxEdits /\ crashes \in 0..MaxCrashes /\ gaps \in 0..MaxGaps
      /\ up \in BOOLEAN
  <2>1. edits = 0 /\ crashes = 0 /\ gaps = 0 /\ up = FALSE
    BY DEF Init
  <2>. QED
    <3>1. MaxEdits \in Nat /\ MaxCrashes \in Nat /\ MaxGaps \in Nat
      BY SystemAssumption
    <3>2. up \in BOOLEAN
      BY <2>1
    <3>. QED
      BY <2>1, <3>1, <3>2
<1>7. BagToSet(inFlight) = {}
  BY DEF Init, CtlrInit, BagToSet, EmptyBag, SetToBag
<1>. QED
  BY <1>1, <1>2, <1>3, <1>4, <1>5, <1>6, <1>7 DEF SysInv, FICTypeOK, Batch, Wish

-----------------------------------------------------------------------------
(* Theorems.                                                               *)

\* The inductive invariant of the whole program.
THEOREM SystemInvariant == ASSUME SoundPool PROVE Spec => []SysInv
<1>1. SysInv /\ [Next]_vars => SysInv'
  BY SysInductive
<1>. QED
  BY <1>1, SysInit, PTL DEF Spec

\* Every event, request, response and PUT of the program is well formed, over
\* crashes, restarts and broken watches.
THEOREM SystemTyped == ASSUME SoundPool PROVE Spec => []FICTypeOK
<1>1. SysInv => FICTypeOK
  BY DEF SysInv
<1>. QED
  BY <1>1, SystemInvariant, PTL

\* The request loop keeps its promises with the requests this program makes, and
\* over its crashes: no address is recorded for two hosts.
THEOREM SystemOwnership == ASSUME SoundPool PROVE Spec => [](ExclusiveOwner /\ TablesAgree)
<1>1. SysInv => ExclusiveOwner /\ TablesAgree
  BY DEF SysInv, OwnerInv
<1>. QED
  BY <1>1, SystemInvariant, PTL

\* No Status update undoes or repeats a user's edit, whatever it races with.
THEOREM EditsSurvive == ASSUME SoundPool PROVE Spec => UserSpecsPreserved
<1>1. SysInv /\ [Next]_vars => [SpecsChangeByEdits]_vars
  <2>. SUFFICES ASSUME SysInv, Next, edits' = edits
                PROVE  SpecsChangeByEdits
    BY DEF SpecsChangeByEdits
  <2>. SUFFICES \A c \in CR : f5ipam'[c].live = f5ipam[c].live
                               /\ f5ipam'[c].spec = f5ipam[c].spec
    BY DEF SpecsChangeByEdits
  <2>1. CASE PutUpdate
    <3>1. PICK p \in put : Accepted(p) \/ UNCHANGED <<f5ipam, rscQueue>>
      BY <2>1 DEF PutUpdate, Refused
    <3>. QED
      BY <3>1, AcceptedKeeps
  <2>2. ASSUME NEW c \in CR,
               \/ \E spec \in SpecChoice[c] : UserCreate(c, spec) \/ UserEdit(c, spec)
               \/ UserDelete(c)
        PROVE  FALSE
    <3>1. edits' = edits + 1
      BY <2>2 DEF UserCreate, UserEdit, UserDelete, UserWrite
    <3>. QED
      BY <3>1 DEF SysInv, FICTypeOK
  <2>3. CASE LoseWatch \/ Relist \/ ProcessResource \/ SendRequest \/ TakeResponse
             \/ Crash \/ Panic \/ Start
    BY <2>3 DEF LoseWatch, Relist, ProcessResource, SendRequest, TakeResponse, Crash,
                Panic, Start, Die
  <2>. QED
    BY <2>1, <2>2, <2>3 DEF Next
<1>. QED
  BY <1>1, SystemInvariant, PTL DEF Spec, UserSpecsPreserved

================================================================================
