------------------------------- MODULE IPRange -------------------------------
(***************************************************************************)
(* How NewProvider (pkg/provider/provider.go) turns the configured ranges  *)
(* into the rows of ipaddress_range and the set of known CIDRs: the two    *)
(* constants Pool and PoolCidr of IPAMStore.                               *)
(*                                                                         *)
(* Package net keeps an address in 16 bytes, an IPv4 one behind a fixed    *)
(* prefix ending in 0xff.  Here an address has one prefix byte, the        *)
(* largest one for IPv4, and Width more; the mask counts the bits of the   *)
(* Width bytes, or of all of them for IPv6.                                *)
(***************************************************************************)
EXTENDS Naturals, SequencesExt

CONSTANTS
  ByteBits,  \* bits of a byte
  Base,      \* its values: 2^ByteBits
  Width,     \* bytes of an IPv4 address
  Bad,       \* an address text that does not parse
  Config,    \* the lists of ranges a provider may be started with
  Failures   \* the sets of INSERTs, by number, that may fail

Pow2[n \in Nat] == IF n = 0 THEN 1 ELSE 2 * Pow2[n-1]

Byte == 0..Base-1
Address == [1..Width+1 -> Byte]

\* A range as it is split at "-" and "/": twoHalves says that it has the form
\* address/mask-address/mask.
RangeText ==
  [twoHalves : BOOLEAN, start : Address \cup {Bad}, end : Address \cup {Bad},
   startMask : Nat, endMask : Nat]

ASSUME RangeAssumption ==
  /\ ByteBits \in Nat \ {0} /\ Base = Pow2[ByteBits] /\ Width \in Nat \ {0}
  /\ Bad \notin Address
  /\ Config \subseteq Seq(RangeText)
  /\ Failures \subseteq SUBSET Nat

VARIABLES
  todo,    \* the ranges the outer loop has not finished
  walk,    \* the addresses collected from the first of them: empty, or <<cur, ips>>
  cidrs,   \* prov.cidrs
  pool,    \* the rows, in the order of their INSERTs
  lost,    \* the numbers of those whose INSERT failed
  config   \* what the provider was started with

vars == <<todo, walk, cidrs, pool, lost, config>>

-----------------------------------------------------------------------------
(* Package net, as far as the loop uses it.                                *)

IsV4(ip) == ip[1] = Base - 1

Bits(ip) == (IF IsV4(ip) THEN Width ELSE Width + 1) * ByteBits

\* The number it stands for.
Value(ip) ==
  LET v[k \in 0..Len(ip)] == IF k = 0 THEN 0 ELSE v[k-1] * Base + ip[k]
  IN  v[Len(ip)]

\* ParseCIDR(ip + "/" + mask) succeeds.
Parses(ip, mask) == ip # Bad /\ mask <= Bits(ip)

\* The network it returns, which is also what the CIDR string says.
Network(ip, mask) ==
  [v4 |-> IsV4(ip), mask |-> mask, prefix |-> Value(ip) \div Pow2[Bits(ip) - mask]]

NetContains(net, ip) == IsV4(ip) = net.v4 /\ Network(ip, net.mask) = net

\* Fault: no carry from the last byte.
inc_NoCarry(ip) == [ip EXCEPT ![Len(ip)] = (@ + 1) % Base]

\* A byte is incremented when every byte behind it has wrapped to zero.
inc(ip) ==
  [k \in DOMAIN ip |->
     IF \A m \in k+1..Len(ip) : ip[m] = Base - 1 THEN (ip[k] + 1) % Base ELSE ip[k]]

-----------------------------------------------------------------------------
(* generateExternalIPAddr.                                                 *)

Current == Head(todo)

Malformed(r) == ~r.twoHalves \/ r.startMask # r.endMask

EndNetwork(r) == Network(r.end, r.endMask)
StartNetwork(r) == Network(r.start, r.startMask)

Init ==
  /\ config \in Config
  /\ todo = config /\ walk = <<>>
  /\ cidrs = {} /\ pool = <<>> /\ lost = {}

\* Logged, and skipped.
SkipMalformed ==
  /\ walk = <<>> /\ todo # <<>>
  /\ Malformed(Current) \/ ~Parses(Current.end, Current.endMask)
  /\ todo' = Tail(todo)
  /\ UNCHANGED <<walk, cidrs, pool, lost, config>>

\* Fault: a range whose start does not parse is not skipped.
BeginRange_NoSkip ==
  /\ walk = <<>> /\ todo # <<>>
  /\ ~Malformed(Current) /\ Parses(Current.end, Current.endMask)
  /\ cidrs' = cidrs \cup {EndNetwork(Current)}
  /\ walk' = IF Parses(Current.start, Current.startMask)
             THEN <<Current.start, <<>>>> ELSE walk
  /\ UNCHANGED <<todo, pool, lost, config>>

\* The CIDR is known from here on, even if the start address does not parse.
\* The loop walks the network of the start address.
BeginRange ==
  /\ walk = <<>> /\ todo # <<>>
  /\ ~Malformed(Current) /\ Parses(Current.end, Current.endMask)
  /\ cidrs' = cidrs \cup {EndNetwork(Current)}
  /\ IF Parses(Current.start, Current.startMask)
     THEN walk' = <<Current.start, <<>>>> /\ UNCHANGED todo
     ELSE UNCHANGED walk /\ todo' = Tail(todo)
  /\ UNCHANGED <<pool, lost, config>>

\* Fault: the loop ends before the end address is collected.
AtEnd_Exclusive == walk[1] = Current.end

\* Fault: the loop does not look at the end address.
AtEnd_Never == FALSE

AtEnd == walk[2] # <<>> /\ Last(walk[2]) = Current.end

Collect ==
  /\ walk # <<>>
  /\ ~AtEnd /\ NetContains(StartNetwork(Current), walk[1])
  /\ walk' = <<inc(walk[1]), Append(walk[2], walk[1])>>
  /\ UNCHANGED <<todo, cidrs, pool, lost, config>>

\* InsertIP: one row for each address, all with the CIDR of the end address.  A
\* statement that fails is logged, and the rows behind it are inserted all the same.
InsertIP ==
  /\ walk # <<>>
  /\ AtEnd \/ ~NetContains(StartNetwork(Current), walk[1])
  /\ pool' = pool \o [i \in DOMAIN walk[2] |->
                        [ipaddress |-> walk[2][i], cidr |-> EndNetwork(Current)]]
  /\ \E failing \in Failures :
       lost' = lost \cup (failing \cap Len(pool) + 1..Len(pool'))
  /\ walk' = <<>> /\ todo' = Tail(todo)
  /\ UNCHANGED <<cidrs, config>>

\* What the table holds.
Inserted == DOMAIN pool \ lost

Next == SkipMalformed \/ BeginRange \/ Collect \/ InsertIP

Spec == Init /\ [][Next]_vars /\ WF_vars(Next)

-----------------------------------------------------------------------------
(* The reference: which rows a list of ranges stands for, as numbers.      *)

FirstV4 == (Base - 1) * Pow2[Width * ByteBits]

NumberOfRows(r) ==
  LET first == Value(r.start)
      size == Pow2[Bits(r.start) - r.startMask]
      top == (first \div size) * size + size - 1
      last == IF EndNetwork(r) = StartNetwork(r) /\ Value(r.end) >= first
              THEN Value(r.end)
              ELSE IF IsV4(r.start) \/ top < FirstV4 THEN top ELSE FirstV4 - 1
  IN  last - first + 1

RowsOf(r) ==
  IF Malformed(r) \/ ~Parses(r.end, r.endMask) \/ ~Parses(r.start, r.startMask)
  THEN <<>>
  ELSE [i \in 1..NumberOfRows(r) |->
          [value |-> Value(r.start) + i - 1, cidr |-> EndNetwork(r)]]

\* The rows InsertIP is given are the ranges in order, each from its start to its end,
\* or to the top of the start's network when the end is not above it there; an
\* IPv6 range stops short of the addresses that stand for IPv4.  The carry of
\* inc, the last network and the overflow past the highest address all come in.
PoolIsRanges ==
  todo = <<>> =>
    [i \in DOMAIN pool |-> [value |-> Value(pool[i].ipaddress), cidr |-> pool[i].cidr]]
      = FlattenSeq([i \in DOMAIN config |-> RowsOf(config[i])])

\* Each range is of IPv4 addresses of one network, and no two ranges overlap.
SoundConfig ==
  \A i, j \in DOMAIN config :
    /\ RowsOf(config[i]) # <<>> =>
         IsV4(config[i].start) /\ StartNetwork(config[i]) = EndNetwork(config[i])
    /\ \A a \in DOMAIN RowsOf(config[i]), b \in DOMAIN RowsOf(config[j]) :
         RowsOf(config[i])[a].value = RowsOf(config[j])[b].value => i = j

\* What the address store relies on: every row can be asked for under a known
\* CIDR; and from sound ranges, at any moment of the loop, each row is an IPv4
\* address of its CIDR that no other row has.
RowsAreSound ==
  /\ \A i \in Inserted : pool[i].cidr \in cidrs
  /\ SoundConfig =>
       /\ \A i \in Inserted :
            IsV4(pool[i].ipaddress) /\ NetContains(pool[i].cidr, pool[i].ipaddress)
       /\ \A i, j \in Inserted : pool[i].ipaddress = pool[j].ipaddress => i = j

\* At most one step for each address of each range, and two to begin and end it.
StepsLeft ==
  Len(todo) * (Base * Pow2[Width * ByteBits] + 2)
    - (IF walk = <<>> THEN 0 ELSE 1 + Len(walk[2]))

\* NewProvider does a bounded amount of work for any flag: each step leaves fewer
\* to make.  No range is walked twice or round past the highest address.
LoopIsBounded == [][StepsLeft' \in 0..StepsLeft - 1]_vars

\* The loop over the addresses ends for every configuration.
Terminates == <>(todo = <<>>)

\* The two ends of an accepted range have the same CIDR: a row's address lies in
\* the CIDR it can be asked for under.
RowsInTheirCidr == \A i \in Inserted : NetContains(pool[i].cidr, pool[i].ipaddress)

=============================================================================
