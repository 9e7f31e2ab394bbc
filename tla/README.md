# A verification project for f5-ipam-controller

The controller hands out IP addresses to the hosts that F5IPAM custom resources
name.  A CIS instance (the *user* below) lists hosts and CIDRs in the Spec of a
resource; the controller takes an address for each from the ranges it was
started with and publishes it in the Status.  The allocations live in an
in-memory SQLite database, so the Status is also what the controller rebuilds
its allocations from when it restarts.

This directory holds TLA+ modules of that program, the TLC configurations that
check them on small instances, and TLAPS proofs, for every value of the constants,
of every safety property the passing runs check.
Paths below are relative to the root of the repository.

## 1. The system

| Part | Source | State | Operations |
|---|---|---|---|
| Address store | `pkg/provider/sqlite/store.go` | tables `ipaddress_range`, `a_records` | the SQL statements: `InsertIP`, `AllocateIP`, `MarkIPAsAllocated`, `GetIPAddress`, `ReleaseIP`, `CreateARecord`, `DeleteARecord` |
| Provider | `pkg/provider/provider.go` | the set of configured CIDRs | turning ranges into rows (`generateExternalIPAddr`, `inc`); the CIDR checks of `AllocateIPAddress`, `GetNextAddr` |
| Manager | `pkg/manager` | none | the interface the loop calls; refuses addresses that are not IPv4 |
| Request loop | `pkg/controller/controller.go` | responses waiting in goroutines | `runController`: CREATE with and without an address, DELETE |
| Orchestrator | `pkg/orchestration/kuberntes.go` | the work queue, the locals of two workers | event handlers, `processResource`, `processResponse` |
| API client and informers | `pkg/ipammachinery` | informer caches | list and watch one namespace; `Get` and `Update` of a resource |
| Resource types | `pkg/ipamapis/apis` | - | `HostSpecs` (Spec), `IPStatus` (Status) |
| Generated client | `pkg/ipamapis/client` | - | clientset, listers, informers |
| Loggers | `pkg/vlogger` | the logger of each level, the level, the standard logger's output | `RegisterLogger`, `SetLogLevel`, one call per level |
| Start and stop | `cmd/f5-ipam-controller`, `NewX` and `Start`/`Stop` of the parts | the parts made so far, goroutines started | check the flags, build the parts, start, wait for a signal |

How they interact:

    users --> F5IPAM (API server) --> informer --> rscQueue --> processResource
                   ^                                                  | reqChan
                   |                                                  v
            processResponse <-- respChan <-- goroutines <------- runController
                                                                      | calls
                                                                Manager, Provider, store

Both channels are unbuffered.  `processResource` sends its requests one by one
and waits for the loop to take each; the loop answers from a new goroutine each
time (`controller.go:78`), so it never waits for `processResponse`, and the
answers arrive in any order.  The Status updates come back as UPDATE events.
Only the loop's goroutine touches the store.

What is hard here, and what correctness means:

* *Store and manager*: two tables, no transactions, an address is looked up and
  updated in separate statements, and nothing in the schema makes a row unique.
  An address in use must not be given to a second host, the two tables must
  agree, and what was handed out must stay reserved.
* *Range generation*: byte arithmetic with carry and overflow, two masks, two
  ends that may be anywhere.  The rows must be the range, and the loop must end.
* *Request loop*: several kinds of request over the same tables, answers out of
  order.  An address must only be announced to the host that holds it; a host must
  only lose its address to a DELETE of its own.
* *Orchestrator with the API server*: read-modify-write of whole objects against
  concurrent edits, lost and conflicting calls that are not repeated, feedback
  through the event queue, watches that break, deletions the informer misses,
  restarts from what happens to be published.  No edit of
  a user may be overwritten, an address once published must stay, no two hosts
  may share one, the system must settle, and when it has settled Spec, Status
  and store must agree.
* *Loggers*: the output of the process-wide standard logger is switched and
  switched back around each Info line while other goroutines write; the level
  filter lives in each logger object and is set once.  Every line must reach the
  stream of its level, and the level asked for must be the one in force.
* *Start and stop*: three nil results that no test catches, lists that may never
  arrive, signals at any moment, events that arrive before anyone reads them.
  Nothing may be served too early or by a process that lacks a part, a signal
  must always end it, and a fatal error must be on the log.

`PROJECT.json` lists these hazards one by one, with the line and the properties.

## 2. The modules

| Module | Models |
|---|---|
| `IPAMStore` | the two tables, the statements over them and the Manager calls made of them |
| `IPAMController` | the request loop over the store, responses as a bag |
| `IPAMAllocator` | abstract: exclusive ownership of addresses, and announcements |
| `ManagerCalls` | the Manager interface with any caller: its calls in any order |
| `FICSystem` | the whole program with API server, users, broken watches, crashes and restarts |
| `AddressBook` | abstract: what users who wait are promised about the Status |
| `IPRange` | from the `--ip-range` flag to the rows and CIDRs of the store |
| `Logger` | the logging package with its console and null loggers, used by any goroutines |
| `Lifecycle` | one life of the process, from the command line to the exit |
| `ManagerCallsProofs`, `IPAMControllerProofs` | theorems about the store and the Manager calls, and about the request loop |
| `FICSystemProofs`, `GrowthProofs`, `AgreementProofs` | theorems about the whole system: in general, with users who only add hosts, with users who wait |
| `AddressBookProofs` | a theorem about the address book |
| `LifecycleProofs` | theorems about logging, start-up and shut-down |
| `IPRangeProofs` | theorems about the rows a list of ranges becomes, and the lemmas about numbers and sequences they need |
| `MCIPAMController`, `MCManagerCalls`, `MCFICSystem`, `MCIPRange`, `MCLifecycle` | instances for TLC |

`IPAMController` and `ManagerCalls` extend `IPAMStore`; `FICSystem` extends
`IPAMController` and uses its `Handle(req)`, the body of the loop, as a part of
its own step; `IPAMController` instantiates `IPAMAllocator`, and `FICSystem`
`AddressBook`, for the refinements; `Lifecycle` extends `Logger`, whose calls are
parts of its steps.
Definitions whose comment begins with "Fault" are not part of any specification:
each is a definition next to it with a plausible programming error, and each
property is known to fail when the definition is replaced by it.

### IPAMStore

Rows are inserted once, so `ipaddress_range` is a constant sequence `Pool`, in id
order, and a variable `status`.  `aRecords` is a set: no statement can tell equal
rows apart.  Addresses are numbers in the order in which SQLite sorts their
text, which is what `ORDER BY ipaddress` looks at; the CIDR text decides which
rows a request finds, and `Net` which addresses the network contains, since
`AllocateIPAddress` checks both.  Each call is a state function for its answer
and an action for its effect.  A statement that fails, query or write, is a choice over
`StoreOutcome`; a query that fails answers what one that finds nothing answers.  Where the
code ignores an error, as `AllocateIP` does when its UPDATE fails, so does the
model.  Errors of `Prepare` are ignored too, and the nil statement panics at its first
use: that ends the process, which is `NoStore` and `Serve` of `Lifecycle`, and a crash in
`FICSystem`.  A row whose INSERT fails is not in the pool, which is `InsertIP` of `IPRange`.

The queries put their values in double quotes (`store.go:110`, `134`, `160`), which SQLite
reads as a column if there is one of that name, and as a string otherwise.  The model
compares strings: it assumes that no host is named like a column of `a_records`
(`hostname`, `ipaddress`, `rowid`).  A host named `hostname` would be answered with the
lowest address on record, whoever holds it.  A CIDR or an address is not the name of a column.

### IPAMController

One action for each alternative of the loop body: `GrantAsked`, `RefuseAsked`
(CREATE with an address, which restores a Status entry), `AnswerKnown`,
`GrantNext`, `DropExhausted` (CREATE without), `HandleDelete`.  Receiving a request
and handling it is one step, because no other goroutine sees the store, and the
goroutine that will send the answer exists when the body ends.  `inFlight` is
the bag of those goroutines; `Receive` takes any one of them.  `CtlrSpec` feeds the
loop every possible request, in any order, with at most `MaxInFlight` answers
waiting (a bound for TLC only: the theorems hold without a bound).

### FICSystem

* `f5ipam`: what the API server stores, with the resource version.
* `rscQueue`: the informer's delta queue and the work queue in one.  Work queue
  keys are pointers, so entries never merge.  The delta queue keeps the events
  of one object together, so an event goes to the end, or right behind the last
  event of the same object (`Enqueued`).  For two resources this is exact; for more it would
  allow a few orders more than there are.
* `todo`: what the running `processResource` has left to send.  It is a sequence
  of sets, as UPDATE iterates over Go maps, removals before additions.
* `put`: the local variables of `processResponse` between its `Get` and its
  `Update`.  `TakeResponse` is the receive and the Get, `PutUpdate` the PUT.
  A Get that fails returns an empty object, in which no entry is found.  A PUT is
  accepted if the version read is still current, and otherwise logged and
  forgotten, as in the code.  The resource has no status subresource, so the PUT
  writes Status and Spec.  A PUT that changes nothing makes no event.
* `up`, `Crash`, `Start`: everything but `f5ipam` is lost; the first list of the
  informer announces every resource with a CREATE event, in the order of the
  list.  A PUT that is on its way when the process is killed either lands
  before the crash or not at all.  This is an assumption about the API server that
  the code does nothing to bring about: a PUT that lands after the first list of
  the next process would publish an address the new store knows nothing of.
  `PublishedExclusive` rests on it, and so do `StickyAddress`, `PublishedHeld`, `Agreement`
  and `ImplementsAddressBook`.
* `stale`, `LoseWatch`, `Relist`: a watch that breaks is followed by a new
  list, as the vendored client-go does it (v0.16): what the informer knew is an
  UPDATE from the resource it knew to the one there is, what is new a CREATE, and
  what is gone a `DeletedFinalStateUnknown` tombstone.  Between the two the users' edits
  and the Status updates make no events, and a resource deleted and created again in
  the gap is an UPDATE.  As `DeltaFIFO.Replace` does, the new list joins the queue event by
  event, each at the end or behind what is still queued for its object (`EnqueuedAll`).
* `Panic`: `enqueueDeletedIPAM` asserts that the tombstone is a resource
  (`kuberntes.go:171`), which panics on the informer's goroutine.  The process ends,
  whatever its workers were doing, and is started again.

A CREATE event first sends the Status entries with their addresses, then the
Spec entries; a DELETE event sends what the Status held in the event; an UPDATE
event sends the difference of the two Specs and carries no Status, which the code
does not look at there.  Informer resyncs are off (period 0).

The users write Spec only.  Some constants restrict the environment, one run at
a time, to what a property can be claimed for: `Patient` users edit only when
the controller has settled; `GrowOnly` users never remove a host; with `CleanRestart` the process only stops when it has
settled, with `SoleRestart` only while at most one resource exists.  A tombstone stops it
in any case.

`AddressBook` has two variables, what each resource asks for and what it shows,
and four actions: a user asks, a user removes the resource, an entry is published
for a wanted host that has none, with an address no wanted host shows, an entry of an
unwanted host is withdrawn.  Store, queue, answers and restarts are gone.  In the
refinement a PUT that changes the Status is one `Publish` or one `Withdraw`, a user's
edit one `Ask` or `Remove`, and everything else a stutter.

### IPRange

`generateExternalIPAddr` and `inc` as a state machine: one action per range that
is skipped, begun, extended by an address, and inserted.  Any of the INSERTs may
fail, as a member of `Failures` says: the error is logged and the row is `lost`.  Package net is modelled by
what it computes: an address is one prefix byte, which stands for the twelve that
tell IPv4 from IPv6, and `Width` bytes, with `Base` values each.  A CIDR is the network
it denotes.  The end of a range can be below its start, in another network,
or of the other family; texts can fail to parse.  An IPv6 network can be so large that it
holds the addresses that stand for IPv4: `IPNet.Contains` tells them apart by the family,
and the loop stops in front of them.

### Logger

`vlog`, `logLevel` and `slLogLevel` are the registered logger of each level, the
package's filter and the filter of each logger object; `SetLogLevel` sets the
last only for loggers registered by then.  The standard logger locks each of its
calls, so `Log` (Debug, Warning, Error, Critical) is one step; `toSTDOUT` makes
three calls, `SetOutput`, `Println`, `SetOutput`, and is three steps: `SwitchOutput`,
`PrintInfo`, `RestoreOutput`.  `last` is the line written last, with the level it was
written at and the stream it went to; `met` is a history variable: whether this Info
call overlapped another one.  `LoggerSpec` is the package with any callers, in any order.

### Lifecycle

`pc` is where `main` is.  A step is a constructor with the lines it logs (main is
alone until the first informer runs), or a part of `Start` and `Stop`; `RunInformer`,
`WaitForNamedCacheSync`, `StartWorkers`, `StartLoop` and `Notify` are apart, as other
goroutines run between them.  `conf` says what is right and wrong about the command
line and the surroundings.  Nil results follow the code: `NewIPAMK8SClient` returns a nil
pointer which `NewOrchestrator` wraps in an interface that is not nil, so that the test in
`main.go:121` does not see it and the process panics when the controller first uses
it; a manager that is nil, or wraps a nil pointer, is noticed at the first request
only; and `NewProvider` takes a nil store, on which `CreateTables` or the first INSERT
panics (`NoStore`).  A statement of a later request that cannot be prepared panics in
`Serve`.  `Signal` kills the process until `Notify`, and is kept in a channel of
capacity 1 from then on.  `HandlerLogs` lets every other goroutine log at any level
at any time.  Events are counted here, from `Enqueue` to `Serve`.  `MissDeletion` and
`EnqueueTombstone` are what `LoseWatch` and `Panic` are in `FICSystem`: a deletion that a
broken watch misses comes back as a tombstone, on which `enqueueDeletedIPAM` panics.

## 3. What the runs check

| Run | Bounds | Shows |
|---|---|---|
| `controller` | 3 hosts, 4 addresses in 2 disjoint ranges plus an unknown CIDR, 2 answers waiting, every request | type, `ExclusiveOwner`, `TablesAgree`, `AnnouncesHolder`, and that the loop implements `IPAMAllocator` |
| `controller_faults` | 2 hosts, overlapping ranges, an address that is not IPv4, any statement may fail | `NoInterference`: a host loses a record only in a step that answers a DELETE of its own |
| `manager_calls` | 2 hosts, 4 addresses, all calls with all arguments | `Reserved`: an address handed out stays out of reach until released |
| `range` | all ranges over 16 IPv4 and 2 IPv6 addresses with masks of 0, 2 and 3 bits; all pairs from a list of wide, reversed, overlapping, disjoint and malformed ones | `PoolIsRanges`: the rows are those of an independent arithmetic definition; `RowsAreSound`: what the store relies on, at every moment and whichever INSERTs fail; `LoopIsBounded`, `Terminates` |
| `fic_grow` | 1 resource, 3 hosts for 2 addresses, edits at any time, lost calls, 2 crashes at any time | `StickyAddress`, `UserSpecsPreserved`, `PublishedExclusive`, `PublishedHeld`, `NoStarvation`, `Settles`, type |
| `fic_agree` | 2 resources that share a range; hosts come, go and change CIDR; 4 edits between settled states, of which those in a gap of the watch go unseen; a restart when settled with at most one resource, or by a tombstone | `Agreement` of Spec, Status and store; `ImplementsAddressBook` |
| `fic_published` | 1 resource, 3 hosts for 2 addresses, added one edit after the other between settled states, calls that get through, 2 crashes at any time | `EventuallyPublished`: a wanted host is published, or it has no address and its range is exhausted |
| `lifecycle` | the right configuration, each way of getting one thing wrong, all levels, 5 sets of namespaces, a store that is absent or whose statements fail; 2 events, a missed deletion, a signal at any time | type, `Routed`, `RequestedLevelInForce`, `FatalIsOnTheLog`, `OneWatchPerResource`, `ServesOnlyWhenSynced`, `EndsForAReason`, `AnswersOnlyWhenConfigured`, `SignalStops`, `EventuallyServed` |
| `controller_overlap` | as `controller_faults`, statements succeed | violation of `ExclusiveOwner` |
| `range_ends` | all ranges over the IPv4 addresses | violation of `RowsInTheirCidr` |
| `fic_restart_two` | 2 resources, 1 address, a restart when settled | violation of `StickyAddress` |
| `fic_failed_entry` | the same, with an edit at any time | violation of `PublishedHeld` |

Why the bounds are enough for the interesting cases: three hosts and two
addresses exhaust a range; the network of c1 holds an address outside its range,
so that an address can be in the CIDR and not in the pool; the row order differs
from the address order, so that the lowest id and the lowest address differ; two
waiting answers can overtake one another; two crashes put a second restart on
top of a half-finished first one.  All `fic` runs let one watch break, at any
moment.  `fic_grow` and `fic_published` pass as well with one edit or one crash more.  In
`range` the largest IPv6 network runs into the IPv4 addresses, the last IPv4 network ends at the
highest address, where `inc` overflows, and carries cross one byte and two.  In `lifecycle` two events are enough for one to be served while the other waits, and four
goroutines for Info calls that overlap pairwise and all at once.  `CHECK_DEADLOCK` is
off in the `range` and `lifecycle` runs, which end, and in the `fic` runs, which end when
the edits are used up and the system has settled; the request loop itself is checked
for deadlock.

Fairness.  `FairSpec` of `FICSystem` has weak fairness of `ProcessResource`,
`SendRequest`, `TakeResponse`, `PutUpdate`, `Relist`, `Panic` and `Start`: goroutines that
can run do, the reflector lists again, a tombstone reaches the handler, and the process
is restarted by what supervises it, a Deployment.  These actions are each the whole of one
goroutine's next step; what a goroutine does next is never disabled by
another, apart from a crash.  Nothing is assumed of users, of crashes or of
lost calls: a call may fail every time.  Liveness therefore does not say that
an address is published when calls get lost (it is not: a failed PUT is not
repeated), only that the system settles.  `EventuallyPublished` is for calls that
get through.  `FairSpec` of `Lifecycle` has weak fairness of main's next step, of
each informer's first list (an API server that answers does so in the end; in one
configuration it never does), of serving, and of finishing an Info line once begun.
Signals and events are never obliged to come.

### Divergences the violation runs show

* `controller_overlap`: the schema says `"ipaddress" TEXT PRIMARY_KEY`
  (`store.go:56`).  With the underscore it is part of a type name and no key, so
  two configured ranges that share an address give two hosts A records for it.
* `range_ends`: the comment says the CIDRs of both ends are compared
  (`provider.go:71`); the code compares the mask texts.  A range across networks
  is inserted under the CIDR of its end, though the addresses are not in it.
* `fic_restart_two`: the comment says that a restart first rebuilds the store
  from the Status (`kuberntes.go:208`).  This is so for each resource, not over all
  of them: a waiting host of the first resource takes the address that the
  second one has published.
* `fic_failed_entry`: the comment says that the entry of a refused CREATE is
  removed (`kuberntes.go:339`).  When that PUT meets an edit it is dropped, and the
  entry stays until the next restart, with an address that another host holds.

More were met that need no state exploration: `DeleteARecord` does not
release the address, as its comment says it does (`manager.go:9`); `AllocateIP`
returns an address whose UPDATE failed, though the interface says it is
reserved (`manager.go:13`); IPv6 ranges are logged as not supported and inserted
all the same (`provider.go:86`); the nil check of `main.go:121` can never fire; the
stop channel that `main` closes at the end (`main.go:148`) is looked at by no worker while
its queue is open.  The model does what the code does in each case.

### What is not claimed

The following can happen, and the runs' restrictions are there because of them.

* A host named under two CIDRs, or by two resources, loses its address when one
  of them drops it, as DELETE goes by host name.
* Users who edit before the controller has settled can get answers applied out of
  order, and a resource deleted before its Status is written leaks its addresses.
* The answer to the CREATE of a host that got a freed address can overtake the
  answer to the DELETE that freed it: for a moment the Status names the address
  for both.  If the process is killed at that moment, the restart gives the address
  to the host listed first, which may be the one that left, and refuses it to
  the one that published it.  `PublishedExclusive` and `StickyAddress` are therefore
  checked with hosts that are only added; with removals, `Agreement` holds
  whenever the system has settled.
* A host removed from the Spec while the process is down, or whose removal a crash
  interrupts, is restored from the Status and never released.  If it was moving to
  another CIDR, both entries stay.  The refusal of a stale entry can overtake, or be
  overtaken by, the success of a new one for the same host and CIDR, so that the wanted
  entry is lost and its address stays allocated.  `EventuallyPublished` is therefore checked with hosts that are
  only added.  A host that moves to another CIDR while the process is down is published with
  its old address there.
* A host that found its range exhausted is not served when an address is
  released later, until the next restart.

## 4. What is proved

All theorems hold for every value of the constants that satisfies the modules'
assumptions: no bound on hosts, addresses, ranges, resources, edits, crashes,
informers or namespaces.  `SoundPool` means no address in two rows, all of them IPv4,
and statements that succeed; `controller_overlap` shows that disjointness is needed.
`Growing` and `Settling` are in `FICSystem`, and `MCFICSystem` lets TLC confirm that the
instances of `fic_grow`, `fic_published` and `fic_agree` are ones the theorems speak of.
`PoolIsSound` says of the first two parts of `SoundPool` when the command line brings them about.

| Module | Theorem | States | Under |
|---|---|---|---|
| `IPAMControllerProofs` | `TypeCorrect` | `[]CtlrTypeOK` | - |
| | `OwnerIsExclusive`, `TablesStayInAgreement` | `[]ExclusiveOwner`, `[]TablesAgree` | `SoundPool` |
| | `LoopImplementsAllocator` | the loop refines `IPAMAllocator` | `SoundPool` |
| | `AnnouncedToHolders` | `AnnouncesHolder` | `SoundPool` |
| | `RecordsAreNotTaken` | `NoInterference` | - |
| `ManagerCallsProofs` | `HandedOutStaysReserved` | `[]Reserved` | `SoundPool` |
| `FICSystemProofs` | `SystemTyped`, `EditsSurvive`, `SystemOwnership` | `[]FICTypeOK`, `UserSpecsPreserved`, the loop's two invariants in the whole program | `SoundPool` |
| `GrowthProofs` | `PublishedStaysExclusive`, `PublishedStays`, `PublishedIsHeld` | `[]PublishedExclusive`, `StickyAddress`, `[]PublishedHeld` | `SoundPool`, `Growing` |
| | `NobodyIsForgotten` | `[]NoStarvation`, for any number of resources | `SoundPool`, `GrowOnly` |
| `AgreementProofs` | `SettledSystemAgrees` | `[]Agreement` | `SoundPool`, `Settling` |
| | `SystemImplementsAddressBook` | the whole program refines `AddressBook` | `SoundPool`, `Settling` |
| | `WantedHaveTheirOwn` | at every moment, wanted hosts show addresses of their own | `SoundPool`, `Settling` |
| `AddressBookProofs` | `WantedAreExclusive` | wanted hosts show addresses of their own, in the abstract specification | - |
| `LifecycleProofs` | `LifecycleTyping` | `[]LifecycleTypeOK` | - |
| | `LinesAreRouted`, `LogIsRouted` | `[]Routed` for the package with any callers, and in the program | - |
| | `LevelIsInForce`, `FatalSaysWhy`, `NoDoubleWatch`, `ServesBehindTheLists`, `EndsForAReasonAlways`, `NilsNeverAnswer` | the other safety properties of `lifecycle` | - |
| `IPRangeProofs` | `PoolFromRanges` | `[]PoolIsRanges` | - |
| | `PoolIsSound` | `[]RowsAreSound` | - (`SoundConfig` is inside the property) |
| | `WorkIsBounded` | `LoopIsBounded` | - |

**The request loop.**  Neither invariant is inductive alone.  That a granted row's
address has no owner follows from `TablesAgree`; that releasing an address leaves no
record behind, and so keeps the tables in agreement, follows from `ExclusiveOwner`.
The invariant is `OwnerInv`, their conjunction with `CtlrTypeOK` and `Announcing`
(a success answer to a CREATE carries an address).  The lemmas follow the code:
`GetIPAddressFinds`, `NextRow` and `AskedRow` (`ManagerCallsProofs`) say what the queries return,
`Grants` and `Releases` what the two ways of changing the tables do, `GrantStep` and
`DeleteStep` which actions take them.  For the refinement `HolderFacts` and
`HolderStays` relate the records to the abstract owner, and each action is one
abstract step: a grant is `Assign`, a known host `Announce`, a delete `Free`, a
delivery `Arrive`; the others stutter.  `AnnouncesHolder` speaks of the moment at
which an answer appears in the bag, so its proof adds `Counting` (every count of
the bag is a natural number) and shows that a step adds at most the answer of
the request it handles.  `NoInterference` needs no invariant: `HandleKeepsOthers`
looks at what each alternative deletes.

**The Manager calls.**  `Reserved` is inductive together with the type of `status`
(`CallInv`): both allocating calls look for available rows only, and with no address in two rows an address that
is out has no other row they could find.

**The whole program.**  `SysInv` is `FICTypeOK`, `OwnerInv` and `PutIsCurrent`: a PUT
whose version is the stored one carries the stored Spec.  The last is the version
argument: the version grows with every write, the object in `processResponse`'s
hands was read at the version it names, and so an object with an old Spec has an old
version and is refused.  `OwnerInv` holds over crashes as a new process starts with
empty tables.

**Published addresses.**  `Growing` is one resource, whose user only adds hosts and asks
for each under one CIDR, and ranges whose addresses lie in the CIDR of their rows.  The
instance of `fic_grow` satisfies it; `fic_restart_two` and `range_ends` show why
the first and the last are needed, and section 3 what removals do.  No invariant of the Status and
the store alone is inductive, as the store is empty after a crash.  `GrowInv` says how the
two come together again: first the list is queued with the stored Status and nothing
else has happened (`QueueInv`, `Fresh`); then the requests that restore entries wait in front
of all others, their hosts without a record and their addresses free (`TodoInv`), and every
published entry is recorded or waits (`HeldInv`); at the end all are recorded.  So no new
address is granted before every published one is taken again.  Answers and PUTs
are successes whose address the host holds (`AnswerInv`), a host has one record
(`RecordInv`), and a PUT that will be accepted stores the present Status with this one answer
recorded (`PutInv`).  `PublishedHeld` is the last phase of it.

**Nobody is forgotten.**  This needs neither one resource nor ranges inside their CIDRs, only
hosts that are never removed: then no DELETE is ever made, and no address goes back to a
range.  `DemandInv` says of every wanted host of a running process that it is served (it has an address, or its
CIDR has none left), or its request is being sent, or the event that will make the request is
queued, or a broken watch has missed the edit and the next list will differ from what the
informer knew.  Each step moves a host along this chain and no step throws it off: a
refused or lost Status update concerns a host that is served already, and a crash is followed by
a first list in which all are queued again.

**Users who wait.**  `Settling` is what a user of two CIS instances would have to keep to:
edits and restarts only when all has settled, calls that get through, a host named by one
resource and under one CIDR at a time, and restarts with at most one resource.  The last is why
there are at most two resources: the deletion of one in a gap of the watch makes a tombstone,
which stops the process whatever else there is, and `fic_restart_two` shows what a restart
with two can do.  Section 3 says what happens without the others.  Hosts are removed and move
here, and an address goes from one host to the next while answers of both are under
way, so nothing about one part of the state is inductive.  `WaitInv` has seven parts.

* `DueInv`: of all events queued or still to come from the next list, at most one changes
  anything (the others are the echoes of Status updates).  While it waits everything
  else is as it was left when it had settled, and what it was made from is still so
  (`Justified`): for an edit, every entry shown was asked for before; for a first list, the store
  is empty and no two entries share an address.
* `TodoInv`: removals come before additions, and entries to restore, whose addresses nobody
  has taken, before hosts without one.  A removal is of a host that is not wanted,
  so that DELETE by host name hits no other.
* `AnswerInv`: an answer to a CREATE names the address on record for a wanted host; an
  answer to a DELETE is of an unwanted one.  So answers may overtake each other: no two are of one
  entry with different intents.
* `PutInv`: a PUT is of the present version.
* `StatusInv`: every entry shown is accounted for.  It is wanted and on record, or about to be
  restored; or unwanted, and about to be released, or with the answer of its release under way.
* `RecordInv`: a host has one record, which is shown, or answered, or about to be released.
* `LifeInv`: a process that is down has left nothing but the Status.

When all has settled nothing is about to happen, and `StatusInv` and `RecordInv` become the two
halves of `Agreement`.  For the refinement, the PUT of a CREATE is a `Publish`: an entry of a wanted
host with the same address would be on record, for the same host and so under the same key, or
wait to be restored, when nobody could have recorded the address.  The PUT of a DELETE
is a `Withdraw`, users ask and remove, and all else leaves the Status and the Specs alone.

**The address book.**  `BookInv` says that wanted entries are exclusive, for hosts and for
addresses; an entry of an unwanted host may share an address with it, which is the freed
address on its way to the next host.

**Logging and one life of the process.**  `LifecycleProofs` first shows that every step
of the program is a step of `LoggerSpec` (`LogsThroughThePackage`), which gives `Routed`
from the package's invariant.  The rest is one inductive invariant over `pc`: the arguments
are checked before anything is built (`ArgsInv`), nobody else logs before the first informer runs (`QuietInv`), the
registered loggers and the level from then on (`LogInv`), which parts were built (`ConstructedInv`),
what has been started after what (`StartedInv`), and why the process has ended (`EndInv`):
a signal, a wrong configuration, a store that does not work, or a missed deletion.

**From the flag to the rows.**  `RangeInv` relates the loop to the reference.  `TodoInv`: the ranges not yet
done are the last of the configuration.  `WalkInv`: the addresses collected are, as numbers, the
first rows of the current range, no more than it has, and the next one is their successor, or zero after the highest of all.  `PoolInv`:
the rows given to `InsertIP` are the rows of the ranges done, in order.  `RowInv` says of each row
where it lies, so what it says holds of the rows that are left when some INSERTs fail.  The arithmetic
is in the lemmas: an address is the number its bytes count (`ValueFacts`), two of
one number are the same (`ValueInjective`), `inc` adds one or wraps to zero (`IncFacts`), the numbers of a network are the interval around
the start's (`Block`, `TopFacts`), and so the loop leaves the range exactly when it has collected the
last row's address, whichever of its two tests ends it (`InsideRange`, `BeyondRange`, `WalkEnds`).  For
`RowsAreSound`, `JoinsDistinct` shows that joining the rows of ranges that do not overlap repeats no address.
`LoopIsBounded` is the variant of the loop: what is left is a natural number that each step
makes smaller.  With it only the fairness of `Terminates` stays with TLC.

The definitions here are recursive: `Pow2` over numbers, `Value` over the bytes, `FlattenSeq` over the
ranges.  `Recursion` shows that such a function exists and satisfies its equation, from the functions on
0..n that do, and induction is an argument about sets, by a least counterexample (`Induction`, from `WFMin`).

Model-checked only:

* Liveness (`Settles`, `EventuallyPublished`, `Terminates`, `SignalStops`,
  `EventuallyServed`): it rests on fairness, which is out of the proof system's reach.

## 5. What is not modelled

* `pkg/ipamapis/client`: generated by client-gen, lister-gen and informer-gen.  Each method builds
  a REST call or reads a cache of client-go and keeps no state; what they do together
  is the API server and the informer of `FICSystem`.  Listers and fakes are not used by the program.
* Deep copies (`zz_generated.deepcopy.go`): values are immutable in the model.
* `Create`, `Delete` and `getNamespacedInformer` of `pkg/ipammachinery`, `RegisterCRD`: nothing calls them, or
  the call is commented out.
* The texts of the program: usage, version, formats and prefixes of lines, the JSON form of log
  levels, `vlogger/doc.go`.  `Panic` and `Panicf` of the loggers are not called by the program.
* Several namespaces in `FICSystem`, since `main` passes one; `Lifecycle` models the
  informers of several, as `ipammachinery` allows them.
* The SQL engine and package net, but for what the statements and calls of this code return.

## 6. Plan

What could be added, in order of use:

1. Users who name one host under several CIDRs or in several resources, with a property that
   says what they may still rely on; so far section 3 only says what they lose.
2. Hosts that move while the process is down: what may be lost, and what not.
3. Three resources and more under `Settling`, with lists that never show a tombstone.
