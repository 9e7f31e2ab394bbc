------------------------------- MODULE Lifecycle -------------------------------
(***************************************************************************)
(* One life of the process: main of cmd/f5-ipam-controller from its        *)
(* command line to its exit, the constructors it calls, the goroutines     *)
(* they start, and the log they share.  What the goroutines do with a      *)
(* resource event is the subject of FICSystem; here an event is only       *)
(* queued and, if all goes well, served.                                   *)
(*                                                                         *)
(* main runs alone up to the start of the first informer, so each          *)
(* constructor it calls is one step.                                       *)
(***************************************************************************)
EXTENDS Logger, FiniteSets

CONSTANTS
  Config,      \* the command lines and surroundings of the process
  Namespace,   \* namespaces an informer may watch
  AllNamespaces,  \* the namespace name "", standing for all
  MaxEvents    \* bound on the resource events

Main == "main"
ResourceWorker == "customResourceWorker"
ResponseWorker == "responseWorker"
Loop == "runController"

ASSUME LifecycleAssumption ==
  /\ Goroutine = {Main, ResourceWorker, ResponseWorker, Loop}
  /\ AllNamespaces \in Namespace
  /\ MaxEvents \in Nat
  /\ Config \subseteq
       [flags : BOOLEAN,        \* the flags parse
        level : STRING,         \* -log-level, in lower case
        orch : BOOLEAN,         \* -orchestration is given
        knownProvider : BOOLEAN,
        range : {"none", "quotes", "some"},  \* -ip-range: absent, or only quotes
        store : {"works",      \* the database opens, and its statements can be prepared
                 "fails",      \* it opens, but not all its statements can
                 "absent"},    \* it cannot be opened, or its tables not made
        inCluster : BOOLEAN,    \* InClusterConfig finds a configuration
        clients : BOOLEAN,      \* the three clients can be made from it
        namespaces : SUBSET Namespace,       \* what the client is asked to watch
        apiAnswers : BOOLEAN]   \* the API server answers the informers

VARIABLES
  conf,       \* the member of Config this life has
  pc,         \* where main is
  ended,      \* "no", or how the process ended
  orcr, mgr,  \* "nil" or "made": the orchestrator and the manager
  informers,  \* the namespaces with an informer
  started,    \* the informers that run
  synced,     \* the informers whose first list has arrived
  running,    \* the goroutines there are, informers aside
  notified,   \* whether signals are relayed to main
  signalled,  \* whether SIGINT or SIGTERM was sent
  queued,     \* events enqueued so far
  served,     \* events whose request runController answered
  missed      \* whether a resource was deleted while the watch was broken

made == <<orcr, mgr>>
informerVars == <<informers, started, synced>>
signalVars == <<notified, signalled>>
eventVars == <<queued, served, missed>>
vars == <<loggerVars, conf, pc, ended, made, informerVars, running, signalVars, eventVars>>

LifecycleTypeOK ==
  /\ LoggerTypeOK
  /\ conf \in Config
  /\ pc \in {"parse", "register", "verify", "orchestrator", "informers", "manager",
             "channels", "announce", "next", "run", "sync", "workers", "loop",
             "notify", "wait", "stop", "goodbye", "return"}
  /\ ended \in {"no", "exit 0", "exit 1", "panic", "killed"}
  /\ orcr \in {"nil", "made"} /\ mgr \in {"nil", "made"}
  /\ synced \subseteq started /\ started \subseteq informers
  /\ informers \subseteq conf.namespaces
  /\ Main \in running /\ running \subseteq Goroutine
  /\ notified \in BOOLEAN /\ signalled \in BOOLEAN
  /\ queued \in 0..MaxEvents /\ served \in 0..queued /\ missed \in BOOLEAN

Init ==
  /\ LoggerInit
  /\ conf \in Config
  /\ pc = "parse" /\ ended = "no"
  /\ orcr = "nil" /\ mgr = "nil"
  /\ informers = {} /\ started = {} /\ synced = {}
  /\ running = {Main}
  /\ notified = FALSE /\ signalled = FALSE
  /\ queued = 0 /\ served = 0 /\ missed = FALSE

\* main is at this point, and in no log call.
At(place) == ended = "no" /\ pc = place /\ stage[Main] = "idle"

GoTo(place) == pc' = place /\ UNCHANGED ended
End(how) == ended' = how /\ UNCHANGED pc

-----------------------------------------------------------------------------
(* Arguments.                                                              *)

Parse ==
  /\ At("parse")
  /\ IF conf.flags THEN GoTo("register") ELSE End("exit 1")
  /\ UNCHANGED <<loggerVars, conf, made, informerVars, running, signalVars, eventVars>>

\* verifyArgs registers the console logger before anything else.
RegisterConsole ==
  /\ At("register")
  /\ RegisterLogger(LL_DEBUG, LL_CRITICAL, consoleLogger)
  /\ GoTo("verify")
  /\ UNCHANGED <<conf, made, informerVars, running, signalVars, eventVars>>

String ==
  [l \in Level |->
     CASE l = LL_DEBUG -> "debug"
       [] l = LL_INFO -> "info"
       [] l = LL_WARNING -> "warning"
       [] l = LL_ERROR -> "error"
       [] l = LL_CRITICAL -> "critical"]

\* Fault: one of the names is not recognised.
NewLogLevel_NoWarning(s) == {l \in Level \ {LL_WARNING} : String[l] = s}

\* The level of that name, if there is one.
NewLogLevel(s) == {l \in Level : String[l] = s}

\* A missing range is only an error with the default provider, and quotes are
\* trimmed only afterwards.
ArgsOK ==
  /\ NewLogLevel(conf.level) # {}
  /\ conf.orch
  /\ conf.range = "none" => ~conf.knownProvider

VerifyArgs ==
  /\ At("verify")
  /\ IF NewLogLevel(conf.level) = {}
     THEN UNCHANGED loggerVars
     ELSE \E l \in NewLogLevel(conf.level) : SetLogLevel(l)
  /\ IF ArgsOK THEN GoTo("orchestrator") ELSE End("exit 1")
  /\ UNCHANGED <<conf, made, informerVars, running, signalVars, eventVars>>

-----------------------------------------------------------------------------
(* Constructors.                                                           *)

\* log.Fatalf: a line, Close of loggers that have nothing to flush, and exit.
Fatal ==
  /\ Log(Main, LL_CRITICAL)
  /\ End("exit 1")

NoClusterConfig ==
  /\ At("orchestrator") /\ ~conf.inCluster
  /\ Fatal
  /\ UNCHANGED <<conf, made, informerVars, running, signalVars, eventVars>>

\* NewIPAMClient logs the error and returns nil; so does NewIPAMK8SClient, and
\* main's test of the interface that holds this nil does not notice.
NoClients ==
  /\ At("orchestrator") /\ conf.inCluster /\ ~conf.clients
  /\ Log(Main, LL_ERROR)
  /\ GoTo("manager")
  /\ UNCHANGED <<conf, made, informerVars, running, signalVars, eventVars>>

NewOrchestrator ==
  /\ At("orchestrator") /\ conf.inCluster /\ conf.clients
  /\ Log(Main, LL_DEBUG)
  /\ orcr' = "made"
  /\ GoTo("informers")
  /\ UNCHANGED <<conf, mgr, informerVars, running, signalVars, eventVars>>

WatchingAll == AllNamespaces \in informers

\* Fault: only a second informer for all namespaces is refused.
Conflicts_AllOnly(ns) == informers # {} /\ ns = AllNamespaces

\* addNamespacedInformer's two errors.
Conflicts(ns) == WatchingAll \/ (informers # {} /\ ns = AllNamespaces)

\* setupInformersWithEventHandlers goes over the namespaces in map order; its
\* error is logged, and the client is used with the informers it has.
AddNamespacedInformer(ns) ==
  /\ At("informers") /\ ns \in conf.namespaces \ informers
  /\ IF Conflicts(ns)
     THEN /\ Log(Main, LL_ERROR)
          /\ GoTo("manager")
          /\ UNCHANGED informers
     ELSE /\ informers' = informers \cup {ns}
          /\ UNCHANGED <<loggerVars, pc, ended>>
  /\ UNCHANGED <<conf, made, started, synced, running, signalVars, eventVars>>

AllInformersAdded ==
  /\ At("informers") /\ conf.namespaces \subseteq informers
  /\ GoTo("manager")
  /\ UNCHANGED <<loggerVars, conf, made, informerVars, running, signalVars, eventVars>>

\* Fault: the provider's name is not asked for.
MakesManager_Always == conf.range = "some"

\* An unknown provider gives a nil Manager, an empty range one around nil.
MakesManager == conf.knownProvider /\ conf.range = "some"

\* NewProvider takes what NewStore returns without a look, and the first statement
\* on a nil store panics.  So does the first use of a statement that could not be
\* prepared, or of rows that could not be read, because those errors are ignored;
\* CreateTables may do so before NewStore has logged anything.
NoStore ==
  /\ At("manager") /\ MakesManager /\ conf.store # "works"
  /\ Log(Main, LL_ERROR) \/ UNCHANGED loggerVars
  /\ End("panic")
  /\ UNCHANGED <<conf, made, informerVars, running, signalVars, eventVars>>

NewManager ==
  /\ At("manager") /\ (MakesManager => conf.store # "absent")
  /\ IF MakesManager THEN Log(Main, LL_DEBUG) ELSE Log(Main, LL_ERROR)
  /\ mgr' = IF MakesManager THEN "made" ELSE "nil"
  /\ GoTo("channels")
  /\ UNCHANGED <<conf, orcr, informerVars, running, signalVars, eventVars>>

-----------------------------------------------------------------------------
(* Controller.Start.                                                       *)

\* SetupCommunicationChannels writes to fields of the orchestrator.
SetupCommunicationChannels ==
  /\ At("channels")
  /\ IF orcr = "made" THEN GoTo("announce") ELSE End("panic")
  /\ UNCHANGED <<loggerVars, conf, made, informerVars, running, signalVars, eventVars>>

Announce ==
  /\ At("announce")
  /\ Info(Main)
  /\ GoTo("next")
  /\ UNCHANGED <<conf, made, informerVars, running, signalVars, eventVars>>

\* The informers are started one after the other.
NextInformer ==
  /\ At("next")
  /\ IF informers \subseteq started
     THEN GoTo("workers") /\ UNCHANGED loggerVars
     ELSE GoTo("run") /\ Info(Main)
  /\ UNCHANGED <<conf, made, informerVars, running, signalVars, eventVars>>

RunInformer ==
  /\ At("run")
  /\ \E ns \in informers \ started : started' = started \cup {ns}
  /\ GoTo("sync")
  /\ UNCHANGED <<loggerVars, conf, made, informers, synced, running, signalVars, eventVars>>

\* Fault: start does not wait.
WaitForNamedCacheSync_Skipped ==
  /\ At("sync")
  /\ GoTo("next")
  /\ UNCHANGED <<loggerVars, conf, made, informerVars, running, signalVars, eventVars>>

\* start waits for the first list; nothing closes its stopCh meanwhile.
WaitForNamedCacheSync ==
  /\ At("sync")
  /\ started \subseteq synced
  /\ GoTo("next")
  /\ UNCHANGED <<loggerVars, conf, made, informerVars, running, signalVars, eventVars>>

StartWorkers ==
  /\ At("workers")
  /\ running' = running \cup {ResourceWorker, ResponseWorker}
  /\ GoTo("loop")
  /\ UNCHANGED <<loggerVars, conf, made, informerVars, signalVars, eventVars>>

\* Fault: the loop is not started.
StartLoop_Forgotten ==
  /\ At("loop")
  /\ GoTo("notify")
  /\ UNCHANGED <<loggerVars, conf, made, informerVars, running, signalVars, eventVars>>

StartLoop ==
  /\ At("loop")
  /\ running' = running \cup {Loop}
  /\ GoTo("notify")
  /\ UNCHANGED <<loggerVars, conf, made, informerVars, signalVars, eventVars>>

-----------------------------------------------------------------------------
(* Signals and the orderly end.                                            *)

\* Fault: signals are relayed as soon as the process starts.
Signal_Relayed ==
  /\ ended = "no" /\ ~signalled
  /\ signalled' = TRUE
  /\ UNCHANGED <<pc, ended>>
  /\ UNCHANGED <<loggerVars, conf, made, informerVars, running, notified, eventVars>>

\* The operator's SIGINT or SIGTERM ends the process at once as long as main has
\* not asked for signals; then the channel of capacity 1 keeps it for main.
Signal ==
  /\ ended = "no" /\ ~signalled
  /\ signalled' = TRUE
  /\ IF notified THEN UNCHANGED <<pc, ended>> ELSE End("killed")
  /\ UNCHANGED <<loggerVars, conf, made, informerVars, running, notified, eventVars>>

Notify ==
  /\ At("notify")
  /\ notified' = TRUE
  /\ GoTo("wait")
  /\ UNCHANGED <<loggerVars, conf, made, informerVars, running, signalled, eventVars>>

ReceiveSignal ==
  /\ At("wait") /\ signalled
  /\ GoTo("stop")
  /\ UNCHANGED <<loggerVars, conf, made, informerVars, running, signalVars, eventVars>>

\* Each informer's stopCh is closed, which ends its goroutines.
Stop ==
  /\ At("stop")
  /\ started' = {} /\ synced' = {}
  /\ GoTo("goodbye")
  /\ UNCHANGED <<loggerVars, conf, made, informers, running, signalVars, eventVars>>

Goodbye ==
  /\ At("goodbye")
  /\ Info(Main)
  /\ GoTo("return")
  /\ UNCHANGED <<conf, made, informerVars, running, signalVars, eventVars>>

\* main closes the stopCh of the workers, who never look at it while their
\* queues are open, and returns.
Return ==
  /\ At("return")
  /\ End("exit 0")
  /\ UNCHANGED <<loggerVars, conf, made, informerVars, running, signalVars, eventVars>>

-----------------------------------------------------------------------------
(* The other goroutines.                                                   *)

Sync(ns) ==
  /\ ended = "no" /\ conf.apiAnswers
  /\ ns \in started \ synced
  /\ synced' = synced \cup {ns}
  /\ UNCHANGED <<loggerVars, conf, pc, ended, made, informers, started, running,
                 signalVars, eventVars>>

\* An event of the first list may be handed over before the list is complete.
Enqueue ==
  /\ ended = "no" /\ conf.apiAnswers /\ started # {}
  /\ queued < MaxEvents
  /\ queued' = queued + 1
  /\ UNCHANGED <<loggerVars, conf, pc, ended, made, informerVars, running, signalVars, served,
                 missed>>

\* A resource the informers know is deleted while their watch is broken.
MissDeletion ==
  /\ ended = "no" /\ conf.apiAnswers /\ synced # {} /\ queued > 0
  /\ ~missed
  /\ missed' = TRUE
  /\ UNCHANGED <<loggerVars, conf, pc, ended, made, informerVars, running, signalVars,
                 queued, served>>

\* The list that follows reports it by a tombstone, and enqueueDeletedIPAM's
\* assertion that it was given an F5IPAM panics.
EnqueueTombstone ==
  /\ ended = "no" /\ conf.apiAnswers /\ started # {}
  /\ missed
  /\ End("panic")
  /\ UNCHANGED <<loggerVars, conf, made, informerVars, running, signalVars, eventVars>>

\* Fault: a request that was answered is left in the queue.
Serve_Twice ==
  /\ ended = "no"
  /\ queued > 0 /\ {ResourceWorker, Loop} \subseteq running
  /\ \/ mgr = "made" /\ served' = served + 1 /\ UNCHANGED <<pc, ended>>
     \/ (mgr = "nil" \/ conf.store = "fails") /\ End("panic") /\ UNCHANGED served
  /\ UNCHANGED <<loggerVars, conf, made, informerVars, running, signalVars, queued, missed>>

\* The request reaches runController, whose first Manager call panics on nil, and
\* any of whose calls panics on a statement that could not be prepared.
Serve ==
  /\ ended = "no"
  /\ served < queued /\ {ResourceWorker, Loop} \subseteq running
  /\ \/ mgr = "made" /\ served' = served + 1 /\ UNCHANGED <<pc, ended>>
     \/ (mgr = "nil" \/ conf.store = "fails") /\ End("panic") /\ UNCHANGED served
  /\ UNCHANGED <<loggerVars, conf, made, informerVars, running, signalVars, queued, missed>>

\* Handlers log at all levels while they work.
HandlerLogs(t) ==
  /\ ended = "no" /\ t \in running \ {Main}
  /\ Info(t) \/ \E level \in Level : Log(t, level)
  /\ UNCHANGED <<conf, pc, ended, made, informerVars, running, signalVars, eventVars>>

FinishInfo(t) ==
  /\ ended = "no"
  /\ PrintInfo(t) \/ RestoreOutput(t)
  /\ UNCHANGED <<conf, pc, ended, made, informerVars, running, signalVars, eventVars>>

-----------------------------------------------------------------------------
MainNext ==
  \/ Parse \/ RegisterConsole \/ VerifyArgs
  \/ NoClusterConfig \/ NoClients \/ NewOrchestrator
  \/ (\E ns \in Namespace : AddNamespacedInformer(ns)) \/ AllInformersAdded
  \/ NoStore \/ NewManager
  \/ SetupCommunicationChannels \/ Announce
  \/ NextInformer \/ RunInformer \/ WaitForNamedCacheSync
  \/ StartWorkers \/ StartLoop
  \/ Notify \/ ReceiveSignal \/ Stop \/ Goodbye \/ Return

Next ==
  \/ MainNext
  \/ Signal
  \/ \E ns \in Namespace : Sync(ns)
  \/ Enqueue \/ MissDeletion \/ EnqueueTombstone
  \/ Serve
  \/ \E t \in Goroutine : HandlerLogs(t) \/ FinishInfo(t)

Spec == Init /\ [][Next]_vars

\* Goroutines that can run do run, and an API server that answers does so in the
\* end; nothing obliges anyone to send a signal or to change a resource.
Fairness ==
  /\ WF_vars(MainNext)
  /\ \A ns \in Namespace : WF_vars(Sync(ns))
  /\ WF_vars(Serve)
  /\ \A t \in Goroutine : WF_vars(FinishInfo(t))

FairSpec == Spec /\ Fairness

-----------------------------------------------------------------------------
(* Properties.                                                             *)

OutOfArgs == pc \notin {"parse", "register", "verify"}

\* Behind verifyArgs the level that was asked for is the one every call is
\* filtered by: the logger is registered before the level is set.
RequestedLevelInForce ==
  OutOfArgs => LevelInForce /\ logLevel \in NewLogLevel(conf.level)

\* A process that finds no cluster configuration says so, whatever -log-level,
\* on stderr, before it exits.
FatalIsOnTheLog ==
  ended = "exit 1" /\ OutOfArgs
  => last \in Line /\ last.level = LL_CRITICAL /\ last.stream = STDERR

\* No resource is seen by two informers, whose handlers would allocate for each
\* of its events twice.
OneWatchPerResource == AllNamespaces \in informers => informers = {AllNamespaces}

\* No request is served before the first list of every informer is complete: the
\* store is rebuilt from all resources that were there.
ServesOnlyWhenSynced == served > 0 => started = {} \/ (started = informers /\ synced = informers)

\* What the error text of verifyArgs and the flags' usage texts ask for.
WellConfigured ==
  /\ conf.flags /\ conf.orch
  /\ conf.level \in {String[l] : l \in Level}
  /\ conf.inCluster /\ conf.clients
  /\ conf.knownProvider /\ conf.range = "some"

\* Without a signal the process only ends, by exit or panic, for a wrong
\* configuration, a store that does not work, or a deletion it was not told of.
EndsForAReason ==
  ended # "no" => signalled \/ ~WellConfigured \/ conf.store # "works" \/ missed

\* No request is answered by a process that lacks a client, a manager or a store,
\* although nothing notices any of the three nils.
AnswersOnlyWhenConfigured == served > 0 => WellConfigured /\ conf.store # "absent"

\* A signal ends the process at whatever point it arrives, an informer that waits
\* for an API server that never answers included.
SignalStops == signalled ~> ended # "no"

\* Every event is served in the end, or the process ends.
EventuallyServed == queued > served ~> (queued = served \/ ended # "no")

=============================================================================
