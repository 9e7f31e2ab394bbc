---------------------------- MODULE LifecycleProofs ----------------------------
(***************************************************************************)
(* Safety of Lifecycle and of the logging package it runs over, for every  *)
(* set of configurations and namespaces and any number of events.          *)
(***************************************************************************)
EXTENDS Lifecycle, TLAPS

-----------------------------------------------------------------------------
(* The logging package, for any goroutines and any order of registrations, *)
(* level changes and level calls.                                          *)

LEMMA LoggerInitTyped == LoggerInit => LoggerTypeOK
  BY DEF LoggerInit, LoggerTypeOK, Level, Priority, LoggerObject, Stream, STDERR,
         LL_DEBUG, LL_CRITICAL, LOG_CRIT, LOG_DEBUG, nullLogger

LEMMA LoggerTyping == LoggerSpec => []LoggerTypeOK
  <1>1. LoggerInit => LoggerTypeOK
    BY LoggerInitTyped
  <1>2. LoggerTypeOK /\ [LoggerNext]_loggerVars => LoggerTypeOK'
    <2> SUFFICES ASSUME LoggerTypeOK, [LoggerNext]_loggerVars PROVE LoggerTypeOK'
      OBVIOUS
    <2> USE DEF LoggerTypeOK
    <2>1. ASSUME NEW a \in Level, NEW b \in Level, NEW log \in LoggerObject,
                 RegisterLogger(a, b, log)
          PROVE LoggerTypeOK'
      BY <2>1 DEF RegisterLogger
    <2>2. ASSUME NEW level \in Level, SetLogLevel(level) PROVE LoggerTypeOK'
      <3>1. logLevelToSyslogLevel[level] \in Priority
        BY DEF logLevelToSyslogLevel, Level, Priority, LL_DEBUG, LL_INFO, LL_WARNING,
               LL_ERROR, LL_CRITICAL, LOG_CRIT, LOG_ERR, LOG_WARNING, LOG_INFO, LOG_DEBUG
      <3>2. QED
        BY <2>2, <3>1 DEF SetLogLevel
    <2>3. ASSUME NEW t \in Goroutine, NEW level \in Level, Log(t, level)
          PROVE LoggerTypeOK'
      <3> DEFINE others == InToSTDOUT # {}
      <3>1. others \in BOOLEAN
        OBVIOUS
      <3> HIDE DEF others
      <3>2. [level |-> level, stream |-> output, met |-> others] \in Line
        BY <3>1 DEF Line
      <3>3. last' \in Line \cup {<<>>}
        <4>1. CASE Writes(level)
          BY <2>3, <3>2, <4>1 DEF Log, Println, others
        <4>2. CASE ~Writes(level)
          BY <2>3, <4>2 DEF Log
        <4>3. QED
          BY <4>1, <4>2
      <3>4. QED
        BY <2>3, <3>3 DEF Log
    <2>4. ASSUME NEW t \in Goroutine, Info(t) PROVE LoggerTypeOK'
      BY <2>4 DEF Info, SkipInfo, SwitchOutput, loggerVars, Stream, STDOUT
    <2>5. ASSUME NEW t \in Goroutine, PrintInfo(t) PROVE LoggerTypeOK'
      BY <2>5 DEF PrintInfo, Println, Line, Level, LL_INFO, LL_DEBUG, LL_CRITICAL
    <2>6. ASSUME NEW t \in Goroutine, RestoreOutput(t) PROVE LoggerTypeOK'
      BY <2>6 DEF RestoreOutput, Stream, STDERR
    <2>7. CASE UNCHANGED loggerVars
      BY <2>7 DEF loggerVars
    <2>8. QED
      BY <2>1, <2>2, <2>3, <2>4, <2>5, <2>6, <2>7 DEF LoggerNext
  <1>3. QED
    BY <1>1, <1>2, PTL DEF LoggerSpec

(***************************************************************************)
(* What Routed needs to be inductive.  The output is only away from stderr *)
(* while some Info call is in progress; two calls in progress have both    *)
(* met another; and a call that met none finds the output as it set it.    *)
(***************************************************************************)
OutputRestored == InToSTDOUT = {} => output = STDERR
AllHaveMet == \A t, u \in InToSTDOUT : t # u => met[t]
UnmetIsSwitched ==
  \A t \in Goroutine : stage[t] = "switched" /\ ~met[t] => output = STDOUT

RoutedInv == OutputRestored /\ AllHaveMet /\ UnmetIsSwitched /\ Routed

\* Whatever the application registers and however its goroutines interleave, a
\* line only goes to the wrong stream when toSTDOUT calls of two goroutines, or
\* the line and a toSTDOUT call, overlap.
THEOREM LinesAreRouted == LoggerSpec => []Routed
  <1>1. LoggerInit => RoutedInv
    BY DEF LoggerInit, RoutedInv, OutputRestored, AllHaveMet, UnmetIsSwitched, Routed,
           InToSTDOUT
  <1>2. LoggerTypeOK /\ RoutedInv /\ [LoggerNext]_loggerVars => RoutedInv'
    <2> SUFFICES ASSUME LoggerTypeOK, RoutedInv, [LoggerNext]_loggerVars
                 PROVE RoutedInv'
      OBVIOUS
    <2> USE DEF RoutedInv, OutputRestored, AllHaveMet, UnmetIsSwitched, Routed
    <2>1. ASSUME NEW a \in Level, NEW b \in Level, NEW log \in LoggerObject,
                 RegisterLogger(a, b, log)
          PROVE RoutedInv'
      BY <2>1 DEF RegisterLogger, InToSTDOUT
    <2>2. ASSUME NEW level \in Level, SetLogLevel(level) PROVE RoutedInv'
      BY <2>2 DEF SetLogLevel, InToSTDOUT
    <2>3. ASSUME NEW t \in Goroutine, NEW level \in Level, Log(t, level)
          PROVE RoutedInv'
      <3>1. Routed'
        <4>1. CASE Writes(level)
          <5> DEFINE others == InToSTDOUT # {}
          <5>1. last' = [level |-> level, stream |-> output, met |-> others]
            BY <2>3, <4>1 DEF Log, Println
          <5>2. last'.level = level /\ last'.stream = output /\ last'.met = others
            BY <5>1
          <5>3. QED
            BY <2>3, <5>2 DEF Log
        <4>2. CASE ~Writes(level)
          BY <2>3, <4>2 DEF Log
        <4>3. QED
          BY <4>1, <4>2
      <3>2. QED
        BY <2>3, <3>1 DEF Log, InToSTDOUT
    <2>4. ASSUME NEW t \in Goroutine, SkipInfo(t) PROVE RoutedInv'
      BY <2>4 DEF SkipInfo, loggerVars, InToSTDOUT
    <2>5. ASSUME NEW t \in Goroutine, SwitchOutput(t) PROVE RoutedInv'
      <3>1. InToSTDOUT' = InToSTDOUT \cup {t}
        BY <2>5 DEF SwitchOutput, InToSTDOUT, LoggerTypeOK
      <3>2. AllHaveMet'
        <4> SUFFICES ASSUME NEW u \in InToSTDOUT', NEW v \in InToSTDOUT', u # v
                     PROVE met'[u]
          BY DEF AllHaveMet
        <4>1. CASE u = t
          BY <4>1, <3>1, <2>5 DEF SwitchOutput
        <4>2. CASE u # t
          BY <4>2, <3>1, <2>5 DEF SwitchOutput, InToSTDOUT
        <4>3. QED
          BY <4>1, <4>2
      <3>3. OutputRestored' /\ UnmetIsSwitched' /\ Routed'
        BY <3>1, <2>5 DEF SwitchOutput
      <3>4. QED
        BY <3>2, <3>3
    <2>6. ASSUME NEW t \in Goroutine, PrintInfo(t) PROVE RoutedInv'
      <3>1. InToSTDOUT' = InToSTDOUT
        BY <2>6 DEF PrintInfo, InToSTDOUT, LoggerTypeOK
      <3>2. Routed'
        BY <2>6 DEF PrintInfo, Println
      <3>3. UnmetIsSwitched'
        BY <2>6 DEF PrintInfo, LoggerTypeOK
      <3>4. QED
        BY <2>6, <3>1, <3>2, <3>3 DEF PrintInfo
    <2>7. ASSUME NEW t \in Goroutine, RestoreOutput(t) PROVE RoutedInv'
      <3>1. InToSTDOUT' = InToSTDOUT \ {t} /\ t \in InToSTDOUT
        BY <2>7 DEF RestoreOutput, InToSTDOUT, LoggerTypeOK
      <3>2. AllHaveMet'
        BY <2>7, <3>1 DEF RestoreOutput, LoggerTypeOK
      <3>3. UnmetIsSwitched'
        <4> SUFFICES ASSUME NEW u \in Goroutine, stage'[u] = "switched", ~met'[u]
                     PROVE FALSE
          BY DEF UnmetIsSwitched
        <4>1. u # t /\ u \in InToSTDOUT
          BY <2>7 DEF RestoreOutput, InToSTDOUT, LoggerTypeOK
        <4>2. met[u]
          BY <3>1, <4>1
        <4>3. QED
          BY <2>7, <4>1, <4>2 DEF RestoreOutput, LoggerTypeOK
      <3>4. QED
        BY <2>7, <3>2, <3>3 DEF RestoreOutput
    <2>8. CASE UNCHANGED loggerVars
      BY <2>8 DEF loggerVars, InToSTDOUT
    <2>9. QED
      BY <2>1, <2>2, <2>3, <2>4, <2>5, <2>6, <2>7, <2>8 DEF LoggerNext, Info
  <1>3. RoutedInv => Routed
    BY DEF RoutedInv
  <1>4. QED
    BY <1>1, <1>2, <1>3, LoggerTyping, PTL DEF LoggerSpec

-----------------------------------------------------------------------------
(* The process.                                                            *)

\* Every step of the process is a step of the logging package, or none of its.
LEMMA LogsThroughThePackage == Spec => LoggerSpec
  <1> USE LifecycleAssumption
  <1>1. Init => LoggerInit
    BY DEF Init
  <1>2. [Next]_vars => [LoggerNext]_loggerVars
    <2> SUFFICES ASSUME [Next]_vars PROVE [LoggerNext]_loggerVars
      OBVIOUS
    <2> USE DEF LoggerNext
    <2>1. CASE Parse
      BY <2>1 DEF Parse, loggerVars
    <2>2. CASE RegisterConsole
      BY <2>2 DEF RegisterConsole, Level, LoggerObject, LL_DEBUG, LL_CRITICAL
    <2>3. CASE VerifyArgs
      BY <2>3 DEF VerifyArgs, NewLogLevel, loggerVars
    <2>4. CASE NoClusterConfig
      <3>1. LL_CRITICAL \in Level
        BY DEF Level, LL_DEBUG, LL_CRITICAL
      <3>2. Log(Main, LL_CRITICAL)
        BY <2>4 DEF NoClusterConfig, Fatal
      <3>3. QED
        BY <3>1, <3>2
    <2>5. CASE NoClients
      BY <2>5 DEF NoClients, Level, LL_DEBUG, LL_CRITICAL, LL_ERROR
    <2>6. CASE NewOrchestrator
      BY <2>6 DEF NewOrchestrator, Level, LL_DEBUG, LL_CRITICAL
    <2>7. ASSUME NEW ns \in Namespace, AddNamespacedInformer(ns) PROVE [LoggerNext]_loggerVars
      BY <2>7 DEF AddNamespacedInformer, Level, LL_DEBUG, LL_CRITICAL, LL_ERROR, loggerVars
    <2>8. CASE AllInformersAdded
      BY <2>8 DEF AllInformersAdded
    <2>9. CASE NewManager
      BY <2>9 DEF NewManager, Level, LL_DEBUG, LL_CRITICAL, LL_ERROR
    <2>10. CASE SetupCommunicationChannels
      BY <2>10 DEF SetupCommunicationChannels
    <2>11. CASE Announce
      BY <2>11 DEF Announce
    <2>12. CASE NextInformer
      BY <2>12 DEF NextInformer, loggerVars
    <2>13. CASE RunInformer
      BY <2>13 DEF RunInformer
    <2>14. CASE WaitForNamedCacheSync
      BY <2>14 DEF WaitForNamedCacheSync
    <2>15. CASE StartWorkers
      BY <2>15 DEF StartWorkers
    <2>16. CASE StartLoop
      BY <2>16 DEF StartLoop
    <2>17. CASE Notify
      BY <2>17 DEF Notify
    <2>18. CASE ReceiveSignal
      BY <2>18 DEF ReceiveSignal
    <2>19. CASE Stop
      BY <2>19 DEF Stop
    <2>20. CASE Goodbye
      BY <2>20 DEF Goodbye
    <2>21. CASE Return
      BY <2>21 DEF Return
    <2>22. CASE Signal
      BY <2>22 DEF Signal
    <2>23. ASSUME NEW ns \in Namespace, Sync(ns) PROVE [LoggerNext]_loggerVars
      BY <2>23 DEF Sync
    <2>24. CASE Enqueue
      BY <2>24 DEF Enqueue
    <2>25. CASE Serve
      BY <2>25 DEF Serve
    <2>26. ASSUME NEW t \in Goroutine, HandlerLogs(t) PROVE [LoggerNext]_loggerVars
      BY <2>26 DEF HandlerLogs
    <2>27. ASSUME NEW t \in Goroutine, FinishInfo(t) PROVE [LoggerNext]_loggerVars
      BY <2>27 DEF FinishInfo
    <2>28. CASE NoStore
      BY <2>28 DEF NoStore, Level, LL_DEBUG, LL_CRITICAL, LL_ERROR
    <2>29. CASE MissDeletion
      BY <2>29 DEF MissDeletion
    <2>30. CASE EnqueueTombstone
      BY <2>30 DEF EnqueueTombstone
    <2>31. CASE UNCHANGED vars
      BY <2>31 DEF vars
    <2>32. CASE MainNext
      BY <2>32, <2>1, <2>2, <2>3, <2>4, <2>5, <2>6, <2>7, <2>8, <2>9, <2>10, <2>11, <2>12, <2>13, <2>14, <2>15, <2>16, <2>17, <2>18, <2>19, <2>20, <2>21, <2>28 DEF MainNext
    <2>33. QED
      BY <2>22, <2>23, <2>24, <2>25, <2>26, <2>27, <2>29, <2>30, <2>31, <2>32 DEF Next
  <1>3. QED
    BY <1>1, <1>2, PTL DEF Spec, LoggerSpec

\* In a whole life of the process, from the null loggers of the package's init to
\* the last line, only overlapping toSTDOUT calls misroute a line.
THEOREM LogIsRouted == Spec => []Routed
  BY LogsThroughThePackage, LinesAreRouted, PTL

-----------------------------------------------------------------------------

\* In every life of the process no more events are served than were queued, no
\* goroutine ends that was not started, and nothing watches but the namespaces asked for.
THEOREM LifecycleTyping == Spec => []LifecycleTypeOK
  <1> USE LifecycleAssumption
  <1>1. Init => LifecycleTypeOK
    <2> SUFFICES ASSUME Init PROVE LifecycleTypeOK
      OBVIOUS
    <2>1. LoggerTypeOK
      BY LoggerInitTyped DEF Init
    <2>2. queued \in 0..MaxEvents /\ served \in 0..queued
      BY DEF Init
    <2>3. conf \in Config /\ informers \subseteq conf.namespaces
      BY DEF Init
    <2>4. Main \in running /\ running \subseteq Goroutine
      BY DEF Init
    <2>5. QED
      BY <2>1, <2>2, <2>3, <2>4 DEF Init, LifecycleTypeOK
  <1>2. LifecycleTypeOK /\ LoggerTypeOK' /\ [Next]_vars => LifecycleTypeOK'
    <2> SUFFICES ASSUME LifecycleTypeOK, LoggerTypeOK', [Next]_vars PROVE LifecycleTypeOK'
      OBVIOUS
    <2> USE DEF LifecycleTypeOK, At, GoTo, End, made, informerVars, signalVars, eventVars
    <2>1. CASE Parse
      BY <2>1 DEF Parse
    <2>2. CASE RegisterConsole
      BY <2>2 DEF RegisterConsole
    <2>3. CASE VerifyArgs
      BY <2>3 DEF VerifyArgs
    <2>4. CASE NoClusterConfig
      BY <2>4 DEF NoClusterConfig, Fatal
    <2>5. CASE NoClients
      BY <2>5 DEF NoClients
    <2>6. CASE NewOrchestrator
      BY <2>6 DEF NewOrchestrator
    <2>7. ASSUME NEW ns \in Namespace, AddNamespacedInformer(ns) PROVE LifecycleTypeOK'
      BY <2>7 DEF AddNamespacedInformer
    <2>8. CASE AllInformersAdded
      BY <2>8 DEF AllInformersAdded
    <2>9. CASE NewManager
      BY <2>9 DEF NewManager
    <2>10. CASE SetupCommunicationChannels
      BY <2>10 DEF SetupCommunicationChannels
    <2>11. CASE Announce
      BY <2>11 DEF Announce
    <2>12. CASE NextInformer
      BY <2>12 DEF NextInformer
    <2>13. CASE RunInformer
      BY <2>13 DEF RunInformer
    <2>14. CASE WaitForNamedCacheSync
      BY <2>14 DEF WaitForNamedCacheSync
    <2>15. CASE StartWorkers
      BY <2>15 DEF StartWorkers
    <2>16. CASE StartLoop
      BY <2>16 DEF StartLoop
    <2>17. CASE Notify
      BY <2>17 DEF Notify
    <2>18. CASE ReceiveSignal
      BY <2>18 DEF ReceiveSignal
    <2>19. CASE Stop
      BY <2>19 DEF Stop
    <2>20. CASE Goodbye
      BY <2>20 DEF Goodbye
    <2>21. CASE Return
      BY <2>21 DEF Return
    <2>22. CASE Signal
      BY <2>22 DEF Signal
    <2>23. ASSUME NEW ns \in Namespace, Sync(ns) PROVE LifecycleTypeOK'
      BY <2>23 DEF Sync
    <2>24. CASE Enqueue
      BY <2>24 DEF Enqueue
    <2>25. CASE Serve
      <3>1. served' \in 0..queued'
        BY <2>25 DEF Serve
      <3>2. ended' \in {"no", "exit 0", "exit 1", "panic", "killed"} /\ pc' = pc
        BY <2>25 DEF Serve
      <3>3. QED
        BY <2>25, <3>1, <3>2 DEF Serve
    <2>26. ASSUME NEW t \in Goroutine, HandlerLogs(t) PROVE LifecycleTypeOK'
      BY <2>26 DEF HandlerLogs
    <2>27. ASSUME NEW t \in Goroutine, FinishInfo(t) PROVE LifecycleTypeOK'
      BY <2>27 DEF FinishInfo
    <2>28. CASE NoStore
      BY <2>28 DEF NoStore
    <2>29. CASE MissDeletion
      BY <2>29 DEF MissDeletion
    <2>30. CASE EnqueueTombstone
      BY <2>30 DEF EnqueueTombstone
    <2>31. CASE UNCHANGED vars
      BY <2>31, ZenonT(60) DEF vars
    <2> HIDE DEF LifecycleTypeOK
    <2>32. CASE MainNext
      BY <2>32, <2>1, <2>2, <2>3, <2>4, <2>5, <2>6, <2>7, <2>8, <2>9, <2>10, <2>11, <2>12, <2>13, <2>14, <2>15, <2>16, <2>17, <2>18, <2>19, <2>20, <2>21, <2>28 DEF MainNext
    <2>33. QED
      BY <2>22, <2>23, <2>24, <2>25, <2>26, <2>27, <2>29, <2>30, <2>31, <2>32 DEF Next
  <1>3. Spec => []LoggerTypeOK
    BY LogsThroughThePackage, LoggerTyping, PTL
  <1>4. QED
    BY <1>1, <1>2, <1>3, PTL DEF Spec

-----------------------------------------------------------------------------
(***************************************************************************)
(* The inductive invariant, one part per phase of main.  The point main    *)
(* has reached stands for the tests it has passed and the objects it has   *)
(* made; pc keeps its place when the process ends.                         *)
(***************************************************************************)
EarlyPc == {"parse", "register", "verify"}
SetUpPc == EarlyPc \cup {"orchestrator", "informers", "manager", "channels"}
LoopPc == {"notify", "wait", "stop", "goodbye", "return"}

ArgsInv ==
  /\ pc # "parse" => conf.flags
  /\ OutOfArgs => ArgsOK

\* Until the first Info, main is alone and has not switched the output.
QuietInv ==
  pc \in SetUpPc =>
    /\ output = STDERR /\ InToSTDOUT = {}
    /\ running = {Main} /\ started = {}

LogInv ==
  /\ pc \notin {"parse", "register"} => vlog = [l \in Level |-> consoleLogger]
  /\ OutOfArgs => /\ logLevel \in NewLogLevel(conf.level)
                  /\ slLogLevel[consoleLogger] = logLevelToSyslogLevel[logLevel]

ConstructedInv ==
  /\ orcr = "made" => conf.clients
  /\ pc \notin EarlyPc \cup {"orchestrator"} =>
       conf.inCluster /\ (conf.clients => orcr = "made")
  /\ mgr = "made" => MakesManager /\ conf.store # "absent"
  /\ pc \notin EarlyPc \cup {"orchestrator", "informers", "manager"} =>
       (MakesManager => mgr = "made")
  /\ pc \notin SetUpPc => orcr = "made"

\* The informers come up one by one, before the workers and the loop.
StartedInv ==
  /\ pc \in {"announce", "next", "run"} => synced = started
  /\ pc \in {"workers", "loop", "notify", "wait", "stop"} =>
       started = informers /\ synced = informers
  /\ pc \in {"goodbye", "return"} => started = {}
  /\ Loop \in running => pc \in LoopPc
  /\ served > 0 => Loop \in running /\ mgr = "made"

EndInv ==
  /\ pc \in {"stop", "goodbye", "return"} => signalled
  /\ EndsForAReason
  /\ ended = "exit 1" /\ OutOfArgs => pc = "orchestrator"
  /\ FatalIsOnTheLog

LifecycleInv ==
  /\ ArgsInv /\ QuietInv /\ LogInv /\ ConstructedInv /\ StartedInv /\ EndInv
  /\ OneWatchPerResource

\* Behind the constants of the console logger's methods, the level in force is
\* the package's level.
LEMMA ThresholdsMatch ==
  ASSUME LoggerTypeOK, vlog = [l \in Level |-> consoleLogger],
         slLogLevel[consoleLogger] = logLevelToSyslogLevel[logLevel]
  PROVE  LevelInForce
  BY DEF LoggerTypeOK, LevelInForce, Writes, Threshold, logLevelToSyslogLevel, Level,
         LL_DEBUG, LL_INFO, LL_WARNING, LL_ERROR, LL_CRITICAL,
         LOG_DEBUG, LOG_INFO, LOG_WARNING, LOG_ERR, LOG_CRIT

LEMMA CriticalIsWritten ==
  ASSUME LoggerTypeOK, LevelInForce
  PROVE  Writes(LL_CRITICAL)
  <1>1. LL_CRITICAL \in Level /\ logLevel \in Level
    BY DEF LoggerTypeOK, Level, LL_DEBUG, LL_CRITICAL
  <1>2. LL_CRITICAL >= logLevel
    BY <1>1 DEF Level, LL_DEBUG, LL_CRITICAL
  <1>3. QED
    BY <1>1, <1>2 DEF LevelInForce

LEMMA ConsoleIsRegistered ==
  ASSUME vlog = [l \in Level |-> consoleLogger]
  PROVE  consoleLogger \in Range(vlog)
  <1>1. LL_DEBUG \in Level
    BY DEF Level, LL_DEBUG, LL_CRITICAL
  <1>2. QED
    BY <1>1 DEF Range

LEMMA FatalLine ==
  ASSUME last' = [level |-> LL_CRITICAL, stream |-> STDERR, met |-> FALSE]
  PROVE  last' \in Line /\ last'.level = LL_CRITICAL /\ last'.stream = STDERR
  <1>1. LL_CRITICAL \in Level /\ STDERR \in Stream
    BY DEF Level, LL_DEBUG, LL_CRITICAL, Stream
  <1>2. QED
    BY <1>1 DEF Line

\* The configuration the texts ask for is the one that passes the tests.
LEMMA RightlyConfigured ==
  WellConfigured <=> /\ conf.flags /\ ArgsOK /\ conf.inCluster /\ conf.clients
                     /\ MakesManager
  <1>1. conf.level \in {String[l] : l \in Level} <=> NewLogLevel(conf.level) # {}
    BY DEF NewLogLevel
  <1>2. QED
    BY <1>1 DEF WellConfigured, ArgsOK, MakesManager

LEMMA LifecycleInductive ==
  LifecycleTypeOK /\ LifecycleInv /\ [Next]_vars => LifecycleInv'
  <1> SUFFICES ASSUME LifecycleTypeOK, LifecycleInv, [Next]_vars PROVE LifecycleInv'
    OBVIOUS
  <1> USE LifecycleAssumption
  <1> USE DEF At, GoTo, End, made, informerVars, signalVars, eventVars
  <1>a. conf' = conf
    BY DEF Next, MainNext, vars, Parse, RegisterConsole, VerifyArgs, NoClusterConfig,
           NoClients, NewOrchestrator, AddNamespacedInformer, AllInformersAdded, NewManager,
           SetupCommunicationChannels, Announce, NextInformer, RunInformer,
           WaitForNamedCacheSync, StartWorkers, StartLoop, Notify, ReceiveSignal, Stop,
           Goodbye, Return, Signal, Sync, Enqueue, MissDeletion, EnqueueTombstone, NoStore,
           Serve, HandlerLogs, FinishInfo, Fatal
  <1>b. /\ conf'.flags = conf.flags /\ conf'.clients = conf.clients
        /\ conf'.inCluster = conf.inCluster /\ conf'.store = conf.store
        /\ ArgsOK' = ArgsOK /\ MakesManager' = MakesManager
        /\ WellConfigured' = WellConfigured
        /\ NewLogLevel(conf.level)' = NewLogLevel(conf.level)
    BY <1>a DEF ArgsOK, MakesManager, WellConfigured, NewLogLevel
  <1>c. WellConfigured <=> /\ conf.flags /\ ArgsOK /\ conf.inCluster /\ conf.clients
                           /\ MakesManager
    BY RightlyConfigured
  <1>d. ArgsOK => NewLogLevel(conf.level) # {}
    BY DEF ArgsOK
  <1> USE <1>b, <1>c
  <1> USE DEF LifecycleTypeOK, LifecycleInv, OutOfArgs, EarlyPc, SetUpPc, LoopPc, ArgsInv,
              QuietInv, LogInv, ConstructedInv, StartedInv, EndInv, EndsForAReason,
              FatalIsOnTheLog, OneWatchPerResource
  <1>1. CASE Parse
    <2>1. ArgsInv'
      BY <1>1 DEF Parse, loggerVars, InToSTDOUT
    <2>2. QuietInv'
      BY <1>1 DEF Parse, loggerVars, InToSTDOUT
    <2>3. LogInv'
      BY <1>1 DEF Parse, loggerVars, InToSTDOUT
    <2>4. ConstructedInv'
      BY <1>1 DEF Parse, loggerVars, InToSTDOUT
    <2>5. StartedInv'
      BY <1>1 DEF Parse, loggerVars, InToSTDOUT
    <2>6. EndInv'
      BY <1>1 DEF Parse, loggerVars, InToSTDOUT
    <2>7. OneWatchPerResource'
      BY <1>1 DEF Parse, loggerVars, InToSTDOUT
    <2>8. QED
      BY <2>1, <2>2, <2>3, <2>4, <2>5, <2>6, <2>7
  <1>2. CASE RegisterConsole
    <2>1. ArgsInv'
      BY <1>2 DEF RegisterConsole, RegisterLogger, InToSTDOUT
    <2>2. QuietInv'
      BY <1>2 DEF RegisterConsole, RegisterLogger, InToSTDOUT
    <2>3. LogInv'
      BY <1>2 DEF RegisterConsole, RegisterLogger, Level, InToSTDOUT
    <2>4. ConstructedInv'
      BY <1>2 DEF RegisterConsole, RegisterLogger, InToSTDOUT
    <2>5. StartedInv'
      BY <1>2 DEF RegisterConsole, RegisterLogger, InToSTDOUT
    <2>6. EndInv'
      BY <1>2 DEF RegisterConsole, RegisterLogger, InToSTDOUT
    <2>7. OneWatchPerResource'
      BY <1>2 DEF RegisterConsole, RegisterLogger, InToSTDOUT
    <2>8. QED
      BY <2>1, <2>2, <2>3, <2>4, <2>5, <2>6, <2>7
  <1>3. CASE VerifyArgs
    <2>1. ArgsInv'
      BY <1>3, <1>d DEF VerifyArgs, SetLogLevel, loggerVars, InToSTDOUT
    <2>2. QuietInv'
      <3>1. output' = output /\ stage' = stage /\ running' = running /\ started' = started
        BY <1>3 DEF VerifyArgs, SetLogLevel, loggerVars
      <3>2. InToSTDOUT' = InToSTDOUT
        BY <3>1 DEF InToSTDOUT
      <3>3. pc \in SetUpPc
        BY <1>3 DEF VerifyArgs
      <3>4. QED
        BY <3>1, <3>2, <3>3
    <2>3. LogInv'
      <3>1. CASE NewLogLevel(conf.level) = {}
        BY <1>3, <1>d, <3>1 DEF VerifyArgs, loggerVars
      <3>2. ASSUME NEW l \in NewLogLevel(conf.level), SetLogLevel(l) PROVE LogInv'
        <4>1. vlog = [k \in Level |-> consoleLogger]
          BY <1>3 DEF VerifyArgs
        <4>2. consoleLogger \in Range(vlog)
          BY <4>1, ConsoleIsRegistered
        <4>3. slLogLevel'[consoleLogger] = logLevelToSyslogLevel[l] /\ logLevel' = l
          BY <3>2, <4>2 DEF SetLogLevel, LoggerObject
        <4>4. QED
          BY <1>3, <3>2, <4>3 DEF VerifyArgs, SetLogLevel
      <3>3. QED
        BY <1>3, <3>1, <3>2 DEF VerifyArgs
    <2>4. ConstructedInv'
      BY <1>3, <1>d DEF VerifyArgs, SetLogLevel, loggerVars, InToSTDOUT
    <2>5. StartedInv'
      BY <1>3, <1>d DEF VerifyArgs, SetLogLevel, loggerVars, InToSTDOUT
    <2>6. EndInv'
      BY <1>3, <1>d DEF VerifyArgs, SetLogLevel, loggerVars, InToSTDOUT
    <2>7. OneWatchPerResource'
      BY <1>3, <1>d DEF VerifyArgs, SetLogLevel, loggerVars, InToSTDOUT
    <2>8. QED
      BY <2>1, <2>2, <2>3, <2>4, <2>5, <2>6, <2>7
  <1>4. CASE NoClusterConfig
    <2>1. ArgsInv'
      BY <1>4 DEF NoClusterConfig, Fatal, Log, Println, InToSTDOUT
    <2>2. QuietInv'
      BY <1>4 DEF NoClusterConfig, Fatal, Log, Println, InToSTDOUT
    <2>3. LogInv'
      BY <1>4 DEF NoClusterConfig, Fatal, Log, Println, InToSTDOUT
    <2>4. ConstructedInv'
      BY <1>4 DEF NoClusterConfig, Fatal, Log, Println, InToSTDOUT
    <2>5. StartedInv'
      BY <1>4 DEF NoClusterConfig, Fatal, Log, Println, InToSTDOUT
    <2>6. EndInv'
      <3>1. LevelInForce
        BY <1>4, ThresholdsMatch DEF NoClusterConfig
      <3>2. Writes(LL_CRITICAL)
        BY <3>1, CriticalIsWritten
      <3>3. last' = [level |-> LL_CRITICAL, stream |-> STDERR, met |-> FALSE]
        <4>1. (InToSTDOUT # {}) = FALSE /\ output = STDERR
          BY <1>4 DEF NoClusterConfig
        <4>2. QED
          BY <1>4, <3>2, <4>1 DEF NoClusterConfig, Fatal, Log, Println
      <3>4. last' \in Line /\ last'.level = LL_CRITICAL /\ last'.stream = STDERR
        BY <3>3, FatalLine
      <3>5. QED
        BY <1>4, <3>4 DEF NoClusterConfig, Fatal
    <2>7. OneWatchPerResource'
      BY <1>4 DEF NoClusterConfig, Fatal, Log, Println, InToSTDOUT
    <2>8. QED
      BY <2>1, <2>2, <2>3, <2>4, <2>5, <2>6, <2>7
  <1>5. CASE NoClients
    BY <1>5 DEF NoClients, Log, Println, InToSTDOUT
  <1>6. CASE NewOrchestrator
    BY <1>6 DEF NewOrchestrator, Log, Println, InToSTDOUT
  <1>7. ASSUME NEW ns \in Namespace, AddNamespacedInformer(ns) PROVE LifecycleInv'
    <2>1. ArgsInv'
      BY <1>7 DEF AddNamespacedInformer, Log, Println, WatchingAll, Conflicts, loggerVars, InToSTDOUT
    <2>2. QuietInv'
      BY <1>7 DEF AddNamespacedInformer, Log, Println, WatchingAll, Conflicts, loggerVars, InToSTDOUT
    <2>3. LogInv'
      BY <1>7 DEF AddNamespacedInformer, Log, Println, WatchingAll, Conflicts, loggerVars, InToSTDOUT
    <2>4. ConstructedInv'
      BY <1>7 DEF AddNamespacedInformer, Log, Println, WatchingAll, Conflicts, loggerVars, InToSTDOUT
    <2>5. StartedInv'
      BY <1>7 DEF AddNamespacedInformer, Log, Println, WatchingAll, Conflicts, loggerVars, InToSTDOUT
    <2>6. EndInv'
      BY <1>7 DEF AddNamespacedInformer, Log, Println, WatchingAll, Conflicts, loggerVars, InToSTDOUT
    <2>7. OneWatchPerResource'
      BY <1>7 DEF AddNamespacedInformer, Log, Println, WatchingAll, Conflicts, loggerVars, InToSTDOUT
    <2>8. QED
      BY <2>1, <2>2, <2>3, <2>4, <2>5, <2>6, <2>7
  <1>8. CASE AllInformersAdded
    BY <1>8 DEF AllInformersAdded, loggerVars, InToSTDOUT
  <1>9. CASE NewManager
    BY <1>9 DEF NewManager, Log, Println, InToSTDOUT
  <1>10. CASE SetupCommunicationChannels
    BY <1>10 DEF SetupCommunicationChannels, loggerVars, InToSTDOUT
  <1>11. CASE Announce
    <2>1. ArgsInv'
      BY <1>11 DEF Announce, Info, SkipInfo, SwitchOutput, loggerVars, InToSTDOUT
    <2>2. QuietInv'
      BY <1>11 DEF Announce, Info, SkipInfo, SwitchOutput, loggerVars, InToSTDOUT
    <2>3. LogInv'
      BY <1>11 DEF Announce, Info, SkipInfo, SwitchOutput, loggerVars, InToSTDOUT
    <2>4. ConstructedInv'
      BY <1>11 DEF Announce, Info, SkipInfo, SwitchOutput, loggerVars, InToSTDOUT
    <2>5. StartedInv'
      BY <1>11 DEF Announce, Info, SkipInfo, SwitchOutput, loggerVars, InToSTDOUT
    <2>6. EndInv'
      BY <1>11 DEF Announce, Info, SkipInfo, SwitchOutput, loggerVars, InToSTDOUT
    <2>7. OneWatchPerResource'
      BY <1>11 DEF Announce, Info, SkipInfo, SwitchOutput, loggerVars, InToSTDOUT
    <2>8. QED
      BY <2>1, <2>2, <2>3, <2>4, <2>5, <2>6, <2>7
  <1>12. CASE NextInformer
    BY <1>12 DEF NextInformer, Info, SkipInfo, SwitchOutput, loggerVars, InToSTDOUT
  <1>13. CASE RunInformer
    BY <1>13 DEF RunInformer, loggerVars, InToSTDOUT
  <1>14. CASE WaitForNamedCacheSync
    BY <1>14 DEF WaitForNamedCacheSync, loggerVars, InToSTDOUT
  <1>15. CASE StartWorkers
    <2>1. ArgsInv'
      BY <1>15 DEF StartWorkers, loggerVars, InToSTDOUT
    <2>2. QuietInv'
      BY <1>15 DEF StartWorkers, loggerVars, InToSTDOUT
    <2>3. LogInv'
      BY <1>15 DEF StartWorkers, loggerVars, InToSTDOUT
    <2>4. ConstructedInv'
      BY <1>15 DEF StartWorkers, loggerVars, InToSTDOUT
    <2>5. StartedInv'
      BY <1>15 DEF StartWorkers, Loop, ResourceWorker, ResponseWorker
    <2>6. EndInv'
      BY <1>15 DEF StartWorkers, loggerVars, InToSTDOUT
    <2>7. OneWatchPerResource'
      BY <1>15 DEF StartWorkers, loggerVars, InToSTDOUT
    <2>8. QED
      BY <2>1, <2>2, <2>3, <2>4, <2>5, <2>6, <2>7
  <1>16. CASE StartLoop
    BY <1>16 DEF StartLoop, loggerVars, InToSTDOUT
  <1>17. CASE Notify
    BY <1>17 DEF Notify, loggerVars, InToSTDOUT
  <1>18. CASE ReceiveSignal
    BY <1>18 DEF ReceiveSignal, loggerVars, InToSTDOUT
  <1>19. CASE Stop
    BY <1>19 DEF Stop, loggerVars, InToSTDOUT
  <1>20. CASE Goodbye
    BY <1>20 DEF Goodbye, Info, SkipInfo, SwitchOutput, loggerVars, InToSTDOUT
  <1>21. CASE Return
    BY <1>21 DEF Return, loggerVars, InToSTDOUT
  <1>22. CASE Signal
    <2>1. ArgsInv'
      BY <1>22 DEF Signal, loggerVars, InToSTDOUT
    <2>2. QuietInv'
      BY <1>22 DEF Signal, loggerVars, InToSTDOUT
    <2>3. LogInv'
      BY <1>22 DEF Signal, loggerVars, InToSTDOUT
    <2>4. ConstructedInv'
      BY <1>22 DEF Signal, loggerVars, InToSTDOUT
    <2>5. StartedInv'
      BY <1>22 DEF Signal, loggerVars, InToSTDOUT
    <2>6. EndInv'
      BY <1>22 DEF Signal, loggerVars, InToSTDOUT
    <2>7. OneWatchPerResource'
      BY <1>22 DEF Signal, loggerVars, InToSTDOUT
    <2>8. QED
      BY <2>1, <2>2, <2>3, <2>4, <2>5, <2>6, <2>7
  <1>23. ASSUME NEW ns \in Namespace, Sync(ns) PROVE LifecycleInv'
    BY <1>23 DEF Sync, loggerVars, InToSTDOUT
  <1>24. CASE Enqueue
    BY <1>24 DEF Enqueue, loggerVars, InToSTDOUT
  <1>25. CASE Serve
    BY <1>25 DEF Serve, loggerVars, InToSTDOUT
  <1>26. ASSUME NEW t \in Goroutine, HandlerLogs(t) PROVE LifecycleInv'
    BY <1>26 DEF HandlerLogs, Info, SkipInfo, SwitchOutput, loggerVars, InToSTDOUT, Log, Println
  <1>27. ASSUME NEW t \in Goroutine, FinishInfo(t) PROVE LifecycleInv'
    BY <1>27 DEF FinishInfo, PrintInfo, RestoreOutput, Println, InToSTDOUT
  <1>28. CASE NoStore
    BY <1>28 DEF NoStore, Log, Println, loggerVars, InToSTDOUT
  <1>29. CASE MissDeletion
    BY <1>29 DEF MissDeletion, loggerVars, InToSTDOUT
  <1>30. CASE EnqueueTombstone
    BY <1>30 DEF EnqueueTombstone, loggerVars, InToSTDOUT
  <1>31. CASE UNCHANGED vars
    BY <1>31, ZenonT(40) DEF vars, loggerVars, InToSTDOUT
  <1>32. CASE MainNext
    BY <1>32, <1>1, <1>2, <1>3, <1>4, <1>5, <1>6, <1>7, <1>8, <1>9, <1>10, <1>11, <1>12, <1>13, <1>14, <1>15, <1>16, <1>17, <1>18, <1>19, <1>20, <1>21, <1>28 DEF MainNext
  <1>33. QED
    BY <1>22, <1>23, <1>24, <1>25, <1>26, <1>27, <1>29, <1>30, <1>31, <1>32 DEF Next

LEMMA LifecycleInvariant == Spec => [](LifecycleTypeOK /\ LifecycleInv)
  <1>1. Init => LifecycleInv
    BY DEF Init, LoggerInit, LifecycleInv, ArgsInv, QuietInv, LogInv, ConstructedInv,
           StartedInv, EndInv, EndsForAReason, FatalIsOnTheLog, OneWatchPerResource,
           OutOfArgs, EarlyPc, SetUpPc, InToSTDOUT, Main, Loop
  <1>2. QED
    BY <1>1, LifecycleTyping, LifecycleInductive, PTL DEF Spec

-----------------------------------------------------------------------------
\* The level of -log-level filters every call once the arguments are accepted.
THEOREM LevelIsInForce == Spec => []RequestedLevelInForce
  <1>1. LifecycleTypeOK /\ LifecycleInv => RequestedLevelInForce
    BY ThresholdsMatch
       DEF LifecycleTypeOK, LifecycleInv, LogInv, OutOfArgs, RequestedLevelInForce
  <1>2. QED
    BY <1>1, LifecycleInvariant, PTL

\* The exit of log.Fatalf leaves its line on stderr, at every log level.
THEOREM FatalSaysWhy == Spec => []FatalIsOnTheLog
  <1>1. LifecycleInv => FatalIsOnTheLog
    BY DEF LifecycleInv, EndInv
  <1>2. QED
    BY <1>1, LifecycleInvariant, PTL

\* In whatever order the namespaces are added, none is watched twice.
THEOREM NoDoubleWatch == Spec => []OneWatchPerResource
  <1>1. LifecycleInv => OneWatchPerResource
    BY DEF LifecycleInv
  <1>2. QED
    BY <1>1, LifecycleInvariant, PTL

\* Requests are served only behind the first list of every informer.
THEOREM ServesBehindTheLists == Spec => []ServesOnlyWhenSynced
  <1>1. LifecycleInv => ServesOnlyWhenSynced
    BY DEF LifecycleInv, StartedInv, LoopPc, ServesOnlyWhenSynced
  <1>2. QED
    BY <1>1, LifecycleInvariant, PTL

\* The process only ends by a signal, for a wrong configuration, a store that does
\* not work, or the tombstone of a missed deletion: of the nil orchestrator and the
\* nil manager, neither can arise from a right configuration.
THEOREM EndsForAReasonAlways == Spec => []EndsForAReason
  <1>1. LifecycleInv => EndsForAReason
    BY DEF LifecycleInv, EndInv
  <1>2. QED
    BY <1>1, LifecycleInvariant, PTL

\* A process without clients, manager or store never answers a request.
THEOREM NilsNeverAnswer == Spec => []AnswersOnlyWhenConfigured
  <1>1. LifecycleTypeOK /\ LifecycleInv => AnswersOnlyWhenConfigured
    <2> SUFFICES ASSUME LifecycleTypeOK, LifecycleInv, served > 0
                 PROVE WellConfigured /\ conf.store # "absent"
      BY DEF AnswersOnlyWhenConfigured
    <2>1. pc \in LoopPc /\ mgr = "made"
      BY DEF LifecycleInv, StartedInv
    <2>2. MakesManager /\ conf.store # "absent" /\ orcr = "made"
      BY <2>1 DEF LifecycleInv, ConstructedInv, LoopPc, SetUpPc, EarlyPc
    <2>3. conf.clients /\ conf.inCluster
      BY <2>1, <2>2 DEF LifecycleInv, ConstructedInv, LoopPc, EarlyPc
    <2>4. conf.flags /\ ArgsOK
      BY <2>1 DEF LifecycleInv, ArgsInv, OutOfArgs, LoopPc
    <2>5. QED
      BY <2>2, <2>3, <2>4, RightlyConfigured
  <1>2. QED
    BY <1>1, LifecycleInvariant, PTL

=============================================================================
