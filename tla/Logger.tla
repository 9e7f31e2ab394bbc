-------------------------------- MODULE Logger --------------------------------
(***************************************************************************)
(* The logging package pkg/vlogger with its null and console loggers, as   *)
(* the goroutines of the program use it.                                   *)
(*                                                                         *)
(* The console logger writes through Go's standard logger, whose output is *)
(* one variable of the whole process: each SetOutput and each Println      *)
(* locks a mutex, but the three calls of toSTDOUT are three separate       *)
(* steps, between which other goroutines run.  All other level calls lock  *)
(* once and are one step.                                                  *)
(***************************************************************************)
EXTENDS Naturals, Functions

CONSTANT Goroutine

LL_DEBUG == 0
LL_INFO == 1
LL_WARNING == 2
LL_ERROR == 3
LL_CRITICAL == 4
Level == LL_DEBUG..LL_CRITICAL

\* syslog priorities descend as levels rise.
LOG_CRIT == 2
LOG_ERR == 3
LOG_WARNING == 4
LOG_INFO == 6
LOG_DEBUG == 7
Priority == LOG_CRIT..LOG_DEBUG

logLevelToSyslogLevel ==
  [l \in Level |->
     CASE l = LL_DEBUG -> LOG_DEBUG
       [] l = LL_INFO -> LOG_INFO
       [] l = LL_WARNING -> LOG_WARNING
       [] l = LL_ERROR -> LOG_ERR
       [] l = LL_CRITICAL -> LOG_CRIT]

nullLogger == "null"
consoleLogger == "console"
LoggerObject == {nullLogger, consoleLogger}

VARIABLES
  vlog,        \* the logger registered for each level
  logLevel,    \* the package-level filter
  slLogLevel,  \* the priority each logger object filters by
  output,      \* where the standard logger writes
  stage,       \* how far each goroutine is in toSTDOUT
  met,         \* history: whether the goroutine's toSTDOUT met another one
  last         \* the line written last, <<>> before the first

loggerVars == <<vlog, logLevel, slLogLevel, output, stage, met, last>>

STDOUT == "stdout"
STDERR == "stderr"
Stream == {STDOUT, STDERR}
Line == [level : Level, stream : Stream, met : BOOLEAN]

LoggerTypeOK ==
  /\ vlog \in [Level -> LoggerObject]
  /\ logLevel \in Level
  /\ slLogLevel \in [LoggerObject -> Priority]
  /\ output \in Stream
  /\ stage \in [Goroutine -> {"idle", "switched", "printed"}]
  /\ met \in [Goroutine -> BOOLEAN]
  /\ last \in Line \cup {<<>>}

\* The package's init registers the null logger at every level.
LoggerInit ==
  /\ vlog = [l \in Level |-> nullLogger]
  /\ logLevel = LL_DEBUG
  /\ slLogLevel = [o \in LoggerObject |-> LOG_DEBUG]
  /\ output = STDERR
  /\ stage = [t \in Goroutine |-> "idle"]
  /\ met = [t \in Goroutine |-> FALSE]
  /\ last = <<>>

-----------------------------------------------------------------------------
(* Registration and filtering.                                             *)

\* Fault: the range of levels is half open.
RegisterLogger_HalfOpen(minLogLevel, maxLogLevel, log) ==
  /\ vlog' = [l \in Level |-> IF minLogLevel <= l /\ l < maxLogLevel THEN log ELSE vlog[l]]
  /\ UNCHANGED <<logLevel, slLogLevel, output, stage, met, last>>

RegisterLogger(minLogLevel, maxLogLevel, log) ==
  /\ vlog' = [l \in Level |-> IF l \in minLogLevel..maxLogLevel THEN log ELSE vlog[l]]
  /\ UNCHANGED <<logLevel, slLogLevel, output, stage, met, last>>

\* Only the loggers registered by now learn the new level.
SetLogLevel(level) ==
  /\ logLevel' = level
  /\ slLogLevel' = [o \in LoggerObject |->
       IF o \in Range(vlog) THEN logLevelToSyslogLevel[level] ELSE slLogLevel[o]]
  /\ UNCHANGED <<vlog, output, stage, met, last>>

\* The constant each method of the console logger compares slLogLevel with.
Threshold(level) ==
  CASE level = LL_DEBUG -> LOG_DEBUG
    [] level = LL_INFO -> LOG_INFO
    [] level = LL_WARNING -> LOG_WARNING
    [] level = LL_ERROR -> LOG_ERR
    [] level = LL_CRITICAL -> LOG_CRIT

\* Fault: a message of exactly the level in force is filtered.
Writes_Strict(level) ==
  vlog[level] = consoleLogger /\ slLogLevel[consoleLogger] > Threshold(level)

\* Whether a call at this level reaches the console; logLevel is not asked.
Writes(level) ==
  vlog[level] = consoleLogger /\ slLogLevel[consoleLogger] >= Threshold(level)

-----------------------------------------------------------------------------
(* Level calls.                                                            *)

InToSTDOUT == {t \in Goroutine : stage[t] # "idle"}

Println(level, stream, withOthers) ==
  last' = [level |-> level, stream |-> stream, met |-> withOthers]

\* Debug, Warning, Error and Critical, formatted or not.
Log(t, level) ==
  /\ stage[t] = "idle" /\ level # LL_INFO
  /\ IF Writes(level) THEN Println(level, output, InToSTDOUT # {})
                      ELSE UNCHANGED last
  /\ UNCHANGED <<vlog, logLevel, slLogLevel, output, stage, met>>

\* Info whose message is filtered.
SkipInfo(t) ==
  /\ stage[t] = "idle" /\ ~Writes(LL_INFO)
  /\ UNCHANGED loggerVars

\* Info: log.SetOutput(os.Stdout).
SwitchOutput(t) ==
  /\ stage[t] = "idle" /\ Writes(LL_INFO)
  /\ output' = STDOUT
  /\ stage' = [stage EXCEPT ![t] = "switched"]
  /\ met' = [u \in Goroutine |->
       IF u = t THEN InToSTDOUT # {} ELSE met[u] \/ u \in InToSTDOUT]
  /\ UNCHANGED <<vlog, logLevel, slLogLevel, last>>

Info(t) == SkipInfo(t) \/ SwitchOutput(t)

PrintInfo(t) ==
  /\ stage[t] = "switched"
  /\ Println(LL_INFO, output, met[t])
  /\ stage' = [stage EXCEPT ![t] = "printed"]
  /\ UNCHANGED <<vlog, logLevel, slLogLevel, output, met>>

\* Fault: the output stays switched.
RestoreOutput_Forgotten(t) ==
  /\ stage[t] = "printed"
  /\ stage' = [stage EXCEPT ![t] = "idle"]
  /\ met' = [met EXCEPT ![t] = FALSE]
  /\ UNCHANGED <<vlog, logLevel, slLogLevel, output, last>>

\* log.SetOutput(os.Stderr), whoever else has switched it in the meantime.
RestoreOutput(t) ==
  /\ stage[t] = "printed"
  /\ output' = STDERR
  /\ stage' = [stage EXCEPT ![t] = "idle"]
  /\ met' = [met EXCEPT ![t] = FALSE]
  /\ UNCHANGED <<vlog, logLevel, slLogLevel, last>>

-----------------------------------------------------------------------------
(* The package with any application and any number of goroutines.          *)

LoggerNext ==
  \/ \E a, b \in Level, log \in LoggerObject : RegisterLogger(a, b, log)
  \/ \E level \in Level : SetLogLevel(level)
  \/ \E t \in Goroutine :
       \/ \E level \in Level : Log(t, level)
       \/ Info(t) \/ PrintInfo(t) \/ RestoreOutput(t)

LoggerSpec == LoggerInit /\ [][LoggerNext]_loggerVars

-----------------------------------------------------------------------------
(* Properties.                                                             *)

\* A line goes to the stream of its level (Info to stdout, the rest to stderr),
\* unless an Info call of another goroutine was in progress meanwhile: for all
\* other levels at the moment they print, for Info at any moment of its call.
Routed ==
  last # <<>> /\ ~last.met
  => last.stream = IF last.level = LL_INFO THEN STDOUT ELSE STDERR

\* The package-level filter is the filter: a call is written exactly when its
\* level is at least logLevel.
LevelInForce == \A level \in Level : Writes(level) <=> level >= logLevel

=============================================================================
