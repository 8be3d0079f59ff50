------------------------------- MODULE Logger -------------------------------
(***************************************************************************)
(* Logger, LoggerManager and LogIniter (sylar/log.h, sylar/log.cc): the    *)
(* loggers by name, the way of an event through a logger, or through the   *)
(* root logger, to appenders, and the listener that makes the loggers what *)
(* the variable "logs" says, while other threads log.                      *)
(*                                                                         *)
(* Levels are read and written under no lock.  clearAppenders takes none   *)
(* either: if another thread is inside the list it empties, nothing is     *)
(* known of what follows (raced), and no more steps are taken.             *)
(*                                                                         *)
(* An appender is a record; its own mutex is held within one step only.    *)
(***************************************************************************)
EXTENDS Locks, LogDefine

CONSTANTS
  Names,        \* of loggers
  Configurator, \* the thread that sets "logs"
  Docs,         \* the values of "logs" it may load: a sequence of YAML trees
  EventLevels,  \* the levels that events are logged with
  Own,          \* the names of loggers that clients set up by themselves
  Fresh,        \* the appenders that clients make
  Patterns,     \* the formatters that clients set
  Bad,          \* the patterns that LogFormatter finds an error in
  MaxCalls      \* bound: calls, per thread

manager == "manager"   \* m_mutex of the LoggerManager; the others go by the name
root == "root"
DEBUG == 1
Silent == 100
Default == "default"
NoFormatter == ""

\* What can be read of an appender and, for a logger that no client sets up, of a
\* logger.
AppenderDefines == [type : STRING, file : STRING, level : UNKNOW..Len(Levels), formatter : STRING]
Defines == [name : Names \ Own, level : UNKNOW..Len(Levels), formatter : STRING, appenders : Seq(AppenderDefines)]

\* The mutexes of log.h are real ones.
ASSUME LoggerAssumption ==
  /\ root \in Names \ Own /\ Locks = Names \cup {manager} /\ Configurator \in Threads
  /\ Own \subseteq Names /\ \A l \in Locks : Kind[l] \notin Null
  /\ Fresh \subseteq AppenderDefines /\ Patterns \subseteq STRING \ {NoFormatter}

\* The literals that stand for texts are strings, which the provers do not know.
ASSUME TextsAssumption ==
  {NoFormatter, Default, Stdout, File, "", "dft", "root.log"} \subseteq STRING

\* A logger is set up by the configuration or by its clients, not by both.
ASSUME DocsAssumption ==
  \A d \in DOMAIN Docs :
    TreeOK(Docs[d]) /\ FromLogDefines(Docs[d]) \subseteq SUBSET Defines

VARIABLES
  m_loggers,    \* the names in the map
  m_level, m_formatter, m_appenders,  \* per name
  logs,         \* the value of the variable "logs"
  change,       \* the call of the listener: where it is, and its locals
  call,         \* per thread: its call of log() or toYamlString(), and its locals
  muted,        \* the names that the listener has deleted last
  raced,
  calls         \* per thread: calls made

loggerVars == <<m_loggers, m_level, m_formatter, m_appenders>>
vars == <<lockVars, loggerVars, logs, change, call, muted, raced, calls>>

Idle == [at |-> "idle"]

NewAppender(a) == [type |-> a.type, file |-> a.file, level |-> a.level,
                   formatter |-> a.formatter, has |-> a.formatter # NoFormatter]

\* LoggerManager(): the root logger with its two appenders.
Init ==
  /\ LocksInit
  /\ m_loggers = {root}
  /\ m_level = [l \in Names |-> DEBUG] /\ m_formatter = [l \in Names |-> Default]
  /\ m_appenders = [l \in Names |-> IF l # root THEN <<>> ELSE
       <<NewAppender([type |-> Stdout, file |-> "", level |-> DEBUG, formatter |-> "dft"]),
         NewAppender([type |-> File, file |-> "root.log", level |-> DEBUG, formatter |-> "dft"])>>]
  /\ logs = {} /\ change = Idle /\ muted = {} /\ raced = FALSE
  /\ call = [t \in Threads |-> Idle] /\ calls = [t \in Threads |-> 0]

Free(t) == call[t] = Idle /\ (t = Configurator => change = Idle)
Call(t) == Free(t) /\ calls[t] < MaxCalls[t] /\ calls' = [calls EXCEPT ![t] = @ + 1]

\* getLogger(): under the manager's lock; a name that is new gets a new logger.
GetLogger(l) == CanLock(manager, "exclusive") /\ m_loggers' = m_loggers \cup {l}

-----------------------------------------------------------------------------
(* Logging *)

\* The macros: below the logger's level there is no event.  The event is logged
\* when the message is complete (~LogEventWrap).
Begin(t, l, level) ==
  call' = [call EXCEPT ![t] =
    IF m_level[l] > level THEN Idle
    ELSE [at |-> "check", level |-> level, from |-> l, on |-> l, sent |-> <<>>, n |-> 1]]

Log(t, l, level) ==
  /\ Call(t)
  /\ \/ l = root /\ UNCHANGED m_loggers
     \/ l # root /\ GetLogger(l)
  /\ Begin(t, l, level)
  /\ UNCHANGED <<lockVars, m_level, m_formatter, m_appenders, logs, change, muted, raced>>

\* Thread t is at a in log(), and goes to b.
At(t, a) == call[t].at = a
Go(t, b) == call' = [call EXCEPT ![t].at = b]

\* The check of the level, before the lock.  A root logger that declines returns to
\* the logger that asked it.
Check(t) ==
  /\ At(t, "check")
  /\ IF call[t].level >= m_level[call[t].on] THEN Go(t, "lock")
     ELSE call' = [call EXCEPT ![t] = IF @.on = @.from THEN Idle
                                      ELSE [@ EXCEPT !.at = "leave", !.on = call[t].from]]
  /\ UNCHANGED <<lockVars, loggerVars, logs, change, muted, raced, calls>>

\* Where an event goes from logger l: to its appenders or, if it has none, to root.
Route(l) ==
  IF m_appenders[l] # <<>> THEN "append" ELSE IF l # root THEN "root" ELSE "leave"

Enter(t) ==
  LET l == call[t].on IN
  /\ At(t, "lock")
  /\ Construct(l, t, "exclusive")
  /\ IF Route(l) = "root" THEN call' = [call EXCEPT ![t].at = "check", ![t].on = root]
     ELSE Go(t, Route(l))
  /\ UNCHANGED <<loggerVars, logs, change, muted, raced, calls>>

\* Appender a, with its own level, takes an event.
Takes(a, level) == level >= a.level

\* Faulty variant: the loop ends at an appender that does not take the event.
LoopEnds_Early(t, list) == call[t].n = Len(list) \/ ~Takes(list[call[t].n], call[t].level)

LoopEnds(t, list) == call[t].n = Len(list)

\* One turn of the loop over the appenders: the appender's log().
Deliver(t) ==
  LET list == m_appenders[call[t].on]
      a == list[call[t].n]
  IN  /\ At(t, "append")
      /\ call' = [call EXCEPT ![t].sent = IF Takes(a, call[t].level) THEN Append(@, a) ELSE @,
                              ![t].n = @ + 1,
                              ![t].at = IF LoopEnds(t, list) THEN "leave" ELSE @]
      /\ UNCHANGED <<lockVars, loggerVars, logs, change, muted, raced, calls>>

\* log() returns, to its caller or from root's log() to the logger's.
Leave(t) ==
  /\ At(t, "leave")
  /\ Destruct(call[t].on, t)
  /\ call' = [call EXCEPT ![t] = IF @.on = @.from THEN Idle ELSE [@ EXCEPT !.on = call[t].from]]
  /\ UNCHANGED <<loggerVars, logs, change, muted, raced, calls>>

-----------------------------------------------------------------------------
(* The members of Logger that change it *)

\* Appender a with the formatter f of its logger.
With(a, f) == [type |-> a.type, file |-> a.file, level |-> a.level, formatter |-> f, has |-> TRUE]

\* Faulty variant: the appender is listed as it comes.
Added_AsIs(l, a) == [m_appenders EXCEPT ![l] = Append(@, a)]

\* addAppender: an appender without a formatter gets the logger's.
Added(l, a) ==
  LET b == IF a.formatter # NoFormatter THEN a ELSE With(a, m_formatter[l])
  IN  [m_appenders EXCEPT ![l] = Append(@, b)]

AddAppender(l, a) ==
  /\ CanLock(l, "exclusive")
  /\ m_appenders' = Added(l, a)
  /\ UNCHANGED m_formatter

\* delAppender, of the appender that is kth in the list.
DelAppender(l, k) ==
  /\ CanLock(l, "exclusive")
  /\ m_appenders' = [m_appenders EXCEPT ![l] = SubSeq(@, 1, k - 1) \o SubSeq(@, k + 1, Len(@))]
  /\ UNCHANGED m_formatter

\* setFormatter: a pattern with an error is reported and changes nothing; another
\* goes to the appenders that have not been given one.
SetFormatter(l, f) ==
  \/ f \in Bad /\ UNCHANGED <<m_formatter, m_appenders>>
  \/ /\ f \notin Bad
     /\ CanLock(l, "exclusive")
     /\ m_formatter' = [m_formatter EXCEPT ![l] = f]
     /\ m_appenders' = [m_appenders EXCEPT ![l] =
                          [k \in DOMAIN @ |-> IF @[k].has THEN @[k] ELSE With(@[k], f)]]

\* clearAppenders, by thread t, takes no lock.
ClearAppenders(t, l) ==
  /\ m_appenders' = [m_appenders EXCEPT ![l] = <<>>]
  /\ raced' = (m_appenders[l] # <<>> /\ \E u \in Threads \ {t} : Holds(l, u))

\* A client sets up a logger of its own.
SetUp(t, l) ==
  /\ Call(t) /\ l \in Own \cap m_loggers
  /\ \/ \E a \in Fresh : AddAppender(l, NewAppender(a)) /\ UNCHANGED raced
     \/ \E k \in DOMAIN m_appenders[l] : DelAppender(l, k) /\ UNCHANGED raced
     \/ \E f \in Patterns : SetFormatter(l, f) /\ UNCHANGED raced
     \/ ClearAppenders(t, l) /\ UNCHANGED m_formatter
  /\ UNCHANGED <<lockVars, m_loggers, m_level, logs, change, call, muted>>

-----------------------------------------------------------------------------
(* LogIniter: the listener of "logs" *)

\* fromString of "logs", and setValue up to the listener's first message: the new
\* value is compared, the definitions that are new or not the same are to be
\* applied, and the names that are gone to be silenced.
Change(t, d) ==
  /\ t = Configurator /\ Call(t)
  /\ \E new \in FromLogDefines(Docs[d]) :
       /\ new # logs
       /\ change' = [at |-> "take", new |-> new, todo |-> new \ logs,
                     gone |-> {ld.name : ld \in logs} \ {ld.name : ld \in new}, ld |-> None]
  /\ Begin(t, root, DEBUG)
  /\ UNCHANGED <<lockVars, loggerVars, logs, muted, raced>>

\* What deleting a logger amounts to: the level 100, and no appender.
Muting(name) == [name |-> name, level |-> Silent, formatter |-> "", appenders |-> <<>>]

\* The next definition, the names that are gone last, and its logger.  (The code goes
\* in the order of the names; here it is any order.)
Take ==
  /\ change.at = "take"
  /\ \/ \E ld \in change.todo :
          /\ GetLogger(ld.name)
          /\ change' = [change EXCEPT !.at = "level", !.todo = @ \ {ld}, !.ld = ld]
          /\ muted' = muted \ {ld.name}
     \/ \E name \in change.gone :
          /\ change.todo = {}
          /\ GetLogger(name)
          /\ change' = [change EXCEPT !.at = "level", !.gone = @ \ {name}, !.ld = Muting(name)]
          /\ UNCHANGED muted
  /\ UNCHANGED <<lockVars, m_level, m_formatter, m_appenders, logs, call, raced, calls>>

ApplyLevel ==
  /\ change.at = "level"
  /\ m_level' = [m_level EXCEPT ![change.ld.name] = change.ld.level]
  /\ change' = [change EXCEPT !.at = "formatter"]
  /\ UNCHANGED <<lockVars, m_loggers, m_formatter, m_appenders, logs, call, muted, raced, calls>>

ApplyFormatter ==
  LET f == change.ld.formatter IN
  /\ change.at = "formatter"
  /\ IF f = "" THEN UNCHANGED <<m_formatter, m_appenders>> ELSE SetFormatter(change.ld.name, f)
  /\ change' = [change EXCEPT !.at = "clear"]
  /\ UNCHANGED <<lockVars, m_loggers, m_level, logs, call, muted, raced, calls>>

\* Faulty variant: the appenders there are stay.
ApplyClear_Keeps ==
  /\ change.at = "clear"
  /\ change' = [change EXCEPT !.at = "add"]
  /\ UNCHANGED <<lockVars, loggerVars, logs, call, muted, raced, calls>>

ApplyClear ==
  /\ change.at = "clear"
  /\ ClearAppenders(Configurator, change.ld.name)
  /\ change' = [change EXCEPT !.at = "add"]
  /\ UNCHANGED <<lockVars, m_loggers, m_level, m_formatter, logs, call, muted, calls>>

ApplyAppender ==
  /\ change.at = "add" /\ change.ld.appenders # <<>>
  /\ AddAppender(change.ld.name, NewAppender(Head(change.ld.appenders)))
  /\ change' = [change EXCEPT !.ld.appenders = Tail(@)]
  /\ UNCHANGED <<lockVars, m_loggers, m_level, logs, call, muted, raced, calls>>

Applied ==
  /\ change.at = "add" /\ change.ld.appenders = <<>>
  /\ change' = [change EXCEPT !.at = "take", !.ld = None]
  /\ muted' = IF change.ld.level = Silent THEN muted \cup {change.ld.name} ELSE muted
  /\ UNCHANGED <<lockVars, loggerVars, logs, call, raced, calls>>

\* The listener returns, and setValue assigns.
Assign ==
  /\ change.at = "take" /\ change.todo = {} /\ change.gone = {}
  /\ logs' = change.new
  /\ change' = Idle
  /\ UNCHANGED <<lockVars, loggerVars, call, muted, raced, calls>>

-----------------------------------------------------------------------------
(* LoggerManager::toYamlString, which prints one logger after another *)

PrintAll(t) ==
  /\ Call(t)
  /\ Construct(manager, t, "exclusive")
  /\ call' = [call EXCEPT ![t] = [at |-> "print", todo |-> m_loggers]]
  /\ UNCHANGED <<loggerVars, logs, change, muted, raced>>

\* Logger::toYamlString: the logger's lock, the loop over its appenders, the unlock.
PrintLogger(t) ==
  /\ At(t, "print")
  /\ \/ /\ \A l \in Names : ~Holds(l, t)
        /\ \E l \in call[t].todo : Construct(l, t, "exclusive")
        /\ UNCHANGED call
     \/ \E l \in call[t].todo :
          Destruct(l, t) /\ call' = [call EXCEPT ![t].todo = @ \ {l}]
  /\ UNCHANGED <<loggerVars, logs, change, muted, raced, calls>>

Printed(t) ==
  /\ At(t, "print") /\ call[t].todo = {}
  /\ Destruct(manager, t)
  /\ call' = [call EXCEPT ![t] = Idle]
  /\ UNCHANGED <<loggerVars, logs, change, muted, raced, calls>>

-----------------------------------------------------------------------------
\* What a thread does to go on with its call.
Step(t) ==
  /\ ~raced
  /\ \/ Check(t) \/ Enter(t) \/ Deliver(t) \/ Leave(t)
     \/ PrintLogger(t) \/ Printed(t)
     \/ /\ t = Configurator /\ call[t] = Idle
        /\ \/ Take \/ ApplyLevel \/ ApplyFormatter \/ ApplyClear
           \/ ApplyAppender \/ Applied \/ Assign

Next ==
  \E t \in Threads :
    \/ Step(t)
    \/ /\ ~raced
       /\ \/ \E l \in Names, level \in EventLevels : Log(t, l, level)
          \/ \E l \in Own : SetUp(t, l)
          \/ \E d \in DOMAIN Docs : Change(t, d)
          \/ PrintAll(t)

Spec == Init /\ [][Next]_vars /\ \A t \in Threads : WF_vars(Step(t))

-----------------------------------------------------------------------------
(* Properties *)

\* The loggers and their appenders that the definition ld asks for.
Wanted(l, a) == With(a, IF a.formatter # "" THEN a.formatter ELSE m_formatter[l])

Matches(ld) ==
  LET l == ld.name IN
  /\ l \in m_loggers /\ m_level[l] = ld.level
  /\ ld.formatter \notin Bad \cup {""} => m_formatter[l] = ld.formatter
  /\ m_appenders[l] = [k \in DOMAIN ld.appenders |-> Wanted(l, ld.appenders[k])]

Silenced(l) == m_level[l] = Silent /\ m_appenders[l] = <<>>

(***************************************************************************)
(* When no change is under way, the loggers are what "logs" says, whatever *)
(* definitions were there before and whoever was logging meanwhile: each   *)
(* logger defined has the level and the appenders of its definition, and   *)
(* one that was defined before has level 100 and no appender.  (As long as *)
(* clearAppenders did not meet a thread inside the list.)                  *)
(***************************************************************************)
ConfigApplied ==
  ~raced /\ change = Idle =>
    /\ \A ld \in logs : Matches(ld)
    /\ \A l \in muted : Silenced(l)

\* The appenders among the first n of a list that take the event of call c, and: they
\* are what it has been sent to, each in the place that its rank gives it.
Takers(c, list, n) == {k \in 1..n : Takes(list[k], c.level)}

SentUpTo(c, list, n) ==
  /\ Len(c.sent) = Cardinality(Takers(c, list, n))
  /\ \A k \in Takers(c, list, n) : c.sent[Cardinality(Takers(c, list, k))] = list[k]

(***************************************************************************)
(* An event goes one way: when the lock of the logger that has handled it  *)
(* is let go, the event has gone to the appenders of that logger that take *)
(* its level, to each once and in their order, and to no other.            *)
(***************************************************************************)
OneRoute ==
  \A t \in Threads :
    LET c == call[t] IN
    ~raced /\ c.at = "leave" /\ (c.on = root \/ m_appenders[c.on] # <<>>) =>
      SentUpTo(c, m_appenders[c.on], Len(m_appenders[c.on]))

\* An appender in the list of a logger has a formatter: log() and toYamlString()
\* never meet a null one, in whatever order formatters and appenders were set.
AppendersFormatted ==
  \A l \in Names : \A k \in DOMAIN m_appenders[l] : m_appenders[l][k].formatter # NoFormatter

(***************************************************************************)
(* What print_log_config_var prints of "logs" can be loaded again to the   *)
(* same value, but for appenders to a file without a name, which are not   *)
(* read back.                                                              *)
(***************************************************************************)
Nameless(ld) == \E k \in DOMAIN ld.appenders : ld.appenders[k].type = File /\ ld.appenders[k].file = ""

LogsReloads ==
  (\A ld \in logs : ~Nameless(ld)) => FromLogDefines(ToLogDefines(logs)) = {logs}

\* Every call returns, that of the listener included: logger before root and
\* manager before logger is an order of the locks without a cycle.
LogCallsReturn == \A t \in Threads : ~Free(t) ~> Free(t) \/ raced

(***************************************************************************)
(* "Made not to output by setting a high level" (log.cc:1087): once the    *)
(* listener has deleted a logger and returned, no event of that logger     *)
(* reaches an appender.                                                    *)
(***************************************************************************)
DeletedIsSilent ==
  [][\A t \in Threads :
       call[t].at = "append" /\ call[t].from \in muted /\ change = Idle => call'[t] = call[t]]_vars

=============================================================================
