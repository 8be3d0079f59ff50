--------------------------- MODULE FileLogAppender ---------------------------
(***************************************************************************)
(* sylar::FileLogAppender (sylar/log.h, sylar/log.cc): appends events to a *)
(* named file through a stream, and closes and opens the stream again when *)
(* an event comes in another second than the last one did.  Several        *)
(* threads log through one appender; m_mutex guards the stream, and        *)
(* m_lastTime is guarded by nothing.                                       *)
(*                                                                         *)
(* Around it: the clock, a disk that can be full for a time, a name that   *)
(* can be impossible to open for a time, and the rotation of the file by   *)
(* somebody else, which leaves the stream on a file without the name.      *)
(***************************************************************************)
EXTENDS Locks, Naturals

CONSTANTS
  m_mutex,
  MaxTime,     \* bound: seconds
  MaxLogs,     \* bound: calls of log() per thread
  MaxFaults    \* bound: changes of the disk or of the name

ASSUME FileLogAppenderAssumption ==
  /\ m_mutex \in Locks
  /\ MaxTime \in Nat /\ MaxLogs \in Nat /\ MaxFaults \in Nat

VARIABLES
  now,           \* what time(0) returns
  room, mayOpen, \* has the disk room, can the name be opened
  path,          \* the file that has the name, 0 if there is none
  files,         \* files made so far: 1..files
  faults,        \* changes of the surroundings so far
  clearSince,    \* the second since which disk and name have been in order
  rotatedAt,     \* the second of the last rotation
  m_filestream,  \* the file it has open (0: none), and whether it is good
  m_lastTime,
  writeFailed,   \* has a write failed
  written,       \* calls of log() that reached a file
  pc,            \* per thread
  seen,          \* per thread: the local now of log()
  logs           \* per thread: calls of log() so far

surroundings == <<now, room, mayOpen, faults, clearSince, rotatedAt>>
appender == <<path, files, m_filestream, m_lastTime, writeFailed, written>>
vars == <<lockVars, surroundings, appender, pc, seen, logs>>

-----------------------------------------------------------------------------
(* std::ofstream *)

\* close() on a stream that is open: every write was flushed before.
Close(s) == [file |-> 0, good |-> s.good]

\* open(m_filename, app) on a stream that is still open fails; otherwise it makes
\* the file if the name has none, and clears the error state.
Open(s) ==
  IF s.file # 0 \/ ~mayOpen THEN [file |-> s.file, good |-> FALSE]
  ELSE [file |-> IF path = 0 THEN files + 1 ELSE path, good |-> TRUE]

\* Faulty variant: a stream that is not good is left alone.
Reopened_OnlyGood == IF m_filestream.good THEN Open(Close(m_filestream)) ELSE m_filestream

\* The body of reopen(): close() only if the stream is good, then open().
Reopened == Open(IF m_filestream.good THEN Close(m_filestream) ELSE m_filestream)

\* The constructor opens the file, or could not.
Init ==
  /\ LocksInit
  /\ now = 0 /\ m_lastTime = 0 /\ faults = 0 /\ clearSince = 0 /\ rotatedAt = 0
  /\ room = TRUE /\ mayOpen \in BOOLEAN /\ writeFailed = FALSE /\ written = 0
  /\ path = (IF mayOpen THEN 1 ELSE 0) /\ files = path
  /\ m_filestream = [file |-> path, good |-> mayOpen]
  /\ pc = [t \in Threads |-> "idle"]
  /\ seen = [t \in Threads |-> 0] /\ logs = [t \in Threads |-> 0]

-----------------------------------------------------------------------------
(* log() *)

Goto(t, from, to) == pc[t] = from /\ pc' = [pc EXCEPT ![t] = to]

\* An event that passes the appender's level: now = time(0).
Log(t) ==
  /\ logs[t] < MaxLogs
  /\ Goto(t, "idle", "check")
  /\ logs' = [logs EXCEPT ![t] = @ + 1]
  /\ seen' = [seen EXCEPT ![t] = now]
  /\ UNCHANGED <<surroundings, appender, lockVars>>

\* Faulty variant: m_lastTime is set on the way into reopen(), not after it.
Check_StampsFirst(t) ==
  /\ Goto(t, "check", IF seen[t] # m_lastTime THEN "reopen" ELSE "lock")
  /\ m_lastTime' = seen[t]
  /\ UNCHANGED <<surroundings, path, files, m_filestream, writeFailed, written,
                 seen, logs, lockVars>>

\* if (now != m_lastTime)
Check(t) ==
  /\ Goto(t, "check", IF seen[t] # m_lastTime THEN "reopen" ELSE "lock")
  /\ UNCHANGED <<surroundings, appender, seen, logs, lockVars>>

\* reopen(): the guard, the body with the unlock, and the return to log().
ReopenLock(t) ==
  /\ Goto(t, "reopen", "opening")
  /\ Construct(m_mutex, t, "exclusive")
  /\ UNCHANGED <<surroundings, appender, seen, logs>>

Reopen(t) ==
  /\ Goto(t, "opening", "stamp")
  /\ m_filestream' = Reopened
  /\ path' = IF m_filestream'.good THEN m_filestream'.file ELSE path
  /\ files' = IF path' > files THEN path' ELSE files
  /\ Destruct(m_mutex, t)
  /\ UNCHANGED <<surroundings, m_lastTime, writeFailed, written, seen, logs>>

\* m_lastTime = now
Stamp(t) ==
  /\ Goto(t, "stamp", "lock")
  /\ m_lastTime' = seen[t]
  /\ UNCHANGED <<surroundings, path, files, m_filestream, writeFailed, written,
                 seen, logs, lockVars>>

WriteLock(t) ==
  /\ Goto(t, "lock", "write")
  /\ Construct(m_mutex, t, "exclusive")
  /\ UNCHANGED <<surroundings, appender, seen, logs>>

\* m_filestream << ..., flush() and the unlock.  A stream that is not good takes
\* nothing; a write that fails makes it so.
Write(t) ==
  /\ Goto(t, "write", "idle")
  /\ written' = IF m_filestream.good /\ room THEN written + 1 ELSE written
  /\ m_filestream' = [file |-> m_filestream.file, good |-> m_filestream.good /\ room]
  /\ writeFailed' = (writeFailed \/ (m_filestream.good /\ ~room))
  /\ Destruct(m_mutex, t)
  /\ UNCHANGED <<surroundings, path, files, m_lastTime, seen, logs>>

Step(t) ==
  Check(t) \/ ReopenLock(t) \/ Reopen(t) \/ Stamp(t) \/ WriteLock(t) \/ Write(t)

-----------------------------------------------------------------------------
(* The surroundings *)

Tick ==
  /\ now < MaxTime
  /\ now' = now + 1
  /\ UNCHANGED <<room, mayOpen, faults, clearSince, rotatedAt>>

\* The disk fills up or gets room; the name can no longer be opened or can again.
Change(disk, name) ==
  /\ faults < MaxFaults /\ <<disk, name>> # <<room, mayOpen>>
  /\ faults' = faults + 1
  /\ room' = disk /\ mayOpen' = name
  /\ clearSince' = now
  /\ UNCHANGED <<now, rotatedAt>>

Rotate ==
  /\ faults < MaxFaults /\ path # 0
  /\ faults' = faults + 1
  /\ path' = 0
  /\ rotatedAt' = now
  /\ UNCHANGED <<now, room, mayOpen, files, clearSince, m_filestream, m_lastTime,
                 writeFailed, written>>

Surroundings ==
  /\ \/ (Tick \/ \E disk, name \in BOOLEAN : Change(disk, name)) /\ UNCHANGED appender
     \/ Rotate
  /\ UNCHANGED <<pc, seen, logs, lockVars>>

Next == Surroundings \/ \E t \in Threads : Log(t) \/ Step(t)

\* A thread inside log() is run, and gets a lock that stays free.
Spec == Init /\ [][Next]_vars /\ \A t \in Threads : WF_vars(Step(t))

-----------------------------------------------------------------------------
(* Properties *)

\* Thread t writes in this step.
Writes(t) == pc[t] = "write" /\ pc'[t] = "idle"

(***************************************************************************)
(* Reopening follows a rotation: an event that comes in a later second     *)
(* than the rotation never goes to the file that was rotated away,         *)
(* whatever the threads that reopen at the same time do to m_lastTime.     *)
(***************************************************************************)
FollowsRotation ==
  [][\A t \in Threads :
       Writes(t) /\ written' > written =>
         m_filestream.file = path \/ seen[t] <= rotatedAt]_vars

(***************************************************************************)
(* "Reopened every second, in app mode" (log.cc:477): an event that comes  *)
(* in a later second than the one in which the disk and the name came back *)
(* to order is written.                                                    *)
(***************************************************************************)
InOrder(t) == room /\ mayOpen /\ seen[t] > clearSince

RecoversAfterASecond ==
  [][\A t \in Threads : Writes(t) /\ InOrder(t) => written' > written]_vars

\* The same as long as no write has failed: a name that could not be opened is
\* tried again in every second in which an event comes.
RecoversFromOpen ==
  [][\A t \in Threads : Writes(t) /\ InOrder(t) /\ ~writeFailed => written' > written]_vars

\* Every log() returns, also with a lock that spins.
LogReturns == \A t \in Threads : pc[t] # "idle" ~> pc[t] = "idle"

=============================================================================
