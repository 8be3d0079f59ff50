------------------------ MODULE FileLogAppenderProofs ------------------------
(***************************************************************************)
(* Proofs about FileLogAppender, for any number of threads, events, faults *)
(* and seconds, and any class of lock: the reopening follows rotations and *)
(* recovers from a name that could not be opened, although m_lastTime is   *)
(* written under no lock.                                                  *)
(***************************************************************************)
EXTENDS FileLogAppender, LocksProofs

Points == {"idle", "check", "reopen", "opening", "stamp", "lock", "write"}

Types ==
  /\ now \in Nat /\ rotatedAt \in 0..now /\ clearSince \in 0..now /\ m_lastTime \in 0..now
  /\ seen \in [Threads -> 0..now] /\ pc \in [Threads -> Points]
  /\ path \in Nat /\ files \in Nat /\ written \in Nat
  /\ m_filestream \in [file : Nat, good : BOOLEAN]
  /\ room \in BOOLEAN /\ mayOpen \in BOOLEAN /\ writeFailed \in BOOLEAN

\* A second later than s has been stamped, or is about to be or to be written in.
After(s) == m_lastTime > s \/ \E t \in Threads : pc[t] \in {"stamp", "lock", "write"} /\ seen[t] > s

(***************************************************************************)
(* What makes the two properties inductive: they are about the stream from *)
(* the reopening on, also for the threads that find m_lastTime stamped by  *)
(* another one and do not reopen.                                          *)
(***************************************************************************)
Rotated == After(rotatedAt) => ~m_filestream.good \/ m_filestream.file = path

Reopens ==
  ~writeFailed =>
    /\ m_filestream.good <=> m_filestream.file # 0
    /\ mayOpen /\ After(clearSince) => m_filestream.good

StreamInv == Types /\ Rotated /\ Reopens

\* The constructor establishes it.
LEMMA InitStream == Init => StreamInv
<1> SUFFICES ASSUME Init  PROVE StreamInv
  OBVIOUS
<1>1. path \in Nat /\ (path # 0 <=> mayOpen) /\ mayOpen \in BOOLEAN
  BY DEF Init
<1>2. Types
  <2>1. m_filestream \in [file : Nat, good : BOOLEAN]
    BY <1>1 DEF Init
  <2>2. now \in Nat /\ 0 \in 0..now /\ files \in Nat /\ written \in Nat
    BY <1>1 DEF Init
  <2>3. seen \in [Threads -> 0..now] /\ pc \in [Threads -> Points]
    BY <2>2 DEF Init, Points
  <2>4. room \in BOOLEAN /\ mayOpen \in BOOLEAN /\ writeFailed \in BOOLEAN
    BY Zenon DEF Init
  <2> QED  BY <1>1, <2>1, <2>2, <2>3, <2>4 DEF Init, Types
<1>3. ~After(0)
  BY DEF Init, After
<1>4. Rotated /\ Reopens
  BY <1>1, <1>3 DEF Init, Rotated, Reopens
<1> QED  BY <1>2, <1>4 DEF StreamInv

\* What reopen() leaves.
LEMMA ReopenStream ==
  ASSUME StreamInv, NEW t \in Threads, Reopen(t)
  PROVE  StreamInv'
<1> USE DEF StreamInv, Types
<1>1. Reopened \in [file : Nat, good : BOOLEAN]
  BY DEF Reopened, Open, Close
<1>2. ~writeFailed => (Reopened.good <=> Reopened.file # 0) /\ (mayOpen => Reopened.good)
  BY DEF Reopens, Reopened, Open, Close
<1>3. m_filestream' = Reopened /\ path' = IF Reopened.good THEN Reopened.file ELSE path
  BY DEF Reopen
<1>4. Types'
  BY <1>1, <1>3 DEF Reopen, Goto, surroundings, Points
<1>5. Rotated'
  BY <1>3 DEF Rotated
<1>6. Reopens'
  BY <1>2, <1>3 DEF Reopens, Reopen, surroundings
<1> QED  BY <1>4, <1>5, <1>6

\* The other steps of log().
LEMMA StepStream ==
  ASSUME StreamInv, NEW t \in Threads, Log(t) \/ Step(t)
  PROVE  StreamInv'
<1> USE DEF StreamInv, Types, Points, Rotated, Reopens, After, Goto, surroundings, appender
<1>1. CASE Log(t)
  BY <1>1 DEF Log
<1>2. CASE Check(t)
  BY <1>2 DEF Check
<1>3. CASE ReopenLock(t)
  BY <1>3 DEF ReopenLock
<1>4. CASE Stamp(t)
  BY <1>4 DEF Stamp
<1>5. CASE WriteLock(t)
  BY <1>5 DEF WriteLock
<1>6. CASE Write(t)
  BY <1>6 DEF Write
<1> QED  BY <1>1, <1>2, <1>3, <1>4, <1>5, <1>6, ReopenStream DEF Step

\* The clock, the disk, the name and the rotation.
LEMMA SurroundingsStream ==
  ASSUME StreamInv, Surroundings
  PROVE  StreamInv'
<1> USE DEF StreamInv, Types, Points, Rotated, Reopens, After, appender
<1>1. CASE Tick /\ UNCHANGED <<appender, pc, seen>>
  BY <1>1 DEF Tick
<1>2. ASSUME NEW disk \in BOOLEAN, NEW name \in BOOLEAN, Change(disk, name), UNCHANGED <<appender, pc, seen>>
      PROVE  StreamInv'
  BY <1>2 DEF Change
<1>3. CASE Rotate /\ UNCHANGED <<pc, seen>>
  BY <1>3 DEF Rotate
<1> QED  BY <1>1, <1>2, <1>3 DEF Surroundings

\* The invariant holds in every state.
LEMMA StreamInvariance == Spec => []StreamInv
<1>1. StreamInv /\ [Next]_vars => StreamInv'
  <2>1. StreamInv /\ UNCHANGED vars => StreamInv'
    BY DEF vars, surroundings, appender, StreamInv, Types, Points, Rotated, Reopens, After
  <2> QED  BY <2>1, StepStream, SurroundingsStream DEF Next
<1> QED  BY <1>1, InitStream, PTL DEF Spec

\* A thread comes from "write" to "idle" by its own Write.
LEMMA OnlyWrite ==
  ASSUME StreamInv, [Next]_vars, NEW t \in Threads, Writes(t)
  PROVE  Write(t)
<1>1. ASSUME NEW u \in Threads, Log(u) \/ Step(u)  PROVE Write(t)
  BY <1>1 DEF Writes, Step, Log, Check, ReopenLock, Reopen, Stamp, WriteLock, Write, Goto, StreamInv, Types
<1>2. ~UNCHANGED pc
  BY DEF Writes
<1> QED  BY <1>1, <1>2 DEF Next, Surroundings, vars

\* Events of a later second than a rotation go to the file that has the name, however
\* the threads that log race on m_lastTime (log.cc:476).
THEOREM RotationFollowed == Spec => FollowsRotation
<1>1. StreamInv /\ [Next]_vars =>
        [\A t \in Threads : Writes(t) /\ written' > written =>
           m_filestream.file = path \/ seen[t] <= rotatedAt]_vars
  <2> SUFFICES ASSUME StreamInv, [Next]_vars, NEW t \in Threads, Writes(t), written' > written, seen[t] > rotatedAt
               PROVE  m_filestream.file = path
    BY DEF StreamInv, Types
  <2>1. Write(t) /\ pc[t] = "write"
    BY OnlyWrite DEF Writes
  <2>2. m_filestream.good
    BY <2>1 DEF Write, StreamInv, Types
  <2> QED  BY <2>1, <2>2 DEF StreamInv, Rotated, After
<1> QED  BY <1>1, StreamInvariance, PTL DEF Spec, FollowsRotation

\* As long as no write has failed, an appender writes again from the second after its
\* name can be opened again.
THEOREM OpenRecovers == Spec => RecoversFromOpen
<1>1. StreamInv /\ [Next]_vars =>
        [\A t \in Threads : Writes(t) /\ InOrder(t) /\ ~writeFailed => written' > written]_vars
  <2> SUFFICES ASSUME StreamInv, [Next]_vars, NEW t \in Threads, Writes(t), InOrder(t), ~writeFailed
               PROVE  written' > written
    OBVIOUS
  <2>1. Write(t) /\ pc[t] = "write"
    BY OnlyWrite DEF Writes
  <2>2. m_filestream.good
    BY <2>1 DEF InOrder, StreamInv, Reopens, After
  <2> QED  BY <2>1, <2>2 DEF InOrder, Write, StreamInv, Types
<1> QED  BY <1>1, StreamInvariance, PTL DEF Spec, RecoversFromOpen

-----------------------------------------------------------------------------
\* reopen() and log() use m_mutex through guards only, so that it agrees with them
\* in every class of lock the build may choose (log.h:56).
THEOREM AppenderLocksMatch == Spec => []LockMatchesGuards
<1>1. Init => LocksInit
  BY DEF Init
<1>2. [Next]_vars => [LocksNext]_lockVars
  <2> SUFFICES ASSUME [Next]_vars  PROVE [LocksNext]_lockVars
    OBVIOUS
  <2>1. m_mutex \in Locks /\ "exclusive" \in Modes(m_mutex)
    BY FileLogAppenderAssumption DEF Modes
  <2>2. ASSUME NEW t \in Threads, Step(t)  PROVE [LocksNext]_lockVars
    <3>1. CASE ReopenLock(t) \/ WriteLock(t)
      BY <2>1, <3>1 DEF ReopenLock, WriteLock, LocksNext, Use
    <3>2. CASE Reopen(t) \/ Write(t)
      BY <2>1, <3>2 DEF Reopen, Write, LocksNext, Use
    <3> QED  BY <2>2, <3>1, <3>2 DEF Step, Check, Stamp
  <2>3. ASSUME NEW t \in Threads, Log(t)  PROVE UNCHANGED lockVars
    BY <2>3 DEF Log
  <2> QED  BY <2>2, <2>3 DEF Next, Surroundings, vars
<1>3. Spec => LocksSpec
  BY <1>1, <1>2, PTL DEF Spec, LocksSpec
<1> QED  BY <1>3, LocksMatch, PTL

=============================================================================
