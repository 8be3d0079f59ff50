-------------------------------- MODULE Locks --------------------------------
(***************************************************************************)
(* The locks of sylar/thread.h and their guards.  Mutex, Spinlock and      *)
(* RWMutex wrap the pthread locks; CASLock is a flag that knows only that  *)
(* it is taken, not by whom; NullMutex and NullRWMutex do nothing.  A      *)
(* guard (ScopedLockImpl, ReadScopedLockImpl, WriteScopedLockImpl) locks   *)
(* in its constructor, can be unlocked and locked again, and unlocks in    *)
(* its destructor what it still holds.                                     *)
(*                                                                         *)
(* The modules that use locks take their guards from here; each thread has *)
(* at most one guard on a lock at a time.                                  *)
(***************************************************************************)
CONSTANTS
  Threads,
  Locks,
  Kind,     \* per lock: the class it is an object of
  None,     \* no thread
  Taken     \* the owner of a CASLock whose flag is set

Null == {"NullMutex", "NullRWMutex"}
Shared == {"RWMutex", "NullRWMutex"}

ASSUME LocksAssumption ==
  /\ Kind \in [Locks -> {"Mutex", "Spinlock", "CASLock", "RWMutex"} \cup Null]
  /\ None \notin Threads \cup {Taken} /\ Taken \notin Threads

VARIABLES
  m_lock,   \* per lock: the threads reading and the one that has it alone
  guard     \* per lock and thread: the guard, with its m_locked

lockVars == <<m_lock, guard>>

NoGuard == [mode |-> "none", m_locked |-> FALSE]

\* The guards a class offers: Lock, or ReadLock and WriteLock.
Modes(l) == IF Kind[l] \in Shared THEN {"read", "exclusive"} ELSE {"exclusive"}

LocksTypeOK ==
  /\ m_lock \in [Locks -> [readers : SUBSET Threads, owner : Threads \cup {None, Taken}]]
  /\ guard \in [Locks -> [Threads -> {NoGuard} \cup [mode : {"read", "exclusive"}, m_locked : BOOLEAN]]]
  /\ \A l \in Locks, t \in Threads : guard[l][t].mode \in Modes(l) \cup {"none"}

LocksInit ==
  /\ m_lock = [l \in Locks |-> [readers |-> {}, owner |-> None]]
  /\ guard = [l \in Locks |-> [t \in Threads |-> NoGuard]]

-----------------------------------------------------------------------------
(* The locks *)

\* Faulty variants: lock() never waits; wrlock() does not wait for the readers.
CanLock_Always(l, mode) == TRUE

CanLock_OverReaders(l, mode) == Kind[l] \notin Null => m_lock[l].owner = None

\* lock(), rdlock() or wrlock() returns.  CASLock spins until test_and_set finds
\* the flag clear; the turns that find it set change nothing.
CanLock(l, mode) ==
  Kind[l] \notin Null =>
    /\ m_lock[l].owner = None
    /\ mode = "read" \/ m_lock[l].readers = {}

\* The lock after lock(), rdlock() or wrlock().
Locked(l, t, mode) ==
  IF Kind[l] \in Null THEN m_lock[l]
  ELSE IF mode = "read" THEN [readers |-> m_lock[l].readers \cup {t}, owner |-> m_lock[l].owner]
  ELSE [readers |-> m_lock[l].readers, owner |-> IF Kind[l] = "CASLock" THEN Taken ELSE t]

\* The lock after unlock(), which pthread_rwlock_unlock resolves to the side the
\* thread holds, and which on a CASLock clears the flag whoever set it.
Unlocked(l, t) ==
  IF t \in m_lock[l].readers
  THEN [readers |-> m_lock[l].readers \ {t}, owner |-> m_lock[l].owner]
  ELSE [readers |-> m_lock[l].readers, owner |-> None]

-----------------------------------------------------------------------------
(* The guards *)

\* The guard locks: in its constructor, or in lock() when it does not hold.
GuardLocks(l, t, mode) ==
  /\ CanLock(l, mode)
  /\ m_lock' = [m_lock EXCEPT ![l] = Locked(l, t, mode)]
  /\ guard' = [guard EXCEPT ![l][t] = [mode |-> mode, m_locked |-> TRUE]]

Construct(l, t, mode) == guard[l][t] = NoGuard /\ GuardLocks(l, t, mode)

Lock(l, t) ==
  /\ guard[l][t] # NoGuard /\ ~guard[l][t].m_locked
  /\ GuardLocks(l, t, guard[l][t].mode)

Unlock(l, t) ==
  /\ guard[l][t].m_locked
  /\ m_lock' = [m_lock EXCEPT ![l] = Unlocked(l, t)]
  /\ guard' = [guard EXCEPT ![l][t] = [mode |-> guard[l][t].mode, m_locked |-> FALSE]]

\* Faulty variant: the destructor does not unlock.
Destruct_KeepsLock(l, t) ==
  /\ guard[l][t] # NoGuard
  /\ guard' = [guard EXCEPT ![l][t] = NoGuard]
  /\ UNCHANGED m_lock

\* The end of the guard's scope: unlock(), which does nothing to a lock that the
\* guard has let go of.
Destruct(l, t) ==
  /\ guard[l][t] # NoGuard
  /\ m_lock' = IF guard[l][t].m_locked THEN [m_lock EXCEPT ![l] = Unlocked(l, t)]
               ELSE m_lock
  /\ guard' = [guard EXCEPT ![l][t] = NoGuard]

\* Any use of one guard on l by thread t.
Use(l, t) ==
  \/ \E mode \in Modes(l) : Construct(l, t, mode)
  \/ Lock(l, t) \/ Unlock(l, t) \/ Destruct(l, t)

LocksNext == \E l \in Locks, t \in Threads : Use(l, t)

LocksSpec == LocksInit /\ [][LocksNext]_lockVars

-----------------------------------------------------------------------------
(* Properties *)

Real == {l \in Locks : Kind[l] \notin Null}
Holds(l, t) == guard[l][t].m_locked

(***************************************************************************)
(* What a guard's scope is for: a thread whose guard holds a lock of any   *)
(* class but the Null ones shares it with no other, or with readers only.  *)
(***************************************************************************)
Exclusion ==
  \A l \in Real : \A t, u \in Threads :
    t # u /\ Holds(l, t) /\ Holds(l, u) =>
      guard[l][t].mode = "read" /\ guard[l][u].mode = "read"

(***************************************************************************)
(* The state of the lock agrees with the guards, so that no guard unlocks  *)
(* a lock that it does not hold and none is left locked without a guard.   *)
(***************************************************************************)
LockMatchesGuards ==
  \A l \in Real :
    /\ m_lock[l].readers = {t \in Threads : Holds(l, t) /\ guard[l][t].mode = "read"}
    /\ \A t \in Threads : Holds(l, t) /\ guard[l][t].mode = "exclusive" =>
         /\ m_lock[l].owner = (IF Kind[l] = "CASLock" THEN Taken ELSE t)
         /\ m_lock[l].readers = {}
         /\ \A u \in Threads \ {t} : ~Holds(l, u)
    /\ m_lock[l].owner # None =>
         \E t \in Threads : Holds(l, t) /\ guard[l][t].mode = "exclusive"

\* Guards over Mutex, Spinlock, CASLock and RWMutex implement SharedLock.
Holders(l) == {[by |-> t, mode |-> guard[l][t].mode] : t \in {u \in Threads : Holds(l, u)}}

S == INSTANCE SharedLock WITH Locks <- Real, holders <- [l \in Real |-> Holders(l)]

IsSharedLock == S!SSpec

=============================================================================
