----------------------------- MODULE LocksProofs -----------------------------
(***************************************************************************)
(* Proofs about Locks, for any threads, locks and classes of locks: the    *)
(* locks agree with the guards, guards exclude one another, and they       *)
(* implement SharedLock.  The lemmas about one use of a guard are what the *)
(* modules that use locks need.                                            *)
(***************************************************************************)
EXTENDS Locks, TLAPS

LockInv == LocksTypeOK /\ LockMatchesGuards

Lock1(l) ==
  /\ m_lock[l].readers = {t \in Threads : Holds(l, t) /\ guard[l][t].mode = "read"}
  /\ \A t \in Threads : Holds(l, t) /\ guard[l][t].mode = "exclusive" =>
       /\ m_lock[l].owner = (IF Kind[l] = "CASLock" THEN Taken ELSE t)
       /\ m_lock[l].readers = {}
       /\ \A u \in Threads \ {t} : ~Holds(l, u)
  /\ m_lock[l].owner # None =>
       \E t \in Threads : Holds(l, t) /\ guard[l][t].mode = "exclusive"

\* A guard that exists has a mode of its lock's class.
LEMMA GuardMode ==
  ASSUME LockInv, NEW l \in Locks, NEW t \in Threads, guard[l][t] # NoGuard
  PROVE  /\ guard[l][t] \in [mode : {"read", "exclusive"}, m_locked : BOOLEAN]
         /\ guard[l][t].mode \in Modes(l) /\ Modes(l) \subseteq {"read", "exclusive"}
<1>1. guard[l][t] \in [mode : {"read", "exclusive"}, m_locked : BOOLEAN]
  BY DEF LockInv, LocksTypeOK
<1>2. guard[l][t].mode \in Modes(l) \cup {"none"} /\ guard[l][t].mode # "none"
  BY <1>1 DEF LockInv, LocksTypeOK
<1> QED  BY <1>1, <1>2 DEF Modes

\* A guard that holds its lock exists.
LEMMA HeldExists ==
  ASSUME NEW l \in Locks, NEW t \in Threads, Holds(l, t)
  PROVE  guard[l][t] # NoGuard
  BY DEF Holds, NoGuard

-----------------------------------------------------------------------------
(* A use of a guard changes one lock and one guard. *)

\* Initially the types are right and no lock is held.
LEMMA InitInv == LocksInit => LockInv
  BY LocksAssumption DEF LocksInit, LockInv, LocksTypeOK, LockMatchesGuards, NoGuard, Holds, Real

\* lock() and the constructors of the guards: what GuardLocks leaves.
LEMMA LocksOne ==
  ASSUME LockInv, NEW l \in Locks, NEW t \in Threads, NEW mode \in Modes(l),
         ~guard[l][t].m_locked, GuardLocks(l, t, mode)
  PROVE  LockInv'
<1>1. LocksTypeOK'
  <2>1. Locked(l, t, mode) \in [readers : SUBSET Threads, owner : Threads \cup {None, Taken}]
    BY DEF LockInv, LocksTypeOK, Locked
  <2>2. [mode |-> mode, m_locked |-> TRUE] \in [mode : {"read", "exclusive"}, m_locked : BOOLEAN]
    BY DEF Modes
  <2> QED  BY <2>1, <2>2 DEF LockInv, LocksTypeOK, GuardLocks
<1>2. ASSUME NEW k \in Real, k # l  PROVE Lock1(k)'
  BY <1>2 DEF LockInv, LocksTypeOK, LockMatchesGuards, Lock1, GuardLocks, Holds, Real
<1>3. CASE l \in Real
  <2>1. Lock1(l)
    BY <1>3 DEF LockInv, LockMatchesGuards, Lock1
  <2>2. m_lock[l].owner = None /\ (mode = "read" \/ m_lock[l].readers = {})
    BY <1>3 DEF GuardLocks, CanLock, Real
  <2>3. m_lock'[l] = Locked(l, t, mode) /\ guard'[l] = [guard[l] EXCEPT ![t] = [mode |-> mode, m_locked |-> TRUE]]
    BY DEF GuardLocks, LockInv, LocksTypeOK
  <2>4. m_lock[l] \in [readers : SUBSET Threads, owner : Threads \cup {None, Taken}]
    BY DEF LockInv, LocksTypeOK
  <2>5. /\ guard[l] \in [Threads -> {NoGuard} \cup [mode : {"read", "exclusive"}, m_locked : BOOLEAN]]
        /\ Modes(l) \subseteq {"read", "exclusive"}
    <3>1. Modes(l) \subseteq {"read", "exclusive"}
      BY DEF Modes
    <3> QED  BY <3>1 DEF LockInv, LocksTypeOK
  <2>6. \A u \in Threads : guard'[l][u] = IF u = t THEN [mode |-> mode, m_locked |-> TRUE] ELSE guard[l][u]
    BY <2>3, <2>5
  <2>7. \A u \in Threads : ~(Holds(l, u) /\ guard[l][u].mode = "exclusive")
    BY <2>1, <2>2, LocksAssumption DEF Lock1
  <2>8. ASSUME mode = "read"  PROVE Lock1(l)'
    <3>1. m_lock'[l].readers = m_lock[l].readers \cup {t} /\ m_lock'[l].owner = None
      BY <1>3, <2>2, <2>3, <2>8 DEF Locked, Real
    <3>2. m_lock'[l].readers = {u \in Threads : Holds(l, u)' /\ guard'[l][u].mode = "read"}
      BY <2>1, <2>6, <2>8, <3>1 DEF Lock1, Holds
    <3> QED  BY <2>6, <2>7, <2>8, <3>1, <3>2 DEF Lock1, Holds
  <2>9. ASSUME mode = "exclusive"  PROVE Lock1(l)'
    <3>1. m_lock'[l] = [readers |-> {}, owner |-> IF Kind[l] = "CASLock" THEN Taken ELSE t]
      BY <1>3, <2>2, <2>3, <2>9, Zenon DEF Locked, Real
    <3>2. \A u \in Threads : ~Holds(l, u)
      BY <2>1, <2>2, <2>7, <2>9, HeldExists, GuardMode, Zenon DEF Lock1
    <3>3. \A u \in Threads : Holds(l, u)' <=> u = t
      BY <2>6, <3>2 DEF Holds
    <3> QED  BY <2>6, <2>9, <3>1, <3>3 DEF Lock1
  <2>10. Lock1(l)'
    BY <2>5, <2>8, <2>9
  <2> QED  BY <1>1, <1>2, <2>10 DEF LockInv, LockMatchesGuards, Lock1
<1> QED  BY <1>1, <1>2, <1>3 DEF LockInv, LockMatchesGuards, Lock1, Real

\* unlock() and the destructors of the guards, when the guard holds the lock.
LEMMA UnlocksOne ==
  ASSUME LockInv, NEW l \in Locks, NEW t \in Threads, guard[l][t].m_locked,
         NEW g \in {NoGuard, [mode |-> guard[l][t].mode, m_locked |-> FALSE]},
         m_lock' = [m_lock EXCEPT ![l] = Unlocked(l, t)],
         guard' = [guard EXCEPT ![l][t] = g]
  PROVE  LockInv'
<1>0. /\ m_lock[l] \in [readers : SUBSET Threads, owner : Threads \cup {None, Taken}]
      /\ guard[l] \in [Threads -> {NoGuard} \cup [mode : {"read", "exclusive"}, m_locked : BOOLEAN]]
  BY DEF LockInv, LocksTypeOK
<1>1. /\ g \in {NoGuard} \cup [mode : {"read", "exclusive"}, m_locked : BOOLEAN] /\ ~g.m_locked
      /\ g.mode \in Modes(l) \cup {"none"}
  <2>2. guard[l][t] \in [mode : {"read", "exclusive"}, m_locked : BOOLEAN] /\ guard[l][t].mode \in Modes(l)
    BY HeldExists, GuardMode DEF Holds
  <2>3. [mode |-> guard[l][t].mode, m_locked |-> FALSE] \in [mode : {"read", "exclusive"}, m_locked : BOOLEAN]
    BY <2>2
  <2>4. CASE g = NoGuard
    BY <2>4 DEF NoGuard
  <2>5. CASE g = [mode |-> guard[l][t].mode, m_locked |-> FALSE]
    BY <2>2, <2>3, <2>5
  <2> QED  BY <2>4, <2>5
<1>2. LocksTypeOK'
  <2>1. Unlocked(l, t) \in [readers : SUBSET Threads, owner : Threads \cup {None, Taken}]
    BY <1>0 DEF Unlocked
  <2> QED  BY <1>1, <2>1 DEF LockInv, LocksTypeOK
<1>3. ASSUME NEW k \in Real, k # l  PROVE Lock1(k)'
  BY <1>3 DEF LockInv, LocksTypeOK, LockMatchesGuards, Lock1, Holds, Real
<1>4. CASE l \in Real
  <2>1. Lock1(l)
    BY <1>4 DEF LockInv, LockMatchesGuards, Lock1
  <2>2. m_lock'[l] = Unlocked(l, t) /\ guard'[l] = [guard[l] EXCEPT ![t] = g]
    BY DEF LockInv, LocksTypeOK
  <2>3. guard[l][t].mode \in {"read", "exclusive"}
    BY <1>0 DEF Modes, NoGuard
  <2>4. \A u \in Threads : guard'[l][u] = IF u = t THEN g ELSE guard[l][u]
    BY <1>0, <2>2
  <2>5. ASSUME guard[l][t].mode = "read"  PROVE Lock1(l)'
    <3>1. t \in m_lock[l].readers /\ m_lock[l].owner = None
      BY <2>1, <2>5 DEF Lock1, Holds
    <3>2. m_lock'[l] = [readers |-> m_lock[l].readers \ {t}, owner |-> None]
      BY <2>2, <3>1 DEF Unlocked
    <3> QED  BY <1>1, <2>1, <2>4, <2>5, <3>1, <3>2 DEF Lock1, Holds
  <2>6. ASSUME guard[l][t].mode = "exclusive"  PROVE Lock1(l)'
    <3>1. m_lock[l].readers = {} /\ \A u \in Threads \ {t} : ~Holds(l, u)
      BY <2>1, <2>6 DEF Lock1, Holds
    <3>2. m_lock'[l] = [readers |-> {}, owner |-> None]
      BY <2>2, <3>1 DEF Unlocked
    <3>3. \A u \in Threads : ~Holds(l, u)'
      BY <1>1, <2>4, <3>1 DEF Holds
    <3> QED  BY <3>2, <3>3 DEF Lock1
  <2>7. Lock1(l)'
    BY <2>3, <2>5, <2>6
  <2> QED  BY <1>2, <1>3, <2>7 DEF LockInv, LockMatchesGuards, Lock1
<1> QED  BY <1>2, <1>3, <1>4 DEF LockInv, LockMatchesGuards, Lock1, Real

\* One use of a guard, of any kind, keeps the invariant.
LEMMA UseKeepsInv ==
  ASSUME LockInv, NEW l \in Locks, NEW t \in Threads, Use(l, t)
  PROVE  LockInv'
<1>0. guard[l] \in [Threads -> {NoGuard} \cup [mode : {"read", "exclusive"}, m_locked : BOOLEAN]]
  BY DEF LockInv, LocksTypeOK
<1>1. ASSUME NEW mode \in Modes(l), Construct(l, t, mode)  PROVE LockInv'
  BY <1>1, LocksOne DEF Construct, NoGuard
<1>2. CASE Lock(l, t)
  <2>1. guard[l][t].mode \in Modes(l) /\ ~guard[l][t].m_locked
    BY <1>2, GuardMode DEF Lock
  <2> QED  BY <1>2, <2>1, LocksOne DEF Lock
<1>3. CASE Unlock(l, t)
  <2>1. guard' = [guard EXCEPT ![l][t] = [mode |-> guard[l][t].mode, m_locked |-> FALSE]]
    BY <1>0, <1>3 DEF Unlock, LockInv, LocksTypeOK
  <2> QED  BY <1>3, <2>1, UnlocksOne, Zenon DEF Unlock
<1>4. CASE Destruct(l, t) /\ guard[l][t].m_locked
  BY <1>4, UnlocksOne, Zenon DEF Destruct
<1>5. CASE Destruct(l, t) /\ ~guard[l][t].m_locked
  <2>1. LocksTypeOK'
    BY <1>5 DEF LockInv, LocksTypeOK, Destruct, NoGuard
  <2>2. \A k \in Locks, u \in Threads : Holds(k, u)' = Holds(k, u)
    BY <1>0, <1>5, Zenon DEF LockInv, LocksTypeOK, Destruct, Holds, NoGuard
  <2>3. \A k \in Locks, u \in Threads : Holds(k, u) => guard'[k][u] = guard[k][u]
    <3>1. guard' = [guard EXCEPT ![l] = [guard[l] EXCEPT ![t] = NoGuard]] /\ DOMAIN guard[l] = Threads
      BY <1>0, <1>5 DEF Destruct, LockInv, LocksTypeOK
    <3> QED  BY <1>5, <3>1 DEF Holds
  <2>4. m_lock' = m_lock
    BY <1>5 DEF Destruct
  <2>5. ASSUME NEW k \in Real  PROVE Lock1(k)'
    <3>1. Lock1(k) /\ k \in Locks
      BY DEF LockInv, LockMatchesGuards, Lock1, Real
    <3> QED  BY <2>2, <2>3, <2>4, <3>1 DEF Lock1
  <2> QED  BY <2>1, <2>5 DEF LockInv, LockMatchesGuards, Lock1, Real
<1> QED  BY <1>1, <1>2, <1>3, <1>4, <1>5 DEF Use

\* The invariant holds in every state of guards that are used in any order.
LEMMA Invariance == LocksSpec => []LockInv
<1>1. LockInv /\ [LocksNext]_lockVars => LockInv'
  <2>1. CASE UNCHANGED lockVars
    BY <2>1 DEF lockVars, LockInv, LocksTypeOK, LockMatchesGuards, Holds
  <2> QED  BY <2>1, UseKeepsInv DEF LocksNext
<1> QED  BY <1>1, InitInv, PTL DEF LocksSpec

-----------------------------------------------------------------------------
(* What follows from it *)

\* The state of every lock is what the guards say (thread.h): a guard never unlocks
\* what it does not hold.
THEOREM LocksMatch == LocksSpec => []LockMatchesGuards
  BY Invariance, PTL DEF LockInv

\* Two guards hold a lock of thread.h at a time only if both read.
LEMMA InvExcludes == LockInv => Exclusion
  BY DEF LockInv, LocksTypeOK, LockMatchesGuards, Exclusion, Holds, Real, Modes, NoGuard

\* The scopes of guards on a Mutex, Spinlock, CASLock or RWMutex exclude one another.
THEOREM GuardsExclude == LocksSpec => []Exclusion
  BY Invariance, InvExcludes, PTL

\* A use of a guard is a step of SharedLock, or changes nothing in it.
LEMMA UseImplements ==
  ASSUME LockInv, NEW l \in Locks, NEW t \in Threads, Use(l, t)
  PROVE  [S!SNext]_(S!svars)
<1> DEFINE abs == [k \in Real |-> Holders(k)]
<1> DEFINE one(mode) == [by |-> t, mode |-> mode]
<1>0. /\ guard[l] \in [Threads -> {NoGuard} \cup [mode : {"read", "exclusive"}, m_locked : BOOLEAN]]
      /\ Modes(l) \subseteq {"read", "exclusive"}
  BY DEF LockInv, LocksTypeOK, Modes
<1>1. \A k \in Real \ {l} : Holders(k)' = Holders(k)
  <2>1. \A k \in Locks \ {l} : guard'[k] = guard[k]
    BY DEF Use, Construct, Lock, Unlock, Destruct, GuardLocks, LockInv, LocksTypeOK
  <2> QED  BY <2>1 DEF Holders, Holds, Real
<1>2. CASE l \notin Real
  BY <1>1, <1>2 DEF S!svars
<1>3. ASSUME NEW mode \in Modes(l), ~Holds(l, t), GuardLocks(l, t, mode), l \in Real
      PROVE  [S!SNext]_(S!svars)
  <2>1. \A u \in Threads : guard'[l][u] = IF u = t THEN [mode |-> mode, m_locked |-> TRUE] ELSE guard[l][u]
    BY <1>0, <1>3 DEF GuardLocks, LockInv, LocksTypeOK
  <2>2. Holders(l)' = Holders(l) \cup {one(mode)}
    BY <1>3, <2>1 DEF Holders, Holds
  <2>3. \A u \in Threads : Holds(l, u) => mode = "read" /\ guard[l][u].mode = "read" /\ u # t
    <3>1. m_lock[l].owner = None /\ (mode = "read" \/ m_lock[l].readers = {})
      BY <1>3 DEF GuardLocks, CanLock, Real
    <3>2. \A u \in Threads : Holds(l, u) => guard[l][u].mode \in {"read", "exclusive"}
      BY <1>0 DEF Holds, NoGuard
    <3> QED  BY <1>3, <3>1, <3>2, LocksAssumption DEF LockInv, LockMatchesGuards
  <2>4. \A h \in Holders(l) : mode = "read" /\ h.mode = "read" /\ h.by # t
    BY <2>3 DEF Holders
  <2>5. abs' = [abs EXCEPT ![l] = @ \cup {one(mode)}]
    BY <1>1, <1>3, <2>2, Zenon
  <2>6. S!Acquire(l, t, mode)
    BY <1>3, <2>4, <2>5 DEF S!Acquire
  <2> QED  BY <1>0, <1>3, <2>6 DEF S!SNext, S!Mode
<1>4. ASSUME Holds(l, t), l \in Real, ~Holds(l, t)', \A u \in Threads \ {t} : guard'[l][u] = guard[l][u]
      PROVE  [S!SNext]_(S!svars)
  <2>1. Holders(l)' = Holders(l) \ {one(guard[l][t].mode)} /\ one(guard[l][t].mode) \in Holders(l)
    BY <1>4 DEF Holders, Holds
  <2>2. abs' = [abs EXCEPT ![l] = @ \ {one(guard[l][t].mode)}]
    BY <1>1, <1>4, <2>1, Zenon
  <2>3. S!Release(l, t)
    BY <1>4, <2>1, <2>2, Zenon DEF S!Release
  <2> QED  BY <1>4, <2>3 DEF S!SNext
<1>5. ASSUME NEW mode \in Modes(l), Construct(l, t, mode), l \in Real  PROVE [S!SNext]_(S!svars)
  BY <1>3, <1>5 DEF Construct, NoGuard, Holds
<1>6. CASE Lock(l, t) /\ l \in Real
  <2>1. guard[l][t].mode \in Modes(l) /\ ~Holds(l, t)
    BY <1>6, GuardMode DEF Lock, Holds
  <2> QED  BY <1>3, <1>6, <2>1 DEF Lock
<1>7. CASE (Unlock(l, t) \/ Destruct(l, t)) /\ Holds(l, t) /\ l \in Real
  <2>1. ~Holds(l, t)' /\ \A u \in Threads \ {t} : guard'[l][u] = guard[l][u]
    BY <1>0, <1>7 DEF Unlock, Destruct, Holds, NoGuard, LockInv, LocksTypeOK
  <2> QED  BY <1>4, <1>7, <2>1
<1>8. CASE Destruct(l, t) /\ ~Holds(l, t) /\ l \in Real
  <2>1. \A u \in Threads : Holds(l, u)' = Holds(l, u) /\ (Holds(l, u) => guard'[l][u] = guard[l][u])
    BY <1>0, <1>8, Zenon DEF Destruct, Holds, NoGuard, LockInv, LocksTypeOK
  <2>2. Holders(l)' = Holders(l)
    BY <2>1 DEF Holders
  <2> QED  BY <1>1, <2>2 DEF S!svars
<1>9. Unlock(l, t) => Holds(l, t)
  BY DEF Unlock, Holds
<1> QED  BY <1>2, <1>5, <1>6, <1>7, <1>8, <1>9 DEF Use

\* Guards that are used in any order implement the abstract lock.
THEOREM GuardsImplement == LocksSpec => IsSharedLock
<1>1. LocksInit => S!SInit
  BY DEF LocksInit, S!SInit, Holders, Holds, NoGuard, Real
<1>2. LockInv /\ [LocksNext]_lockVars => [S!SNext]_(S!svars)
  <2>1. CASE UNCHANGED lockVars
    BY <2>1 DEF lockVars, Holders, Holds, S!svars
  <2> QED  BY <2>1, UseImplements DEF LocksNext
<1> QED  BY <1>1, <1>2, Invariance, PTL DEF LocksSpec, IsSharedLock, S!SSpec

=============================================================================
