--------------------------- MODULE SchedulerProofs ---------------------------
(***************************************************************************)
(* Proofs about Scheduler and about the Thread in it, for any numbers of   *)
(* threads, locks, tasks and calls: every use of a lock goes through a     *)
(* guard, so the promises of Locks hold here; the life of a Thread object  *)
(* and of its POSIX thread fit together; and the work that is given to     *)
(* schedule() gets to the queue once and is announced.                     *)
(***************************************************************************)
EXTENDS Scheduler, LocksProofs

-----------------------------------------------------------------------------
(* The locks *)

\* Every step uses one guard, or leaves locks and guards alone.
LEMMA StepUsesLocks ==
  ASSUME [Next]_vars
  PROVE  [LocksNext]_lockVars
<1>1. CASE UNCHANGED vars
  BY <1>1 DEF vars
<1>2. CASE OwnerStep
  BY <1>2 DEF OwnerStep
<1>3. ASSUME NEW t \in Threads, RunStep(t)  PROVE UNCHANGED lockVars
  BY <1>3 DEF RunStep
<1>4. ASSUME NEW t \in Threads, CallStep(t)  PROVE [LocksNext]_lockVars
  <2>1. m_mutex \in Locks /\ "exclusive" \in Modes(m_mutex)
    BY SchedulerAssumption DEF Modes
  <2>2. CASE ScheduleLock(t)
    BY <2>1, <2>2 DEF ScheduleLock, LocksNext, Use
  <2>3. CASE ScheduleUnlock(t)
    BY <2>1, <2>3 DEF ScheduleUnlock, LocksNext, Use
  <2> QED  BY <1>4, <2>2, <2>3 DEF CallStep, ScheduleEmpty, ScheduleTake, ScheduleClear, SchedulePush, ScheduleTickle
<1>5. ASSUME NEW t \in Threads, NEW l \in Locks, UseGuard(t, l)  PROVE LocksNext
  BY <1>5 DEF UseGuard, LocksNext, Use
<1>6. ASSUME NEW t \in Threads, NEW arg \in Work \cup {None}, Schedule(t, arg)
      PROVE  UNCHANGED lockVars
  BY <1>6 DEF Schedule
<1> QED  BY <1>1, <1>2, <1>3, <1>4, <1>5, <1>6 DEF Next

\* schedule() and the callbacks use locks as Locks describes.
LEMMA UsesLocks == Spec => LocksSpec
<1>1. Init => LocksInit
  BY DEF Init
<1> QED  BY <1>1, StepUsesLocks, PTL DEF Spec, LocksSpec

\* Whatever the threads do, two of them are in the scope of guards on one lock only
\* to read: schedule() has the queue to itself.
THEOREM SchedulerExcludes == Spec => []Exclusion
  BY UsesLocks, GuardsExclude, PTL

\* The locks of the scheduler and of the callbacks implement SharedLock.
THEOREM SchedulerImplements == Spec => IsSharedLock
  BY UsesLocks, GuardsImplement, PTL

-----------------------------------------------------------------------------
(* The threads *)

Told == {"callback", "done"}

\* The object and the POSIX thread of t, at each point of the life of the object.
Life(t) ==
  /\ life[t] = "none" => os[t] = "none" /\ ~m_thread[t] /\ released[t] = 0
  /\ life[t] = "ctor" =>
       /\ os[t] # "none" /\ m_thread[t] /\ released[t] = 0
       /\ semaphore[t] = 1 => os[t] \in Told
  /\ life[t] = "alive" =>
       /\ os[t] \in Told
       /\ m_thread[t] => released[t] = 0
       /\ ~m_thread[t] => released[t] = 1 /\ os[t] = "done"
  /\ life[t] = "dead" /\ t \notin interrupted =>
       os[t] = "none" \/ (os[t] \in Told /\ released[t] = 1 /\ (t \in Renaming => os[t] = "done"))
  /\ t \in interrupted => life[t] = "dead"
  /\ owner = t => life[t] = "alive" /\ m_thread[t]
  /\ os[t] \notin Told => semaphore[t] = 0
  /\ os[t] \in Told \cup {"published"} =>
       m_id[t] = t /\ t_thread[t] = t /\ ~m_cb[t] /\ m_name[t] = t_thread_name[t]

ThreadInv == ThreadTypeOK /\ NotUsedLate /\ \A t \in Threads : Life(t)

\* No thread has been started.
LEMMA ThreadInitInv == ThreadInit => ThreadInv
  BY LocksAssumption, ThreadAssumption DEF ThreadInit, ThreadInv, ThreadTypeOK, NotUsedLate, Life, Told

\* The owner's steps: constructor, join() and destructor.
LEMMA OwnerKeepsInv ==
  ASSUME ThreadInv, NEW t \in Threads,
         New(t) \/ NewFails(t) \/ Wait(t) \/ WaitFails(t) \/ Join(t) \/ Destroy(t)
  PROVE  ThreadInv'
<1> USE DEF ThreadInv, ThreadTypeOK, NotUsedLate, Life, Told
<1>1. CASE New(t)
  BY <1>1 DEF New
<1>2. CASE NewFails(t)
  BY <1>2 DEF NewFails
<1>3. CASE Wait(t)
  BY <1>3 DEF Wait
<1>4. CASE WaitFails(t)
  BY <1>4 DEF WaitFails
<1>5. CASE Join(t)
  BY <1>5 DEF Join
<1>6. CASE Destroy(t)
  <2>1. ThreadTypeOK' /\ NotUsedLate'
    BY <1>6 DEF Destroy
  <2>2. \A u \in Threads \ {t} : Life(u)'
    BY <1>6 DEF Destroy
  <2>3. Life(t)'
    BY <1>6, LocksAssumption DEF Destroy, OwnerFree
  <2> QED  BY <2>1, <2>2, <2>3
<1> QED  BY <1>1, <1>2, <1>3, <1>4, <1>5, <1>6, Zenon

\* join() returns.
LEMMA JoinKeepsInv ==
  ASSUME ThreadInv, JoinReturns
  PROVE  ThreadInv'
<1>0. owner \in Threads
  BY DEF ThreadInv, ThreadTypeOK, JoinReturns
<1> USE DEF ThreadInv, ThreadTypeOK, NotUsedLate, Life, Told
<1>1. ThreadTypeOK' /\ NotUsedLate'
  BY <1>0 DEF JoinReturns
<1>2. \A u \in Threads \ {owner} : Life(u)'
  BY <1>0, LocksAssumption DEF JoinReturns
<1>3. \A u \in Threads : u = owner => Life(u)'
  BY <1>0, LocksAssumption DEF JoinReturns
<1> QED  BY <1>1, <1>2, <1>3

\* The steps of run(), and of a callback that calls SetName.
LEMMA RunKeepsInv ==
  ASSUME ThreadInv, NEW t \in Threads,
         Run(t) \/ Notify(t) \/ RunEnds(t) \/ \E n \in Names : SetName(t, n)
  PROVE  ThreadInv'
<1> USE DEF ThreadInv, ThreadTypeOK, NotUsedLate, Life, Told
<1>1. CASE Run(t)
  BY <1>1 DEF Run, Touch
<1>2. CASE Notify(t)
  BY <1>2 DEF Notify, Touch
<1>3. CASE RunEnds(t)
  BY <1>3 DEF RunEnds
<1>4. ASSUME NEW n \in Names, SetName(t, n)  PROVE ThreadInv'
  BY <1>4, LocksAssumption DEF SetName, Touch
<1> QED  BY <1>1, <1>2, <1>3, <1>4, Zenon

\* The invariant holds in every state.
LEMMA ThreadInvariance == Spec => []ThreadInv
<1>1. Init => ThreadInv
  BY ThreadInitInv DEF Init
<1>2. ThreadInv /\ [Next]_vars => ThreadInv'
  <2> SUFFICES ASSUME ThreadInv, [Next]_vars  PROVE ThreadInv'
    OBVIOUS
  <2>1. CASE UNCHANGED threadVars
    BY <2>1 DEF threadVars, ThreadInv, ThreadTypeOK, NotUsedLate, Life
  <2>2. CASE OwnerStep
    BY <2>2, OwnerKeepsInv, JoinKeepsInv DEF OwnerStep
  <2>3. ASSUME NEW t \in Threads, RunStep(t)  PROVE ThreadInv'
    BY <2>3, RunKeepsInv DEF RunStep, Return
  <2>4. UNCHANGED vars => UNCHANGED threadVars
    BY DEF vars
  <2> QED
    BY <2>1, <2>2, <2>3, <2>4, OwnerKeepsInv, RunKeepsInv DEF Next, CallStep
<1> QED  BY <1>1, <1>2, PTL DEF Spec

\* "wait pthread created" (thread.cc:29) is enough: whoever gets a Thread from its
\* constructor finds it published, for any number of threads.
THEOREM ThreadsReady == Spec => []ReadyOnReturn
<1>1. ThreadInv => ReadyOnReturn
  BY Zenon DEF ThreadInv, Life, Told, ReadyOnReturn
<1> QED  BY <1>1, ThreadInvariance, PTL

\* run() leaves the Thread object alone once the owner may destroy it.
THEOREM ThreadsNotUsedLate == Spec => []NotUsedLate
  BY ThreadInvariance, PTL DEF ThreadInv

\* join() and ~Thread() give every handle back, once, and join() waits for the end.
THEOREM HandlesReleased == Spec => [](HandleReleasedOnce /\ JoinedHasEnded)
<1>1. ThreadInv => HandleReleasedOnce /\ JoinedHasEnded
  BY DEF ThreadInv, ThreadTypeOK, Life, Told, HandleReleasedOnce, JoinedHasEnded
<1> QED  BY <1>1, ThreadInvariance, PTL

-----------------------------------------------------------------------------
(* The queue *)

\* A thread that will not tell the others has found work in the queue.
WorkInv ==
  /\ pc \in [Threads -> {"idle", "lock", "empty", "take", "clear", "push", "unlock", "tickle"}]
  /\ need_tickle \in [Threads -> BOOLEAN] /\ told \in BOOLEAN
  /\ m_fibers \in Seq(Work) /\ full \subseteq Pointers
  /\ fc \in [Threads -> Work \cup {None}] /\ ft \in [Threads -> Work \cup {None}]
  /\ \A t \in Threads : pc[t] \in {"take", "clear", "push"} /\ ~need_tickle[t] => m_fibers # <<>>
  /\ WorkIsAnnounced

\* What SchedulePush leaves of the queue.
LEMMA Appended ==
  ASSUME NEW W, NEW s \in Seq(W), NEW x \in W
  PROVE  /\ Append(s, x) \in Seq(W) /\ Append(s, x) # <<>>
         /\ DOMAIN Append(s, x) = DOMAIN s \cup {Len(s) + 1} /\ Len(s) + 1 \notin DOMAIN s
         /\ \A k \in DOMAIN s : Append(s, x)[k] = s[k]
         /\ Append(s, x)[Len(s) + 1] = x
  OBVIOUS

\* The steps of schedule() keep it.
LEMMA CallKeepsWork ==
  ASSUME WorkInv, NEW t \in Threads, CallStep(t)
  PROVE  WorkInv'
<1> USE DEF WorkInv, WorkIsAnnounced, Goto
<1>1. CASE ScheduleLock(t)
  BY <1>1 DEF ScheduleLock
<1>2. CASE ScheduleEmpty(t)
  BY <1>2, Zenon DEF ScheduleEmpty
<1>3. CASE ScheduleTake(t)
  BY <1>3 DEF ScheduleTake
<1>4. CASE ScheduleClear(t)
  BY <1>4 DEF ScheduleClear
<1>5. CASE SchedulePush(t)
  <2>1. CASE ft[t] = None
    BY <1>5, <2>1 DEF SchedulePush
  <2>2. CASE ft[t] # None
    <3>1. ft[t] \in Work /\ m_fibers' = Append(m_fibers, ft[t])
      BY <1>5, <2>2 DEF SchedulePush
    <3>2. m_fibers' \in Seq(Work) /\ m_fibers' # <<>>
      BY <3>1, Appended
    <3> QED  BY <1>5, <3>2 DEF SchedulePush
  <2> QED  BY <2>1, <2>2
<1>6. CASE ScheduleUnlock(t)
  BY <1>6 DEF ScheduleUnlock
<1>7. CASE ScheduleTickle(t)
  BY <1>7 DEF ScheduleTickle
<1> QED  BY <1>1, <1>2, <1>3, <1>4, <1>5, <1>6, <1>7 DEF CallStep

\* So does every other step.
LEMMA WorkInvariance == Spec => []WorkInv
<1>1. Init => WorkInv
  <2>1. <<>> \in Seq(Work)
    OBVIOUS
  <2> QED  BY <2>1, Zenon DEF Init, WorkInv, WorkIsAnnounced
<1>2. WorkInv /\ [Next]_vars => WorkInv'
  <2> SUFFICES ASSUME WorkInv, [Next]_vars  PROVE WorkInv'
    OBVIOUS
  <2> DEFINE Same == UNCHANGED <<m_fibers, full, pc, fc, ft, need_tickle, told>>
  <2>1. CASE Same
    BY <2>1 DEF WorkInv, WorkIsAnnounced
  <2>2. ASSUME NEW t \in Threads, NEW arg \in Work \cup {None}, Schedule(t, arg)  PROVE WorkInv'
    BY <2>2 DEF Schedule, Goto, WorkInv, WorkIsAnnounced
  <2>3. ASSUME NEW t \in Threads, NEW l \in Locks, UseGuard(t, l)  PROVE Same
    BY <2>3, Zenon DEF UseGuard
  <2>4. UNCHANGED callVars \/ UNCHANGED vars => Same
    BY DEF callVars, vars
  <2> HIDE DEF Same
  <2> QED  BY <2>1, <2>2, <2>3, <2>4, CallKeepsWork DEF Next, OwnerStep, RunStep
<1> QED  BY <1>1, <1>2, PTL DEF Spec

\* "need to notify the threads or not" (scheduler.h:68) never says no too often: work
\* in the queue has been announced, or is about to be, by however many threads.
THEOREM WorkAnnounced == Spec => []WorkIsAnnounced
  BY WorkInvariance, PTL DEF WorkInv

-----------------------------------------------------------------------------
(* One thread at a time is in scheduleNoLock() *)

Inside == {"empty", "take", "clear", "push", "unlock"}

\* A thread in scheduleNoLock() has the scheduler's lock.
InsideInv ==
  \A t \in Threads : pc[t] \in Inside => guard[m_mutex][t] = [mode |-> "exclusive", m_locked |-> TRUE]

Alone == \A t, u \in Threads : pc[t] \in Inside /\ pc[u] \in Inside => t = u

\* The steps of schedule() take the lock on the way in and give it back on the way out.
LEMMA InsideStep ==
  ASSUME InsideInv, LockInv, WorkInv, [Next]_vars
  PROVE  InsideInv'
<1>0. /\ m_mutex \in Locks /\ pc \in [Threads -> {"idle", "lock", "empty", "take", "clear", "push", "unlock", "tickle"}]
      /\ guard \in [Locks -> [Threads -> {NoGuard} \cup [mode : {"read", "exclusive"}, m_locked : BOOLEAN]]]
  BY SchedulerAssumption, Zenon DEF LockInv, LocksTypeOK, WorkInv
<1>1. CASE UNCHANGED <<pc, guard>>
  BY <1>1, Zenon DEF InsideInv
<1>2. ASSUME NEW t \in Threads, NEW from, NEW to, Goto(t, from, to),
             UNCHANGED guard, to \in Inside => from \in Inside
      PROVE  InsideInv'
  BY <1>0, <1>2 DEF Goto, InsideInv
<1>3. ASSUME NEW t \in Threads, ScheduleLock(t)  PROVE InsideInv'
  BY <1>0, <1>3 DEF ScheduleLock, Goto, Construct, GuardLocks, InsideInv
<1>4. ASSUME NEW t \in Threads, ScheduleUnlock(t)  PROVE InsideInv'
  BY <1>0, <1>4 DEF ScheduleUnlock, Goto, Destruct, InsideInv, Inside
<1>5. ASSUME NEW t \in Threads, NEW l \in Locks, UseGuard(t, l)  PROVE InsideInv'
  <2>1. l # m_mutex /\ pc' = pc
    BY <1>5 DEF UseGuard
  <2>2. PICK g : guard' = [guard EXCEPT ![l][t] = g]
    BY <1>5, Zenon DEF UseGuard, Lock, Construct, GuardLocks, Unlock, Destruct
  <2> QED  BY <1>0, <2>1, <2>2 DEF InsideInv
<1>6. ASSUME NEW t \in Threads, CallStep(t)  PROVE InsideInv'
  <2>1. CASE ScheduleEmpty(t) \/ ScheduleTake(t) \/ ScheduleClear(t) \/ SchedulePush(t) \/ ScheduleTickle(t)
    BY <1>2, <2>1 DEF ScheduleEmpty, ScheduleTake, ScheduleClear, SchedulePush, ScheduleTickle, Inside, lockVars
  <2> QED  BY <1>3, <1>4, <1>6, <2>1, Zenon DEF CallStep
<1>7. ASSUME NEW t \in Threads, NEW arg \in Work \cup {None}, Schedule(t, arg)  PROVE InsideInv'
  BY <1>2, <1>7 DEF Schedule, Inside, lockVars
<1>8. UNCHANGED vars \/ UNCHANGED <<lockVars, callVars>> => UNCHANGED <<pc, guard>>
  BY DEF vars, lockVars, callVars
<1> QED  BY <1>1, <1>5, <1>6, <1>7, <1>8 DEF Next, OwnerStep, RunStep

\* The lock is there when schedule() looks at the queue and at the callers' pointers.
LEMMA OneInside == Spec => []Alone
<1>1. Init => InsideInv
  BY DEF Init, InsideInv, Inside
<1>2. Spec => []InsideInv
  BY <1>1, InsideStep, WorkInvariance, UsesLocks, Invariance, PTL DEF Spec
<1>3. InsideInv /\ Exclusion => Alone
  <2>1. m_mutex \in Real
    BY SchedulerAssumption DEF Real, Null
  <2> QED  BY <2>1 DEF InsideInv, Exclusion, Alone, Holds
<1> QED  BY <1>2, <1>3, SchedulerExcludes, PTL

-----------------------------------------------------------------------------
(* The tasks given by pointer *)

(***************************************************************************)
(* A FiberAndThread has a task only inside scheduleNoLock(); until the     *)
(* swap is complete the caller's pointer has it too, and then nothing has. *)
(***************************************************************************)
SwapInv ==
  \A t \in Threads :
    /\ ft[t] # None => pc[t] \in {"clear", "push"}
    /\ pc[t] = "clear" => fc[t] \in Pointers /\ (IF fc[t] \in full THEN ft[t] = fc[t] ELSE ft[t] = None)
    /\ pc[t] = "push" => ft[t] \notin full
    /\ \A k \in DOMAIN m_fibers : ft[t] \in Pointers => m_fibers[k] # ft[t]

HandInv == SwapInv /\ HandedOverOnce

\* The two halves of the swap, and the push.
LEMMA TakeKeepsHand ==
  ASSUME HandInv, WorkInv, NEW t \in Threads, ScheduleTake(t)
  PROVE  HandInv'
<1>0. /\ pc' = [pc EXCEPT ![t] = IF fc[t] \in Pointers THEN "clear" ELSE "push"]
      /\ ft' = [ft EXCEPT ![t] = IF fc[t] \in Pointers \ full THEN None ELSE fc[t]]
      /\ UNCHANGED <<m_fibers, full, fc>> /\ None \notin Pointers
      /\ ft[t] = None /\ full \subseteq Pointers
  BY SchedulerAssumption DEF ScheduleTake, Goto, HandInv, SwapInv, WorkInv
<1>1. \A u \in Threads \ {t} : pc'[u] = pc[u] /\ ft'[u] = ft[u]
  BY <1>0 DEF WorkInv
<1>2. ft'[t] \in Pointers => ft'[t] \in full /\ pc'[t] = "clear" /\ ft'[t] = fc[t]
  BY <1>0 DEF WorkInv
<1>3. \A p \in full, k \in DOMAIN m_fibers : m_fibers[k] # p
  BY <1>0 DEF HandInv, HandedOverOnce
<1>4. SwapInv'
  <2>1. /\ pc'[t] \in {"clear", "push"}
        /\ pc'[t] = "clear" => fc[t] \in Pointers /\ (IF fc[t] \in full THEN ft'[t] = fc[t] ELSE ft'[t] = None)
        /\ pc'[t] = "push" => ft'[t] \notin full
    BY <1>0 DEF WorkInv
  <2> QED  BY <1>0, <1>1, <1>2, <1>3, <2>1 DEF HandInv, SwapInv
<1>5. HandedOverOnce'
  BY <1>0, <1>1, <1>2, <1>3 DEF HandInv, HandedOverOnce
<1> QED  BY <1>4, <1>5 DEF HandInv

\* The caller's pointer is emptied when the FiberAndThread has its task.
LEMMA ClearKeepsHand ==
  ASSUME HandInv, WorkInv, Alone, NEW t \in Threads, ScheduleClear(t)
  PROVE  HandInv'
<1> USE SchedulerAssumption DEF HandInv, SwapInv, HandedOverOnce, WorkInv, Work, ScheduleClear, Goto
<1>1. SwapInv'
  BY DEF Alone, Inside
<1>2. HandedOverOnce'
  OBVIOUS
<1> QED  BY <1>1, <1>2

\* What is pushed was nowhere else.
LEMMA PushKeepsHand ==
  ASSUME HandInv, WorkInv, Alone, NEW t \in Threads, SchedulePush(t)
  PROVE  HandInv'
<1> DEFINE x == ft[t]
           n == Len(m_fibers) + 1
<1>0. /\ pc[t] = "push" /\ pc' = [pc EXCEPT ![t] = "unlock"] /\ ft' = [ft EXCEPT ![t] = None]
      /\ UNCHANGED <<full, fc>> /\ None \notin Pointers
      /\ x = None => m_fibers' = m_fibers
      /\ x # None => m_fibers' = Append(m_fibers, x)
  BY SchedulerAssumption DEF SchedulePush, Goto
<1>1. CASE x = None
  BY <1>0, <1>1 DEF HandInv, SwapInv, HandedOverOnce, WorkInv
<1>2. CASE x # None
  <2>1. x \in Work /\ m_fibers \in Seq(Work) /\ m_fibers' = Append(m_fibers, x)
    BY <1>0, <1>2 DEF WorkInv
  <2>2. /\ DOMAIN m_fibers' = DOMAIN m_fibers \cup {n} /\ n \notin DOMAIN m_fibers
        /\ \A k \in DOMAIN m_fibers : m_fibers'[k] = m_fibers[k]
        /\ m_fibers'[n] = x
    <3> HIDE DEF x
    <3> QED  BY <2>1, Appended
  <2>3. \A u \in Threads \ {t} : pc[u] \notin {"clear", "push"} /\ ft[u] = None
    BY <1>0 DEF Alone, Inside, HandInv, SwapInv
  <2>4. \A u \in Threads : ft'[u] = None
    BY <1>0, <2>3 DEF WorkInv
  <2>5. x \notin full /\ (x \in Pointers => \A k \in DOMAIN m_fibers : m_fibers[k] # x)
    BY <1>0 DEF HandInv, SwapInv
  <2> HIDE DEF x, n
  <2>6. SwapInv'
    BY <1>0, <2>3, <2>4 DEF WorkInv, SwapInv
  <2>7. HandedOverOnce'
    <3> SUFFICES ASSUME NEW p \in Pointers
                 PROVE  /\ p \in full \/ \E k \in DOMAIN m_fibers' : m_fibers'[k] = p
                        /\ \A k \in DOMAIN m_fibers' : m_fibers'[k] = p =>
                             p \notin full /\ \A j \in DOMAIN m_fibers' : m_fibers'[j] = p => j = k
      BY <1>0, <2>4 DEF HandedOverOnce
    <3>1. CASE p = x
      BY <2>2, <2>5, <3>1
    <3>2. CASE p # x
      <4>1. \A u \in Threads : ft[u] # p
        BY <1>0, <2>3, <3>2 DEF x
      <4> QED  BY <2>2, <3>2, <4>1 DEF HandInv, HandedOverOnce
    <3> QED  BY <3>1, <3>2
  <2> QED  BY <2>6, <2>7 DEF HandInv
<1> QED  BY <1>1, <1>2

(***************************************************************************)
(* FiberAndThread's swap (scheduler.h:87, 95) under schedule()'s lock      *)
(* loses no task and doubles none, with however many threads giving        *)
(* however many pointers, the same ones included.                          *)
(***************************************************************************)
THEOREM PointersHandedOver == Spec => []HandedOverOnce
<1>1. Init => HandInv
  BY DEF Init, HandInv, SwapInv, HandedOverOnce
<1>2. HandInv /\ WorkInv /\ Alone /\ [Next]_vars => HandInv'
  <2> SUFFICES ASSUME HandInv, WorkInv, Alone, [Next]_vars  PROVE HandInv'
    OBVIOUS
  <2>1. ASSUME UNCHANGED <<m_fibers, full, ft>>,
               \A u \in Threads : pc'[u] \in {"clear", "push"} <=> pc[u] \in {"clear", "push"},
               \A u \in Threads : pc[u] \in {"clear", "push"} => pc'[u] = pc[u] /\ fc'[u] = fc[u]
        PROVE  HandInv'
    BY <2>1, Zenon DEF HandInv, SwapInv, HandedOverOnce
  <2>2. CASE UNCHANGED <<m_fibers, full, pc, fc, ft>>
    BY <2>1, <2>2, Zenon
  <2>3. ASSUME NEW t \in Threads, ScheduleLock(t) \/ ScheduleEmpty(t) \/ ScheduleUnlock(t) \/ ScheduleTickle(t)
        PROVE  HandInv'
    BY <2>1, <2>3 DEF ScheduleLock, ScheduleEmpty, ScheduleUnlock, ScheduleTickle, Goto, WorkInv
  <2>4. ASSUME NEW t \in Threads, NEW arg \in Work \cup {None}, Schedule(t, arg)  PROVE HandInv'
    BY <2>1, <2>4 DEF Schedule, Goto, WorkInv
  <2>5. ASSUME NEW t \in Threads, CallStep(t)  PROVE HandInv'
    BY <2>3, <2>5, TakeKeepsHand, ClearKeepsHand, PushKeepsHand, Zenon DEF CallStep
  <2>6. ASSUME NEW t \in Threads, NEW l \in Locks, UseGuard(t, l)  PROVE UNCHANGED <<m_fibers, full, pc, fc, ft>>
    BY <2>6, Zenon DEF UseGuard
  <2>7. UNCHANGED callVars \/ UNCHANGED vars => UNCHANGED <<m_fibers, full, pc, fc, ft>>
    BY DEF callVars, vars
  <2> QED  BY <2>2, <2>4, <2>5, <2>6, <2>7 DEF Next, OwnerStep, RunStep
<1>3. HandInv => HandedOverOnce
  BY DEF HandInv
<1> QED  BY <1>1, <1>2, <1>3, WorkInvariance, OneInside, PTL DEF Spec

=============================================================================
