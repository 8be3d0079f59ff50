------------------------------ MODULE Scheduler ------------------------------
(***************************************************************************)
(* sylar::Scheduler (sylar/scheduler.h): a queue of fibers and callbacks   *)
(* behind a Mutex, filled by schedule() from any thread.  The threads that *)
(* would take work out of it, and tickle(), are not written yet.           *)
(*                                                                         *)
(* Here sylar::Thread, the locks and the scheduler meet: the callback of a *)
(* thread schedules tasks and uses guards of its own on other locks.       *)
(***************************************************************************)
EXTENDS Thread, Sequences

CONSTANTS
  Tasks,      \* the fibers and callbacks that are given by value
  Pointers,   \* the pointers whose address is given; any thread may give any of
              \* them, since schedule() looks at them under its lock alone
  m_mutex,    \* the scheduler's lock
  MaxCalls    \* bound, per thread: the calls that its callback makes

ASSUME SchedulerAssumption ==
  /\ m_mutex \in Locks /\ Kind[m_mutex] = "Mutex"
  /\ None \notin Tasks \cup Pointers /\ Tasks \cap Pointers = {}
  /\ MaxCalls \in [Threads -> Nat]

\* What can be in the queue.  The task that a pointer holds at first is named after it.
Work == Tasks \cup Pointers

VARIABLES
  m_fibers,     \* the queue (the thread that is to run a task is carried along and
                \* not looked at)
  full,         \* the pointers that hold their task
  pc, fc,       \* per thread: where schedule() is, and its argument
  ft,           \* per thread: the task of the FiberAndThread that it builds
  need_tickle,  \* per thread
  told,         \* has tickle() been called with work in the queue
  calls         \* per thread

callVars == <<m_fibers, full, pc, fc, ft, need_tickle, told, calls>>
vars == <<lockVars, threadVars, callVars>>

TypeOK ==
  /\ LocksTypeOK /\ ThreadTypeOK
  /\ m_fibers \in Seq(Work) /\ full \subseteq Pointers
  /\ pc \in [Threads -> {"idle", "lock", "empty", "take", "clear", "push", "unlock", "tickle"}]
  /\ fc \in [Threads -> Work \cup {None}] /\ ft \in [Threads -> Work \cup {None}]
  /\ need_tickle \in [Threads -> BOOLEAN] /\ told \in BOOLEAN
  /\ calls \in [Threads -> Nat]

Init ==
  /\ LocksInit /\ ThreadInit
  /\ m_fibers = <<>> /\ full = Pointers /\ told = FALSE
  /\ pc = [t \in Threads |-> "idle"]
  /\ fc = [t \in Threads |-> None] /\ ft = [t \in Threads |-> None]
  /\ need_tickle = [t \in Threads |-> FALSE]
  /\ calls = [t \in Threads |-> 0]

\* Thread t goes from one point of schedule() to the next.
Goto(t, from, to) == pc[t] = from /\ pc' = [pc EXCEPT ![t] = to]

MayCall(t) == os[t] = "callback" /\ pc[t] = "idle" /\ calls[t] < MaxCalls[t]
Count(t) == calls' = [calls EXCEPT ![t] = @ + 1]

\* The callback calls schedule(arg) with a task or the address of a pointer; a null
\* fiber or an empty callback (None) is an argument like any other, and so is the
\* address of a pointer that holds none.
Schedule(t, arg) ==
  /\ MayCall(t) /\ Count(t)
  /\ Goto(t, "idle", "lock")
  /\ fc' = [fc EXCEPT ![t] = arg]
  /\ UNCHANGED <<m_fibers, full, ft, need_tickle, told, lockVars>>

\* Faulty variant: the lock is not taken.
ScheduleLock_Missing(t) ==
  /\ Goto(t, "lock", "empty")
  /\ UNCHANGED <<m_fibers, full, fc, ft, need_tickle, told, calls, lockVars>>

ScheduleLock(t) ==
  /\ Goto(t, "lock", "empty")
  /\ Construct(m_mutex, t, "exclusive")
  /\ UNCHANGED <<m_fibers, full, fc, ft, need_tickle, told, calls>>

\* Faulty variant: the threads are told when there was work already.
ScheduleEmpty_Inverted(t) ==
  /\ Goto(t, "empty", "take")
  /\ need_tickle' = [need_tickle EXCEPT ![t] = m_fibers # <<>>]
  /\ UNCHANGED <<m_fibers, full, fc, ft, told, calls, lockVars>>

\* scheduleNoLock: need_tickle = m_fibers.empty()
ScheduleEmpty(t) ==
  /\ Goto(t, "empty", "take")
  /\ need_tickle' = [need_tickle EXCEPT ![t] = m_fibers = <<>>]
  /\ UNCHANGED <<m_fibers, full, fc, ft, told, calls, lockVars>>

\* FiberAndThread ft(fc, thread): the task itself, or the first half of swap(*f),
\* which reads the caller's pointer.
ScheduleTake(t) ==
  /\ Goto(t, "take", IF fc[t] \in Pointers THEN "clear" ELSE "push")
  /\ ft' = [ft EXCEPT ![t] = IF fc[t] \in Pointers \ full THEN None ELSE fc[t]]
  /\ UNCHANGED <<m_fibers, full, fc, need_tickle, told, calls, lockVars>>

\* The other half of swap(*f): the caller's pointer is left empty.
ScheduleClear(t) ==
  /\ Goto(t, "clear", "push")
  /\ full' = full \ {fc[t]}
  /\ UNCHANGED <<m_fibers, fc, ft, need_tickle, told, calls, lockVars>>

\* m_fibers.push_back(ft) unless ft is empty, and the end of ft.
SchedulePush(t) ==
  /\ Goto(t, "push", "unlock")
  /\ m_fibers' = IF ft[t] = None THEN m_fibers ELSE Append(m_fibers, ft[t])
  /\ ft' = [ft EXCEPT ![t] = None]
  /\ UNCHANGED <<full, fc, need_tickle, told, calls, lockVars>>

ScheduleUnlock(t) ==
  /\ Goto(t, "unlock", IF need_tickle[t] THEN "tickle" ELSE "idle")
  /\ Destruct(m_mutex, t)
  /\ fc' = [fc EXCEPT ![t] = None]
  /\ UNCHANGED <<m_fibers, full, ft, need_tickle, told, calls>>

ScheduleTickle(t) ==
  /\ Goto(t, "tickle", "idle")
  /\ told' = (told \/ m_fibers # <<>>)
  /\ need_tickle' = [need_tickle EXCEPT ![t] = FALSE]
  /\ UNCHANGED <<m_fibers, full, fc, ft, calls, lockVars>>

\* The callback uses a guard on another lock.
UseGuard(t, l) ==
  /\ os[t] = "callback" /\ pc[t] = "idle" /\ l # m_mutex
  /\ \/ MayCall(t) /\ Count(t) /\ (Lock(l, t) \/ \E mode \in Modes(l) : Construct(l, t, mode))
     \/ UNCHANGED calls /\ (Unlock(l, t) \/ Destruct(l, t))
  /\ UNCHANGED <<m_fibers, full, pc, fc, ft, need_tickle, told>>

-----------------------------------------------------------------------------
\* What a callback does to come to its end.
CallStep(t) ==
  /\ \/ ScheduleLock(t) \/ ScheduleEmpty(t) \/ ScheduleTake(t) \/ ScheduleClear(t)
     \/ SchedulePush(t) \/ ScheduleUnlock(t) \/ ScheduleTickle(t)
  /\ UNCHANGED threadVars

\* The callback returns: the guards in its scopes are gone by then.
Return(t) ==
  /\ pc[t] = "idle" /\ \A l \in Locks : guard[l][t] = NoGuard
  /\ RunEnds(t)

Leave(t) == \E l \in Locks : guard[l][t] # NoGuard /\ UseGuard(t, l) /\ UNCHANGED threadVars

OwnerStep ==
  /\ JoinReturns \/ \E t \in Threads : Wait(t)
  /\ UNCHANGED <<lockVars, callVars>>

RunStep(t) == (Run(t) \/ Notify(t) \/ Return(t)) /\ UNCHANGED <<lockVars, callVars>>

Next ==
  \/ OwnerStep
  \/ \E t \in Threads :
       \/ RunStep(t) \/ CallStep(t)
       \/ /\ \/ New(t) \/ NewFails(t) \/ WaitFails(t) \/ Join(t) \/ Destroy(t)
             \/ \E n \in Names : SetName(t, n)
          /\ UNCHANGED <<lockVars, callVars>>
       \/ /\ \/ \E arg \in Work \cup {None} : Schedule(t, arg)
             \/ \E l \in Locks : UseGuard(t, l)
          /\ UNCHANGED threadVars

(***************************************************************************)
(* A thread that can go on does: the owner out of a wait, a thread through *)
(* run() and schedule(), and a callback out of its scopes and to its end.  *)
(***************************************************************************)
Spec ==
  /\ Init /\ [][Next]_vars
  /\ WF_vars(OwnerStep)
  /\ \A t \in Threads : WF_vars(RunStep(t)) /\ WF_vars(CallStep(t)) /\ WF_vars(Leave(t))

-----------------------------------------------------------------------------
(* Properties *)

(***************************************************************************)
(* The task in a pointer is handed over once, however many threads give    *)
(* the address of the pointer, and how often: it is in the pointer, with   *)
(* a call of schedule() or in the queue, and what is in the queue is there *)
(* once and nowhere else.  FiberAndThread's swap (scheduler.h:87, 95) is   *)
(* not atomic; schedule() calls it under m_mutex.                          *)
(***************************************************************************)
HandedOverOnce ==
  \A p \in Pointers :
    /\ p \in full \/ (\E t \in Threads : ft[t] = p) \/ \E k \in DOMAIN m_fibers : m_fibers[k] = p
    /\ \A k \in DOMAIN m_fibers : m_fibers[k] = p =>
         /\ p \notin full /\ \A t \in Threads : ft[t] # p
         /\ \A j \in DOMAIN m_fibers : m_fibers[j] = p => j = k

(***************************************************************************)
(* "need to notify the threads or not" (scheduler.h:68): for a queue with  *)
(* work in it, tickle() has been called since the work is there, or the    *)
(* thread that found it empty is on its way to.  A call for an empty task, *)
(* which may come late, does not count.                                    *)
(***************************************************************************)
WorkIsAnnounced ==
  m_fibers # <<>> =>
    told \/ \E t \in Threads : need_tickle[t] /\ pc[t] \in {"unlock", "tickle"}

\* Every schedule() returns.
ScheduleReturns == \A t \in Threads : pc[t] # "idle" ~> pc[t] = "idle"

=============================================================================
