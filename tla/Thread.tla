------------------------------- MODULE Thread -------------------------------
(***************************************************************************)
(* sylar::Thread and sylar::Semaphore (sylar/thread.h, sylar/thread.cc).   *)
(* The constructor starts a POSIX thread and waits on a semaphore until    *)
(* run() has published the thread; the object may then be joined or        *)
(* destroyed at any time, which detaches the thread.  One owner makes,     *)
(* joins and destroys all the objects.  The thread started by an object    *)
(* has the object's name.                                                  *)
(*                                                                         *)
(* What the callback does is for the modules that extend this one.         *)
(***************************************************************************)
EXTENDS Locks, Naturals

CONSTANTS
  Names,      \* the names that threads are given
  Given,      \* per thread: the argument of its constructor, if not empty
  Renaming    \* the threads whose callback calls SetName; their owner joins
              \* them before it destroys the object

ASSUME ThreadAssumption == "UNKNOW" \in Names /\ Given \in [Threads -> Names] /\ Renaming \subseteq Threads

VARIABLES
  life,          \* of the object: "none", "ctor", "alive", "dead"
  m_id,          \* None stands for -1
  m_thread,      \* is the handle non-zero
  m_name, m_cb,  \* m_cb: is it non-empty
  semaphore,     \* m_semapore
  os,            \* where run() is: "none", "created", "published", "callback", "done"
  t_thread, t_thread_name,  \* the thread-local variables of the thread
  owner,         \* what the owner is in the middle of: a thread to join, or None
  interrupted,   \* objects whose constructor was left because sem_wait failed
  released,      \* per object: times that the handle was joined or detached
  late           \* objects used after their life

threadVars == <<life, m_id, m_thread, m_name, m_cb, semaphore, os, t_thread,
                t_thread_name, owner, interrupted, released, late>>

ThreadTypeOK ==
  /\ life \in [Threads -> {"none", "ctor", "alive", "dead"}]
  /\ m_id \in [Threads -> Threads \cup {None}]
  /\ m_thread \in [Threads -> BOOLEAN] /\ m_cb \in [Threads -> BOOLEAN]
  /\ m_name \in [Threads -> Names] /\ t_thread_name \in [Threads -> Names]
  /\ semaphore \in [Threads -> 0..1]
  /\ os \in [Threads -> {"none", "created", "published", "callback", "done"}]
  /\ t_thread \in [Threads -> Threads \cup {None}]
  /\ owner \in Threads \cup {None}
  /\ interrupted \subseteq Threads /\ late \subseteq Threads
  /\ released \in [Threads -> 0..1]

ThreadInit ==
  /\ life = [t \in Threads |-> "none"] /\ os = [t \in Threads |-> "none"]
  /\ m_id = [t \in Threads |-> None] /\ t_thread = [t \in Threads |-> None]
  /\ m_thread = [t \in Threads |-> FALSE] /\ m_cb = [t \in Threads |-> FALSE]
  /\ m_name = Given
  /\ t_thread_name = [t \in Threads |-> "UNKNOW"]
  /\ semaphore = [t \in Threads |-> 0] /\ released = [t \in Threads |-> 0]
  /\ owner = None
  /\ interrupted = {} /\ late = {}

-----------------------------------------------------------------------------
(* The owner *)

\* The owner is not inside a constructor or a join.
OwnerFree == owner = None /\ \A t \in Threads : life[t] # "ctor"

\* Thread(cb, name) up to the wait; an empty name has become "UNKNOW".
New(t) ==
  /\ OwnerFree
  /\ life[t] = "none"
  /\ life' = [life EXCEPT ![t] = "ctor"]
  /\ m_cb' = [m_cb EXCEPT ![t] = TRUE]
  /\ m_thread' = [m_thread EXCEPT ![t] = TRUE]
  /\ os' = [os EXCEPT ![t] = "created"]
  /\ UNCHANGED <<m_id, m_name, semaphore, t_thread, t_thread_name, owner,
                 interrupted, released, late>>

\* pthread_create fails and the constructor throws.
NewFails(t) ==
  /\ OwnerFree
  /\ life[t] = "none"
  /\ life' = [life EXCEPT ![t] = "dead"]
  /\ UNCHANGED <<m_id, m_thread, m_name, m_cb, semaphore, os, t_thread,
                 t_thread_name, owner, interrupted, released, late>>

\* Faulty variant: the constructor does not wait.
Wait_Skipped(t) ==
  /\ life[t] = "ctor"
  /\ life' = [life EXCEPT ![t] = "alive"]
  /\ UNCHANGED <<m_id, m_thread, m_name, m_cb, semaphore, os, t_thread,
                 t_thread_name, owner, interrupted, released, late>>

\* m_semapore.wait(), and the constructor returns.
Wait(t) ==
  /\ life[t] = "ctor"
  /\ semaphore[t] > 0
  /\ semaphore' = [semaphore EXCEPT ![t] = @ - 1]
  /\ life' = [life EXCEPT ![t] = "alive"]
  /\ UNCHANGED <<m_id, m_thread, m_name, m_cb, os, t_thread, t_thread_name,
                 owner, interrupted, released, late>>

\* sem_wait fails, as it does when a signal handler interrupts it: the exception
\* leaves the constructor, so the members go and the destructor does not run.
WaitFails(t) ==
  /\ life[t] = "ctor"
  /\ life' = [life EXCEPT ![t] = "dead"]
  /\ interrupted' = interrupted \cup {t}
  /\ UNCHANGED <<m_id, m_thread, m_name, m_cb, semaphore, os, t_thread,
                 t_thread_name, owner, released, late>>

\* join() on a thread not joined yet; on another it does nothing.
Join(t) ==
  /\ OwnerFree
  /\ life[t] = "alive" /\ m_thread[t]
  /\ owner' = t
  /\ UNCHANGED <<life, m_id, m_thread, m_name, m_cb, semaphore, os, t_thread,
                 t_thread_name, interrupted, released, late>>

\* Faulty variant: the handle is kept after the join.
JoinReturns_KeepsHandle ==
  /\ owner # None
  /\ os[owner] = "done"
  /\ released' = [released EXCEPT ![owner] = @ + 1]
  /\ owner' = None
  /\ UNCHANGED <<life, m_id, m_thread, m_name, m_cb, semaphore, os, t_thread,
                 t_thread_name, interrupted, late>>

\* pthread_join returns, and m_thread = 0.
JoinReturns ==
  /\ owner # None
  /\ os[owner] = "done"
  /\ m_thread' = [m_thread EXCEPT ![owner] = FALSE]
  /\ released' = [released EXCEPT ![owner] = @ + 1]
  /\ owner' = None
  /\ UNCHANGED <<life, m_id, m_name, m_cb, semaphore, os, t_thread,
                 t_thread_name, interrupted, late>>

\* ~Thread(): detaches a thread that was not joined.
Destroy(t) ==
  /\ OwnerFree
  /\ life[t] = "alive"
  /\ t \in Renaming => ~m_thread[t]
  /\ life' = [life EXCEPT ![t] = "dead"]
  /\ released' = [released EXCEPT ![t] = IF m_thread[t] THEN @ + 1 ELSE @]
  /\ UNCHANGED <<m_id, m_thread, m_name, m_cb, semaphore, os, t_thread,
                 t_thread_name, owner, interrupted, late>>

-----------------------------------------------------------------------------
(* The thread *)

\* The object of t is used: by then it may be gone.
Touch(t) == late' = IF life[t] = "dead" THEN late \cup {t} ELSE late

\* run() up to the notification: the thread-local variables, the id, and the
\* callback moved out of the object.
Run(t) ==
  /\ os[t] = "created"
  /\ Touch(t)
  /\ t_thread' = [t_thread EXCEPT ![t] = t]
  /\ t_thread_name' = [t_thread_name EXCEPT ![t] = m_name[t]]
  /\ m_id' = [m_id EXCEPT ![t] = t]
  /\ m_cb' = [m_cb EXCEPT ![t] = FALSE]
  /\ os' = [os EXCEPT ![t] = "published"]
  /\ UNCHANGED <<life, m_thread, m_name, semaphore, owner, interrupted, released>>

\* Faulty variant: the notification is left out.
Notify_Forgotten(t) ==
  /\ os[t] = "published"
  /\ os' = [os EXCEPT ![t] = "callback"]
  /\ UNCHANGED <<life, m_id, m_thread, m_name, m_cb, semaphore, t_thread,
                 t_thread_name, owner, interrupted, released, late>>

\* thread->m_semapore.notify()
Notify(t) ==
  /\ os[t] = "published"
  /\ Touch(t)
  /\ semaphore' = [semaphore EXCEPT ![t] = @ + 1]
  /\ os' = [os EXCEPT ![t] = "callback"]
  /\ UNCHANGED <<life, m_id, m_thread, m_name, m_cb, t_thread, t_thread_name,
                 owner, interrupted, released>>

\* The callback calls Thread::SetName.
SetName(t, n) ==
  /\ os[t] = "callback" /\ t \in Renaming
  /\ IF t_thread[t] = None THEN UNCHANGED <<m_name, late>>
     ELSE Touch(t_thread[t]) /\ m_name' = [m_name EXCEPT ![t_thread[t]] = n]
  /\ t_thread_name' = [t_thread_name EXCEPT ![t] = n]
  /\ UNCHANGED <<life, m_id, m_thread, m_cb, semaphore, os, t_thread, owner,
                 interrupted, released>>

\* Faulty variant: run() calls the callback in the object, without the swap.
RunEnds_NoSwap(t) ==
  /\ os[t] = "callback"
  /\ Touch(t)
  /\ os' = [os EXCEPT ![t] = "done"]
  /\ UNCHANGED <<life, m_id, m_thread, m_name, m_cb, semaphore, t_thread,
                 t_thread_name, owner, interrupted, released>>

\* The callback returns, and run() with it.
RunEnds(t) ==
  /\ os[t] = "callback"
  /\ os' = [os EXCEPT ![t] = "done"]
  /\ UNCHANGED <<life, m_id, m_thread, m_name, m_cb, semaphore, t_thread,
                 t_thread_name, owner, interrupted, released, late>>

-----------------------------------------------------------------------------
(* Properties *)

(***************************************************************************)
(* "wait pthread created" (thread.cc:29): once the constructor has         *)
(* returned, the thread has published itself, so that getId(), getName()   *)
(* and Thread::GetThis() in the callback are all good and agree.           *)
(***************************************************************************)
ReadyOnReturn ==
  \A t \in Threads :
    life[t] = "alive" =>
      m_id[t] = t /\ t_thread[t] = t /\ ~m_cb[t] /\ m_name[t] = t_thread_name[t]

(***************************************************************************)
(* run() does not use the Thread object after the constructor has          *)
(* returned (its callback was moved out), so the owner may destroy it at   *)
(* once.  An interrupted sem_wait is the one way to a late use.            *)
(***************************************************************************)
NotUsedLate == late \subseteq interrupted

\* The handle of a thread is given back exactly once, by join() or by ~Thread();
\* only an interrupted constructor leaks it.
HandleReleasedOnce ==
  \A t \in Threads :
    /\ released[t] <= 1
    /\ life[t] = "dead" /\ t \notin interrupted /\ os[t] # "none" => released[t] = 1

\* An object that join() has returned for belongs to a thread that has ended.
JoinedHasEnded ==
  \A t \in Threads : life[t] = "alive" /\ ~m_thread[t] => os[t] = "done"

\* The constructor and join() return: neither waits for ever.
OwnerReturns == ~OwnerFree ~> OwnerFree

=============================================================================
