----------------------------- MODULE MCScheduler -----------------------------
(* Scheduler, Thread and Locks for TLC: the scheduler's mutex, and two locks   *)
(* for the callbacks' own guards.                                           *)
EXTENDS Scheduler, TLC

CONSTANTS m, rw, cas, t1, t2

MCKind == m :> "Mutex" @@ rw :> "RWMutex" @@ cas :> "CASLock"
MCGiven == t1 :> "UNKNOW" @@ t2 :> "a"
MCMaxCalls == t1 :> 2 @@ t2 :> 1

=============================================================================
