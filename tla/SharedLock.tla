----------------------------- MODULE SharedLock -----------------------------
(***************************************************************************)
(* What a lock of sylar/thread.h promises the threads that use it through  *)
(* guards: the holders of a lock are one thread, or readers only.          *)
(***************************************************************************)
CONSTANTS Threads, Locks
VARIABLE holders   \* per lock: the threads that hold it, each with its mode

svars == <<holders>>

Mode == {"read", "exclusive"}

SInit == holders = [l \in Locks |-> {}]

Acquire(l, t, mode) ==
  /\ \A h \in holders[l] : mode = "read" /\ h.mode = "read" /\ h.by # t
  /\ holders' = [holders EXCEPT ![l] = @ \cup {[by |-> t, mode |-> mode]}]

Release(l, t) ==
  \E h \in holders[l] :
    /\ h.by = t
    /\ holders' = [holders EXCEPT ![l] = @ \ {h}]

SNext ==
  \E l \in Locks, t \in Threads :
    \/ \E mode \in Mode : Acquire(l, t, mode)
    \/ Release(l, t)

SSpec == SInit /\ [][SNext]_svars

=============================================================================
