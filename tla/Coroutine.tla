------------------------------ MODULE Coroutine ------------------------------
(***************************************************************************)
(* What sylar::Fiber promises its clients, with no contexts, reference     *)
(* counts or thread-local pointers: every thread executes its own code or  *)
(* exactly one coroutine; a coroutine is entered fresh or continued where  *)
(* it was suspended, always gives control back to the thread that resumed  *)
(* it, and is destroyed or renewed only when nothing is left to run on it. *)
(***************************************************************************)
CONSTANTS Threads, Fibers

VARIABLES
  where,    \* the thread itself, or the coroutine it executes
  status    \* of each coroutine

cvars == <<where, status>>

CInit ==
  /\ where = [t \in Threads |-> t]
  /\ status = [f \in Fibers |-> "unborn"]

Become(f, from, to) ==
  /\ status[f] \in from
  /\ status' = [status EXCEPT ![f] = to]

Create(f) == Become(f, {"unborn"}, "fresh") /\ UNCHANGED where

\* Control moves from the thread's own code into f.
Resume(t, f) ==
  /\ where[t] = t
  /\ Become(f, {"fresh", "suspended"}, "running")
  /\ where' = [where EXCEPT ![t] = f]

\* Control moves back; to is "suspended" for a yield, "done" for an end.
GiveBack(t, f, to) ==
  /\ where[t] = f
  /\ Become(f, {"running"}, to)
  /\ where' = [where EXCEPT ![t] = t]

Renew(f) == Become(f, {"fresh", "done"}, "fresh") /\ UNCHANGED where

Destroy(f) == Become(f, {"fresh", "done"}, "gone") /\ UNCHANGED where

CNext ==
  \E f \in Fibers :
    \/ Create(f) \/ Renew(f) \/ Destroy(f)
    \/ \E t \in Threads :
         Resume(t, f) \/ \E to \in {"suspended", "done"} : GiveBack(t, f, to)

CSpec == CInit /\ [][CNext]_cvars

=============================================================================
