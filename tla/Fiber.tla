-------------------------------- MODULE Fiber --------------------------------
(***************************************************************************)
(* sylar::Fiber (sylar/fiber.h, sylar/fiber.cc): user-level coroutines on  *)
(* top of ucontext.  Every thread has a main fiber, made on first use,     *)
(* that owns the thread's own stack; child fibers have a stack of their    *)
(* own, are entered with swapIn and leave with YieldToReady, YieldToHold   *)
(* or by ending their callback.                                            *)
(*                                                                         *)
(* The model keeps two views apart.  What the program believes: t_fiber,   *)
(* m_state, the reference counts.  What the machine does: which stack each *)
(* thread executes on (running) and in whose m_ctx the continuation of a   *)
(* suspended stack is kept (parked).  The properties relate the two.       *)
(*                                                                         *)
(* The main fiber of thread t, and its stack, are both named t.            *)
(***************************************************************************)
EXTENDS Naturals, FiniteSets

CONSTANTS
  Threads,     \* the threads that use fibers
  Fibers,      \* the child fibers the clients may construct, each once
  None,        \* nullptr
  Entry,       \* a context made by makecontext: MainFunc not yet entered
  UseUcLink,   \* is SYLAR_FIBER_RETURN_USE_UCLINK defined
  Liberties    \* what the clients do beyond the disciplined use of the API

(***************************************************************************)
(* Disciplined clients swap a suspended fiber in from the main fiber of    *)
(* the thread it was built on, yield only inside a child fiber, and keep a *)
(* pointer to a fiber while it executes.  Nothing in the code enforces     *)
(* this.  Each liberty lifts one of the rules:                             *)
(*   nested      a child fiber calls swapIn                                *)
(*   migrate     a thread swaps in a suspended fiber built on another one  *)
(*   race        ... as soon as m_state allows it, without waiting for the *)
(*               thread that executes it to have left its stack            *)
(*   rerun       swapIn in any m_state                                     *)
(*   yieldMain   the main fiber yields                                     *)
(*   dropInside  the last outside pointer goes while the fiber executes    *)
(***************************************************************************)
Liberty == {"nested", "migrate", "race", "rerun", "yieldMain", "dropInside"}

ASSUME FiberAssumption ==
  /\ IsFiniteSet(Threads) /\ IsFiniteSet(Fibers)
  /\ Threads \cap Fibers = {}
  /\ None \notin Threads \cup Fibers
  /\ Entry \notin Threads \cup Fibers \cup {None}
  /\ UseUcLink \in BOOLEAN
  /\ Liberties \subseteq Liberty

Objects == Threads \cup Fibers    \* Fiber objects, and the stacks they own

State == {"INIT", "HOLD", "EXEC", "TERM", "READY", "EXCEP"}

\* Faulty variants (here and below, named Definition_Fault): EXCEP forgotten, and
\* a suspended fiber accepted.
Resettable_NoExcep == {"TERM", "INIT"}
Resettable_Suspended == State \ {"EXEC"}

\* The states in which reset() and ~Fiber() accept a child fiber.
Resettable == {"TERM", "INIT", "EXCEP"}

VARIABLES
  s_fiber_id,     \* atomic: the last id given
  s_fiber_count,  \* atomic: what TotalFibers() reports
  t_fiber,        \* thread-local: the fiber the thread believes it executes
  t_threadFiber,  \* thread-local: the main fiber
  m_id, m_state,
  m_cb,           \* is m_cb non-empty
  m_ctx,          \* the context kept in the object: Entry or a stack
  home,           \* thread whose main context uc_link names (None: not built)
  alive,          \* constructed and not destroyed
  held,           \* child fibers some client keeps a Fiber::ptr to
  selfRef,        \* child fibers whose MainFunc keeps them in its local cur
  pc,             \* of each thread; "run" is the client's code
  arg,            \* the fiber that a swap under way is about
  running,        \* the stack each thread executes on
  parked,         \* the object in which a suspended stack's context is kept
  failed          \* the assertions that have failed

vars == <<s_fiber_id, s_fiber_count, t_fiber, t_threadFiber, m_id, m_state,
          m_cb, m_ctx, home, alive, held, selfRef, pc, arg, running, parked,
          failed>>

\* The parts of the state that a switch of contexts leaves alone.
tally == <<s_fiber_id, s_fiber_count, m_id, home>>
machine == <<m_ctx, running, parked>>

TypeOK ==
  /\ s_fiber_id \in Nat /\ s_fiber_count \in Nat
  /\ t_fiber \in [Threads -> Objects \cup {None}]
  /\ t_threadFiber \in [Threads -> Threads \cup {None}]
  /\ m_id \in [Objects -> Nat]
  /\ m_state \in [Objects -> State]
  /\ m_cb \in [Fibers -> BOOLEAN]
  /\ m_ctx \in [Objects -> Objects \cup {None, Entry}]
  /\ home \in [Fibers -> Threads \cup {None}]
  /\ alive \subseteq Objects /\ held \subseteq Fibers /\ selfRef \subseteq Fibers
  /\ pc \in [Threads -> {"run", "swapIn", "swapOut", "end", "exited", "wild"}]
  /\ arg \in [Threads -> Objects \cup {None}]
  /\ running \in [Threads -> Objects]
  /\ parked \in [Objects -> Objects \cup {None}]
  /\ failed \subseteq {"swapIn", "dtorChild", "dtorMain", "neverReach"}

Init ==
  /\ s_fiber_id = 0 /\ s_fiber_count = 0
  /\ t_fiber = [t \in Threads |-> None]
  /\ t_threadFiber = [t \in Threads |-> None]
  /\ m_id = [o \in Objects |-> 0]
  /\ m_state = [o \in Objects |-> "INIT"]
  /\ m_cb = [f \in Fibers |-> FALSE]
  /\ m_ctx = [o \in Objects |-> None]
  /\ home = [f \in Fibers |-> None]
  /\ alive = {} /\ held = {} /\ selfRef = {}
  /\ pc = [t \in Threads |-> "run"]
  /\ arg = [t \in Threads |-> None]
  /\ running = [t \in Threads |-> t]
  /\ parked = [o \in Objects |-> None]
  /\ failed = {}

-----------------------------------------------------------------------------
(* ucontext *)

(***************************************************************************)
(* setcontext(&o->m_ctx) on thread t, where ctx and pk are the contexts    *)
(* and parking places after the save that swapcontext does first, and refs *)
(* the fibers whose MainFunc still holds them.  A context made by          *)
(* makecontext enters MainFunc, which takes a reference (cur).  A saved    *)
(* context is good only if it is the last one its stack was saved to and   *)
(* MainFunc has not ended on it: past its final swapOut is the assertion   *)
(* "never reach after swapout".  Any other jump is wild: the thread is     *)
(* lost.                                                                   *)
(***************************************************************************)
Jump(t, o, ctx, pk, refs) ==
  LET s       == ctx[o]
      starts  == s = Entry
      saved   == s \in Objects /\ pk[s] = o
      ended   == s \in Fibers /\ s \notin refs
      dest    == IF starts THEN o ELSE s
  IN  /\ m_ctx' = ctx
      /\ IF starts \/ (saved /\ ~ended)
         THEN /\ running' = [running EXCEPT ![t] = dest]
              /\ parked' = [pk EXCEPT ![dest] = None]
              /\ pc' = [pc EXCEPT ![t] = "run"]
              /\ selfRef' = IF starts THEN refs \cup {o} ELSE refs
              /\ UNCHANGED failed
         ELSE /\ pc' = [pc EXCEPT ![t] = "wild"]
              /\ failed' = IF saved THEN failed \cup {"neverReach"} ELSE failed
              /\ parked' = pk
              /\ selfRef' = refs
              /\ UNCHANGED running

\* Faulty variant: setcontext in place of swapcontext.
SwapContext_NoSave(t, save, load, refs) == Jump(t, load, m_ctx, parked, refs)

\* swapcontext(&save->m_ctx, &load->m_ctx) on thread t.
SwapContext(t, save, load, refs) ==
  Jump(t, load, [m_ctx EXCEPT ![save] = running[t]],
                [parked EXCEPT ![running[t]] = save], refs)

-----------------------------------------------------------------------------
(* The calls a client makes *)

\* Thread t executes client code: its own, or a callback that MainFunc could
\* call (an empty m_cb throws at once).
Client(t) ==
  /\ pc[t] = "run"
  /\ running[t] \in Fibers => m_cb[running[t]]

\* Some thread is on its way into f.
Claimed(f) == \E u \in Threads : pc[u] = "swapIn" /\ arg[u] = f

\* No thread executes f or is about to.
Quiescent(f) == ~Claimed(f) /\ \A u \in Threads : running[u] # f

\* Faulty variant: the constructor of the main fiber does not count it.
GetThis_NotCounted(t) ==
  /\ Client(t)
  /\ t_fiber[t] = None
  /\ t_fiber' = [t_fiber EXCEPT ![t] = t]
  /\ t_threadFiber' = [t_threadFiber EXCEPT ![t] = t]
  /\ m_state' = [m_state EXCEPT ![t] = "EXEC"]
  /\ alive' = alive \cup {t}
  /\ UNCHANGED <<tally, m_cb, held, selfRef, pc, arg, machine, failed>>

(***************************************************************************)
(* Fiber::GetThis() on a thread without a fiber makes the main fiber; its  *)
(* constructor calls SetThis.  Elsewhere GetThis changes nothing.          *)
(***************************************************************************)
GetThis(t) ==
  /\ Client(t)
  /\ t_fiber[t] = None
  /\ t_fiber' = [t_fiber EXCEPT ![t] = t]
  /\ t_threadFiber' = [t_threadFiber EXCEPT ![t] = t]
  /\ m_state' = [m_state EXCEPT ![t] = "EXEC"]
  /\ alive' = alive \cup {t}
  /\ s_fiber_count' = s_fiber_count + 1
  /\ UNCHANGED <<s_fiber_id, m_id, m_cb, home, held, selfRef, pc, arg, machine,
                 failed>>

\* The callback keeps the Fiber::ptr that GetThis() returns.
KeepThis(t) ==
  /\ Client(t)
  /\ t_fiber[t] \in Fibers
  /\ held' = held \cup {t_fiber[t]}
  /\ UNCHANGED <<tally, t_fiber, t_threadFiber, m_state, m_cb, alive, selfRef,
                 pc, arg, machine, failed>>

(***************************************************************************)
(* Fiber(cb): makes the main fiber first if there is none.  That it is     *)
(* called in the main fiber is asserted, and taken as the client's part.   *)
(***************************************************************************)
NewFiber(t, f) ==
  LET first == t_threadFiber[t] = None IN
  /\ Client(t)
  /\ t_fiber[t] = t_threadFiber[t]
  /\ home[f] = None
  /\ s_fiber_id' = s_fiber_id + 1
  /\ m_id' = [m_id EXCEPT ![f] = s_fiber_id + 1]
  /\ t_fiber' = [t_fiber EXCEPT ![t] = t]
  /\ t_threadFiber' = [t_threadFiber EXCEPT ![t] = t]
  /\ s_fiber_count' = s_fiber_count + (IF first THEN 2 ELSE 1)
  /\ m_state' = [m_state EXCEPT ![t] = IF first THEN "EXEC" ELSE @, ![f] = "INIT"]
  /\ m_cb' = [m_cb EXCEPT ![f] = TRUE]
  /\ m_ctx' = [m_ctx EXCEPT ![f] = Entry]
  /\ home' = [home EXCEPT ![f] = t]
  /\ alive' = alive \cup {f, t}
  /\ held' = held \cup {f}
  /\ UNCHANGED <<selfRef, pc, arg, running, parked, failed>>

\* reset(cb): the assertion on m_state is taken as the client's part.
Reset(t, f) ==
  /\ Client(t)
  /\ f \in held
  /\ t_threadFiber[t] # None
  /\ Quiescent(f)
  /\ m_state[f] \in Resettable
  /\ m_cb' = [m_cb EXCEPT ![f] = TRUE]
  /\ m_ctx' = [m_ctx EXCEPT ![f] = Entry]
  /\ home' = [home EXCEPT ![f] = t]
  /\ parked' = [parked EXCEPT ![f] = None]
  /\ m_state' = [m_state EXCEPT ![f] = "INIT"]
  /\ UNCHANGED <<s_fiber_id, s_fiber_count, m_id, t_fiber, t_threadFiber, alive,
                 held, selfRef, pc, arg, running, failed>>

(***************************************************************************)
(* A client lets go of a Fiber::ptr.  With no reference left ~Fiber runs,  *)
(* which asserts that no unfinished callback is on the stack it frees.     *)
(***************************************************************************)
DropHandle(t, f) ==
  /\ Client(t)
  /\ f \in held
  /\ ~Claimed(f)
  /\ "dropInside" \notin Liberties => Quiescent(f)
  /\ held' = held \ {f}
  /\ IF f \in selfRef
     THEN UNCHANGED <<alive, s_fiber_count, failed>>
     ELSE /\ alive' = alive \ {f}
          /\ s_fiber_count' = s_fiber_count - 1
          /\ failed' = IF m_state[f] \in Resettable THEN failed
                       ELSE failed \cup {"dtorChild"}
  /\ UNCHANGED <<s_fiber_id, m_id, home, t_fiber, t_threadFiber, m_state, m_cb,
                 selfRef, pc, arg, machine>>

-----------------------------------------------------------------------------
(* Switching: each call is two steps, the writes to thread-local and shared *)
(* fields that come before the switch, and the switch.                      *)

\* The client's part of swapIn; the code itself asks only for # EXEC.
MaySwapIn(t, f) ==
  /\ f \in held
  /\ t_threadFiber[t] # None
  /\ "nested" \notin Liberties => running[t] = t
  /\ Liberties \cap {"migrate", "race"} = {} => home[f] = t
  /\ ~Claimed(f)
  /\ "race" \notin Liberties => Quiescent(f)
  /\ "rerun" \notin Liberties => m_state[f] \in {"INIT", "HOLD", "READY"}

\* swapIn up to its assertion: SetThis(this), then m_state is read.
SwapIn(t, f) ==
  /\ Client(t)
  /\ MaySwapIn(t, f)
  /\ t_fiber' = [t_fiber EXCEPT ![t] = f]
  /\ failed' = IF m_state[f] = "EXEC" THEN failed \cup {"swapIn"} ELSE failed
  /\ pc' = [pc EXCEPT ![t] = "swapIn"]
  /\ arg' = [arg EXCEPT ![t] = f]
  /\ UNCHANGED <<tally, t_threadFiber, m_state, m_cb, alive, held, selfRef,
                 machine>>

\* The rest of swapIn: m_state = EXEC and the switch out of the caller, whose
\* context goes into the main fiber's m_ctx.
SwapInSwitch(t) ==
  /\ pc[t] = "swapIn"
  /\ m_state' = [m_state EXCEPT ![arg[t]] = "EXEC"]
  /\ SwapContext(t, t, arg[t], selfRef)
  /\ arg' = [arg EXCEPT ![t] = None]
  /\ UNCHANGED <<tally, t_fiber, t_threadFiber, m_cb, alive, held>>

\* YieldToReady and YieldToHold up to swapOut: m_state of GetThis() is set
\* while the fiber still executes.
Yield(t, s) ==
  /\ Client(t)
  /\ t_fiber[t] # None
  /\ "yieldMain" \notin Liberties => running[t] \in Fibers
  /\ m_state' = [m_state EXCEPT ![t_fiber[t]] = s]
  /\ pc' = [pc EXCEPT ![t] = "swapOut"]
  /\ arg' = [arg EXCEPT ![t] = t_fiber[t]]
  /\ UNCHANGED <<tally, t_fiber, t_threadFiber, m_cb, alive, held, selfRef,
                 machine, failed>>

\* Faulty variants: swapOut without SetThis, and MainFunc's cur a raw pointer.
SwapOut_KeepsThis(t) ==
  /\ pc[t] = "swapOut"
  /\ SwapContext(t, arg[t], t, selfRef)
  /\ arg' = [arg EXCEPT ![t] = None]
  /\ UNCHANGED <<tally, t_fiber, t_threadFiber, m_state, m_cb, alive, held>>

SwapOut_WeakCur(t) ==
  /\ pc[t] = "swapOut"
  /\ t_fiber' = [t_fiber EXCEPT ![t] = t_threadFiber[t]]
  /\ SwapContext(t, arg[t], t, selfRef \ {arg[t]})
  /\ arg' = [arg EXCEPT ![t] = None]
  /\ UNCHANGED <<tally, t_threadFiber, m_state, m_cb, alive, held>>

\* swapOut: SetThis(main fiber) and the switch to the main fiber's m_ctx.
SwapOut(t) ==
  /\ pc[t] = "swapOut"
  /\ t_fiber' = [t_fiber EXCEPT ![t] = t_threadFiber[t]]
  /\ SwapContext(t, arg[t], t, selfRef)
  /\ arg' = [arg EXCEPT ![t] = None]
  /\ UNCHANGED <<tally, t_threadFiber, m_state, m_cb, alive, held>>

\* Faulty variant: the catch clauses log the exception and leave m_state alone.
MainFunc_NoExcepState(t, s) ==
  LET f == running[t] IN
  /\ pc[t] = "run"
  /\ f \in Fibers
  /\ s = "TERM" => m_cb[f]
  /\ m_state' = [m_state EXCEPT ![f] = IF s = "TERM" THEN s ELSE @]
  /\ m_cb' = [m_cb EXCEPT ![f] = @ /\ s # "TERM"]
  /\ pc' = [pc EXCEPT ![t] = "end"]
  /\ UNCHANGED <<tally, t_fiber, t_threadFiber, alive, held, selfRef, arg,
                 machine, failed>>

(***************************************************************************)
(* MainFunc up to the writes to m_state.  The callback returns (TERM) and  *)
(* m_cb is cleared, or it throws (EXCEP) and m_cb stays.  An empty m_cb    *)
(* throws.                                                                 *)
(***************************************************************************)
MainFunc(t, s) ==
  LET f == running[t] IN
  /\ pc[t] = "run"
  /\ f \in Fibers
  /\ s = "TERM" => m_cb[f]
  /\ m_state' = [m_state EXCEPT ![f] = s]
  /\ m_cb' = [m_cb EXCEPT ![f] = @ /\ s # "TERM"]
  /\ pc' = [pc EXCEPT ![t] = "end"]
  /\ UNCHANGED <<tally, t_fiber, t_threadFiber, alive, held, selfRef, arg,
                 machine, failed>>

\* The end of MainFunc, way 1: SetThis(main fiber), cur goes out of scope and
\* the function returns to uc_link, fixed when the context was made.
MainFuncReturn(t) ==
  LET f == running[t] IN
  /\ pc[t] = "end" /\ f \in held
  /\ UseUcLink
  /\ t_fiber' = [t_fiber EXCEPT ![t] = t_threadFiber[t]]
  /\ Jump(t, home[f], m_ctx, parked, selfRef \ {f})
  /\ UNCHANGED <<tally, t_threadFiber, m_state, m_cb, alive, held, arg>>

\* Faulty variant: the last swapOut goes to the thread that built the fiber.
MainFuncSwapOut_ToBuilder(t) ==
  LET f == running[t] IN
  /\ pc[t] = "end" /\ f \in held
  /\ ~UseUcLink
  /\ t_fiber' = [t_fiber EXCEPT ![t] = t_threadFiber[t]]
  /\ SwapContext(t, f, home[f], selfRef \ {f})
  /\ UNCHANGED <<tally, t_threadFiber, m_state, m_cb, alive, held, arg>>

\* The end of MainFunc, way 2: cur.reset() and a last swapOut.
MainFuncSwapOut(t) ==
  LET f == running[t] IN
  /\ pc[t] = "end" /\ f \in held
  /\ ~UseUcLink
  /\ t_fiber' = [t_fiber EXCEPT ![t] = t_threadFiber[t]]
  /\ SwapContext(t, f, t, selfRef \ {f})
  /\ UNCHANGED <<tally, t_threadFiber, m_state, m_cb, alive, held, arg>>

\* Either way, when cur is the last reference: ~Fiber frees the stack that
\* MainFunc executes on, and what comes next runs on freed memory.
MainFuncLastRef(t) ==
  LET f == running[t] IN
  /\ pc[t] = "end" /\ f \notin held
  /\ t_fiber' = IF UseUcLink THEN [t_fiber EXCEPT ![t] = t_threadFiber[t]]
                ELSE t_fiber
  /\ selfRef' = selfRef \ {f}
  /\ alive' = alive \ {f}
  /\ s_fiber_count' = s_fiber_count - 1
  /\ pc' = [pc EXCEPT ![t] = "wild"]
  /\ UNCHANGED <<s_fiber_id, m_id, home, t_threadFiber, m_state, m_cb, held,
                 arg, machine, failed>>

(***************************************************************************)
(* The thread ends: t_threadFiber is destroyed and ~Fiber of the main      *)
(* fiber asserts that its m_state is EXEC.                                 *)
(***************************************************************************)
ThreadExit(t) ==
  /\ Client(t)
  /\ running[t] = t
  /\ pc' = [pc EXCEPT ![t] = "exited"]
  /\ IF t_threadFiber[t] = None
     THEN UNCHANGED <<t_fiber, t_threadFiber, alive, s_fiber_count, m_ctx, failed>>
     ELSE /\ t_fiber' = [t_fiber EXCEPT ![t] = IF @ = t THEN None ELSE @]
          /\ t_threadFiber' = [t_threadFiber EXCEPT ![t] = None]
          /\ alive' = alive \ {t}
          /\ s_fiber_count' = s_fiber_count - 1
          /\ m_ctx' = [m_ctx EXCEPT ![t] = None]
          /\ failed' = IF m_state[t] = "EXEC" THEN failed
                       ELSE failed \cup {"dtorMain"}
  /\ UNCHANGED <<s_fiber_id, m_id, home, m_state, m_cb, held, selfRef, arg,
                 running, parked>>

-----------------------------------------------------------------------------
Next ==
  \E t \in Threads :
    \/ GetThis(t)
    \/ KeepThis(t)
    \/ \E f \in Fibers : NewFiber(t, f)
    \/ \E f \in Fibers : Reset(t, f)
    \/ \E f \in Fibers : DropHandle(t, f)
    \/ \E f \in Fibers : SwapIn(t, f)
    \/ SwapInSwitch(t)
    \/ \E s \in {"READY", "HOLD"} : Yield(t, s)
    \/ SwapOut(t)
    \/ \E s \in {"TERM", "EXCEP"} : MainFunc(t, s)
    \/ MainFuncReturn(t)
    \/ MainFuncSwapOut(t)
    \/ MainFuncLastRef(t)
    \/ ThreadExit(t)

Spec == Init /\ [][Next]_vars

-----------------------------------------------------------------------------
(* Properties *)

\* Fiber::GetFiberId(): the id of t_fiber, and 0 without one.
GetFiberId(t) == IF t_fiber[t] = None THEN 0 ELSE m_id[t_fiber[t]]

(***************************************************************************)
(* "The fiber of the current point of execution" (fiber.h:50): whenever    *)
(* client code runs, the id that GetFiberId() reports, and that every log  *)
(* line carries, is the id of the fiber on whose stack the code executes.  *)
(***************************************************************************)
ThisIsRunning ==
  \A t \in Threads : pc[t] = "run" => GetFiberId(t) = m_id[running[t]]

(***************************************************************************)
(* No thread is ever sent to a stale, overwritten or empty context: every  *)
(* swapcontext, setcontext or return through uc_link arrives on a stack    *)
(* suspended there.                                                        *)
(***************************************************************************)
NoWildJump == \A t \in Threads : pc[t] # "wild"

\* A thread executes its own stack or a child fiber's, never the stack of
\* another thread: a fiber that ends returns to the main fiber of the thread
\* that executes it.
OwnMainStack == \A t \in Threads : running[t] \in Threads => running[t] = t

\* Two threads never execute on one stack.
StackExclusive ==
  \A t, u \in Threads : t # u => running[t] # running[u]

(***************************************************************************)
(* The stack of a child fiber is not freed while a callback is unfinished  *)
(* on it, executing or suspended: the assertion at fiber.cc:89.  A fiber   *)
(* dropped in HOLD or READY keeps itself alive through MainFunc's cur.     *)
(***************************************************************************)
LiveStackKept ==
  /\ \A t \in Threads : running[t] \in Fibers => running[t] \in alive
  /\ selfRef \subseteq alive
  /\ "dtorChild" \notin failed

\* TotalFibers() is the number of fibers constructed and not yet destroyed.
CountIsAlive == s_fiber_count = Cardinality(alive)

\* Every SYLAR_ASSERT of fiber.cc on the paths of a disciplined client holds.
NoAssertFails == failed = {}

(***************************************************************************)
(* While a thread executes a child fiber, its main fiber's m_ctx holds the *)
(* main stack: there is always a way back.                                 *)
(***************************************************************************)
WayBack ==
  \A t \in Threads :
    running[t] \in Fibers => m_ctx[t] = t /\ parked[t] = t

(***************************************************************************)
(* m_state is all that reset(), ~Fiber() and a client can go by.  For a    *)
(* fiber that no thread executes or is about to, it tells what the context *)
(* holds: INIT an entry into MainFunc, READY and HOLD the suspended        *)
(* callback, TERM and EXCEP nothing that may be continued.                 *)
(***************************************************************************)
StateTellsContext ==
  \A f \in Fibers \cap alive :
    Quiescent(f) =>
      /\ m_state[f] = "INIT" => m_ctx[f] = Entry
      /\ m_state[f] \in {"READY", "HOLD"} =>
           f \in selfRef /\ m_ctx[f] = f /\ parked[f] = f
      /\ m_state[f] \in Resettable <=> f \notin selfRef
      /\ m_state[f] # "EXEC"

-----------------------------------------------------------------------------
(* Refinement *)

\* What the abstract coroutine f is doing, read off the stacks.
Status(f) ==
  IF home[f] = None THEN "unborn"
  ELSE IF \E t \in Threads : running[t] = f THEN "running"
  ELSE IF f \notin alive THEN "gone"
  ELSE IF m_state[f] = "INIT" THEN "fresh"
  ELSE IF f \in selfRef THEN "suspended" ELSE "done"

C == INSTANCE Coroutine WITH where <- running,
                             status <- [f \in Fibers |-> Status(f)]

\* Fibers on ucontext are coroutines: swapIn, the yields, the end of MainFunc,
\* reset and the reference counts together implement Coroutine.
IsCoroutine == C!CSpec

-----------------------------------------------------------------------------
(* The inductive invariant of disciplined use *)

\* The uses for which the properties above are claimed.  A fiber may be swapped
\* in by another thread only in the build that does not return through uc_link.
Disciplined ==
  \/ Liberties = {}
  \/ Liberties = {"migrate"} /\ ~UseUcLink

\* Thread t executes its own stack (f = t) or fiber f, at each point of fiber.cc.
AtHome(t) == t_threadFiber[t] = t /\ t \in alive /\ m_state[t] = "EXEC"

Inside(t, f) ==
  /\ AtHome(t)
  /\ f \in held \cap selfRef
  /\ m_ctx[t] = t /\ parked[t] = t /\ parked[f] = None
  /\ UseUcLink => home[f] = t

ThreadInv(t) ==
  LET f == running[t] IN
  /\ f \in Fibers => Inside(t, f)
  /\ f \in Threads => f = t /\ parked[t] = None
  /\ t_threadFiber[t] = None => t \notin alive /\ t_fiber[t] = None /\ f = t
  /\ t_threadFiber[t] # None => AtHome(t)
  /\ pc[t] # "wild"
  /\ pc[t] = "run" =>
       /\ t_threadFiber[t] # None => t_fiber[t] = f
       /\ f \in Fibers => m_state[f] = "EXEC"
  /\ pc[t] = "swapIn" =>
       /\ f = t /\ AtHome(t)
       /\ arg[t] \in Fibers \cap held /\ t_fiber[t] = arg[t]
       /\ m_state[arg[t]] \in {"INIT", "HOLD", "READY"}
       /\ UseUcLink => home[arg[t]] = t
  /\ pc[t] = "swapOut" =>
       f \in Fibers /\ arg[t] = f /\ t_fiber[t] = f /\ m_state[f] \in {"HOLD", "READY"}
  /\ pc[t] = "end" => f \in Fibers /\ m_state[f] \in {"TERM", "EXCEP"}
  /\ pc[t] = "exited" => t_threadFiber[t] = None

\* The fiber that thread t executes or is about to.
Engaged(t, f) == running[t] = f \/ (pc[t] = "swapIn" /\ arg[t] = f)

FiberInv(f) ==
  /\ \A t, u \in Threads : Engaged(t, f) /\ Engaged(u, f) => t = u
  /\ home[f] = None => f \notin alive
  /\ f \in held \cup selfRef <=> f \in alive
  /\ (f \in alive /\ \A t \in Threads : running[t] # f) =>
       /\ m_state[f] # "EXEC"
       /\ m_state[f] = "INIT" => m_ctx[f] = Entry
       /\ m_state[f] \in {"READY", "HOLD"} =>
            f \in selfRef /\ m_ctx[f] = f /\ parked[f] = f
       /\ m_state[f] \in Resettable => f \notin selfRef

Inv ==
  /\ TypeOK
  /\ CountIsAlive
  /\ failed = {}
  /\ \A t \in Threads : m_id[t] = 0 /\ ThreadInv(t)
  /\ \A f \in Fibers : FiberInv(f)

=============================================================================
