----------------------------- MODULE FiberProofs -----------------------------
(***************************************************************************)
(* Fiber is correct for every number of threads and fibers when its        *)
(* clients are disciplined: Inv is inductive, and the properties that the  *)
(* model-checking runs check on two threads and two fibers follow from it. *)
(* From states that satisfy it, every step is a step of the abstract       *)
(* coroutines or invisible to them, so that Fiber implements Coroutine.    *)
(***************************************************************************)
EXTENDS Fiber, FiniteSetTheorems, TLAPS

\* A fiber constructed or destroyed changes the number of live ones by one.
LEMMA CountOne ==
  ASSUME NEW S \in SUBSET Objects, NEW o \in Objects
  PROVE  /\ IsFiniteSet(S) /\ Cardinality(S) \in Nat
         /\ o \notin S => Cardinality(S \cup {o}) = Cardinality(S) + 1
         /\ o \in S => /\ Cardinality(S \ {o}) = Cardinality(S) - 1
                       /\ Cardinality(S \ {o}) \in Nat
<1>1. IsFiniteSet(Objects)
  BY ZenonT(30), FiberAssumption, FS_Union DEF Objects
<1>2. IsFiniteSet(S) /\ IsFiniteSet(S \ {o})
  BY <1>1, FS_Subset
<1>3. QED
  BY <1>2, FS_CardinalityType, FS_AddElement, FS_RemoveElement

\* The initial states satisfy the inductive invariant.
LEMMA InitInv == Init => Inv
<1>1. Cardinality({}) = 0
  BY FS_EmptySet
<1>2. QED
  BY <1>1, FiberAssumption
  DEF Init, Inv, TypeOK, CountIsAlive, ThreadInv, FiberInv, Engaged, Objects, State

\* GetThis preserves the inductive invariant.
LEMMA GetThisInv ==
  ASSUME Inv, NEW t \in Threads, GetThis(t)
  PROVE  Inv'
<1>0. t \in Objects /\ t \notin Fibers /\ t # None
  BY FiberAssumption DEF Objects
<1>1. t_threadFiber[t] = None /\ t \notin alive /\ running[t] = t /\ pc[t] = "run"
  BY <1>0, FiberAssumption
  DEF Inv, ThreadInv, AtHome, Inside, GetThis, Client, TypeOK, Objects
<1>2. TypeOK' /\ CountIsAlive'
  BY <1>0, <1>1, CountOne DEF Inv, TypeOK, CountIsAlive, GetThis, machine, Objects, State
<1>3. ASSUME NEW u \in Threads PROVE m_id'[u] = 0 /\ ThreadInv(u)'
  BY <1>0, <1>1, FiberAssumption
  DEF Inv, TypeOK, GetThis, machine, ThreadInv, AtHome, Inside, Objects
<1>4. ASSUME NEW f \in Fibers PROVE FiberInv(f)'
  BY <1>0, <1>1, FiberAssumption
  DEF Inv, TypeOK, GetThis, machine, FiberInv, Engaged, Objects
<1>5. QED
  BY <1>2, <1>3, <1>4 DEF Inv, GetThis

\* KeepThis preserves the inductive invariant.
LEMMA KeepThisInv ==
  ASSUME Inv, NEW t \in Threads, KeepThis(t)
  PROVE  Inv'
<1>1. held' = held
  BY FiberAssumption
  DEF Inv, ThreadInv, AtHome, Inside, KeepThis, Client, TypeOK, Objects
<1>2. QED
  BY <1>1
  DEF KeepThis, Inv, TypeOK, CountIsAlive, tally, machine, ThreadInv, AtHome,
      Inside, FiberInv, Engaged

\* NewFiber preserves the inductive invariant.
LEMMA NewFiberInv ==
  ASSUME Inv, NEW t \in Threads, NEW f \in Fibers, NewFiber(t, f)
  PROVE  Inv'
<1>0. /\ t \in Objects /\ t \notin Fibers /\ t # None /\ f \in Objects
      /\ f \notin Threads /\ f # None /\ Entry \in Objects \cup {None, Entry}
  BY FiberAssumption DEF Objects
<1>1. /\ running[t] = t /\ pc[t] = "run"
      /\ t_threadFiber[t] = None <=> t \notin alive
      /\ f \notin alive /\ f \notin held /\ f \notin selfRef
  BY <1>0, FiberAssumption
  DEF Inv, ThreadInv, AtHome, Inside, FiberInv, NewFiber, Client, TypeOK, Objects
<1>2. \A u \in Threads : ~Engaged(u, f)
  BY <1>0, <1>1, FiberAssumption DEF Inv, ThreadInv, Inside, Engaged
<1>3. CountIsAlive' /\ s_fiber_count' \in Nat
  <2>1. CASE t_threadFiber[t] = None
    <3>1. alive \cup {t} \in SUBSET Objects /\ f \notin alive \cup {t}
      BY <1>0, <1>1 DEF Inv, TypeOK
    <3>a. /\ Cardinality(alive) \in Nat
          /\ Cardinality(alive \cup {t}) = Cardinality(alive) + 1
      BY ZenonT(30), <1>0, <1>1, <2>1, CountOne DEF Inv, TypeOK
    <3>b. Cardinality((alive \cup {t}) \cup {f}) = Cardinality(alive \cup {t}) + 1
      BY <1>0, <3>1, CountOne
    <3>2. Cardinality((alive \cup {t}) \cup {f}) = Cardinality(alive) + 2
      BY <3>a, <3>b
    <3>3. (alive \cup {t}) \cup {f} = alive'
      BY DEF NewFiber
    <3>4. QED
      <4>1. s_fiber_count' = s_fiber_count + 2
        BY <2>1 DEF NewFiber
      <4>2. s_fiber_count = Cardinality(alive)
        BY DEF Inv, CountIsAlive
      <4>3. Cardinality(alive') = Cardinality(alive) + 2
        BY <3>2, <3>3, Zenon
      <4>4. QED
        BY <3>a, <4>1, <4>2, <4>3 DEF CountIsAlive
  <2>2. CASE t_threadFiber[t] # None
    <3>1. alive \cup {f} = alive'
      BY <1>1, <2>2 DEF NewFiber
    <3>2. QED
      BY <1>0, <1>1, <2>2, <3>1, CountOne DEF Inv, CountIsAlive, NewFiber, TypeOK
  <2>3. QED
    BY <2>1, <2>2
<1>4. TypeOK'
  BY <1>0, <1>3 DEF Inv, TypeOK, NewFiber, State
<1>5. ASSUME NEW u \in Threads PROVE m_id'[u] = 0 /\ ThreadInv(u)'
  BY <1>0, <1>1, <1>2, FiberAssumption
  DEF Inv, TypeOK, NewFiber, ThreadInv, AtHome, Inside, Engaged, Objects
<1>6. ASSUME NEW g \in Fibers PROVE FiberInv(g)'
  <2>1. CASE g = f
    BY <1>0, <1>1, <1>2, <2>1, FiberAssumption
    DEF Inv, TypeOK, NewFiber, FiberInv, Engaged
  <2>2. CASE g # f
    <3>1. /\ g # t /\ m_state'[g] = m_state[g] /\ m_ctx'[g] = m_ctx[g]
          /\ home'[g] = home[g] /\ (g \in alive' <=> g \in alive)
          /\ (g \in held' <=> g \in held)
      BY <1>0, <2>2 DEF Inv, TypeOK, NewFiber, Objects
    <3>2. QED
      BY <3>1 DEF Inv, NewFiber, FiberInv, Engaged
  <2>3. QED
    BY <2>1, <2>2
<1>7. QED
  BY <1>3, <1>4, <1>5, <1>6 DEF Inv, NewFiber

\* Reset preserves the inductive invariant.
LEMMA ResetInv ==
  ASSUME Disciplined, Inv, NEW t \in Threads, NEW f \in Fibers, Reset(t, f)
  PROVE  Inv'
<1>0. /\ t \in Objects /\ f \in Objects /\ f \notin Threads /\ f # None
      /\ "race" \notin Liberties
  BY FiberAssumption DEF Objects, Disciplined
<1>1. (\A u \in Threads : ~Engaged(u, f)) /\ f \in alive /\ f \notin selfRef
  BY <1>0 DEF Reset, Quiescent, Claimed, Engaged, Inv, FiberInv
<1>2. TypeOK' /\ CountIsAlive'
  BY <1>0 DEF Inv, TypeOK, CountIsAlive, Reset, State
<1>3. ASSUME NEW u \in Threads PROVE m_id'[u] = 0 /\ ThreadInv(u)'
  BY <1>0, <1>1, FiberAssumption
  DEF Inv, TypeOK, Reset, ThreadInv, AtHome, Inside, Engaged, Objects
<1>4. ASSUME NEW g \in Fibers PROVE FiberInv(g)'
  BY <1>0, <1>1, FiberAssumption
  DEF Inv, TypeOK, Reset, FiberInv, Engaged, Objects, Resettable
<1>5. QED
  BY <1>2, <1>3, <1>4 DEF Inv, Reset

\* DropHandle preserves the inductive invariant.
LEMMA DropHandleInv ==
  ASSUME Disciplined, Inv, NEW t \in Threads, NEW f \in Fibers, DropHandle(t, f)
  PROVE  Inv'
<1>0. /\ f \in Objects /\ f \notin Threads /\ "dropInside" \notin Liberties
  BY FiberAssumption DEF Objects, Disciplined
<1>1. (\A u \in Threads : ~Engaged(u, f)) /\ f \in alive
  BY <1>0 DEF DropHandle, Quiescent, Claimed, Engaged, Inv, FiberInv
<1>2. f \notin selfRef => m_state[f] \in Resettable
  BY <1>0, <1>1 DEF Inv, FiberInv, Engaged, TypeOK, State, Resettable
<1>a. Cardinality(alive \ {f}) = s_fiber_count - 1 /\ s_fiber_count - 1 \in Nat
  BY <1>0, <1>1, CountOne DEF Inv, TypeOK, CountIsAlive
<1>3. TypeOK' /\ CountIsAlive' /\ failed' = {}
  BY ZenonT(30), <1>2, <1>a DEF Inv, TypeOK, CountIsAlive, DropHandle, machine
<1>4. ASSUME NEW u \in Threads PROVE m_id'[u] = 0 /\ ThreadInv(u)'
  BY <1>0, <1>1, FiberAssumption
  DEF Inv, TypeOK, DropHandle, machine, ThreadInv, AtHome, Inside, Engaged, Objects
<1>5. ASSUME NEW g \in Fibers PROVE FiberInv(g)'
  BY <1>0, <1>1, FiberAssumption
  DEF Inv, TypeOK, DropHandle, machine, FiberInv, Engaged, Objects
<1>6. QED
  BY <1>3, <1>4, <1>5 DEF Inv

-----------------------------------------------------------------------------
(* Switching *)

\* What another thread does to other fibers leaves a thread's state in order.
LEMMA ThreadKept ==
  ASSUME NEW u \in Threads, ThreadInv(u),
         running'[u] = running[u], pc'[u] = pc[u], arg'[u] = arg[u],
         t_fiber'[u] = t_fiber[u], t_threadFiber'[u] = t_threadFiber[u],
         m_ctx'[u] = m_ctx[u], parked'[u] = parked[u], m_state'[u] = m_state[u],
         alive' = alive, held' = held, home' = home,
         \A g \in Fibers : Engaged(u, g) =>
           parked'[g] = parked[g] /\ m_state'[g] = m_state[g] /\ (g \in selfRef => g \in selfRef')
  PROVE  ThreadInv(u)'
<1>1. AtHome(u)' <=> AtHome(u)
  BY Zenon DEF AtHome
<1>2. ASSUME running[u] \in Fibers, Inside(u, running[u]) PROVE Inside(u, running[u])'
  <2> DEFINE f == running[u]
  <2>1. f \in Fibers /\ Engaged(u, f)
    BY <1>2, Zenon DEF Engaged
  <2>2. f' = f /\ parked'[f] = parked[f] /\ (f \in selfRef => f \in selfRef')
    BY <2>1, Zenon
  <2>3. AtHome(u)' /\ f \in held' \cap selfRef' /\ m_ctx'[u] = u /\ parked'[u] = u /\ parked'[f] = None
    BY <1>1, <1>2, <2>2 DEF Inside
  <2>4. UseUcLink => home'[f] = u
    BY <1>2, Zenon DEF Inside
  <2> QED  BY <2>2, <2>3, <2>4, Zenon DEF Inside
<1>3. running[u] \in Fibers => m_state'[running[u]] = m_state[running[u]]
  BY Zenon DEF Engaged
<1>4. pc[u] = "swapIn" => m_state'[arg[u]] = m_state[arg[u]]
  BY DEF Engaged, ThreadInv
<1> QED  BY <1>1, <1>2, <1>3, <1>4 DEF ThreadInv

\* SwapIn preserves the inductive invariant.
LEMMA SwapInInv ==
  ASSUME Disciplined, Inv, NEW t \in Threads, NEW f \in Fibers, SwapIn(t, f)
  PROVE  Inv'
<1>0. /\ f \in Objects /\ t \in Objects /\ t \notin Fibers /\ f # None
      /\ "race" \notin Liberties /\ "rerun" \notin Liberties /\ "nested" \notin Liberties
  BY FiberAssumption DEF Objects, Disciplined
<1>1. /\ \A u \in Threads : ~Engaged(u, f)
      /\ pc[t] = "run" /\ running[t] = t /\ f \in held /\ t_threadFiber[t] # None
      /\ m_state[f] \in {"INIT", "HOLD", "READY"}
  BY <1>0 DEF SwapIn, MaySwapIn, Quiescent, Claimed, Engaged, Client
<1>2. UseUcLink => home[f] = t
  BY FiberAssumption DEF Disciplined, SwapIn, MaySwapIn
<1>3. TypeOK' /\ CountIsAlive' /\ failed' = {}
  BY <1>0, <1>1 DEF Inv, TypeOK, CountIsAlive, SwapIn, tally, machine
<1>4. ASSUME NEW u \in Threads PROVE m_id'[u] = 0 /\ ThreadInv(u)'
  BY <1>0, <1>1, <1>2, FiberAssumption
  DEF Inv, TypeOK, SwapIn, tally, machine, ThreadInv, AtHome, Inside, Engaged, Objects
<1>5. ASSUME NEW g \in Fibers PROVE FiberInv(g)'
  BY <1>0, <1>1, FiberAssumption
  DEF Inv, TypeOK, SwapIn, tally, machine, FiberInv, Engaged, Objects
<1>6. QED
  BY <1>3, <1>4, <1>5 DEF Inv

\* The switch of a swapIn arrives: in MainFunc of a fresh fiber, or where a
\* suspended one was left.
LEMMA SwapInArrives ==
  ASSUME Inv, NEW t \in Threads, SwapInSwitch(t)
  PROVE  /\ m_ctx' = [m_ctx EXCEPT ![t] = t]
         /\ running' = [running EXCEPT ![t] = arg[t]]
         /\ parked' = [parked EXCEPT ![t] = t, ![arg[t]] = None]
         /\ pc' = [pc EXCEPT ![t] = "run"]
         /\ selfRef' = selfRef \cup {arg[t]}
         /\ failed' = failed
<1> DEFINE f   == arg[t]
           ctx == [m_ctx EXCEPT ![t] = t]
           pk  == [parked EXCEPT ![t] = t]
<1>1. /\ f \in Fibers /\ t \in Objects /\ f \in Objects /\ f # t /\ running[t] = t
      /\ f # Entry
  BY FiberAssumption DEF SwapInSwitch, Inv, ThreadInv, Objects
<1>2. \A u \in Threads : running[u] # f
  BY <1>1, FiberAssumption DEF SwapInSwitch, Inv, FiberInv, Engaged
<1>3. \/ m_ctx[f] = Entry
      \/ m_ctx[f] = f /\ parked[f] = f /\ f \in selfRef
  BY <1>1, <1>2, Zenon DEF SwapInSwitch, Inv, ThreadInv, FiberInv
<1>4. ctx[f] = m_ctx[f] /\ pk[f] = parked[f]
  BY <1>1 DEF Inv, TypeOK
<1>5. Jump(t, f, ctx, pk, selfRef)
  BY <1>1, Zenon DEF SwapInSwitch, SwapContext
<1>6. CASE m_ctx[f] = Entry
  BY <1>4, <1>5, <1>6 DEF Jump
<1>7. CASE m_ctx[f] = f /\ parked[f] = f /\ f \in selfRef
  <2>1. selfRef = selfRef \cup {f}
    BY <1>7
  <2>2. QED
    BY <1>1, <1>4, <1>5, <1>7, <2>1 DEF Jump
<1>8. QED
  BY <1>3, <1>6, <1>7

\* SwapInSwitch preserves the inductive invariant.
LEMMA SwapInSwitchInv ==
  ASSUME Inv, NEW t \in Threads, SwapInSwitch(t)
  PROVE  Inv'
<1> DEFINE f == arg[t]
<1>0. /\ t \in Objects /\ t \notin Fibers /\ t # None
  BY FiberAssumption DEF Objects
<1>1. /\ f \in Fibers /\ f \in Objects /\ f # t /\ f \notin Threads /\ f # None
      /\ running[t] = t /\ f \in held /\ AtHome(t) /\ t_fiber[t] = f
      /\ UseUcLink => home[f] = t
  BY FiberAssumption, Zenon DEF SwapInSwitch, Inv, ThreadInv, Objects
<1>2. \A u \in Threads : u # t => ~Engaged(u, f)
  BY <1>1, Zenon DEF SwapInSwitch, Inv, FiberInv, Engaged
<1>3. /\ m_state' = [m_state EXCEPT ![f] = "EXEC"] /\ arg' = [arg EXCEPT ![t] = None]
      /\ UNCHANGED <<s_fiber_id, s_fiber_count, m_id, home, t_fiber, t_threadFiber,
                     m_cb, alive, held>>
  BY DEF SwapInSwitch, tally
<1>a. /\ m_ctx' = [m_ctx EXCEPT ![t] = t] /\ running' = [running EXCEPT ![t] = f]
      /\ parked' = [[parked EXCEPT ![t] = t] EXCEPT ![f] = None]
      /\ pc' = [pc EXCEPT ![t] = "run"] /\ selfRef' = selfRef \cup {f}
      /\ failed' = failed
  BY SwapInArrives
<1>4. TypeOK' /\ CountIsAlive' /\ failed' = {}
  <2>1. TypeOK /\ CountIsAlive /\ failed = {}
    BY DEF Inv
  <2>2. TypeOK'
    BY <1>0, <1>1, <1>3, <1>a, <2>1 DEF TypeOK, State
  <2>3. CountIsAlive' /\ failed' = {}
    BY <1>3, <1>a, <2>1 DEF CountIsAlive
  <2>4. QED
    BY <2>2, <2>3
<1>5. ASSUME NEW u \in Threads PROVE m_id'[u] = 0 /\ ThreadInv(u)'
  <2>1. TypeOK /\ m_id[u] = 0 /\ ThreadInv(u) /\ u \notin Fibers
    BY FiberAssumption DEF Inv
  <2>2. CASE u = t
    BY <1>0, <1>1, <1>3, <1>a, <2>1, <2>2 DEF TypeOK, ThreadInv, AtHome, Inside, Objects
  <2>3. CASE u # t
    <3>1. /\ running'[u] = running[u] /\ pc'[u] = pc[u] /\ arg'[u] = arg[u]
          /\ m_ctx'[u] = m_ctx[u] /\ parked'[u] = parked[u] /\ m_state'[u] = m_state[u]
      BY <1>0, <1>1, <1>3, <1>a, <2>1, <2>3 DEF TypeOK, Objects
    <3>2. \A g \in Fibers : Engaged(u, g) => parked'[g] = parked[g] /\ m_state'[g] = m_state[g]
      BY <1>0, <1>1, <1>2, <1>3, <1>a, <2>1, <2>3 DEF TypeOK, Objects
    <3>3. /\ m_id'[u] = 0 /\ t_fiber'[u] = t_fiber[u] /\ t_threadFiber'[u] = t_threadFiber[u]
          /\ alive' = alive /\ held' = held /\ home' = home /\ selfRef \subseteq selfRef'
      BY <1>3, <1>a, <2>1
    <3> QED  BY <2>1, <3>1, <3>2, <3>3, ThreadKept, Zenon
  <2> QED  BY <2>2, <2>3
<1>6. ASSUME NEW g \in Fibers PROVE FiberInv(g)'
  BY <1>0, <1>1, <1>2, <1>3, <1>a, FiberAssumption
  DEF Inv, TypeOK, FiberInv, Engaged, Objects
<1>7. QED
  BY <1>4, <1>5, <1>6 DEF Inv

-----------------------------------------------------------------------------
(* Leaving a fiber *)

\* Yield preserves the inductive invariant.
LEMMA YieldInv ==
  ASSUME Disciplined, Inv, NEW t \in Threads, NEW s \in {"READY", "HOLD"}, Yield(t, s)
  PROVE  Inv'
<1> DEFINE f == running[t]
<1>0. "yieldMain" \notin Liberties
  BY DEF Disciplined
<1>1. /\ f \in Fibers /\ f \in Objects /\ f \notin Threads /\ pc[t] = "run"
      /\ t_fiber[t] = f
  BY <1>0, FiberAssumption, Zenon
  DEF Yield, Client, Inv, ThreadInv, Inside, AtHome, Objects
<1>2. \A u \in Threads : u # t => ~Engaged(u, f)
  BY <1>1, Zenon DEF Inv, FiberInv, Engaged
<1>a. TypeOK /\ CountIsAlive /\ \A u \in Threads : m_id[u] = 0 /\ ThreadInv(u)
  BY DEF Inv
<1>b. /\ m_state' = [m_state EXCEPT ![f] = s] /\ pc' = [pc EXCEPT ![t] = "swapOut"]
      /\ arg' = [arg EXCEPT ![t] = f]
      /\ UNCHANGED <<s_fiber_id, s_fiber_count, m_id, home, t_fiber, t_threadFiber, m_ctx, m_cb,
                     alive, held, running, parked, selfRef, failed>>
  BY <1>1 DEF Yield, tally, machine
<1>3. TypeOK' /\ CountIsAlive'
  <2>1. TypeOK'
    BY <1>1, <1>a, <1>b DEF TypeOK, State
  <2>2. CountIsAlive'
    BY <1>a, <1>b DEF CountIsAlive
  <2>3. QED
    BY <2>1, <2>2
<1>c. \A o \in Objects : o # f => m_state'[o] = m_state[o]
  BY <1>a, <1>b, Zenon DEF TypeOK
<1>4. ASSUME NEW u \in Threads PROVE m_id'[u] = 0 /\ ThreadInv(u)'
  <2>0. m_id'[u] = 0 /\ ThreadInv(u) /\ m_state'[u] = m_state[u]
    BY <1>1, <1>a, <1>b, <1>c, Zenon DEF Objects
  <2>1. CASE u # t
    <3>1. pc'[u] = pc[u] /\ arg'[u] = arg[u]
      BY <1>a, <1>b, <2>1, Zenon DEF TypeOK
    <3>2. \A g \in Fibers : Engaged(u, g) => m_state'[g] = m_state[g]
      BY <1>2, <1>c, <2>1, Zenon DEF Objects
    <3> QED  BY <1>b, <2>0, <3>1, <3>2, ThreadKept, Zenon
  <2>2. CASE u = t
    <3>1. pc'[t] = "swapOut" /\ arg'[t] = f /\ m_state'[f] = s
      BY <1>1, <1>a, <1>b, Zenon DEF TypeOK
    <3>2. ThreadInv(t) /\ m_state'[t] = m_state[t]
      BY <2>0, <2>2, Zenon
    <3>3. ThreadInv(t)'
      BY <1>1, <1>b, <3>1, <3>2 DEF ThreadInv, AtHome, Inside
    <3> QED  BY <2>0, <2>2, <3>3, Zenon
  <2> QED  BY <2>1, <2>2, Zenon
<1>5. ASSUME NEW g \in Fibers PROVE FiberInv(g)'
  BY <1>1, <1>2, <1>b, FiberAssumption DEF Inv, TypeOK, FiberInv, Engaged, Objects
<1>6. QED
  BY ZenonT(30), <1>3, <1>4, <1>5 DEF Inv, Yield

\* SwapOut preserves the inductive invariant.
LEMMA SwapOutInv ==
  ASSUME Inv, NEW t \in Threads, SwapOut(t)
  PROVE  Inv'
<1> DEFINE f   == running[t]
           ctx == [m_ctx EXCEPT ![f] = f]
           pk  == [parked EXCEPT ![f] = f]
<1>1. /\ f \in Fibers /\ f \in Objects /\ f \notin Threads /\ f # None
      /\ t \in Objects /\ t \notin Fibers /\ t # None /\ t # Entry
      /\ arg[t] = f /\ pc[t] = "swapOut" /\ m_state[f] \in {"HOLD", "READY"}
      /\ Inside(t, f)
  BY ZenonT(30), FiberAssumption DEF SwapOut, Inv, ThreadInv, Objects
<1>2. \A u \in Threads : u # t => ~Engaged(u, f)
  BY ZenonT(30), <1>1 DEF Inv, FiberInv, Engaged
<1>3. Jump(t, t, ctx, pk, selfRef) /\ ctx[t] = t /\ pk[t] = t
  BY <1>1 DEF SwapOut, SwapContext, Inside, Inv, TypeOK
<1>4. /\ m_ctx' = ctx /\ running' = [running EXCEPT ![t] = t]
      /\ parked' = [pk EXCEPT ![t] = None] /\ pc' = [pc EXCEPT ![t] = "run"]
      /\ selfRef' = selfRef /\ failed' = failed
  BY <1>1, <1>3 DEF Jump
<1>5. /\ t_fiber' = [t_fiber EXCEPT ![t] = t] /\ arg' = [arg EXCEPT ![t] = None]
      /\ UNCHANGED <<s_fiber_id, s_fiber_count, m_id, home, t_threadFiber, m_state,
                     m_cb, alive, held>>
  BY <1>1, Zenon DEF SwapOut, tally, Inside, AtHome
<1>a. TypeOK /\ CountIsAlive /\ failed = {} /\ \A u \in Threads : m_id[u] = 0 /\ ThreadInv(u)
  BY DEF Inv
<1>6. TypeOK' /\ CountIsAlive' /\ failed' = {}
  <2>1. TypeOK'
    BY <1>1, <1>4, <1>5, <1>a DEF TypeOK
  <2>2. CountIsAlive' /\ failed' = {}
    BY <1>4, <1>5, <1>a DEF CountIsAlive
  <2>3. QED
    BY <2>1, <2>2
<1>7. ASSUME NEW u \in Threads PROVE m_id'[u] = 0 /\ ThreadInv(u)'
  <2>1. TypeOK /\ m_id[u] = 0 /\ ThreadInv(u) /\ u \notin Fibers
    BY <1>a, FiberAssumption
  <2>2. CASE u = t
    BY <1>1, <1>4, <1>5, <2>1, <2>2, Zenon DEF TypeOK, ThreadInv, AtHome, Inside, Objects
  <2>3. CASE u # t
    <3>1. /\ running'[u] = running[u] /\ pc'[u] = pc[u] /\ arg'[u] = arg[u]
          /\ m_ctx'[u] = m_ctx[u] /\ parked'[u] = parked[u] /\ t_fiber'[u] = t_fiber[u]
      BY <1>1, <1>4, <1>5, <2>1, <2>3 DEF TypeOK, Objects
    <3>2. \A g \in Fibers : Engaged(u, g) => parked'[g] = parked[g]
      BY <1>1, <1>2, <1>4, <2>1, <2>3 DEF TypeOK, Objects
    <3>3. /\ m_id'[u] = 0 /\ m_state' = m_state /\ t_threadFiber'[u] = t_threadFiber[u]
          /\ alive' = alive /\ held' = held /\ home' = home /\ selfRef' = selfRef
      BY <1>4, <1>5, <2>1, Zenon
    <3> QED  BY <2>1, <3>1, <3>2, <3>3, ThreadKept, Zenon
  <2> QED  BY <2>2, <2>3
<1>8. ASSUME NEW g \in Fibers PROVE FiberInv(g)'
  <2>1. FiberInv(g)
    BY DEF Inv
  <2>2. QED
    BY <1>1, <1>2, <1>4, <1>5, <1>a, <2>1, FiberAssumption
    DEF TypeOK, FiberInv, Engaged, Inside, Objects, Resettable
<1>9. QED
  BY <1>6, <1>7, <1>8 DEF Inv

\* MainFunc preserves the inductive invariant.
LEMMA MainFuncInv ==
  ASSUME Inv, NEW t \in Threads, NEW s \in {"TERM", "EXCEP"}, MainFunc(t, s)
  PROVE  Inv'
<1> DEFINE f == running[t]
<1>1. f \in Fibers /\ f \in Objects /\ f \notin Threads /\ pc[t] = "run"
  BY FiberAssumption DEF MainFunc, Objects
<1>2. \A u \in Threads : u # t => ~Engaged(u, f)
  BY <1>1 DEF Inv, FiberInv, Engaged
<1>3. m_cb' \in [Fibers -> BOOLEAN]
  BY <1>1 DEF Inv, TypeOK, MainFunc
<1>4. TypeOK' /\ CountIsAlive'
  BY <1>1, <1>3 DEF Inv, TypeOK, CountIsAlive, MainFunc, tally, machine, State
<1>a. /\ m_state' = [m_state EXCEPT ![f] = s] /\ pc' = [pc EXCEPT ![t] = "end"]
      /\ UNCHANGED <<m_id, home, t_fiber, t_threadFiber, alive, held, selfRef, arg,
                     m_ctx, running, parked>>
  BY DEF MainFunc, tally, machine
<1>5. ASSUME NEW u \in Threads PROVE m_id'[u] = 0 /\ ThreadInv(u)'
  <2>1. TypeOK /\ m_id[u] = 0 /\ ThreadInv(u) /\ u \notin Fibers
    BY FiberAssumption DEF Inv
  <2>2. CASE u = t
    BY <1>1, <1>a, <2>1, <2>2, Zenon DEF TypeOK, ThreadInv, AtHome, Inside, Objects
  <2>3. CASE u # t
    <3>1. pc'[u] = pc[u] /\ m_state'[u] = m_state[u]
      BY <1>1, <1>a, <2>1, <2>3 DEF TypeOK, Objects
    <3>2. \A g \in Fibers : Engaged(u, g) => m_state'[g] = m_state[g]
      BY <1>1, <1>2, <1>a, <2>1, <2>3 DEF TypeOK, Objects
    <3> QED  BY <1>a, <2>1, <3>1, <3>2, ThreadKept
  <2> QED  BY <2>2, <2>3
<1>6. ASSUME NEW g \in Fibers PROVE FiberInv(g)'
  <2>1. TypeOK /\ FiberInv(g)
    BY DEF Inv
  <2> QED
    BY <1>1, <1>2, <1>a, <2>1, FiberAssumption DEF TypeOK, FiberInv, Engaged, Objects
<1>7. QED
  BY <1>4, <1>5, <1>6, Zenon DEF Inv, MainFunc

\* A fiber that ends finds the main fiber's context where it left it, whichever
\* way MainFunc takes.
LEMMA EndArrives ==
  ASSUME Inv, NEW t \in Threads, MainFuncReturn(t) \/ MainFuncSwapOut(t)
  PROVE  /\ \A o \in Objects : o # running[t] => m_ctx'[o] = m_ctx[o]
         /\ m_ctx' \in [Objects -> Objects \cup {None, Entry}]
         /\ \A o \in Objects \ {t, running[t]} : parked'[o] = parked[o]
         /\ parked'[t] = None
         /\ parked' \in [Objects -> Objects \cup {None}]
         /\ running' = [running EXCEPT ![t] = t]
         /\ pc' = [pc EXCEPT ![t] = "run"]
         /\ selfRef' = selfRef \ {running[t]}
         /\ failed' = failed
<1> DEFINE f   == running[t]
           ctx == [m_ctx EXCEPT ![f] = f]
           pk  == [parked EXCEPT ![f] = f]
<1>1. /\ f \in Fibers /\ f \in Objects /\ f # t
      /\ t \in Objects /\ t \notin Fibers /\ t # Entry /\ Inside(t, f)
  BY FiberAssumption, Zenon DEF MainFuncReturn, MainFuncSwapOut, Inv, ThreadInv, Objects
<1>2. CASE MainFuncReturn(t)
  <2>1. Jump(t, t, m_ctx, parked, selfRef \ {f}) /\ m_ctx[t] = t /\ parked[t] = t
    BY <1>1, <1>2, Zenon DEF MainFuncReturn, Inside
  <2>2. QED
    BY <1>1, <2>1 DEF Jump, Inv, TypeOK
<1>3. CASE MainFuncSwapOut(t)
  <2>1. Jump(t, t, ctx, pk, selfRef \ {f}) /\ ctx[t] = t /\ pk[t] = t
    BY <1>1, <1>3 DEF MainFuncSwapOut, SwapContext, Inside, Inv, TypeOK
  <2>2. QED
    BY <1>1, <2>1, Zenon DEF Jump, Inv, TypeOK
<1>4. QED
  BY <1>2, <1>3, Zenon

\* The end of MainFunc, either way, preserves the inductive invariant.
LEMMA EndInv ==
  ASSUME Inv, NEW t \in Threads, MainFuncReturn(t) \/ MainFuncSwapOut(t)
  PROVE  Inv'
<1> DEFINE f == running[t]
<1>1. /\ f \in Fibers /\ f \in Objects /\ f \notin Threads /\ f # None
      /\ t \in Objects /\ t \notin Fibers /\ t # None /\ pc[t] = "end"
      /\ m_state[f] \in {"TERM", "EXCEP"} /\ Inside(t, f)
  BY FiberAssumption, Zenon DEF MainFuncReturn, MainFuncSwapOut, Inv, ThreadInv, Objects
<1>2. \A u \in Threads : u # t => ~Engaged(u, f)
  BY <1>1, Zenon DEF Inv, FiberInv, Engaged
<1>3. /\ t_fiber' = [t_fiber EXCEPT ![t] = t]
      /\ UNCHANGED <<s_fiber_id, s_fiber_count, m_id, home, t_threadFiber, m_state,
                     m_cb, alive, held, arg>>
  BY <1>1, Zenon DEF MainFuncReturn, MainFuncSwapOut, tally, Inside, AtHome
<1>4. TypeOK' /\ CountIsAlive' /\ failed' = {}
  BY <1>1, <1>3, EndArrives DEF Inv, TypeOK, CountIsAlive
<1>5a. TypeOK
  BY DEF Inv
<1>5. ASSUME NEW u \in Threads PROVE m_id'[u] = 0 /\ ThreadInv(u)'
  <2>1. m_id'[u] = 0 /\ ThreadInv(u)
    BY <1>3 DEF Inv
  <2>2. CASE u = t
    <3>1. running'[t] = t /\ pc'[t] = "run" /\ t_fiber'[t] = t /\ parked'[t] = None
      BY <1>3, <1>5a, EndArrives DEF TypeOK
    <3>2. AtHome(t)' /\ t_threadFiber'[t] # None
      BY <1>1, <1>3, Zenon DEF Inside, AtHome
    <3>3. QED
      BY <1>1, <2>1, <2>2, <3>1, <3>2 DEF ThreadInv
  <2>3. CASE u # t
    <3>1. running'[u] = running[u] /\ pc'[u] = pc[u] /\ t_fiber'[u] = t_fiber[u]
      BY <1>3, <1>5a, <2>3, EndArrives DEF TypeOK
    <3>2. m_ctx'[u] = m_ctx[u] /\ parked'[u] = parked[u]
      BY <1>1, <2>3, EndArrives, Zenon DEF Objects
    <3>3. \A g \in Fibers : Engaged(u, g) => g # f /\ g # t
      BY <1>1, <1>2, <2>3, Zenon
    <3>4. \A g \in Fibers : Engaged(u, g) =>
            parked'[g] = parked[g] /\ m_state'[g] = m_state[g] /\ (g \in selfRef => g \in selfRef')
      BY <1>3, <3>3, EndArrives, Zenon DEF Objects
    <3>5. QED
      BY <1>3, <2>1, <3>1, <3>2, <3>4, ThreadKept, Zenon
  <2>4. QED
    BY <2>1, <2>2, <2>3, Zenon
<1>6. ASSUME NEW g \in Fibers PROVE FiberInv(g)'
  <2>1. /\ \A u \in Threads : Engaged(u, g)' => Engaged(u, g)
        /\ g # f => \A u \in Threads : running[u] = g => running'[u] = g
    <3>1. g # t /\ arg' = arg
      BY <1>1, <1>3, Zenon
    <3>2. /\ running'[t] = t /\ pc'[t] = "run"
          /\ \A u \in Threads \ {t} : running'[u] = running[u] /\ pc'[u] = pc[u]
      BY <1>5a, EndArrives DEF TypeOK
    <3>3. ASSUME NEW u \in Threads
          PROVE  (Engaged(u, g)' => Engaged(u, g)) /\ (g # f /\ running[u] = g => running'[u] = g)
      BY <3>1, <3>2 DEF Engaged
    <3> QED  BY <3>3, Zenon
  <2>2. CASE g = f
    BY <1>1, <1>3, <2>1, <2>2, EndArrives, Zenon
    DEF Inv, FiberInv, Inside, AtHome, Resettable
  <2>3. CASE g # f
    <3>1. m_ctx'[g] = m_ctx[g] /\ parked'[g] = parked[g] /\ (g \in selfRef' <=> g \in selfRef)
      BY <1>1, <2>3, EndArrives, Zenon DEF Objects
    <3>2. FiberInv(g)
      BY DEF Inv
    <3>3. QED
      BY ZenonT(30), <1>3, <2>1, <2>3, <3>1, <3>2 DEF FiberInv
  <2>4. QED
    BY <2>2, <2>3
<1>7. QED
  BY <1>4, <1>5, <1>6, Zenon DEF Inv

\* A disciplined client holds the fiber it executes, so MainFunc's own
\* reference is never the last.
LEMMA NeverLastRef ==
  ASSUME Inv, NEW t \in Threads, MainFuncLastRef(t)
  PROVE  FALSE
BY Zenon DEF MainFuncLastRef, Inv, ThreadInv, Inside

\* ThreadExit preserves the inductive invariant.
LEMMA ThreadExitInv ==
  ASSUME Inv, NEW t \in Threads, ThreadExit(t)
  PROVE  Inv'
<1>0. /\ t \in Objects /\ t \notin Fibers /\ t # None
      /\ None \in Objects \cup {None, Entry}
  BY FiberAssumption DEF Objects
<1>1. running[t] = t /\ pc[t] = "run" /\ parked[t] = None
  <2>1. running[t] = t /\ pc[t] = "run"
    BY ZenonT(30) DEF ThreadExit, Client
  <2>2. ThreadInv(t)
    BY DEF Inv
  <2>3. QED
    BY <2>1, <2>2 DEF ThreadInv
<1>2. t_threadFiber[t] # None =>
        /\ t \in alive /\ m_state[t] = "EXEC" /\ t_fiber[t] = t
        /\ Cardinality(alive \ {t}) = s_fiber_count - 1 /\ s_fiber_count - 1 \in Nat
  BY <1>0, <1>1, CountOne DEF Inv, TypeOK, CountIsAlive, ThreadInv, AtHome
<1>3. TypeOK' /\ CountIsAlive' /\ failed' = {}
  BY ZenonT(30), <1>0, <1>2 DEF Inv, TypeOK, CountIsAlive, ThreadExit
<1>4. ASSUME NEW u \in Threads PROVE m_id'[u] = 0 /\ ThreadInv(u)'
  <2>1. m_id'[u] = 0 /\ ThreadInv(u) /\ UNCHANGED <<home, m_state, held, selfRef, arg, running, parked>>
    BY Zenon DEF Inv, ThreadExit
  <2>2. CASE u = t
    <3>1. pc'[t] = "exited" /\ t_threadFiber'[t] = None /\ t_fiber'[t] = None /\ t \notin alive'
      <4>1. TypeOK
        BY DEF Inv
      <4>2. pc'[t] = "exited"
        BY <4>1 DEF TypeOK, ThreadExit
      <4>3. CASE t_threadFiber[t] = None
        BY <2>1, <2>2, <4>2, <4>3, Zenon DEF ThreadExit, ThreadInv
      <4>4. CASE t_threadFiber[t] # None
        BY <1>2, <4>1, <4>2, <4>4 DEF TypeOK, ThreadExit
      <4> QED  BY <4>3, <4>4, Zenon
    <3>2. QED
      BY <1>0, <1>1, <2>1, <2>2, <3>1, Zenon DEF ThreadInv
  <2>3. CASE u # t
    <3>1. /\ pc'[u] = pc[u] /\ t_fiber'[u] = t_fiber[u] /\ t_threadFiber'[u] = t_threadFiber[u]
          /\ m_ctx'[u] = m_ctx[u] /\ (u \in alive' <=> u \in alive)
      BY <1>0, <2>3 DEF Inv, TypeOK, ThreadExit, Objects
    <3>2. AtHome(u)' <=> AtHome(u)
      BY <2>1, <3>1, Zenon DEF AtHome
    <3>3. running[u] \in Fibers /\ Inside(u, running[u]) => Inside(u, running[u])'
      BY <2>1, <3>1, <3>2 DEF Inside
    <3>4. QED
      BY ZenonT(40), <2>1, <3>1, <3>2, <3>3 DEF ThreadInv
  <2>4. QED
    BY <2>1, <2>2, <2>3
<1>5. ASSUME NEW g \in Fibers PROVE FiberInv(g)'
  <2>1. TypeOK /\ FiberInv(g) /\ g # t /\ g \in Objects
    BY <1>0 DEF Inv, Objects
  <2>2. m_ctx'[g] = m_ctx[g] /\ (g \in alive' <=> g \in alive)
    BY <2>1 DEF TypeOK, ThreadExit
  <2>3. ASSUME NEW u \in Threads PROVE Engaged(u, g)' <=> Engaged(u, g)
    <3>1. running' = running /\ arg' = arg /\ pc'[u] = IF u = t THEN "exited" ELSE pc[u]
      BY <2>1 DEF TypeOK, ThreadExit
    <3>2. CASE u = t
      BY <1>1, <2>1, <3>1, <3>2 DEF Engaged
    <3>3. CASE u # t
      BY <3>1, <3>3, Zenon DEF Engaged
    <3> QED  BY <3>2, <3>3, Zenon
  <2>4. UNCHANGED <<home, m_state, m_cb, held, selfRef, running, parked>>
    BY Zenon DEF ThreadExit
  <2> QED  BY <2>1, <2>2, <2>3, <2>4 DEF FiberInv
<1>6. QED
  BY <1>3, <1>4, <1>5 DEF Inv

-----------------------------------------------------------------------------
(* Theorems *)

\* Every step preserves the inductive invariant.
LEMMA NextInv ==
  ASSUME Disciplined, Inv, [Next]_vars
  PROVE  Inv'
<1>1. CASE Next
  BY <1>1, GetThisInv, KeepThisInv, NewFiberInv, ResetInv, DropHandleInv, SwapInInv,
     SwapInSwitchInv, YieldInv, SwapOutInv, MainFuncInv, EndInv, NeverLastRef,
     ThreadExitInv
  DEF Next
<1>2. CASE UNCHANGED vars
  <2>1. TypeOK' /\ CountIsAlive' /\ failed' = {}
    BY <1>2 DEF vars, Inv, TypeOK, CountIsAlive
  <2>2. \A u \in Threads : m_id'[u] = 0 /\ ThreadInv(u)'
    <3>1. ASSUME NEW u \in Threads PROVE m_id'[u] = 0 /\ ThreadInv(u)'
      <4>1. m_id[u] = 0 /\ ThreadInv(u)
        BY DEF Inv
      <4>2. UNCHANGED <<running, pc, arg, t_fiber, t_threadFiber, m_ctx, parked, m_state, alive, held, home, selfRef, m_id>>
        BY <1>2 DEF vars
      <4> QED  BY <4>1, <4>2, ThreadKept, Zenon
    <3> QED  BY <3>1
  <2>3. \A g \in Fibers : FiberInv(g)'
    BY <1>2 DEF vars, Inv, FiberInv, Engaged
  <2>4. QED
    BY <2>1, <2>2, <2>3 DEF Inv
<1>3. QED
  BY <1>1, <1>2

(***************************************************************************)
(* Inv is an invariant of fibers used with discipline: both builds of      *)
(* MainFunc's return (fiber.cc:195), any number of threads and fibers.     *)
(***************************************************************************)
THEOREM Invariance ==
  ASSUME Disciplined
  PROVE  Spec => []Inv
<1>1. Inv /\ [Next]_vars => Inv'
  BY NextInv
<1>2. QED
  BY InitInv, <1>1, PTL DEF Spec

\* Every variable of fiber.cc keeps its type; in particular s_fiber_count
\* (fiber.cc:18) never goes below zero.
THEOREM TypeCorrect ==
  ASSUME Disciplined
  PROVE  Spec => []TypeOK
<1>1. Inv => TypeOK
  BY DEF Inv
<1>2. QED
  BY <1>1, Invariance, PTL

\* TotalFibers() (fiber.cc:176) is exact.
THEOREM CountExact ==
  ASSUME Disciplined
  PROVE  Spec => []CountIsAlive
<1>1. Inv => CountIsAlive
  BY DEF Inv
<1>2. QED
  BY <1>1, Invariance, PTL

\* GetThis() and GetFiberId() (fiber.cc:149, 217) name the fiber that executes.
THEOREM ThisCorrect ==
  ASSUME Disciplined
  PROVE  Spec => []ThisIsRunning
<1>1. Inv => ThisIsRunning
  BY FiberAssumption
  DEF Inv, ThreadInv, AtHome, Inside, ThisIsRunning, GetFiberId, TypeOK, Objects
<1>2. QED
  BY <1>1, Invariance, PTL

(***************************************************************************)
(* Every switch of swapIn, swapOut and MainFunc arrives on a suspended     *)
(* stack, and no two threads meet on a stack.                              *)
(***************************************************************************)
THEOREM SwitchesSafe ==
  ASSUME Disciplined
  PROVE  Spec => [](NoWildJump /\ StackExclusive)
<1>1. Inv => NoWildJump
  BY DEF Inv, ThreadInv, NoWildJump
<1>2. Inv => StackExclusive
  BY DEF Inv, TypeOK, Objects, ThreadInv, FiberInv, Engaged, StackExclusive
<1>3. QED
  BY <1>1, <1>2, Invariance, PTL

\* While a child fiber executes, the context that swapOut and MainFunc go back to
\* (fiber.cc:140) holds the suspended stack of the main fiber.
THEOREM WayBackKept ==
  ASSUME Disciplined
  PROVE  Spec => []WayBack
<1>1. Inv => WayBack
  BY DEF Inv, ThreadInv, Inside, WayBack
<1>2. QED
  BY <1>1, Invariance, PTL

\* A fiber that ends or yields returns to the main fiber of the thread that swapped
\* it in (fiber.cc:140, 197), never to the stack of another thread.
THEOREM MainStackOwn ==
  ASSUME Disciplined
  PROVE  Spec => []OwnMainStack
<1>1. Inv => OwnMainStack
  BY Zenon DEF Inv, ThreadInv, OwnMainStack
<1>2. QED
  BY <1>1, Invariance, PTL

\* No SYLAR_ASSERT of fiber.cc fails.
THEOREM AssertsHold ==
  ASSUME Disciplined
  PROVE  Spec => []NoAssertFails
<1>1. Inv => NoAssertFails
  BY DEF Inv, NoAssertFails
<1>2. QED
  BY <1>1, Invariance, PTL

\* ~Fiber (fiber.cc:86) never frees a stack with an unfinished callback on it.
THEOREM DestructionSafe ==
  ASSUME Disciplined
  PROVE  Spec => []LiveStackKept
<1>1. Inv => LiveStackKept
  BY DEF Inv, TypeOK, ThreadInv, Inside, FiberInv, LiveStackKept
<1>2. QED
  BY <1>1, Invariance, PTL

\* m_state, which reset (fiber.cc:109) and ~Fiber (fiber.cc:89) go by, tells what
\* the context of a fiber at rest holds.
THEOREM StateTruthful ==
  ASSUME Disciplined
  PROVE  Spec => []StateTellsContext
<1>1. Inv => StateTellsContext
  BY DEF Inv, TypeOK, State, Resettable, FiberInv, Engaged, StateTellsContext, Quiescent, Claimed
<1>2. QED
  BY <1>1, Invariance, PTL

-----------------------------------------------------------------------------
(* The refinement of Coroutine *)

\* The initial states are initial states of Coroutine.
LEMMA InitCoroutine == Init => C!CInit
BY DEF Init, C!CInit, Status

\* A step that moves no thread to another stack and changes no fiber's birth,
\* life or rest is invisible to the abstract coroutines.
LEMMA Invisible ==
  ASSUME running' = running, home' = home, selfRef' = selfRef,
         \A f \in Fibers : f \in alive' <=> f \in alive,
         \A f \in Fibers : (\A t \in Threads : running[t] # f) =>
                            (m_state'[f] = "INIT" <=> m_state[f] = "INIT")
  PROVE  UNCHANGED C!cvars
<1>1. ASSUME NEW f \in Fibers PROVE Status(f)' = Status(f)
  BY DEF Status
<1>2. QED
  BY <1>1 DEF C!cvars

\* A step that moves thread t and the status of fiber f only is a Become of Coroutine.
LEMMA BecomeStep ==
  ASSUME NEW f \in Fibers, NEW from, NEW to, Status(f) \in from, Status(f)' = to,
         \A g \in Fibers : g # f => Status(g)' = Status(g)
  PROVE  C!Become(f, from, to)
BY ZenonT(30) DEF C!Become

\* NewFiber is a step of Coroutine or a stutter.
LEMMA NewFiberStep ==
  ASSUME Inv, NEW t \in Threads, NEW f \in Fibers, NewFiber(t, f)
  PROVE  C!Create(f)
<1>0. f \in Objects /\ t \in Objects /\ t \notin Fibers /\ t # None
  BY FiberAssumption DEF Objects
<1>1. Status(f) \in {"unborn"}
  BY DEF NewFiber, Status
<1>2. \A u \in Threads : running[u] # f
  <2>1. f \notin alive /\ FiberInv(f) /\ \A u \in Threads : ThreadInv(u)
    BY Zenon DEF Inv, FiberInv, NewFiber
  <2>2. f \notin selfRef
    BY <2>1, Zenon DEF FiberInv
  <2>3. QED
    BY <2>1, <2>2 DEF ThreadInv, Inside
<1>3. Status(f)' = "fresh"
  BY <1>0, <1>2 DEF NewFiber, Status, Inv, TypeOK
<1>4. \A g \in Fibers : g # f => Status(g)' = Status(g)
  BY <1>0 DEF NewFiber, Status, Inv, TypeOK, Objects
<1>5. QED
  BY <1>1, <1>3, <1>4, BecomeStep DEF C!Create, NewFiber

\* Reset is a step of Coroutine or a stutter.
LEMMA ResetStep ==
  ASSUME Disciplined, Inv, NEW t \in Threads, NEW f \in Fibers, Reset(t, f)
  PROVE  C!Renew(f)
<1>0. f \in Objects /\ "race" \notin Liberties /\ t # None
  BY FiberAssumption DEF Objects, Disciplined
<1>1. (\A u \in Threads : running[u] # f) /\ f \in alive /\ f \notin selfRef
  BY ZenonT(30), <1>0 DEF Reset, Quiescent, Inv, FiberInv
<1>2. Status(f) \in {"fresh", "done"}
  BY <1>1 DEF Status, Inv, FiberInv
<1>3. Status(f)' = "fresh"
  BY <1>0, <1>1 DEF Reset, Status, Inv, TypeOK
<1>4. \A g \in Fibers : g # f => Status(g)' = Status(g)
  BY DEF Reset, Status, Inv, TypeOK, Objects
<1>5. QED
  BY <1>2, <1>3, <1>4, BecomeStep DEF C!Renew, Reset

\* DropHandle is a step of Coroutine or a stutter.
LEMMA DropHandleStep ==
  ASSUME Disciplined, Inv, NEW t \in Threads, NEW f \in Fibers, DropHandle(t, f)
  PROVE  C!Destroy(f) \/ UNCHANGED C!cvars
<1>1. CASE f \in selfRef
  BY ZenonT(30), <1>1, Invisible DEF DropHandle, machine
<1>2. CASE f \notin selfRef
  <2>0. "dropInside" \notin Liberties
    BY DEF Disciplined
  <2>1. (\A u \in Threads : running[u] # f) /\ f \in alive /\ home[f] # None
    BY ZenonT(30), <2>0 DEF DropHandle, Quiescent, Inv, FiberInv
  <2>2. Status(f) \in {"fresh", "done"}
    BY <1>2, <2>1 DEF Status
  <2>3. Status(f)' = "gone"
    BY <1>2, <2>1, Zenon DEF DropHandle, machine, Status
  <2>4. \A g \in Fibers : g # f => Status(g)' = Status(g)
    BY <1>2 DEF DropHandle, machine, Status
  <2>5. QED
    BY <2>2, <2>3, <2>4, BecomeStep DEF C!Destroy, DropHandle, machine
<1>3. QED
  BY <1>1, <1>2

\* SwapInSwitch is a step of Coroutine or a stutter.
LEMMA SwapInSwitchStep ==
  ASSUME Inv, NEW t \in Threads, SwapInSwitch(t)
  PROVE  C!Resume(t, arg[t]) /\ arg[t] \in Fibers
<1>0. PICK f \in Fibers : f = arg[t]
  BY Zenon DEF SwapInSwitch, Inv, ThreadInv
<1>1. /\ f \in alive /\ home[f] # None /\ running[t] = t /\ t \notin Fibers
      /\ m_state[f] \in {"INIT", "HOLD", "READY"}
  BY <1>0, FiberAssumption, Zenon DEF SwapInSwitch, Inv, ThreadInv, FiberInv
<1>2. \A u \in Threads : running[u] # f
  BY <1>0, <1>1, Zenon DEF SwapInSwitch, Inv, FiberInv, Engaged
<1>3. Status(f) \in {"fresh", "suspended"}
  BY <1>1, <1>2, Zenon DEF Status, Inv, FiberInv
<1>4. /\ running' = [running EXCEPT ![t] = f] /\ running'[t] = f
      /\ selfRef' = selfRef \cup {f} /\ alive' = alive /\ home' = home
      /\ \A g \in Fibers : g # f => m_state'[g] = m_state[g]
  <2>1. running' = [running EXCEPT ![t] = f] /\ selfRef' = selfRef \cup {f}
    BY <1>0, SwapInArrives
  <2>2. m_state' = [m_state EXCEPT ![f] = "EXEC"] /\ alive' = alive /\ home' = home
    BY <1>0, Zenon DEF SwapInSwitch, tally
  <2>3. QED
    BY <2>1, <2>2 DEF Inv, TypeOK, Objects
<1>5. Status(f)' = "running"
  BY <1>1, <1>4 DEF Status
<1>6. ASSUME NEW g \in Fibers, g # f PROVE Status(g)' = Status(g)
  <2>1. (\E u \in Threads : running'[u] = g) <=> (\E u \in Threads : running[u] = g)
    BY <1>1, <1>4, <1>6 DEF Inv, TypeOK
  <2>2. QED
    BY <1>4, <1>6, <2>1 DEF Status
<1>7. QED
  <2>1. C!Become(f, {"fresh", "suspended"}, "running")
    BY <1>3, <1>5, <1>6, Zenon DEF C!Become
  <2>2. C!Resume(t, f)
    BY <1>1, <1>4, <2>1, Zenon DEF C!Resume
  <2> QED  BY <1>0, <2>2, Zenon

\* A thread that leaves the stack of f for its own gives control back.
LEMMA GiveBackStep ==
  ASSUME Inv, Inv', NEW t \in Threads, NEW f \in Fibers, NEW to, running[t] = f,
         running' = [running EXCEPT ![t] = t], alive' = alive, home' = home,
         m_state' = m_state, m_state[f] # "INIT",
         \A g \in Fibers : g # f => (g \in selfRef' <=> g \in selfRef),
         to = IF f \in selfRef' THEN "suspended" ELSE "done"
  PROVE  C!GiveBack(t, f, to)
<1>1. /\ f \in alive /\ home[f] # None /\ t \notin Fibers
      /\ \A u \in Threads : running'[u] # f
  <2>1. FiberInv(f) /\ ThreadInv(t) /\ running \in [Threads -> Objects]
    BY DEF Inv, TypeOK
  <2>2. t \notin Fibers /\ f # t
    BY FiberAssumption
  <2>3. f \in alive /\ home[f] # None
    BY <2>1, Zenon DEF ThreadInv, Inside, FiberInv
  <2>4. \A u \in Threads : running[u] = f => u = t
    BY <2>1, Zenon DEF FiberInv, Engaged
  <2>5. QED
    BY <2>1, <2>2, <2>3, <2>4, Zenon
<1>2. Status(f) \in {"running"}
  BY <1>1, Zenon DEF Status
<1>3. Status(f)' = to
  BY <1>1 DEF Status
<1>4. ASSUME NEW g \in Fibers, g # f PROVE Status(g)' = Status(g)
  <2>1. (\E u \in Threads : running'[u] = g) <=> (\E u \in Threads : running[u] = g)
    BY <1>1, <1>4, Zenon DEF Inv, TypeOK
  <2>2. QED
    BY <1>4, <2>1 DEF Status
<1>5. C!Become(f, {"running"}, to)
  BY <1>2, <1>3, <1>4, BecomeStep
<1>6. QED
  BY ZenonT(30), <1>5 DEF C!GiveBack

\* SwapOut is a step of Coroutine or a stutter.
LEMMA SwapOutStep ==
  ASSUME Inv, NEW t \in Threads, SwapOut(t)
  PROVE  \E f \in Fibers : C!GiveBack(t, f, "suspended")
<1>1. PICK f \in Fibers : f = running[t]
  BY ZenonT(30) DEF SwapOut, Inv, ThreadInv
<1>2. /\ f \in Objects /\ t \in Objects /\ t \notin Fibers /\ t # Entry
      /\ arg[t] = f /\ m_state[f] \in {"HOLD", "READY"} /\ Inside(t, f)
  BY ZenonT(30), <1>1, FiberAssumption DEF SwapOut, Inv, ThreadInv, Objects
<1>3. /\ Jump(t, t, [m_ctx EXCEPT ![f] = f], [parked EXCEPT ![f] = f], selfRef)
      /\ [m_ctx EXCEPT ![f] = f][t] = t /\ [parked EXCEPT ![f] = f][t] = t
  BY <1>1, <1>2 DEF SwapOut, SwapContext, Inside, Inv, TypeOK
<1>4. running' = [running EXCEPT ![t] = t] /\ selfRef' = selfRef
  BY <1>2, <1>3, Zenon DEF Jump
<1>5. alive' = alive /\ home' = home /\ m_state' = m_state
  BY Zenon DEF SwapOut, tally
<1>6. f \in selfRef' /\ m_state[f] # "INIT" /\ Inv'
  BY <1>2, <1>4, SwapOutInv, Zenon DEF Inside
<1>7. QED
  BY ZenonT(30), <1>1, <1>4, <1>5, <1>6, GiveBackStep

\* The end of MainFunc, either way, is a GiveBack or a stutter.
LEMMA EndStep ==
  ASSUME Inv, NEW t \in Threads, MainFuncReturn(t) \/ MainFuncSwapOut(t)
  PROVE  \E f \in Fibers : C!GiveBack(t, f, "done")
<1>1. PICK f \in Fibers : f = running[t]
  BY ZenonT(30) DEF MainFuncReturn, MainFuncSwapOut, Inv, ThreadInv
<1>2. running' = [running EXCEPT ![t] = t] /\ selfRef' = selfRef \ {f}
  BY <1>1, EndArrives
<1>3. alive' = alive /\ home' = home /\ m_state' = m_state
  BY Zenon DEF MainFuncReturn, MainFuncSwapOut, tally
<1>4. m_state[f] # "INIT" /\ Inv'
  BY ZenonT(30), <1>1, EndInv DEF MainFuncReturn, MainFuncSwapOut, Inv, ThreadInv
<1>5. f \notin selfRef' /\ \A g \in Fibers : g # f => (g \in selfRef' <=> g \in selfRef)
  BY <1>2
<1>6. QED
  BY ZenonT(30), <1>1, <1>2, <1>3, <1>4, <1>5, GiveBackStep

\* The steps that the abstract coroutines do not see.
LEMMA InnerSteps ==
  ASSUME Disciplined, Inv, NEW t \in Threads,
         \/ GetThis(t) \/ KeepThis(t) \/ ThreadExit(t)
         \/ \E f \in Fibers : SwapIn(t, f)
         \/ \E s \in {"READY", "HOLD"} : Yield(t, s)
         \/ \E s \in {"TERM", "EXCEP"} : MainFunc(t, s)
  PROVE  UNCHANGED C!cvars
<1>0. t \in Objects /\ t \notin Fibers
  BY FiberAssumption DEF Objects
<1>1. CASE GetThis(t)
  BY <1>0, <1>1, Invisible, Zenon DEF GetThis, machine, Inv, TypeOK, Objects
<1>2. CASE KeepThis(t)
  BY ZenonT(30), <1>2, Invisible DEF KeepThis, tally, machine
<1>3. CASE ThreadExit(t)
  BY ZenonT(30), <1>0, <1>3, Invisible DEF ThreadExit
<1>4. CASE \E f \in Fibers : SwapIn(t, f)
  BY ZenonT(30), <1>4, Invisible DEF SwapIn, tally, machine
<1>5. CASE \E s \in {"READY", "HOLD"} : Yield(t, s)
  <2>1. t_fiber[t] = running[t] /\ running[t] \in Fibers
    <3>1. running[t] \in Fibers /\ pc[t] = "run"
      <4>1. PICK s \in {"READY", "HOLD"} : Yield(t, s)
        BY <1>5
      <4>2. "yieldMain" \notin Liberties
        BY DEF Disciplined
      <4>3. pc[t] = "run" /\ ("yieldMain" \notin Liberties => running[t] \in Fibers)
        BY ZenonT(30), <4>1 DEF Yield, Client
      <4>4. QED
        BY <4>2, <4>3, Zenon
    <3>2. ThreadInv(t)
      BY DEF Inv
    <3>3. t_threadFiber[t] # None
      BY <3>1, <3>2, FiberAssumption, Zenon DEF ThreadInv, Inside, AtHome
    <3>4. QED
      BY <3>1, <3>2, <3>3, Zenon DEF ThreadInv
  <2>2. QED
    BY <1>5, <2>1, Invisible, Zenon DEF Yield, tally, machine, Inv, TypeOK, Objects
<1>6. CASE \E s \in {"TERM", "EXCEP"} : MainFunc(t, s)
  BY <1>6, Invisible, Zenon DEF MainFunc, tally, machine, Inv, TypeOK, Objects
<1>7. QED
  BY <1>1, <1>2, <1>3, <1>4, <1>5, <1>6

\* Every step is a step of Coroutine or a stutter.
LEMMA NextCoroutine ==
  ASSUME Disciplined, Inv, [Next]_vars
  PROVE  [C!CNext]_(C!cvars)
<1>1. CASE UNCHANGED vars
  BY <1>1, Invisible DEF vars
<1>2. ASSUME NEW t \in Threads, NEW f \in Fibers, NewFiber(t, f) PROVE C!CNext
  BY <1>2, NewFiberStep DEF C!CNext
<1>3. ASSUME NEW t \in Threads, NEW f \in Fibers, Reset(t, f) PROVE C!CNext
  BY <1>3, ResetStep DEF C!CNext
<1>4. ASSUME NEW t \in Threads, NEW f \in Fibers, DropHandle(t, f)
      PROVE  C!CNext \/ UNCHANGED C!cvars
  BY <1>4, DropHandleStep DEF C!CNext
<1>5. ASSUME NEW t \in Threads, SwapInSwitch(t) PROVE C!CNext
  BY <1>5, SwapInSwitchStep DEF C!CNext
<1>6. ASSUME NEW t \in Threads, SwapOut(t) PROVE C!CNext
  BY <1>6, SwapOutStep DEF C!CNext
<1>7. ASSUME NEW t \in Threads, MainFuncReturn(t) \/ MainFuncSwapOut(t) PROVE C!CNext
  BY <1>7, EndStep DEF C!CNext
<1>8. QED
  BY <1>1, <1>2, <1>3, <1>4, <1>5, <1>6, <1>7, InnerSteps, NeverLastRef DEF Next

(***************************************************************************)
(* Fibers used with discipline implement coroutines: fiber.cc's contexts,  *)
(* thread-local pointers and reference counts give the clients the         *)
(* behaviour of module Coroutine and no other.                             *)
(***************************************************************************)
THEOREM Refinement ==
  ASSUME Disciplined
  PROVE  Spec => IsCoroutine
<1>1. Inv /\ [Next]_vars => [C!CNext]_(C!cvars)
  BY NextCoroutine
<1>2. QED
  BY InitCoroutine, <1>1, Invariance, PTL DEF Spec, IsCoroutine, C!CSpec

=============================================================================
