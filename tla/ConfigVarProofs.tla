--------------------------- MODULE ConfigVarProofs ---------------------------
(***************************************************************************)
(* ConfigVar: the notification loop is never disturbed, for any threads,   *)
(* variables and callbacks; and with one variable of the type, one setter  *)
(* and no callback that throws, keys find their listeners and listeners    *)
(* know the value.  And its toString() and fromString(): what is read is   *)
(* of the type, and what is printed is read back.                          *)
(***************************************************************************)
EXTENDS ConfigVar, LexicalCast, FiniteSetTheorems, TLAPS

\* What holds whatever the values are, of one type or of several.
Held == Shape /\ LockInv

Safe == TypeOK /\ LockInv

\* No lock is held in the initial states.
LEMMA QuietHeld == Quiet => Held
<1>1. Quiet => Shape
  BY ConfigVarAssumption DEF Quiet, Shape, NoReg, NoListener
<1>2. Quiet => LockInv
  BY DEF Quiet, LockInv, Adding
<1>3. QED
  BY <1>1, <1>2 DEF Held

\* SetValue takes the read lock.
LEMMA SetValueHeld ==
  ASSUME Held, NEW t \in Threads, NEW x \in Vars, NEW val, SetValue(t, x, val)
  PROVE  Held'
<1>1. Shape'
  BY ConfigVarAssumption DEF Held, Shape, SetValue, Call
<1>2. LockInv'
  BY ConfigVarAssumption DEF Held, Shape, LockInv, SetValue, Call, CanRead, Adding
<1>3. QED
  BY <1>1, <1>2 DEF Held

\* Notify leaves the locks as they are.
LEMMA NotifyHeld ==
  ASSUME Held, NEW t \in Threads, NEW k, pc[t] = "notify", Notify(t, k)
  PROVE  Held' /\ this[t] \in Vars /\ m_cbs[this[t]][k] \in Cbs
<1>0. this[t] \in Vars
  BY DEF Held, LockInv
<1>1. k \in Nat /\ m_cbs[this[t]][k] \in Cbs
  BY <1>0 DEF Held, Shape, Notify, IsNext, Ahead
<1>2. Shape'
  BY <1>0, <1>1 DEF Held, Shape, Notify, locks
<1>3. LockInv'
  BY DEF Held, LockInv, Notify, Adding, locks
<1>4. QED
  BY <1>0, <1>1, <1>2, <1>3 DEF Held

\* The two ways in which a setter leaves the loop, and its read lock.
LEMMA LeaveLoopHeld ==
  ASSUME Held, NEW t \in Threads, pc[t] = "notify",
         Notified(t) \/ \E k \in Ahead(t) : NotifyThrows(t, k)
  PROVE  Held' /\ UNCHANGED <<m_val, v, heard>> /\ \E q \in {"idle", "assign"} : pc' = [pc EXCEPT ![t] = q]
<1>0. this[t] \in Vars
  BY DEF Held, LockInv
<1>1. PICK q \in {"idle", "assign"} : pc' = [pc EXCEPT ![t] = q]
  BY DEF Notified, NotifyThrows
<1>2. /\ readers' = [readers EXCEPT ![this[t]] = @ \ {t}]
      /\ UNCHANGED <<m_val, m_cbs, writer, s_fun_id, calls, this, v, at, cb, id, reg, heard>>
  BY DEF Notified, NotifyThrows, locals
<1>3. Shape'
  BY <1>0, <1>1, <1>2 DEF Held, Shape
<1>4. LockInv'
  BY <1>0, <1>1, <1>2 DEF Held, Shape, LockInv, Adding
<1>5. QED
  BY <1>1, <1>2, <1>3, <1>4, Zenon DEF Held

\* Assign takes the write lock and leaves it, in one step.
LEMMA AssignHeld ==
  ASSUME Held, NEW t \in Threads, Assign(t)
  PROVE  Held' /\ this[t] \in Vars
<1>1. Shape'
  BY DEF Held, Shape, Assign, locks, locals
<1>2. LockInv'
  BY DEF Held, Shape, LockInv, Assign, locks, locals, Adding
<1>3. QED
  BY <1>1, <1>2 DEF Held, LockInv, Assign

\* AddListener takes the write lock.
LEMMA AddListenerHeld ==
  ASSUME Held, NEW t \in Threads, NEW x \in Vars, NEW c \in Cbs, AddListener(t, x, c)
  PROVE  Held'
<1>1. Shape'
  BY ConfigVarAssumption DEF Held, Shape, AddListener, Call
<1>2. LockInv'
  BY ConfigVarAssumption
  DEF Held, Shape, LockInv, AddListener, Call, CanWrite, Adding
<1>3. QED
  BY <1>1, <1>2 DEF Held

\* Increment leaves the locks as they are.
LEMMA IncrementHeld ==
  ASSUME Held, NEW t \in Threads, Increment(t)
  PROVE  Held'
<1>1. Shape'
  BY DEF Held, Shape, Increment, locks, locals
<1>2. LockInv'
  BY DEF Held, Shape, LockInv, Increment, locks, locals, Adding
<1>3. QED
  BY <1>1, <1>2 DEF Held

\* Store leaves the locks as they are.
LEMMA StoreHeld ==
  ASSUME Held, NEW t \in Threads, Store(t)
  PROVE  Held'
<1>0. this[t] \in Vars /\ cb[t] \in Cbs
  BY DEF Held, LockInv, Store, Adding
<1>1. \A y \in Vars : DOMAIN m_cbs'[y] \subseteq Nat /\ m_cbs'[y] \in [DOMAIN m_cbs'[y] -> Cbs]
  BY <1>0 DEF Held, Shape, Store
<1>2. Shape'
  BY <1>0, <1>1 DEF Held, Shape, Store, locks, locals
<1>3. LockInv'
  BY DEF Held, Shape, LockInv, Store, locks, locals, Adding
<1>4. QED
  BY <1>2, <1>3 DEF Held

\* AddReturn gives the write lock back.
LEMMA AddReturnHeld ==
  ASSUME Held, NEW t \in Threads, AddReturn(t)
  PROVE  Held'
<1>0. this[t] \in Vars /\ cb[t] \in Cbs /\ writer[this[t]] = t
  BY DEF Held, LockInv, AddReturn, Adding
<1>1. Shape'
  BY <1>0 DEF Held, Shape, AddReturn
<1>2. LockInv'
  BY <1>0, ConfigVarAssumption DEF Held, Shape, LockInv, AddReturn, Adding
<1>3. QED
  BY <1>1, <1>2 DEF Held

\* The two ways in which listeners are removed, under the write lock.
LEMMA RemoveHeld ==
  ASSUME Held, NEW t \in Threads,
         \/ \E c \in Cbs : DelListener(t, c)
         \/ \E x \in Vars : ClearListener(t, x)
  PROVE  Held' /\ UNCHANGED <<m_val, v, heard, pc>>
<1>1. /\ calls' = [calls EXCEPT ![t] = @ + 1] /\ calls[t] < MaxCalls
      /\ UNCHANGED <<m_val, readers, writer, s_fun_id, pc, this, v, at, cb, id, heard>>
  BY ZenonT(30) DEF DelListener, ClearListener, Call, locks, locals
<1>2. /\ DOMAIN m_cbs' = Vars
      /\ \A y \in Vars : DOMAIN m_cbs'[y] \subseteq Nat /\ m_cbs'[y] \in [DOMAIN m_cbs'[y] -> Cbs]
      /\ reg' \in [Cbs -> [var : Vars \cup {None}, key : Nat]]
  <2>1. CASE \E c \in Cbs : DelListener(t, c)
    <3>1. PICK c \in Cbs : DelListener(t, c)
      BY <2>1
    <3>2. /\ m_cbs' = [m_cbs EXCEPT ![reg[c].var] = Restrict(@, DOMAIN @ \ {reg[c].key})]
          /\ reg' = [reg EXCEPT ![c] = NoReg]
      BY ZenonT(30), <3>1 DEF DelListener
    <3>3. reg' \in [Cbs -> [var : Vars \cup {None}, key : Nat]]
      BY <3>2 DEF Held, Shape, NoReg
    <3>4. QED
      BY <3>2, <3>3 DEF Held, Shape, Restrict
  <2>2. CASE \E x \in Vars : ClearListener(t, x)
    BY <2>2 DEF Held, Shape, ClearListener, NoListener, NoReg
  <2>3. QED
    BY <2>1, <2>2
<1>3. Shape'
  BY <1>1, <1>2, ConfigVarAssumption DEF Held, Shape
<1>4. LockInv'
  BY <1>1 DEF Held, LockInv, Adding
<1>5. QED
  BY <1>1, <1>3, <1>4 DEF Held

\* What a thread does to go on with a call keeps the locks in order.
LEMMA StepHeld ==
  ASSUME Held, NEW t \in Threads, Step(t)
  PROVE  Held'
BY NotifyHeld, LeaveLoopHeld, AssignHeld, IncrementHeld, StoreHeld, AddReturnHeld DEF Step, Notified

\* A step that leaves ConfigVar alone leaves its locks alone.
LEMMA SameHeld ==
  ASSUME Held, UNCHANGED vars
  PROVE  Held'
BY DEF vars, locks, locals, Held, Shape, LockInv, Adding

\* A thread that is adding a listener holds the write lock; one in the loop, the read lock.
LEMMA Holds ==
  ASSUME Held, NEW t \in Threads
  PROVE  /\ Adding(t) => this[t] \in Vars /\ cb[t] \in Cbs /\ writer[this[t]] = t /\ readers[this[t]] = {}
         /\ pc[t] = "notify" => this[t] \in Vars /\ t \in readers[this[t]] /\ writer[this[t]] = None
<1>1. Adding(t) => pc[t] # "idle" /\ t # None
  BY ConfigVarAssumption DEF Adding
<1>2. QED
  BY <1>1 DEF Held, LockInv

-----------------------------------------------------------------------------
(* The values of one type *)

\* The initial states satisfy the types and the locks.
LEMMA InitSafe == Init => Safe
BY QuietHeld DEF Init, Quiet, Held, Safe, TypeOK

\* What a thread does to go on with a call keeps the types and the locks in order.
LEMMA StepSafe ==
  ASSUME Safe, NEW t \in Threads, Step(t)
  PROVE  Safe'
<1>0. Held /\ Held' /\ (pc[t] \in {"notify", "assign"} => v[t] \in Values)
  BY StepHeld DEF Safe, TypeOK, Held
<1>1. ASSUME NEW k \in Ahead(t), pc[t] = "notify", Notify(t, k) PROVE Safe'
  <2>1. this[t] \in Vars /\ m_cbs[this[t]][k] \in Cbs
    BY <1>0, <1>1, NotifyHeld
  <2>2. QED
    BY <1>0, <1>1, <2>1 DEF Safe, TypeOK, Held, Notify, locks
<1>2. ASSUME pc[t] = "notify", Notified(t) \/ \E k \in Ahead(t) : NotifyThrows(t, k) PROVE Safe'
  <2>1. UNCHANGED <<m_val, v, heard>> /\ \E q \in {"idle", "assign"} : pc' = [pc EXCEPT ![t] = q]
    BY <1>0, <1>2, LeaveLoopHeld
  <2>2. QED
    BY <1>0, <1>2, <2>1 DEF Safe, TypeOK, Held, Shape
<1>3. CASE Assign(t)
  BY <1>0, <1>3, AssignHeld, Zenon DEF Safe, TypeOK, Held, Shape, Assign, locals
<1>4. CASE Increment(t) \/ Store(t) \/ AddReturn(t)
  <2>1. UNCHANGED <<m_val, v, heard>> /\ \E q \in {"store", "return", "idle"} : pc' = [pc EXCEPT ![t] = q]
    BY <1>4 DEF Increment, Store, AddReturn, locals
  <2>2. QED
    BY <1>0, <2>1 DEF Safe, TypeOK, Held, Shape
<1>5. QED
  BY <1>1, <1>2, <1>3, <1>4 DEF Step, Notified

\* Every step preserves the types and the locks.
LEMMA NextSafe == Safe /\ [Next]_vars => Safe'
<1> SUFFICES ASSUME Safe, [Next]_vars PROVE Safe'
  OBVIOUS
<1>0. Held
  BY DEF Safe, TypeOK, Held
<1>1. CASE UNCHANGED vars
  <2>1. Held' /\ UNCHANGED <<m_val, v, heard, pc>>
    BY <1>0, <1>1, SameHeld DEF vars, locals
  <2>2. QED
    BY <2>1 DEF Safe, TypeOK, Held
<1>2. ASSUME NEW t \in Threads, NEW x \in Vars, NEW val \in Values, SetValue(t, x, val) PROVE Safe'
  <2>1. Held'
    BY <1>0, <1>2, SetValueHeld, Zenon
  <2>2. m_val' = m_val /\ heard' = heard /\ v' = [v EXCEPT ![t] = val] /\ pc' = [pc EXCEPT ![t] = "notify"]
    BY <1>2, Zenon DEF SetValue
  <2>3. v' \in [Threads -> Values \cup {None}]
    BY <2>2, Zenon DEF Safe, TypeOK
  <2>4. \A u \in Threads : pc'[u] \in {"notify", "assign"} => v'[u] \in Values
    BY <2>2, Zenon DEF Safe, TypeOK, Shape
  <2> QED  BY <2>1, <2>2, <2>3, <2>4, Zenon DEF Safe, TypeOK, Held
<1>3. ASSUME NEW t \in Threads, NEW x \in Vars, NEW c \in Cbs, AddListener(t, x, c) PROVE Safe'
  BY <1>0, <1>3, AddListenerHeld, Zenon DEF Safe, TypeOK, Held, Shape, AddListener
<1>4. ASSUME NEW t \in Threads, (\E c \in Cbs : DelListener(t, c)) \/ \E x \in Vars : ClearListener(t, x)
      PROVE  Safe'
  BY <1>0, <1>4, RemoveHeld DEF Safe, TypeOK, Held
<1>5. QED
  BY <1>1, <1>2, <1>3, <1>4, StepSafe DEF Next

\* The variables of ConfigVar keep their types and its locks exclude each other.
THEOREM SafeInvariant == Spec => []Safe
BY InitSafe, NextSafe, PTL DEF Spec

\* Every variable of ConfigVar keeps its type.
THEOREM TypeCorrect == Spec => []TypeOK
<1>1. Safe => TypeOK
  BY DEF Safe
<1>2. QED
  BY <1>1, SafeInvariant, PTL

-----------------------------------------------------------------------------
(* The notification loop *)

\* No step changes the value or the listeners of a variable inside its loop.
LEMMA NextLoop ==
  ASSUME Safe, Next, NEW t \in Threads, pc[t] = "notify"
  PROVE  m_val'[this[t]] = m_val[this[t]] /\ m_cbs'[this[t]] = m_cbs[this[t]]
<1>0. this[t] \in Vars /\ t \in readers[this[t]] /\ writer[this[t]] = None
  BY DEF Safe, LockInv
<1>1. ASSUME NEW u \in Threads, Assign(u) PROVE m_val'[this[t]] = m_val[this[t]]
  BY <1>0, <1>1 DEF Assign, CanWrite, Safe, TypeOK
<1>2. ASSUME NEW u \in Threads, Store(u) PROVE m_cbs'[this[t]] = m_cbs[this[t]]
  <2>1. writer[this[u]] = u /\ u # None
    BY <1>2, ConfigVarAssumption DEF Store, Safe, LockInv, Adding
  <2>2. QED
    BY <1>0, <1>2, <2>1 DEF Store, Safe, TypeOK
<1>3. ASSUME NEW u \in Threads, NEW c \in Cbs, DelListener(u, c)
      PROVE  m_cbs'[this[t]] = m_cbs[this[t]]
  BY <1>0, <1>3 DEF DelListener, CanWrite, Safe, TypeOK
<1>4. ASSUME NEW u \in Threads, NEW x \in Vars, ClearListener(u, x)
      PROVE  m_cbs'[this[t]] = m_cbs[this[t]]
  BY <1>0, <1>4 DEF ClearListener, CanWrite, Safe, TypeOK
<1>5. m_val'[this[t]] = m_val[this[t]]
  BY ZenonT(30), <1>1
  DEF Next, Step, Notify, NotifyThrows, Notified, Increment, Store, AddReturn,
      SetValue, AddListener, DelListener, ClearListener
<1>6. m_cbs'[this[t]] = m_cbs[this[t]]
  BY <1>2, <1>3, <1>4, Zenon
  DEF Next, Step, Notify, NotifyThrows, Notified, Assign, Increment, AddReturn,
      SetValue, AddListener
<1>7. QED
  BY <1>5, <1>6

(***************************************************************************)
(* setValue's loop (config.h:317) runs over a map and beside a value that  *)
(* nobody changes, whatever the other threads call and on however many     *)
(* variables.                                                              *)
(***************************************************************************)
THEOREM LoopSafe == Spec => LoopUndisturbed
<1> DEFINE Kept == \A t \in Threads : pc[t] = "notify" =>
                     /\ m_val'[this[t]] = m_val[this[t]]
                     /\ m_cbs'[this[t]] = m_cbs[this[t]]
<1>1. Safe /\ [Next]_vars => [Kept]_vars
  BY NextLoop
<1>2. QED
  BY <1>1, SafeInvariant, PTL DEF Spec, LoopUndisturbed

-----------------------------------------------------------------------------
(* Keys, and what the listeners heard *)

InStep == Safe /\ KeyInv /\ SyncInv

\* The parts of the invariant of one variable with one setter.
LEMMA InStepParts ==
  ASSUME InStep
  PROVE  /\ Held /\ Shape /\ LockInv /\ KeysGiven /\ KeysTaken /\ KeyFindsListener /\ SyncInv
         /\ DOMAIN pc = Threads /\ DOMAIN this = Threads /\ DOMAIN at = Threads /\ DOMAIN cb = Threads
         /\ DOMAIN v = Threads /\ DOMAIN id = Threads
         /\ DOMAIN reg = Cbs /\ DOMAIN heard = Cbs /\ DOMAIN m_cbs = Vars /\ DOMAIN m_val = Vars
<1>1. Held /\ Shape /\ LockInv /\ KeysGiven /\ KeysTaken /\ KeyFindsListener /\ SyncInv
  BY DEF InStep, Safe, TypeOK, Held, KeyInv
<1>2. /\ DOMAIN pc = Threads /\ DOMAIN this = Threads /\ DOMAIN at = Threads /\ DOMAIN cb = Threads
      /\ DOMAIN id = Threads /\ DOMAIN reg = Cbs /\ DOMAIN m_cbs = Vars
  BY <1>1 DEF Shape
<1>3. DOMAIN v = Threads /\ DOMAIN heard = Cbs /\ DOMAIN m_val = Vars
  BY DEF InStep, Safe, TypeOK
<1>4. QED
  BY <1>1, <1>2, <1>3

\* The types of what m_cbs holds.
LEMMA KeyTypes ==
  ASSUME Shape, NEW x \in Vars, NEW k \in DOMAIN m_cbs[x]
  PROVE  k \in Nat /\ m_cbs[x][k] \in Cbs
BY DEF Shape

\* With one variable, one thread at a time is adding a listener; with one setter,
\* one thread is in setValue.
LEMMA Alone ==
  ASSUME Sole, Held, NEW t \in Threads, NEW u \in Threads
  PROVE  /\ Adding(t) /\ Adding(u) => t = u
         /\ Adding(t) => pc[u] # "notify"
         /\ pc[t] \in {"notify", "assign"} /\ pc[u] \in {"notify", "assign"} => t = u
<1>1. Adding(t) /\ Adding(u) => t = u
  BY Holds DEF Sole
<1>2. Adding(t) => pc[u] # "notify"
  BY Holds DEF Sole
<1>3. pc[t] \in {"notify", "assign"} /\ pc[u] \in {"notify", "assign"} => t = u
  BY DEF Sole, Held, LockInv
<1>4. QED
  BY <1>1, <1>2, <1>3

\* The keys given out stay while threads about to return stay so.
LEMMA GivenUntouched ==
  ASSUME KeysGiven, m_cbs' = m_cbs, reg' = reg, s_fun_id' = s_fun_id, cb' = cb,
         \A u \in Threads : pc[u] = "return" => pc'[u] = "return"
  PROVE  KeysGiven'
<1> SUFFICES ASSUME NEW x \in Vars, NEW k \in DOMAIN m_cbs'[x]
             PROVE  /\ 0 < k /\ k <= s_fun_id'
                    /\ \/ reg'[m_cbs'[x][k]] = [var |-> x, key |-> k]
                       \/ \E u \in Threads : pc'[u] = "return" /\ cb'[u] = m_cbs'[x][k] /\ k = s_fun_id'
  BY Zenon DEF KeysGiven
<1>1. 0 < k /\ k <= s_fun_id
  BY Zenon DEF KeysGiven
<1>2. CASE reg[m_cbs[x][k]] = [var |-> x, key |-> k]
  BY <1>1, <1>2
<1>3. ASSUME NEW u \in Threads, pc[u] = "return", cb[u] = m_cbs[x][k], k = s_fun_id
      PROVE  \E w \in Threads : pc'[w] = "return" /\ cb[w] = m_cbs[x][k] /\ k = s_fun_id
  BY <1>3
<1>4. QED
  BY <1>1, <1>2, <1>3 DEF KeysGiven

\* A step of a thread that adds no listener leaves the keys as they are.
LEMMA KeysUntouched ==
  ASSUME NEW w \in Threads, KeysGiven, KeysTaken, KeyFindsListener,
         UNCHANGED <<m_cbs, reg, s_fun_id, cb, id>>, ~Adding(w), ~Adding(w)',
         \A u \in Threads \ {w} : pc'[u] = pc[u] /\ this'[u] = this[u],
         \A u \in Threads : Adding(u) => heard'[cb[u]] = heard[cb[u]]
  PROVE  KeyInv'
<1>1. \A u \in Threads : Adding(u) => u # w /\ pc'[u] = pc[u] /\ this'[u] = this[u]
  OBVIOUS
<1>2. \A u \in Threads : Adding(u)' => Adding(u)
  BY DEF Adding
<1>3. \A u \in Threads : pc[u] = "return" => pc'[u] = "return"
  BY <1>1 DEF Adding
<1>4. KeysGiven'
  BY <1>3, GivenUntouched
<1>5. KeysTaken'
  BY <1>1, <1>2 DEF KeysTaken
<1>6. KeyFindsListener'
  BY DEF KeyFindsListener
<1>7. QED
  BY <1>4, <1>5, <1>6 DEF KeyInv

\* A step that leaves the setters, the values and the listeners that remain as they
\* are keeps what was heard in step.
LEMMA SyncUntouched ==
  ASSUME SyncInv, UNCHANGED <<m_val, v, at>>,
         \A u \in Threads : /\ pc'[u] = "notify" <=> pc[u] = "notify"
                            /\ pc'[u] = "assign" <=> pc[u] = "assign"
                            /\ pc[u] \in {"notify", "assign"} => this'[u] = this[u],
         \A x \in Vars : \A k \in DOMAIN m_cbs'[x] :
           k \in DOMAIN m_cbs[x] /\ heard'[m_cbs'[x][k]] = heard[m_cbs[x][k]]
  PROVE  SyncInv'
<1>1. \A u \in Threads, x \in Vars : Setting(u, x)' <=> Setting(u, x)
  BY DEF Setting
<1>2. ASSUME NEW x \in Vars, NEW k \in DOMAIN m_cbs'[x]
      PROVE  LET h == heard[m_cbs[x][k]] IN
             /\ (\A u \in Threads : ~Setting(u, x)) => h \in {None, m_val[x]}
             /\ \A u \in Threads :
                  /\ pc[u] = "notify" /\ k <= at[u] => h = v[u]
                  /\ pc[u] = "notify" /\ k > at[u] => h \in {None, m_val[x]}
                  /\ pc[u] = "assign" => h \in {None, v[u]}
  <2>1. k \in DOMAIN m_cbs[x]
    BY Zenon
  <2>2. QED
    BY <2>1, Zenon DEF SyncInv
<1>3. QED
  BY <1>1, <1>2 DEF SyncInv

\* The initial states satisfy the invariant of one variable with one setter.
LEMMA InitInStep == Init => InStep
<1> SUFFICES ASSUME Init PROVE InStep
  OBVIOUS
<1>1. /\ \A x \in Vars : DOMAIN m_cbs[x] = {}
      /\ \A t \in Threads : pc[t] = "idle"
      /\ \A c \in Cbs : reg[c].var = None
  BY DEF Init, Quiet, NoListener, NoReg
<1>2. KeyInv /\ SyncInv
  BY <1>1 DEF KeyInv, KeysGiven, KeysTaken, KeyFindsListener, SyncInv, Adding
<1>3. QED
  BY <1>2, InitSafe DEF InStep

\* SetValue preserves the invariant of one variable with one setter.
LEMMA SetValueInStep ==
  ASSUME Sole, InStep, NEW t \in Threads, NEW x \in Vars, NEW val \in Values, SetValue(t, x, val)
  PROVE  KeyInv' /\ SyncInv'
<1>0. /\ pc[t] = "idle" /\ pc' = [pc EXCEPT ![t] = "notify"] /\ this' = [this EXCEPT ![t] = x]
      /\ v' = [v EXCEPT ![t] = val] /\ at' = [at EXCEPT ![t] = 0] /\ t \in Setters
      /\ UNCHANGED <<m_val, m_cbs, s_fun_id, cb, id, reg, heard>>
  BY DEF SetValue, Call
<1>a. /\ pc'[t] = "notify" /\ at'[t] = 0
      /\ \A u \in Threads \ {t} : pc'[u] = pc[u] /\ this'[u] = this[u]
  BY <1>0, InStepParts, Zenon
<1>1. KeyInv'
  <2>1. ~Adding(t) /\ ~Adding(t)'
    BY <1>0, <1>a DEF Adding
  <2>2. QED
    BY <1>0, <1>a, <2>1, InStepParts, KeysUntouched, Zenon
<1>2. \A u \in Threads : pc[u] \notin {"notify", "assign"}
  BY <1>0, InStepParts DEF Sole, LockInv
<1>3. ASSUME NEW y \in Vars, NEW k \in DOMAIN m_cbs[y]
      PROVE  heard[m_cbs[y][k]] \in {None, m_val[y]} /\ k \in Nat /\ k > 0
  <2>1. k \in Nat /\ k > 0
    BY InStepParts, KeyTypes, Zenon DEF KeysGiven
  <2>2. \A u \in Threads : ~Setting(u, y)
    BY <1>2 DEF Setting
  <2>3. QED
    BY <2>1, <2>2, InStepParts DEF SyncInv
<1>4. \A u \in Threads : pc'[u] # "assign" /\ (pc'[u] = "notify" => u = t)
  BY <1>2, <1>a
<1>5. \A k \in Nat : k > 0 => ~(k <= at'[t])
  BY <1>a
<1>6. SyncInv'
  BY <1>0, <1>3, <1>4, <1>5, Zenon DEF SyncInv
<1>7. QED
  BY <1>1, <1>6

\* With one variable, each key in m_cbs has a callback of its own.
LEMMA OneKey ==
  ASSUME InStep, NEW x \in Vars, NEW j \in DOMAIN m_cbs[x], NEW k \in DOMAIN m_cbs[x],
         m_cbs[x][j] = m_cbs[x][k]
  PROVE  j = k
<1>1. CASE reg[m_cbs[x][j]] = [var |-> x, key |-> j] /\ reg[m_cbs[x][k]] = [var |-> x, key |-> k]
  <2>1. \A a, b : [var |-> x, key |-> a] = [var |-> x, key |-> b] => a = b
    OBVIOUS
  <2>2. QED
    BY <1>1, <2>1, Zenon
<1>2. ASSUME NEW l \in DOMAIN m_cbs[x], reg[m_cbs[x][l]] = [var |-> x, key |-> l],
             NEW t \in Threads, pc[t] = "return", cb[t] = m_cbs[x][l]
      PROVE  FALSE
  <2>1. reg[cb[t]] = NoReg
    BY <1>2, InStepParts DEF KeysTaken, Adding
  <2>2. QED
    BY <1>2, <2>1, ConfigVarAssumption DEF NoReg
<1>3. QED
  BY <1>1, <1>2, InStepParts DEF KeysGiven

\* Notify preserves the invariant of one variable with one setter.
LEMMA NotifyInStep ==
  ASSUME Sole, InStep, NEW t \in Threads, NEW k \in Ahead(t), pc[t] = "notify", Notify(t, k)
  PROVE  KeyInv' /\ SyncInv'
<1> DEFINE x == this[t]
           c == m_cbs[x][k]
<1>0. x \in Vars /\ k \in DOMAIN m_cbs[x] /\ at[t] \in Nat
  BY InStepParts, Holds DEF Ahead, Shape
<1>1. /\ c \in Cbs /\ k \in Nat /\ k > at[t]
      /\ \A j \in DOMAIN m_cbs[x] : j \in Nat /\ (j > at[t] => k <= j)
  BY <1>0, InStepParts, KeyTypes, Zenon DEF Notify, IsNext, Ahead
<1>2. /\ heard' = [heard EXCEPT ![c] = v[t]] /\ at' = [at EXCEPT ![t] = k]
      /\ UNCHANGED <<m_val, m_cbs, s_fun_id, pc, this, v, cb, id, reg>>
  BY DEF Notify
<1>3. KeyInv'
  <2>1. \A u \in Threads : ~Adding(u) /\ ~Adding(u)'
    BY <1>2, InStepParts, Alone DEF Adding
  <2>2. QED
    BY <1>2, <2>1, InStepParts, KeysUntouched
<1>4. ASSUME NEW j \in DOMAIN m_cbs[x]
      PROVE  heard'[m_cbs[x][j]] = IF j = k THEN v[t] ELSE heard[m_cbs[x][j]]
  <2>1. m_cbs[x][j] = c => j = k
    BY <1>0, OneKey
  <2>2. QED
    BY <1>0, <1>1, <1>2, <2>1, InStepParts, KeyTypes
<1>5. \A u \in Threads : pc[u] \in {"notify", "assign"} => u = t
  BY InStepParts, Alone
<1>6. SyncInv'
  <2> SUFFICES ASSUME NEW y \in Vars, NEW j \in DOMAIN m_cbs[y]
               PROVE  /\ (\A u \in Threads : ~Setting(u, y)) =>
                           heard'[m_cbs[y][j]] \in {None, m_val[y]}
                      /\ \A u \in Threads :
                           /\ pc[u] = "notify" /\ j <= at'[u] => heard'[m_cbs[y][j]] = v[u]
                           /\ pc[u] = "notify" /\ j > at'[u] =>
                                heard'[m_cbs[y][j]] \in {None, m_val[y]}
                           /\ pc[u] = "assign" => heard'[m_cbs[y][j]] \in {None, v[u]}
    <3>1. m_val' = m_val /\ m_cbs' = m_cbs /\ pc' = pc /\ this' = this /\ v' = v
      BY <1>2, Zenon
    <3>2. \A u \in Threads, y \in Vars : Setting(u, y)' <=> Setting(u, y)
      BY <3>1 DEF Setting
    <3>3. QED
      BY <3>1, <3>2 DEF SyncInv
  <2>1. y = x /\ Setting(t, y) /\ at'[t] = k
    BY <1>0, <1>2, InStepParts DEF Sole, Setting
  <2>2. CASE j = k
    <3>1. heard'[m_cbs[y][j]] = v[t] /\ ~(j > at'[t])
      BY <1>1, <1>4, <2>1, <2>2
    <3>2. QED
      BY <1>5, <2>1, <3>1
  <2>3. CASE j # k
    <3>1. (j <= k <=> j <= at[t]) /\ (j > k <=> j > at[t])
      BY <1>0, <1>1, <2>1, <2>3
    <3>2. heard'[m_cbs[y][j]] = heard[m_cbs[y][j]]
      BY <1>4, <2>1, <2>3, Zenon
    <3>3. /\ j <= at[t] => heard[m_cbs[y][j]] = v[t]
          /\ j > at[t] => heard[m_cbs[y][j]] \in {None, m_val[y]}
      <4>1. SyncInv
        BY Zenon DEF InStep
      <4> QED  BY <4>1, Zenon DEF SyncInv
    <3>4. QED
      BY <1>5, <2>1, <3>1, <3>2, <3>3, Zenon
  <2>4. QED
    BY <2>2, <2>3, Zenon
<1>7. QED
  BY <1>3, <1>6

\* Notified preserves the invariant of one variable with one setter.
LEMMA NotifiedInStep ==
  ASSUME Sole, InStep, NEW t \in Threads, Notified(t)
  PROVE  KeyInv' /\ SyncInv'
<1>0. /\ pc[t] = "notify" /\ pc' = [pc EXCEPT ![t] = "assign"]
      /\ UNCHANGED <<m_val, m_cbs, s_fun_id, this, v, at, cb, id, reg, heard>>
  BY Zenon DEF Notified, locals
<1>a. pc'[t] = "assign" /\ \A u \in Threads \ {t} : pc'[u] = pc[u]
  BY <1>0, InStepParts
<1>1. /\ this[t] \in Vars /\ at[t] \in Nat
      /\ \A j \in DOMAIN m_cbs[this[t]] : j \in Nat /\ j <= at[t]
  <2>1. this[t] \in Vars /\ at[t] \in Nat
    BY <1>0, InStepParts, Holds DEF Shape
  <2>2. \A j \in DOMAIN m_cbs[this[t]] : ~(j > at[t])
    BY DEF Notified, Ahead
  <2>3. \A j \in DOMAIN m_cbs[this[t]] : j \in Nat
    BY <2>1, InStepParts, KeyTypes
  <2>4. QED
    BY <2>1, <2>2, <2>3
<1>2. KeyInv'
  <2>1. ~Adding(t) /\ ~Adding(t)'
    BY <1>0, <1>a DEF Adding
  <2>2. QED
    BY <1>0, <1>a, <2>1, InStepParts, KeysUntouched
<1>3. \A u \in Threads : pc[u] \in {"notify", "assign"} => u = t
  BY <1>0, InStepParts, Alone
<1>4. ASSUME NEW x \in Vars, NEW k \in DOMAIN m_cbs[x] PROVE heard[m_cbs[x][k]] = v[t] /\ Setting(t, x)'
  <2>1. x = this[t]
    BY <1>1 DEF Sole
  <2>2. QED
    BY <1>0, <1>1, <1>a, <2>1, InStepParts DEF SyncInv, Setting
<1>5. \A u \in Threads : pc'[u] # "notify" /\ (pc'[u] = "assign" => u = t)
  BY <1>3, <1>a
<1>6. SyncInv'
  BY <1>0, <1>4, <1>5, Zenon DEF SyncInv
<1>7. QED
  BY <1>2, <1>6

\* Assign preserves the invariant of one variable with one setter.
LEMMA AssignInStep ==
  ASSUME Sole, InStep, NEW t \in Threads, Assign(t)
  PROVE  KeyInv' /\ SyncInv'
<1>0. /\ pc[t] = "assign" /\ pc' = [pc EXCEPT ![t] = "idle"] /\ m_val' = [m_val EXCEPT ![this[t]] = v[t]]
      /\ UNCHANGED <<m_cbs, s_fun_id, this, v, at, cb, id, reg, heard>>
  BY Zenon DEF Assign, locals
<1>a. pc'[t] = "idle" /\ \A u \in Threads \ {t} : pc'[u] = pc[u]
  BY <1>0, InStepParts
<1>1. this[t] \in Vars /\ \A x \in Vars : m_val'[x] = v[t]
  BY <1>0, InStepParts DEF LockInv, Sole
<1>2. KeyInv'
  <2>1. ~Adding(t) /\ ~Adding(t)'
    BY <1>0, <1>a DEF Adding
  <2>2. QED
    BY <1>0, <1>a, <2>1, InStepParts, KeysUntouched
<1>3. \A u \in Threads : pc'[u] \notin {"notify", "assign"}
  BY <1>0, <1>a, InStepParts, Alone
<1>4. \A x \in Vars : \A k \in DOMAIN m_cbs[x] : heard[m_cbs[x][k]] \in {None, v[t]}
  BY <1>0, InStepParts DEF SyncInv
<1>5. SyncInv'
  BY <1>0, <1>1, <1>3, <1>4, Zenon DEF SyncInv
<1>6. QED
  BY <1>2, <1>5

\* AddListener preserves the invariant of one variable with one setter.
LEMMA AddListenerInStep ==
  ASSUME Sole, InStep, NEW t \in Threads, NEW x \in Vars, NEW c \in Cbs, AddListener(t, x, c)
  PROVE  KeyInv' /\ SyncInv'
<1>0. /\ pc[t] = "idle" /\ reg[c] = NoReg /\ writer[x] = None
      /\ pc' = [pc EXCEPT ![t] = "inc"] /\ heard' = [heard EXCEPT ![c] = None]
      /\ this' = [this EXCEPT ![t] = x] /\ cb' = [cb EXCEPT ![t] = c] /\ id' = [id EXCEPT ![t] = s_fun_id]
      /\ UNCHANGED <<m_val, m_cbs, s_fun_id, v, at, reg>>
  BY Zenon DEF AddListener, Call, Free, CanWrite
<1>a. /\ pc'[t] = "inc" /\ cb'[t] = c /\ id'[t] = s_fun_id /\ heard'[c] = None
      /\ \A u \in Threads \ {t} : pc'[u] = pc[u] /\ this'[u] = this[u]
      /\ \A d \in Cbs : d # c => heard'[d] = heard[d]
  BY <1>0, InStepParts
<1>1. \A u \in Threads : ~Adding(u)
  <2>1. \A u \in Threads : u # None
    BY ConfigVarAssumption
  <2>2. QED
    BY <1>0, <2>1, InStepParts, Holds DEF Sole
<1>2. \A y \in Vars : \A k \in DOMAIN m_cbs[y] : reg[m_cbs[y][k]] = [var |-> y, key |-> k]
  BY <1>1, InStepParts, Zenon DEF KeysGiven, Adding
<1>3. ASSUME NEW y \in Vars, NEW k \in DOMAIN m_cbs[y], m_cbs[y][k] = c PROVE FALSE
  <2>1. reg[c] = [var |-> y, key |-> k]
    BY <1>2, <1>3, Zenon
  <2>2. [var |-> y, key |-> k].var = y
    BY Zenon
  <2>3. NoReg.var \notin Vars
    BY ConfigVarAssumption, Zenon DEF NoReg
  <2>4. QED
    BY <1>0, <2>1, <2>2, <2>3, Zenon
<1>4. KeyInv'
  <2>1. KeysGiven'
    BY <1>0, <1>2, InStepParts, Zenon DEF KeysGiven
  <2>2. \A u \in Threads : Adding(u)' => u = t
    BY <1>1, <1>a DEF Adding
  <2>3. KeysTaken'
    BY <1>0, <1>a, <2>2, Zenon DEF KeysTaken
  <2>4. KeyFindsListener'
    BY <1>0, InStepParts, Zenon DEF KeyFindsListener
  <2>5. QED
    BY <2>1, <2>3, <2>4 DEF KeyInv
<1>5. SyncInv'
  <2>1. \A y \in Vars : \A k \in DOMAIN m_cbs'[y] :
          k \in DOMAIN m_cbs[y] /\ heard'[m_cbs'[y][k]] = heard[m_cbs[y][k]]
    BY <1>0, <1>3, <1>a, InStepParts, KeyTypes, Zenon
  <2>2. \A u \in Threads : /\ pc'[u] = "notify" <=> pc[u] = "notify"
                           /\ pc'[u] = "assign" <=> pc[u] = "assign"
                           /\ pc[u] \in {"notify", "assign"} => this'[u] = this[u]
    BY <1>0, <1>a
  <2>3. QED
    BY <1>0, <2>1, <2>2, InStepParts, SyncUntouched, Zenon
<1>6. QED
  BY <1>4, <1>5

\* With no thread about to return from addListener, every key in m_cbs is registered.
LEMMA AllRegistered ==
  ASSUME KeysGiven, NEW x \in Vars, NEW k \in DOMAIN m_cbs[x],
         \A u \in Threads : pc[u] = "return" => cb[u] # m_cbs[x][k] \/ k # s_fun_id
  PROVE  0 < k /\ k <= s_fun_id /\ reg[m_cbs[x][k]] = [var |-> x, key |-> k]
BY DEF KeysGiven

\* Increment preserves the invariant of one variable with one setter.
LEMMA IncrementInStep ==
  ASSUME Sole, InStep, NEW t \in Threads, Increment(t)
  PROVE  KeyInv' /\ SyncInv'
<1>0. /\ pc[t] = "inc" /\ pc' = [pc EXCEPT ![t] = "store"] /\ s_fun_id' = id[t] + 1
      /\ UNCHANGED <<m_val, m_cbs, this, v, at, cb, id, reg, heard>>
  BY DEF Increment, locals
<1>a. pc'[t] = "store" /\ \A u \in Threads \ {t} : pc'[u] = pc[u]
  BY <1>0, InStepParts
<1>b. Adding(t)
  BY <1>0 DEF Adding
<1>1. \A u \in Threads : u # t => ~Adding(u)
  BY <1>b, InStepParts, Alone
<1>2. /\ id[t] = s_fun_id /\ s_fun_id \in Nat /\ reg[cb[t]] = NoReg /\ heard[cb[t]] = None
      /\ this[t] \in Vars
  <2>1. s_fun_id \in Nat /\ this[t] \in Vars
    BY <1>b, InStepParts, Holds DEF Shape
  <2>2. QED
    BY <1>0, <1>b, <2>1, InStepParts, Zenon DEF KeysTaken
<1>3. ASSUME NEW x \in Vars, NEW k \in DOMAIN m_cbs[x]
      PROVE  /\ 0 < k /\ k <= s_fun_id' /\ k # s_fun_id'
             /\ reg[m_cbs[x][k]] = [var |-> x, key |-> k]
  <2>1. \A u \in Threads : pc[u] # "return"
    BY <1>0, <1>1 DEF Adding
  <2>2. 0 < k /\ k <= s_fun_id /\ reg[m_cbs[x][k]] = [var |-> x, key |-> k]
    BY <2>1, InStepParts, AllRegistered
  <2>3. k \in Nat
    BY InStepParts, KeyTypes
  <2>4. QED
    BY <1>0, <1>2, <2>2, <2>3
<1>4. KeysGiven'
  BY <1>0, <1>3, Zenon DEF KeysGiven
<1>5. KeysTaken'
  <2>1. \A u \in Threads : Adding(u)' => u = t
    BY <1>1, <1>a DEF Adding
  <2>a. 0 < s_fun_id'
    BY <1>0, <1>2
  <2>b. s_fun_id' \notin DOMAIN m_cbs[this[t]]
    BY ZenonT(30), <1>2, <1>3
  <2>2. 0 < s_fun_id' /\ s_fun_id' \notin DOMAIN m_cbs[this[t]]
    BY <2>a, <2>b
  <2>3. QED
    BY <1>0, <1>2, <1>a, <2>1, <2>2 DEF KeysTaken
<1>6. KeyFindsListener'
  BY <1>0, InStepParts DEF KeyFindsListener
<1>7. SyncInv'
  <2>1. \A u \in Threads : /\ pc'[u] = "notify" <=> pc[u] = "notify"
                           /\ pc'[u] = "assign" <=> pc[u] = "assign"
    BY <1>0, <1>a
  <2>2. QED
    BY <1>0, <2>1, InStepParts, SyncUntouched
<1>8. QED
  BY <1>4, <1>5, <1>6, <1>7 DEF KeyInv

\* Store preserves the invariant of one variable with one setter.
LEMMA StoreInStep ==
  ASSUME Sole, InStep, NEW t \in Threads, Store(t)
  PROVE  KeyInv' /\ SyncInv'
<1> DEFINE x == this[t]
<1>0. /\ pc[t] = "store" /\ pc' = [pc EXCEPT ![t] = "return"]
      /\ UNCHANGED <<m_val, s_fun_id, this, v, at, cb, id, reg, heard>>
  BY DEF Store, locals
<1>a. pc'[t] = "return" /\ \A u \in Threads \ {t} : pc'[u] = pc[u]
  BY <1>0, InStepParts
<1>b. Adding(t)
  BY <1>0 DEF Adding
<1>1. \A u \in Threads : (u # t => ~Adding(u)) /\ pc[u] # "notify"
  BY <1>b, InStepParts, Alone
<1>2. /\ x \in Vars /\ cb[t] \in Cbs /\ s_fun_id \in Nat /\ reg[cb[t]] = NoReg /\ heard[cb[t]] = None
      /\ 0 < s_fun_id /\ s_fun_id \notin DOMAIN m_cbs[x]
  <2>1. x \in Vars /\ cb[t] \in Cbs /\ s_fun_id \in Nat
    BY <1>b, InStepParts, Holds DEF Shape
  <2>2. QED
    BY <1>0, <1>b, <2>1, InStepParts DEF KeysTaken
<1>3. /\ DOMAIN m_cbs'[x] = DOMAIN m_cbs[x] \cup {s_fun_id}
      /\ m_cbs'[x][s_fun_id] = cb[t]
      /\ \A k \in DOMAIN m_cbs[x] : m_cbs'[x][k] = m_cbs[x][k]
  BY <1>2, InStepParts DEF Store
<1>4. \A y \in Vars : y = x
  BY <1>2 DEF Sole
<1>5. KeysGiven'
  <2>1. \A u \in Threads : pc[u] # "return"
    BY <1>0, <1>1 DEF Adding
  <2>2. \A k \in DOMAIN m_cbs[x] :
          0 < k /\ k <= s_fun_id /\ reg[m_cbs[x][k]] = [var |-> x, key |-> k]
    BY <1>2, <2>1, InStepParts, AllRegistered
  <2>3. s_fun_id <= s_fun_id
    BY <1>2
  <2>4. ASSUME NEW k \in DOMAIN m_cbs'[x]
        PROVE  /\ 0 < k /\ k <= s_fun_id
               /\ \/ reg[m_cbs'[x][k]] = [var |-> x, key |-> k]
                  \/ pc'[t] = "return" /\ cb[t] = m_cbs'[x][k] /\ k = s_fun_id
    <3>1. CASE k = s_fun_id
      BY <1>2, <1>3, <1>a, <2>3, <3>1
    <3>2. CASE k # s_fun_id
      <4>1. k \in DOMAIN m_cbs[x] /\ m_cbs'[x][k] = m_cbs[x][k]
        BY <1>3, <3>2
      <4>2. QED
        BY <2>2, <4>1, Zenon
    <3>3. QED
      BY <3>1, <3>2
  <2>5. QED
    BY <1>0, <1>4, <2>4, Zenon DEF KeysGiven
<1>6. KeysTaken'
  <2>1. \A u \in Threads : Adding(u)' => u = t
    BY <1>1, <1>a DEF Adding
  <2>2. s_fun_id \in DOMAIN m_cbs'[x] /\ m_cbs'[x][s_fun_id] = cb[t]
    BY <1>3, Zenon
  <2>3. QED
    BY <1>0, <1>2, <1>a, <2>1, <2>2, Zenon DEF KeysTaken
<1>7. KeyFindsListener'
  <2>1. ASSUME NEW d \in Cbs, reg[d].var # None
        PROVE  reg[d].key \in DOMAIN m_cbs'[reg[d].var] /\ m_cbs'[reg[d].var][reg[d].key] = d
    <3>1. reg[d].key \in DOMAIN m_cbs[reg[d].var] /\ m_cbs[reg[d].var][reg[d].key] = d
      BY <2>1, InStepParts DEF KeyFindsListener
    <3>2. reg[d].var = x
      <4>1. reg[d] \in [var : Vars \cup {None}, key : Nat]
        BY InStepParts DEF Shape
      <4>2. QED
        BY <1>4, <2>1, <4>1
    <3>3. QED
      BY <1>3, <3>1, <3>2
  <2>2. QED
    BY <1>0, <2>1 DEF KeyFindsListener
<1>8. SyncInv'
  <2>1. \A u \in Threads : (pc'[u] = "assign" <=> pc[u] = "assign") /\ pc'[u] # "notify"
    BY <1>0, <1>1, <1>a
  <2>2. \A u \in Threads : Setting(u, x)' <=> Setting(u, x)
    BY <1>0, <1>1, <2>1 DEF Setting
  <2>3. ASSUME NEW k \in DOMAIN m_cbs'[x]
        PROVE  /\ (\A u \in Threads : ~Setting(u, x)) => heard[m_cbs'[x][k]] \in {None, m_val[x]}
               /\ \A u \in Threads : pc[u] = "assign" => heard[m_cbs'[x][k]] \in {None, v[u]}
    <3>1. CASE k = s_fun_id
      BY <1>2, <1>3, <3>1, Zenon
    <3>2. CASE k # s_fun_id
      <4>1. k \in DOMAIN m_cbs[x] /\ m_cbs'[x][k] = m_cbs[x][k]
        BY <1>3, <3>2
      <4>2. SyncInv /\ x \in Vars
        BY <1>2, InStepParts, Zenon
      <4>3. QED
        BY <4>1, <4>2, Zenon DEF SyncInv
    <3>3. QED
      BY <3>1, <3>2, Zenon
  <2>4. QED
    BY <1>0, <1>4, <2>1, <2>2, <2>3, Zenon DEF SyncInv
<1>9. QED
  BY <1>5, <1>6, <1>7, <1>8 DEF KeyInv

\* AddReturn preserves the invariant of one variable with one setter.
LEMMA AddReturnInStep ==
  ASSUME Sole, InStep, NEW t \in Threads, AddReturn(t)
  PROVE  KeyInv' /\ SyncInv'
<1> DEFINE x == this[t]
           c == cb[t]
<1>0. /\ pc[t] = "return" /\ pc' = [pc EXCEPT ![t] = "idle"]
      /\ UNCHANGED <<m_val, m_cbs, s_fun_id, this, v, at, id, heard>>
      /\ reg' = [reg EXCEPT ![c] = [var |-> x, key |-> s_fun_id]]
  BY DEF AddReturn
<1>a. pc'[t] = "idle" /\ \A u \in Threads \ {t} : pc'[u] = pc[u]
  BY <1>0, InStepParts
<1>b. Adding(t)
  BY <1>0, Zenon DEF Adding
<1>1. \A u \in Threads : u # t => ~Adding(u)
  BY <1>b, InStepParts, Alone
<1>2. /\ x \in Vars /\ c \in Cbs /\ s_fun_id \in Nat /\ reg[c] = NoReg
      /\ s_fun_id \in DOMAIN m_cbs[x] /\ m_cbs[x][s_fun_id] = c
  <2>1. x \in Vars /\ c \in Cbs /\ s_fun_id \in Nat
    BY <1>b, InStepParts, Holds DEF Shape
  <2>2. QED
    BY <1>0, <1>b, <2>1, InStepParts, Zenon DEF KeysTaken
<1>3. \A y \in Vars : y = x
  BY <1>2, Zenon DEF Sole
<1>4. reg'[c] = [var |-> x, key |-> s_fun_id] /\ \A d \in Cbs : d # c => reg'[d] = reg[d]
  BY <1>0, <1>2, InStepParts
<1>5. ASSUME NEW k \in DOMAIN m_cbs[x]
      PROVE  0 < k /\ k <= s_fun_id /\ reg'[m_cbs[x][k]] = [var |-> x, key |-> k]
  <2>1. 0 < k /\ k <= s_fun_id /\ m_cbs[x][k] \in Cbs
    BY <1>2, InStepParts, KeyTypes, Zenon DEF KeysGiven
  <2>2. CASE k = s_fun_id
    BY <1>2, <1>4, <2>1, <2>2
  <2>3. CASE k # s_fun_id
    <3>1. m_cbs[x][k] # c
      BY <1>2, <2>3, OneKey
    <3>2. reg[m_cbs[x][k]] = [var |-> x, key |-> k]
      BY <1>2, <2>3, InStepParts, AllRegistered
    <3>3. QED
      BY <1>4, <2>1, <3>1, <3>2
  <2>4. QED
    BY <2>2, <2>3
<1>6. \A u \in Threads : ~Adding(u)'
  BY <1>1, <1>a DEF Adding
<1>7. KeyFindsListener'
  <2>1. ASSUME NEW d \in Cbs, reg'[d].var # None
        PROVE  reg'[d].key \in DOMAIN m_cbs[reg'[d].var] /\ m_cbs[reg'[d].var][reg'[d].key] = d
    <3>1. CASE d = c
      BY <1>2, <1>4, <3>1
    <3>2. CASE d # c
      BY <1>4, <2>1, <3>2, InStepParts DEF KeyFindsListener
    <3>3. QED
      BY <3>1, <3>2
  <2>2. QED
    BY <1>0, <2>1, Zenon DEF KeyFindsListener
<1>8. KeysGiven' /\ KeysTaken'
  BY <1>0, <1>3, <1>5, <1>6, Zenon DEF KeysGiven, KeysTaken
<1>9. SyncInv'
  <2>1. \A u \in Threads : /\ pc'[u] = "notify" <=> pc[u] = "notify"
                           /\ pc'[u] = "assign" <=> pc[u] = "assign"
    BY <1>0, <1>a
  <2>2. QED
    BY <1>0, <2>1, InStepParts, SyncUntouched
<1>10. QED
  BY <1>7, <1>8, <1>9 DEF KeyInv

\* Removing listeners leaves the others as they were.
LEMMA RemoveInStep ==
  ASSUME Sole, InStep, NEW t \in Threads, NEW x \in Vars, NEW gone \in SUBSET Nat, writer[x] = None,
         UNCHANGED <<m_val, s_fun_id, pc, this, v, at, cb, id, heard>>,
         m_cbs' = [m_cbs EXCEPT ![x] = Restrict(@, DOMAIN @ \ gone)],
         reg' = [c \in Cbs |-> IF reg[c].var = x /\ reg[c].key \in gone THEN NoReg ELSE reg[c]]
  PROVE  KeyInv' /\ SyncInv'
<1>1. \A y \in Vars : y = x
  BY DEF Sole
<1>2. \A u \in Threads : ~Adding(u) /\ ~Adding(u)'
  <2>1. \A u \in Threads : u # None
    BY ConfigVarAssumption
  <2>2. ASSUME NEW u \in Threads, Adding(u) PROVE FALSE
    <3>1. Held
      BY InStepParts
    <3>2. this[u] = x /\ writer[this[u]] = u
      BY <1>1, <2>2, <3>1, Holds
    <3>3. QED
      BY <2>1, <3>2
  <2>3. QED
    BY <2>2 DEF Adding
<1>3. /\ DOMAIN m_cbs'[x] = DOMAIN m_cbs[x] \ gone
      /\ \A k \in DOMAIN m_cbs'[x] : m_cbs'[x][k] = m_cbs[x][k]
  BY InStepParts DEF Restrict
<1>4. ASSUME NEW k \in DOMAIN m_cbs'[x]
      PROVE  0 < k /\ k <= s_fun_id /\ reg'[m_cbs'[x][k]] = [var |-> x, key |-> k]
  <2>1. k \in DOMAIN m_cbs[x] /\ k \notin gone /\ m_cbs'[x][k] = m_cbs[x][k] /\ m_cbs[x][k] \in Cbs
    BY <1>3, InStepParts, KeyTypes, Zenon
  <2>2. \A u \in Threads : pc[u] # "return"
    BY <1>2, Zenon DEF Adding
  <2>3. 0 < k /\ k <= s_fun_id /\ reg[m_cbs[x][k]] = [var |-> x, key |-> k]
    BY <2>1, <2>2, InStepParts, AllRegistered, Zenon
  <2>4. reg'[m_cbs[x][k]] = reg[m_cbs[x][k]]
    BY <2>1, <2>3
  <2>5. QED
    BY <2>1, <2>3, <2>4, Zenon
<1>5. KeysGiven' /\ KeysTaken'
  BY <1>1, <1>2, <1>4, Zenon DEF KeysGiven, KeysTaken
<1>6. KeyFindsListener'
  <2>1. ASSUME NEW d \in Cbs, reg'[d].var # None
        PROVE  reg'[d].key \in DOMAIN m_cbs'[reg'[d].var] /\ m_cbs'[reg'[d].var][reg'[d].key] = d
    <3>1. reg'[d] = reg[d] /\ ~(reg[d].var = x /\ reg[d].key \in gone)
      BY <2>1, Zenon DEF NoReg
    <3>2. reg[d] \in [var : Vars \cup {None}, key : Nat]
      BY InStepParts DEF Shape
    <3>3. reg[d].var = x /\ reg[d].key \notin gone
      BY <1>1, <2>1, <3>1, <3>2, Zenon
    <3>4. reg[d].key \in DOMAIN m_cbs[x] /\ m_cbs[x][reg[d].key] = d
      BY <2>1, <3>1, <3>3, InStepParts DEF KeyFindsListener
    <3>5. QED
      BY <1>3, <3>1, <3>3, <3>4, Zenon
  <2>2. QED
    BY <2>1, Zenon DEF KeyFindsListener
<1>7. SyncInv'
  <2>1. \A y \in Vars : \A k \in DOMAIN m_cbs'[y] :
          k \in DOMAIN m_cbs[y] /\ heard'[m_cbs'[y][k]] = heard[m_cbs[y][k]]
    BY <1>1, <1>3
  <2>2. QED
    BY <2>1, InStepParts, SyncUntouched, Zenon
<1>8. QED
  BY <1>5, <1>6, <1>7 DEF KeyInv

\* delListener removes one listener, and its key alone.
LEMMA DelListenerInStep ==
  ASSUME Sole, InStep, NEW t \in Threads, NEW c \in Cbs, DelListener(t, c)
  PROVE  KeyInv' /\ SyncInv'
<1> DEFINE x == reg[c].var
           gone == {reg[c].key}
<1>0. /\ x # None /\ writer[x] = None /\ m_cbs' = [m_cbs EXCEPT ![x] = Restrict(@, DOMAIN @ \ gone)]
      /\ reg' = [reg EXCEPT ![c] = NoReg]
      /\ UNCHANGED <<m_val, s_fun_id, pc, this, v, at, cb, id, heard>>
  BY ZenonT(30) DEF DelListener, CanWrite, locals
<1>1. reg \in [Cbs -> [var : Vars \cup {None}, key : Nat]]
  BY InStepParts DEF Shape
<1>2. x \in Vars /\ gone \in SUBSET Nat
  BY <1>0, <1>1
<1>3. ASSUME NEW d \in Cbs, reg[d].var = x, reg[d].key \in gone PROVE d = c
  <2>1. m_cbs[x][reg[c].key] = c /\ m_cbs[x][reg[d].key] = d
    BY <1>0, <1>3, InStepParts, Zenon DEF KeyFindsListener
  <2>2. QED
    BY <1>3, <2>1
<1>4. reg' = [d \in Cbs |-> IF reg[d].var = x /\ reg[d].key \in gone THEN NoReg ELSE reg[d]]
  BY <1>0, <1>1, <1>3, Zenon
<1>5. QED
  <2> HIDE DEF x, gone
  <2> QED
    BY <1>0, <1>2, <1>4, RemoveInStep, Zenon

\* clearListener removes all the listeners of the variable.
LEMMA ClearListenerInStep ==
  ASSUME Sole, InStep, NEW t \in Threads, NEW x \in Vars, ClearListener(t, x)
  PROVE  KeyInv' /\ SyncInv'
<1>0. /\ writer[x] = None /\ m_cbs' = [m_cbs EXCEPT ![x] = NoListener]
      /\ reg' = [c \in Cbs |-> IF reg[c].var = x THEN NoReg ELSE reg[c]]
      /\ UNCHANGED <<m_val, s_fun_id, pc, this, v, at, cb, id, heard>>
  BY ZenonT(30) DEF ClearListener, CanWrite, locals
<1>1. reg \in [Cbs -> [var : Vars \cup {None}, key : Nat]]
  BY InStepParts, Zenon DEF Shape
<1>2. reg' = [d \in Cbs |-> IF reg[d].var = x /\ reg[d].key \in Nat THEN NoReg ELSE reg[d]]
  BY <1>0, <1>1, Zenon
<1>3. NoListener = Restrict(m_cbs[x], DOMAIN m_cbs[x] \ Nat)
  <2>1. DOMAIN m_cbs[x] \ Nat = {}
    BY InStepParts DEF Shape
  <2>2. QED
    BY <2>1, Zenon DEF NoListener, Restrict
<1>4. m_cbs' = [m_cbs EXCEPT ![x] = Restrict(@, DOMAIN @ \ Nat)]
  BY <1>0, <1>3, InStepParts
<1>5. QED
  BY <1>0, <1>2, <1>4, RemoveInStep, Zenon

\* Every step preserves the invariant of one variable with one setter.
LEMMA NextInStep ==
  ASSUME Sole, InStep, [Next]_vars
  PROVE  InStep'
<1>1. Safe'
  BY NextSafe DEF InStep
<1>2. CASE UNCHANGED vars
  <2>1. UNCHANGED <<m_val, m_cbs, s_fun_id, pc, this, v, at, cb, id, reg, heard>>
    BY <1>2 DEF vars, locals
  <2>2. KeysGiven' /\ KeysTaken' /\ KeyFindsListener'
    <3>1. KeysGiven'
      BY <2>1, InStepParts, GivenUntouched, Zenon
    <3>2. KeysTaken'
      BY <2>1, InStepParts DEF KeysTaken, Adding
    <3>3. KeyFindsListener'
      BY <2>1, InStepParts, Zenon DEF KeyFindsListener
    <3>4. QED
      BY <3>1, <3>2, <3>3
  <2>3. SyncInv'
    BY <2>1, InStepParts, SyncUntouched, Zenon
  <2>4. QED
    BY <1>1, <2>2, <2>3 DEF InStep, KeyInv
<1>3. CASE Next
  <2>1. \A t \in Threads : \A k : ~NotifyThrows(t, k)
    BY ZenonT(30) DEF Sole, NotifyThrows
  <2>2. ASSUME NEW t \in Threads, Step(t) PROVE KeyInv' /\ SyncInv'
    BY <2>1, <2>2, NotifyInStep, NotifiedInStep, AssignInStep, IncrementInStep, StoreInStep,
       AddReturnInStep DEF Step
  <2>3. KeyInv' /\ SyncInv'
    BY <1>3, <2>2, SetValueInStep, AddListenerInStep, DelListenerInStep, ClearListenerInStep DEF Next
  <2>4. QED
    BY <1>1, <2>3 DEF InStep
<1>4. QED
  BY <1>2, <1>3

\* With one variable of the type, one setter and no callback that throws, setValue
\* and the listeners keep the counter, the keys and what was heard in step.
THEOREM InStepInvariant ==
  ASSUME Sole
  PROVE  Spec => []InStep
<1>1. InStep /\ [Next]_vars => InStep'
  BY NextInStep
<1>2. QED
  BY InitInStep, <1>1, PTL DEF Spec

(***************************************************************************)
(* With one variable of the type, the key that addListener (config.h:327)  *)
(* returns finds its listener until delListener or clearListener.          *)
(***************************************************************************)
THEOREM KeysUnique ==
  ASSUME Sole
  PROVE  Spec => []KeyFindsListener
<1>1. InStep => KeyFindsListener
  BY DEF InStep, KeyInv
<1>2. QED
  BY <1>1, InStepInvariant, PTL

(***************************************************************************)
(* With one thread that calls setValue (config.h:310) and no callback that *)
(* throws, what the listeners heard last is the value, between the calls.  *)
(***************************************************************************)
THEOREM ListenersStayInSync ==
  ASSUME Sole
  PROVE  Spec => []ListenersInSync
<1>1. InStep => ListenersInSync
  <2> SUFFICES ASSUME InStep, NEW c \in Cbs, NEW x \in Vars, reg[c].var = x,
                      heard[c] # None, \A t \in Threads : ~Setting(t, x)
               PROVE  heard[c] = m_val[x]
    BY DEF ListenersInSync
  <2>1. PICK k \in DOMAIN m_cbs[x] : m_cbs[x][k] = c
    BY ConfigVarAssumption, InStepParts, Zenon DEF KeyFindsListener
  <2>2. heard[m_cbs[x][k]] \in {None, m_val[x]}
    BY InStepParts DEF SyncInv
  <2>3. QED
    BY <2>1, <2>2
<1>2. QED
  BY <1>1, InStepInvariant, PTL

(***************************************************************************)
(* The assignment of setValue (config.h:323) installs what every listener  *)
(* of the variable heard last, or a value newer than the listener itself.  *)
(***************************************************************************)
THEOREM ToldBeforeAssigned ==
  ASSUME Sole
  PROVE  Spec => ToldBefore
<1> DEFINE Told == \A x \in Vars : m_val'[x] # m_val[x] =>
                     \A k \in DOMAIN m_cbs[x] : heard[m_cbs[x][k]] \in {m_val'[x], None}
<1>1. ASSUME InStep, Next, NEW x \in Vars, m_val'[x] # m_val[x], NEW k \in DOMAIN m_cbs[x]
      PROVE  heard[m_cbs[x][k]] \in {m_val'[x], None}
  <2>1. PICK t \in Threads : Assign(t)
    BY ZenonT(30), <1>1
    DEF Next, Step, Notify, NotifyThrows, Notified, Increment, Store, AddReturn,
        SetValue, AddListener, DelListener, ClearListener
  <2>2. this[t] \in Vars /\ this[t] = x /\ m_val'[x] = v[t]
    BY <1>1, <2>1, InStepParts, Zenon DEF Assign, Sole, LockInv
  <2>3. heard[m_cbs[x][k]] \in {None, v[t]}
    BY <1>1, <2>1, InStepParts, Zenon DEF Assign, SyncInv
  <2>4. QED
    BY <2>2, <2>3
<1>2. InStep /\ [Next]_vars => [Told]_vars
  BY <1>1, Zenon
<1>3. QED
  BY <1>2, InStepInvariant, PTL DEF Spec, ToldBefore

-----------------------------------------------------------------------------
(* The conversions *)

\* A set of naturals that is not empty has a least member: the first of the pairs
\* with a key, which is the one that insert() keeps.
LEMMA LeastOf ==
  ASSUME NEW T \in SUBSET Nat, T # {}
  PROVE  \E m \in T : \A y \in T : m <= y
<1>1. PICK m \in T : \A y \in T : ~ (<<y, m>> \in OpToRel(<, Nat))
  BY NatLessThanWellFounded, WFMin, Zenon
<1>2. \A y \in T : ~(y < m)
  BY <1>1, Zenon DEF OpToRel
<1> QED  BY <1>2

\* A function on no indices is the empty sequence.
LEMMA EmptyList ==
  ASSUME NEW s, s = [k \in DOMAIN s |-> s[k]], DOMAIN s = {}
  PROVE  s = <<>>
OBVIOUS

\* The texts that ToStr writes, one per element, are the empty sequence if there is
\* no element, and only then.
LEMMA TextsEmpty ==
  ASSUME NEW I, NEW f
  PROVE  [k \in I |-> f[k]] = <<>> <=> I = {}
<1>1. CASE I = {}
  BY <1>1
<1>2. CASE I # {}
  <2>1. DOMAIN [k \in I |-> f[k]] = I /\ DOMAIN <<>> = {}
    OBVIOUS
  <2> QED  BY <1>2, <2>1
<1> QED  BY <1>1, <1>2

\* The elements of a container are converted, or the conversion throws.
LEMMA ElementsConverted ==
  ASSUME NEW results, NEW s \in FromElements(results)
  PROVE  /\ s = [k \in DOMAIN results |-> The(results[k])]
         /\ \A k \in DOMAIN results : The(results[k]) \in results[k]
<1>1. ~(\E k \in DOMAIN results : results[k] = {}) /\ s = [k \in DOMAIN results |-> The(results[k])]
  BY DEF FromElements
<1>2. ASSUME NEW k \in DOMAIN results PROVE The(results[k]) \in results[k]
  <2>1. results[k] # {}
    BY <1>1
  <2> QED  BY <2>1 DEF The
<1> QED  BY <1>1, <1>2

\* A conversion from text gives one value at most: fromString sets that or nothing.
LEMMA OneResult ==
  ASSUME NEW type \in {"int", "vector", "set", "map"}, NEW node,
         NEW a \in FromStr(type, node), NEW b \in FromStr(type, node)
  PROVE  a = b
<1> DEFINE numbers == [k \in DOMAIN Elements(node) |-> FromNumber(Elements(node)[k])]
           values  == [k \in DOMAIN Pairs(node) |-> FromNumber(Pairs(node)[k][2])]
<1>1. /\ type = "int" => a \in FromNumber(node) /\ b \in FromNumber(node)
      /\ type = "vector" => a \in FromElements(numbers) /\ b \in FromElements(numbers)
      /\ type = "set" => a \in FromSet(numbers) /\ b \in FromSet(numbers)
      /\ type = "map" => a \in FromMap(node, values) /\ b \in FromMap(node, values)
  BY DEF FromStr, FromVector
<1> HIDE DEF numbers, values
<1>2. \A results : \A r, s \in FromElements(results) : r = s
  BY DEF FromElements
<1>3. CASE type = "int"
  BY <1>1, <1>3 DEF FromNumber
<1>4. CASE type = "vector"
  BY <1>1, <1>2, <1>4
<1>5. CASE type = "set"
  BY <1>1, <1>2, <1>5 DEF FromSet
<1>6. CASE type = "map"
  <2> DEFINE pairs == Pairs(node)
             first(k) == CHOOSE l \in DOMAIN pairs : pairs[l][1] = k /\ \A j \in 1..l - 1 : pairs[j][1] # k
             map(s) == [k \in {pairs[l][1] : l \in DOMAIN pairs} |-> s[first(k)]]
  <2>1. a \in {map(s) : s \in FromElements(values)} /\ b \in {map(s) : s \in FromElements(values)}
    BY <1>1, <1>6, Zenon DEF FromMap
  <2> HIDE DEF map
  <2> QED  BY <1>2, <2>1
<1> QED  BY <1>3, <1>4, <1>5, <1>6

\* What node[0], node[1], ... give is a list of nodes as the parser builds them.
LEMMA ElementsOK ==
  ASSUME NEW node, NodeOK(node)
  PROVE  \E n \in Nat : DOMAIN Elements(node) = 1..n /\ \A k \in 1..n : IntNode(Elements(node)[k])
<1>1. CASE node.kind = "seq"
  <2>1. Elements(node) = node.v /\ Len(node.v) \in Nat /\ DOMAIN node.v = 1..Len(node.v)
    BY <1>1 DEF Elements, NodeOK, IsList
  <2> QED  BY <1>1, <2>1 DEF NodeOK
<1>2. CASE node.kind = "map"
  <2>1. /\ Elements(node) = [k \in DOMAIN node.v |-> NullNode]
        /\ Len(node.v) \in Nat /\ DOMAIN node.v = 1..Len(node.v)
    BY <1>2 DEF Elements, NodeOK, IsList
  <2>2. IntNode(NullNode)
    BY DEF IntNode, NullNode
  <2> QED  BY <2>1, <2>2
<1>3. CASE node.kind \notin {"seq", "map"}
  <2>1. Elements(node) = <<>> /\ DOMAIN <<>> = 1..0
    BY <1>3 DEF Elements
  <2> QED  BY <2>1
<1> QED  BY <1>1, <1>2, <1>3

\* The image of a list is a finite set.
LEMMA ImageFinite ==
  ASSUME NEW n \in Nat, NEW I \in SUBSET (1..n), NEW f
  PROVE  IsFiniteSet({f[k] : k \in I})
<1> DEFINE T == {f[k] : k \in I}
           g == [k \in I |-> f[k]]
<1>1. IsFiniteSet(I)
  <2>1. IsFiniteSet(1..n)
    BY FS_Interval
  <2> QED  BY <2>1, FS_Subset, Zenon
<1>2. g \in Surjection(I, T)
  BY DEF Surjection
<1> HIDE DEF T, g
<1>3. IsFiniteSet(T)
  BY <1>1, <1>2, FS_Surjection
<1> QED  BY <1>3 DEF T

\* The numbers read from a list of nodes.
LEMMA NumbersRead ==
  ASSUME NEW n \in Nat, NEW nodes, DOMAIN nodes = 1..n, \A k \in 1..n : IntNode(nodes[k]),
         NEW s \in FromElements([k \in DOMAIN nodes |-> FromNumber(nodes[k])])
  PROVE  s \in [1..n -> Int] /\ s \in Seq(Int)
<1> DEFINE results == [k \in DOMAIN nodes |-> FromNumber(nodes[k])]
<1>1. DOMAIN results = 1..n /\ \A k \in 1..n : results[k] \subseteq Int
  BY DEF FromNumber, IntNode
<1> HIDE DEF results
<1>2. s \in FromElements(results)
  BY DEF results
<1>3. s \in [1..n -> Int]
  BY <1>1, <1>2, ElementsConverted
<1> QED  BY <1>3

\* What fromString reads for a variable is a value of its type.
LEMMA ReadIsOfType ==
  ASSUME NEW type \in {"int", "vector", "set", "map"}, NEW node, NodeOK(node),
         NEW val \in FromStr(type, node)
  PROVE  ValueOf(type, val)
<1> DEFINE numbers == [k \in DOMAIN Elements(node) |-> FromNumber(Elements(node)[k])]
           values  == [k \in DOMAIN Pairs(node) |-> FromNumber(Pairs(node)[k][2])]
<1>0. /\ type = "int" => val \in FromNumber(node)
      /\ type = "vector" => val \in FromElements(numbers)
      /\ type = "set" => val \in FromSet(numbers)
      /\ type = "map" => val \in FromMap(node, values)
  BY DEF FromStr, FromVector
<1>1. PICK n \in Nat : DOMAIN Elements(node) = 1..n /\ \A k \in 1..n : IntNode(Elements(node)[k])
  BY ElementsOK
<1>2. \A s \in FromElements(numbers) : s \in [1..n -> Int] /\ s \in Seq(Int)
  BY <1>1, NumbersRead
<1>3. CASE type = "int"
  BY <1>0, <1>3, Zenon DEF FromNumber, NodeOK, IntNode, ValueOf
<1>4. CASE type = "vector"
  <2>1. val \in Seq(Int)
    BY <1>0, <1>2, <1>4, Zenon
  <2> QED  BY <1>4, <2>1 DEF ValueOf
<1>5. CASE type = "set"
  <2> HIDE DEF numbers
  <2>1. PICK s \in FromElements(numbers) : val = Inserted(s, s)
    BY <1>0, <1>5 DEF FromSet
  <2>2. s \in [1..n -> Int]
    BY <1>2
  <2> DEFINE I == {j \in DOMAIN s : \A k \in 1..j - 1 : s[j] # s[k]}
  <2>3. val = {s[k] : k \in I} /\ I \in SUBSET (1..n)
    BY <2>1, <2>2 DEF Inserted
  <2> HIDE DEF I
  <2>4. IsFiniteSet(val) /\ val \subseteq Int
    BY <2>2, <2>3, ImageFinite, Zenon
  <2> QED  BY <1>5, <2>4 DEF ValueOf
<1>6. CASE type = "map"
  <2> DEFINE pairs == Pairs(node)
             first(k) == CHOOSE l \in DOMAIN pairs : pairs[l][1] = k /\ \A j \in 1..l - 1 : pairs[j][1] # k
             K == {pairs[l][1] : l \in DOMAIN pairs}
  <2>1. PICK s \in FromElements(values) : val = [k \in K |-> s[first(k)]]
    BY <1>0, <1>6, Zenon DEF FromMap
  <2>2. \E m \in Nat : DOMAIN pairs = 1..m /\ \A k \in 1..m : IntNode(pairs[k][2])
    <3>1. CASE node.kind = "map"
      BY <3>1 DEF Pairs, NodeOK, IsList
    <3>2. CASE node.kind # "map"
      <4>1. pairs = <<>> /\ DOMAIN <<>> = 1..0
        BY <3>2 DEF Pairs
      <4> QED  BY <4>1
    <3> QED  BY <3>1, <3>2, Zenon
  <2>3. PICK m \in Nat : DOMAIN pairs = 1..m /\ \A k \in 1..m : IntNode(pairs[k][2])
    BY <2>2
  <2>4. s \in [1..m -> Int]
    <3> DEFINE nodes == [k \in 1..m |-> pairs[k][2]]
    <3>1. values = [k \in DOMAIN nodes |-> FromNumber(nodes[k])] /\ \A k \in 1..m : IntNode(nodes[k])
      BY <2>3, Zenon
    <3>2. DOMAIN nodes = 1..m
      OBVIOUS
    <3> HIDE DEF nodes
    <3> QED  BY <3>1, <3>2, <2>1, NumbersRead, Zenon
  <2> HIDE DEF values, pairs
  <2>5. ASSUME NEW k \in K PROVE first(k) \in 1..m
    <3> DEFINE T == {l \in 1..m : pairs[l][1] = k}
    <3>1. PICK l \in T : \A j \in T : l <= j
      <4>1. T \in SUBSET Nat /\ T # {}
        BY <2>3, <2>5
      <4> HIDE DEF T
      <4> QED  BY <4>1, LeastOf
    <3>2. l \in DOMAIN pairs /\ pairs[l][1] = k /\ \A j \in 1..l - 1 : pairs[j][1] # k
      BY <2>3, <3>1
    <3>3. first(k) \in DOMAIN pairs
      BY <3>2
    <3> QED  BY <2>3, <3>3
  <2>6. IsFiniteSet(K)
    <3> DEFINE f == [l \in 1..m |-> pairs[l][1]]
    <3>1. K = {f[l] : l \in 1..m}
      BY <2>3
    <3> HIDE DEF f, K
    <3>2. 1..m \in SUBSET (1..m)
      OBVIOUS
    <3> QED  BY <3>1, <3>2, ImageFinite, Zenon
  <2> HIDE DEF K, first
  <2>7. DOMAIN val = K /\ val = [k \in DOMAIN val |-> val[k]] /\ \A k \in DOMAIN val : val[k] \in Int
    BY <2>1, <2>4, <2>5
  <2> QED  BY <1>6, <2>6, <2>7 DEF ValueOf
<1> QED  BY <1>3, <1>4, <1>5, <1>6

\* A list of n elements has n indices.
LEMMA Indices ==
  ASSUME NEW n \in Nat
  PROVE  Cardinality(1..n) = n
<1>1. Cardinality(1..n) = IF 1 > n THEN 0 ELSE n - 1 + 1
  BY FS_Interval
<1> QED  BY <1>1

\* The elements of a finite set, each once.
LEMMA ListOfSet ==
  ASSUME NEW S, IsFiniteSet(S)
  PROVE  LET n == Cardinality(S)
             s == Listing(S)
         IN  /\ n \in Nat /\ s \in [1..n -> S]
             /\ \A j, k \in 1..n : s[j] = s[k] => j = k
             /\ \A x \in S : \E k \in 1..n : s[k] = x
<1> DEFINE n == Cardinality(S)
           s == Listing(S)
<1>1. n \in Nat /\ ExistsBijection(1..n, S)
  BY FS_CardinalityType
<1>2. \E f : f \in Injection(1..n, S)
  BY <1>1 DEF ExistsBijection, Bijection
<1>3. s \in Injection(1..n, S)
  BY <1>2, Zenon DEF Listing, The
<1> HIDE DEF s
<1>4. s \in [1..n -> S] /\ IsInjective(s)
  BY <1>3 DEF Injection
<1>5. Cardinality(1..n) = n
  BY <1>1, Indices
<1>6. s \in Surjection(1..n, S)
  BY <1>3, <1>5, FS_Injection
<1> QED  BY <1>1, <1>4, <1>6 DEF IsInjective, Surjection, s

\* The elements of a node that ToStr wrote are the texts it wrote.
LEMMA ElementsOfText ==
  ASSUME NEW n \in Nat, NEW texts, texts = [k \in 1..n |-> texts[k]]
  PROVE  Elements(SeqNode(texts)) = texts
<1>1. CASE texts = <<>>
  BY <1>1 DEF SeqNode, NullNode, Elements
<1>2. CASE texts # <<>>
  BY <1>2 DEF SeqNode, Elements
<1> QED  BY <1>1, <1>2

\* A list of numbers is read as it was written.
LEMMA NumbersBack ==
  ASSUME NEW n \in Nat, NEW s, s = [k \in 1..n |-> s[k]]
  PROVE  FromElements([k \in 1..n |-> FromNumber(ToNumber(s[k]))]) = {s}
<1>1. \A m : FromNumber(ToNumber(m)) = {m}
  BY DEF FromNumber, ToNumber, Number
<1> DEFINE results == [k \in 1..n |-> FromNumber(ToNumber(s[k]))]
<1>2. DOMAIN results = 1..n /\ \A k \in 1..n : results[k] = {s[k]} /\ The(results[k]) = s[k]
  BY <1>1 DEF The
<1>3. [k \in DOMAIN results |-> The(results[k])] = s
  BY <1>2
<1> HIDE DEF results
<1>4. FromElements(results) = {s}
  BY <1>2, <1>3 DEF FromElements
<1> QED  BY <1>4 DEF results

\* What toString() prints, fromString() reads back, for each type of variable.
LEMMA RoundTrip ==
  ASSUME NEW type, NEW val, ValueOf(type, val)
  PROVE  FromStr(type, ToStr(type, val)) = {val}
<1>1. CASE type = "int"
  BY <1>1 DEF FromStr, ToStr, FromNumber, ToNumber, Number
<1>2. CASE type = "vector" /\ val \in Seq(Int)
  <2> DEFINE n == Len(val)
             texts == [k \in 1..n |-> ToNumber(val[k])]
  <2>1. n \in Nat /\ DOMAIN val = 1..n /\ val = [k \in 1..n |-> val[k]]
    BY <1>2
  <2>2. ToStr(type, val) = SeqNode(texts)
    BY <1>2, <2>1 DEF ToStr, ToVector
  <2>3. Elements(SeqNode(texts)) = texts
    <3>1. texts = [k \in 1..n |-> texts[k]]
      OBVIOUS
    <3> HIDE DEF texts
    <3> QED  BY <2>1, <3>1, ElementsOfText
  <2>4. FromStr(type, SeqNode(texts)) = FromElements([k \in 1..n |-> FromNumber(texts[k])])
    <3>1. FromStr(type, SeqNode(texts)) = FromElements([k \in DOMAIN texts |-> FromNumber(texts[k])])
      BY <1>2, <2>3, Zenon DEF FromStr, FromVector
    <3> QED  BY <3>1
  <2>5. FromElements([k \in 1..n |-> FromNumber(texts[k])]) = {val}
    <3>1. [k \in 1..n |-> FromNumber(texts[k])] = [k \in 1..n |-> FromNumber(ToNumber(val[k]))]
      OBVIOUS
    <3> QED  BY <2>1, <3>1, NumbersBack
  <2> QED  BY <2>2, <2>4, <2>5
<1>3. CASE type = "set" /\ val \subseteq Int /\ IsFiniteSet(val)
  <2> DEFINE n == Cardinality(val)
             s == Listing(val)
             text == [x \in val |-> ToNumber(x)]
             texts == [k \in 1..n |-> ToNumber(s[k])]
  <2>1. /\ n \in Nat /\ s \in [1..n -> val]
        /\ \A j, k \in 1..n : s[j] = s[k] => j = k
        /\ \A x \in val : \E k \in 1..n : s[k] = x
    BY <1>3, ListOfSet
  <2>2. ToStr(type, val) = SeqNode(texts)
    <3>1. ToStr(type, val) = SetText(text) /\ DOMAIN text = val
      BY <1>3 DEF ToStr
    <3>2. SetText(text) = SeqNode([k \in DOMAIN s |-> text[s[k]]])
      BY <3>1 DEF SetText
    <3>3. [k \in DOMAIN s |-> text[s[k]]] = texts
      BY <2>1
    <3> QED  BY <3>1, <3>2, <3>3, Zenon
  <2> HIDE DEF s
  <2>3. Elements(SeqNode(texts)) = texts
    <3>1. texts = [k \in 1..n |-> texts[k]]
      OBVIOUS
    <3> HIDE DEF texts
    <3> QED  BY <2>1, <3>1, ElementsOfText
  <2>4. FromStr(type, SeqNode(texts)) = FromSet([k \in 1..n |-> FromNumber(texts[k])])
    <3>1. FromStr(type, SeqNode(texts)) = FromSet([k \in DOMAIN texts |-> FromNumber(texts[k])])
      BY <1>3, <2>3, Zenon DEF FromStr
    <3> QED  BY <3>1
  <2>5. FromElements([k \in 1..n |-> FromNumber(texts[k])]) = {s}
    <3>1. [k \in 1..n |-> FromNumber(texts[k])] = [k \in 1..n |-> FromNumber(ToNumber(s[k]))]
      OBVIOUS
    <3>2. s = [k \in 1..n |-> s[k]]
      BY <2>1
    <3> QED  BY <2>1, <3>1, <3>2, NumbersBack
  <2>6. Inserted(s, s) = val
    <3>1. \A j \in 1..n : \A k \in 1..j - 1 : s[j] # s[k]
      BY <2>1
    <3>2. {j \in DOMAIN s : \A k \in 1..j - 1 : s[j] # s[k]} = 1..n
      BY <2>1, <3>1
    <3>3. Inserted(s, s) = {s[j] : j \in 1..n}
      BY <3>2 DEF Inserted
    <3> QED  BY <2>1, <3>3
  <2>7. FromSet([k \in 1..n |-> FromNumber(texts[k])]) = {val}
    BY <2>5, <2>6, Zenon DEF FromSet
  <2> QED  BY <2>2, <2>4, <2>7, Zenon
<1>4. CASE /\ type = "map" /\ IsFiniteSet(DOMAIN val)
           /\ val = [k \in DOMAIN val |-> val[k]] /\ \A k \in DOMAIN val : val[k] \in Int
  <2> DEFINE n == Cardinality(DOMAIN val)
             s == Listing(DOMAIN val)
             text == [k \in DOMAIN val |-> ToNumber(val[k])]
             pairs == [k \in 1..n |-> <<s[k], ToNumber(val[s[k]])>>]
             vals == [k \in 1..n |-> val[s[k]]]
             first(k) == CHOOSE l \in DOMAIN pairs : pairs[l][1] = k /\ \A j \in 1..l - 1 : pairs[j][1] # k
             map(r) == [k \in {pairs[l][1] : l \in DOMAIN pairs} |-> r[first(k)]]
  <2>1. /\ n \in Nat /\ s \in [1..n -> DOMAIN val]
        /\ \A j, k \in 1..n : s[j] = s[k] => j = k
        /\ \A x \in DOMAIN val : \E k \in 1..n : s[k] = x
    BY <1>4, ListOfSet
  <2>2. ToStr(type, val) = MapNode(pairs)
    <3>1. ToStr(type, val) = ToMap(text) /\ DOMAIN text = DOMAIN val
      BY <1>4 DEF ToStr
    <3>2. [k \in DOMAIN s |-> <<s[k], text[s[k]]>>] = pairs
      BY <2>1
    <3> DEFINE node(l, f) == MapNode([k \in DOMAIN l |-> <<l[k], f[l[k]]>>])
    <3>3. node(s, text) = MapNode(pairs)
      BY <3>2
    <3> HIDE DEF text
    <3>4. \A f : ToMap(f) = node(Listing(DOMAIN f), f)
      BY Zenon DEF ToMap
    <3> HIDE DEF node, pairs
    <3> QED  BY <3>1, <3>3, <3>4, Zenon
  <2> HIDE DEF s
  <2>3. Pairs(MapNode(pairs)) = pairs /\ MapNode(pairs).kind # "seq"
    <3> HIDE DEF pairs
    <3>1. CASE pairs = <<>>
      BY <3>1 DEF MapNode, NullNode, Pairs
    <3>2. CASE pairs # <<>>
      BY <3>2 DEF MapNode, Pairs
    <3> QED  BY <3>1, <3>2
  <2>4. FromStr(type, MapNode(pairs)) = {map(r) : r \in FromElements([k \in 1..n |-> FromNumber(pairs[k][2])])}
    <3>1. FromStr(type, MapNode(pairs)) = FromMap(MapNode(pairs), [k \in DOMAIN pairs |-> FromNumber(pairs[k][2])])
      <4>1. \A node : FromStr(type, node) = FromMap(node, [k \in DOMAIN Pairs(node) |-> FromNumber(Pairs(node)[k][2])])
        BY <1>4 DEF FromStr
      <4> HIDE DEF pairs
      <4> QED  BY <2>3, <4>1, Zenon
    <3>2. [k \in DOMAIN pairs |-> FromNumber(pairs[k][2])] = [k \in 1..n |-> FromNumber(pairs[k][2])]
      OBVIOUS
    <3> DEFINE read(p, res) ==
                 {[k \in {p[l][1] : l \in DOMAIN p} |->
                     r[CHOOSE l \in DOMAIN p : p[l][1] = k /\ \A j \in 1..l - 1 : p[j][1] # k]]
                    : r \in FromElements(res)}
    <3>3. \A node, res : node.kind # "seq" => FromMap(node, res) = read(Pairs(node), res)
      BY Zenon DEF FromMap
    <3>4. \A res : read(pairs, res) = {map(r) : r \in FromElements(res)}
      <4> HIDE DEF pairs
      <4> QED  BY Zenon
    <3> HIDE DEF pairs, read, map
    <3> QED  BY <2>3, <3>1, <3>2, <3>3, <3>4, Zenon
  <2>5. FromElements([k \in 1..n |-> FromNumber(pairs[k][2])]) = {vals}
    <3>1. [k \in 1..n |-> FromNumber(pairs[k][2])] = [k \in 1..n |-> FromNumber(ToNumber(vals[k]))]
      OBVIOUS
    <3>2. vals = [k \in 1..n |-> vals[k]]
      OBVIOUS
    <3> HIDE DEF vals
    <3> QED  BY <2>1, <3>1, <3>2, NumbersBack
  <2>6. map(vals) = val
    <3>1. {pairs[l][1] : l \in DOMAIN pairs} = DOMAIN val
      <4>1. DOMAIN pairs = 1..n /\ \A l \in 1..n : pairs[l][1] = s[l]
        OBVIOUS
      <4> HIDE DEF pairs, n
      <4>2. {pairs[l][1] : l \in DOMAIN pairs} = {s[l] : l \in 1..n}
        BY <4>1
      <4>3. {s[l] : l \in 1..n} = DOMAIN val
        BY <2>1
      <4> QED  BY <4>2, <4>3, Zenon
    <3>2. ASSUME NEW k \in DOMAIN val PROVE vals[first(k)] = val[k]
      <4>1. PICK l \in 1..n : s[l] = k
        BY <2>1
      <4>2. \A j \in DOMAIN pairs : j \in 1..n /\ pairs[j][1] = s[j]
        BY Zenon
      <4>3. l \in DOMAIN pairs /\ pairs[l][1] = k /\ \A j \in 1..l - 1 : pairs[j][1] # k
        BY <2>1, <4>1
      <4>4. first(k) \in DOMAIN pairs /\ pairs[first(k)][1] = k
        <5> HIDE DEF pairs
        <5> QED  BY <4>3
      <4> HIDE DEF first
      <4>5. first(k) = l
        BY <2>1, <4>1, <4>2, <4>4
      <4> QED  BY <4>1, <4>5
    <3> HIDE DEF first, pairs, vals
    <3> QED  BY <1>4, <3>1, <3>2
  <2> HIDE DEF map, pairs, vals
  <2> QED  BY <2>2, <2>4, <2>5, <2>6, Zenon
<1> QED  BY <1>1, <1>2, <1>3, <1>4 DEF ValueOf

=============================================================================
