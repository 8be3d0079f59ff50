------------------------------ MODULE ConfigVar ------------------------------
(***************************************************************************)
(* sylar::ConfigVar<T> (sylar/config.h): a value behind a read-write lock, *)
(* with listeners that are told of a change before it is made.  setValue   *)
(* compares and notifies under the read lock, lets go of it, and assigns   *)
(* under the write lock.  The key of a listener comes from a counter that  *)
(* all the variables of one type T share (a static local of addListener),  *)
(* each guarding it with its own lock only.                                *)
(*                                                                         *)
(* getValue, getListener and toString read under the read lock and change  *)
(* nothing; they are not steps of the model.  fromString is setValue after *)
(* a conversion, with the exceptions caught.                               *)
(***************************************************************************)
EXTENDS Naturals, Functions

CONSTANTS
  Threads,
  Setters,    \* the threads that call setValue
  Vars,       \* the variables of the type
  Values,     \* of the type
  Cbs,        \* the callbacks that clients register
  Throwing,   \* the callbacks that may throw
  None,
  MaxCalls    \* bound: calls that each thread makes

ASSUME ConfigVarAssumption ==
  /\ Setters \subseteq Threads /\ Throwing \subseteq Cbs
  /\ None \notin Threads \cup Values \cup Vars \cup Cbs
  /\ MaxCalls \in Nat

VARIABLES
  m_val,     \* per variable
  m_cbs,     \* per variable: key -> callback
  readers,   \* per variable: the threads that hold m_mutex for reading
  writer,    \* per variable: the thread that holds m_mutex for writing
  s_fun_id,  \* the shared counter
  calls,     \* per thread: calls made
  pc,        \* per thread
  this,      \* per thread: the variable its call is about
  v,         \* per thread: the argument of setValue
  at,        \* per thread: the key of the listener called last
  cb,        \* per thread: the argument of addListener
  id,        \* per thread: s_fun_id as the increment read it
  reg,       \* per callback: its variable and the key addListener returned
  heard      \* per callback: the last new value it was told of

locks == <<readers, writer>>
locals == <<this, v, at, cb, id>>
vars == <<m_val, m_cbs, locks, s_fun_id, calls, pc, locals, reg, heard>>

NoListener == [k \in {} |-> None]
NoReg == [var |-> None, key |-> 0]

\* The types of all that does not depend on the type of the value.
Shape ==
  /\ DOMAIN m_cbs = Vars
  /\ \A x \in Vars : DOMAIN m_cbs[x] \subseteq Nat /\ m_cbs[x] \in [DOMAIN m_cbs[x] -> Cbs]
  /\ readers \in [Vars -> SUBSET Threads]
  /\ writer \in [Vars -> Threads \cup {None}]
  /\ s_fun_id \in Nat
  /\ calls \in [Threads -> 0..MaxCalls]
  /\ pc \in [Threads -> {"idle", "notify", "assign", "inc", "store", "return"}]
  /\ this \in [Threads -> Vars \cup {None}]
  /\ at \in [Threads -> Nat]
  /\ cb \in [Threads -> Cbs \cup {None}]
  /\ id \in [Threads -> Nat]
  /\ reg \in [Cbs -> [var : Vars \cup {None}, key : Nat]]

TypeOK ==
  /\ Shape
  /\ m_val \in [Vars -> Values]
  /\ v \in [Threads -> Values \cup {None}]
  /\ \A t \in Threads : pc[t] \in {"notify", "assign"} => v[t] \in Values
  /\ heard \in [Cbs -> Values \cup {None}]

\* No listener, no lock held, no call under way.
Quiet ==
  /\ m_cbs = [x \in Vars |-> NoListener]
  /\ readers = [x \in Vars |-> {}]
  /\ writer = [x \in Vars |-> None]
  /\ s_fun_id = 0
  /\ calls = [t \in Threads |-> 0]
  /\ pc = [t \in Threads |-> "idle"]
  /\ this = [t \in Threads |-> None]
  /\ v = [t \in Threads |-> None]
  /\ at = [t \in Threads |-> 0]
  /\ cb = [t \in Threads |-> None]
  /\ id = [t \in Threads |-> 0]
  /\ reg = [c \in Cbs |-> NoReg]
  /\ heard = [c \in Cbs |-> None]

Init == m_val \in [Vars -> Values] /\ Quiet

-----------------------------------------------------------------------------
(* RWMutex: pthread_rwlock_rdlock and _wrlock return when these hold *)

CanRead(x) == writer[x] = None
CanWrite(x) == writer[x] = None /\ readers[x] = {}

\* Thread t makes one of its calls.
Call(t) ==
  /\ pc[t] = "idle"
  /\ calls[t] < MaxCalls
  /\ calls' = [calls EXCEPT ![t] = @ + 1]

-----------------------------------------------------------------------------
(* setValue *)

\* The read lock, and the comparison: an equal value returns at once.
SetValue(t, x, val) ==
  /\ t \in Setters /\ Call(t)
  /\ CanRead(x)
  /\ val # m_val[x]
  /\ readers' = [readers EXCEPT ![x] = @ \cup {t}]
  /\ pc' = [pc EXCEPT ![t] = "notify"]
  /\ this' = [this EXCEPT ![t] = x]
  /\ v' = [v EXCEPT ![t] = val]
  /\ at' = [at EXCEPT ![t] = 0]
  /\ UNCHANGED <<m_val, m_cbs, writer, s_fun_id, cb, id, reg, heard>>

\* The keys that the loop over m_cbs has not come to, and the first of them.
Ahead(t) == {k \in DOMAIN m_cbs[this[t]] : k > at[t]}
IsNext(t, k) == k \in Ahead(t) /\ \A j \in Ahead(t) : k <= j

\* Faulty variant: the callback is told the old value.
Notify_OldValue(t, k) ==
  /\ IsNext(t, k)
  /\ heard' = [heard EXCEPT ![m_cbs[this[t]][k]] = m_val[this[t]]]
  /\ at' = [at EXCEPT ![t] = k]
  /\ UNCHANGED <<m_val, m_cbs, locks, s_fun_id, calls, pc, this, v, cb, id, reg>>

\* One turn of the loop (pc is "notify"), which goes in the order of the keys.
Notify(t, k) ==
  /\ IsNext(t, k)
  /\ heard' = [heard EXCEPT ![m_cbs[this[t]][k]] = v[t]]
  /\ at' = [at EXCEPT ![t] = k]
  /\ UNCHANGED <<m_val, m_cbs, locks, s_fun_id, calls, pc, this, v, cb, id, reg>>

\* Faulty variant: the lock is not released by a guard.
NotifyThrows_KeepsLock(t, k) ==
  /\ IsNext(t, k)
  /\ m_cbs[this[t]][k] \in Throwing
  /\ pc' = [pc EXCEPT ![t] = "idle"]
  /\ UNCHANGED <<m_val, m_cbs, locks, s_fun_id, calls, locals, reg, heard>>

\* A callback throws: setValue is left, its guard lets go of the lock.
NotifyThrows(t, k) ==
  /\ IsNext(t, k)
  /\ m_cbs[this[t]][k] \in Throwing
  /\ readers' = [readers EXCEPT ![this[t]] = @ \ {t}]
  /\ pc' = [pc EXCEPT ![t] = "idle"]
  /\ UNCHANGED <<m_val, m_cbs, writer, s_fun_id, calls, locals, reg, heard>>

\* Faulty variant: the loop may be left before its end.
Notified_Early(t) ==
  /\ pc[t] = "notify"
  /\ readers' = [readers EXCEPT ![this[t]] = @ \ {t}]
  /\ pc' = [pc EXCEPT ![t] = "assign"]
  /\ UNCHANGED <<m_val, m_cbs, writer, s_fun_id, calls, locals, reg, heard>>

\* The end of the scope of the read lock.
Notified(t) ==
  /\ pc[t] = "notify"
  /\ Ahead(t) = {}
  /\ readers' = [readers EXCEPT ![this[t]] = @ \ {t}]
  /\ pc' = [pc EXCEPT ![t] = "assign"]
  /\ UNCHANGED <<m_val, m_cbs, writer, s_fun_id, calls, locals, reg, heard>>

\* The write lock, m_val = v, and the return.
Assign(t) ==
  /\ pc[t] = "assign"
  /\ CanWrite(this[t])
  /\ m_val' = [m_val EXCEPT ![this[t]] = v[t]]
  /\ pc' = [pc EXCEPT ![t] = "idle"]
  /\ UNCHANGED <<m_cbs, locks, s_fun_id, calls, locals, reg, heard>>

-----------------------------------------------------------------------------
(* Listeners *)

\* A callback is registered once at a time.
Free(c) == reg[c] = NoReg /\ \A t \in Threads : pc[t] # "idle" => cb[t] # c

\* addListener: the write lock, and s_fun_id as ++ reads it.
AddListener(t, x, c) ==
  /\ Call(t)
  /\ Free(c)
  /\ CanWrite(x)
  /\ writer' = [writer EXCEPT ![x] = t]
  /\ pc' = [pc EXCEPT ![t] = "inc"]
  /\ this' = [this EXCEPT ![t] = x]
  /\ cb' = [cb EXCEPT ![t] = c]
  /\ id' = [id EXCEPT ![t] = s_fun_id]
  /\ heard' = [heard EXCEPT ![c] = None]
  /\ UNCHANGED <<m_val, m_cbs, readers, s_fun_id, v, at, reg>>

\* Faulty variant: the counter runs down.
Increment_Down(t) ==
  /\ pc[t] = "inc"
  /\ s_fun_id' = id[t] - 1
  /\ pc' = [pc EXCEPT ![t] = "store"]
  /\ UNCHANGED <<m_val, m_cbs, locks, calls, locals, reg, heard>>

\* The write of ++s_fun_id: neither atomic nor under a lock the variables share.
Increment(t) ==
  /\ pc[t] = "inc"
  /\ s_fun_id' = id[t] + 1
  /\ pc' = [pc EXCEPT ![t] = "store"]
  /\ UNCHANGED <<m_val, m_cbs, locks, calls, locals, reg, heard>>

\* m_cbs[s_fun_id] = cb
Store(t) ==
  LET x == this[t] IN
  /\ pc[t] = "store"
  /\ m_cbs' = [m_cbs EXCEPT ![x] =
                [k \in DOMAIN m_cbs[x] \cup {s_fun_id} |->
                   IF k = s_fun_id THEN cb[t] ELSE m_cbs[x][k]]]
  /\ pc' = [pc EXCEPT ![t] = "return"]
  /\ UNCHANGED <<m_val, locks, s_fun_id, calls, locals, reg, heard>>

\* Faulty variants: the key before the increment is returned, and the unlock is
\* forgotten.
AddReturn_OldKey(t) ==
  /\ pc[t] = "return"
  /\ reg' = [reg EXCEPT ![cb[t]] = [var |-> this[t], key |-> id[t]]]
  /\ writer' = [writer EXCEPT ![this[t]] = None]
  /\ pc' = [pc EXCEPT ![t] = "idle"]
  /\ cb' = [cb EXCEPT ![t] = None]
  /\ UNCHANGED <<m_val, m_cbs, readers, s_fun_id, calls, this, v, at, id, heard>>

AddReturn_KeepsLock(t) ==
  /\ pc[t] = "return"
  /\ reg' = [reg EXCEPT ![cb[t]] = [var |-> this[t], key |-> s_fun_id]]
  /\ pc' = [pc EXCEPT ![t] = "idle"]
  /\ cb' = [cb EXCEPT ![t] = None]
  /\ UNCHANGED <<m_val, m_cbs, locks, s_fun_id, calls, this, v, at, id, heard>>

\* return s_fun_id, and the unlock
AddReturn(t) ==
  /\ pc[t] = "return"
  /\ reg' = [reg EXCEPT ![cb[t]] = [var |-> this[t], key |-> s_fun_id]]
  /\ writer' = [writer EXCEPT ![this[t]] = None]
  /\ pc' = [pc EXCEPT ![t] = "idle"]
  /\ cb' = [cb EXCEPT ![t] = None]
  /\ UNCHANGED <<m_val, m_cbs, readers, s_fun_id, calls, this, v, at, id, heard>>

\* delListener with the key that addListener returned for c.
DelListener(t, c) ==
  LET x == reg[c].var IN
  /\ Call(t)
  /\ x # None
  /\ CanWrite(x)
  /\ m_cbs' = [m_cbs EXCEPT ![x] = Restrict(@, DOMAIN @ \ {reg[c].key})]
  /\ reg' = [reg EXCEPT ![c] = NoReg]
  /\ UNCHANGED <<m_val, locks, s_fun_id, pc, locals, heard>>

\* Faulty variant: clearListener takes the read lock.
ClearListener_ReadLock(t, x) ==
  /\ Call(t)
  /\ CanRead(x)
  /\ m_cbs' = [m_cbs EXCEPT ![x] = NoListener]
  /\ reg' = [c \in Cbs |-> IF reg[c].var = x THEN NoReg ELSE reg[c]]
  /\ UNCHANGED <<m_val, locks, s_fun_id, pc, locals, heard>>

\* clearListener: every key handed out for x is void.
ClearListener(t, x) ==
  /\ Call(t)
  /\ CanWrite(x)
  /\ m_cbs' = [m_cbs EXCEPT ![x] = NoListener]
  /\ reg' = [c \in Cbs |-> IF reg[c].var = x THEN NoReg ELSE reg[c]]
  /\ UNCHANGED <<m_val, locks, s_fun_id, pc, locals, heard>>

-----------------------------------------------------------------------------
\* What a thread does to go on with a call it has made.
Step(t) ==
  \/ pc[t] = "notify" /\ \E k \in Ahead(t) : Notify(t, k) \/ NotifyThrows(t, k)
  \/ Notified(t) \/ Assign(t)
  \/ Increment(t) \/ Store(t) \/ AddReturn(t)

Next ==
  \E t \in Threads :
    \/ Step(t)
    \/ \E x \in Vars, val \in Values : SetValue(t, x, val)
    \/ \E x \in Vars, c \in Cbs : AddListener(t, x, c)
    \/ \E c \in Cbs : DelListener(t, c)
    \/ \E x \in Vars : ClearListener(t, x)

Spec == Init /\ [][Next]_vars

\* A thread inside a call is not stopped for ever, and gets a lock that stays free.
FairSpec == Spec /\ \A t \in Threads : WF_vars(Step(t))

-----------------------------------------------------------------------------
(* Properties *)

\* Thread t is inside setValue on x.
Setting(t, x) == pc[t] \in {"notify", "assign"} /\ this[t] = x

(***************************************************************************)
(* The loop over m_cbs is safe although it holds the lock for reading      *)
(* only: while it runs, no step of anyone changes the value it passes as   *)
(* the old one or the map it iterates over.                                *)
(***************************************************************************)
LoopUndisturbed ==
  [][\A t \in Threads :
       pc[t] = "notify" =>
         /\ m_val'[this[t]] = m_val[this[t]]
         /\ m_cbs'[this[t]] = m_cbs[this[t]]]_vars

(***************************************************************************)
(* "The callback, which notifies the observer that the configuration has   *)
(* changed" (config.h:318): with no setValue under way, the last value a   *)
(* registered listener was told is the value of its variable.              *)
(***************************************************************************)
ListenersInSync ==
  \A c \in Cbs, x \in Vars :
    (reg[c].var = x /\ heard[c] # None /\ \A t \in Threads : ~Setting(t, x)) =>
      heard[c] = m_val[x]

(***************************************************************************)
(* "uint64_t key, has to be unique" (config.h:353): the key that           *)
(* addListener returned finds the listener it was returned for, so         *)
(* delListener removes that one and no other.                              *)
(***************************************************************************)
KeyFindsListener ==
  \A c \in Cbs :
    LET x == reg[c].var  k == reg[c].key IN
    x # None => k \in DOMAIN m_cbs[x] /\ m_cbs[x][k] = c

\* A listener is told of a change before the change can be read, never after it:
\* an assignment installs what every registered listener heard last.
ToldBefore ==
  [][\A x \in Vars : m_val'[x] # m_val[x] =>
       \A k \in DOMAIN m_cbs[x] : heard[m_cbs[x][k]] \in {m_val'[x], None}]_vars

\* Every call returns: no thread waits for ever for a lock of config.h.
CallsReturn == \A t \in Threads : pc[t] # "idle" ~> pc[t] = "idle"

-----------------------------------------------------------------------------
(* Inductive invariants *)

Adding(t) == pc[t] \in {"inc", "store", "return"}

\* Who holds which lock: what LoopUndisturbed rests on, for all constants.
LockInv ==
  /\ \A x \in Vars : writer[x] # None => readers[x] = {}
  /\ \A t \in Threads :
       /\ pc[t] # "idle" => this[t] \in Vars
       /\ pc[t] \in {"notify", "assign"} => t \in Setters
       /\ pc[t] = "notify" => t \in readers[this[t]]
       /\ Adding(t) => writer[this[t]] = t /\ cb[t] \in Cbs

\* One variable of the type, one thread that sets it, no callback that throws.
Sole ==
  /\ \A x, y \in Vars : x = y
  /\ \A t, u \in Setters : t = u
  /\ Throwing = {}

\* The keys in the maps, of the listeners registered or being so, with one variable.
KeysGiven ==
  \A x \in Vars : \A k \in DOMAIN m_cbs[x] :
    /\ 0 < k /\ k <= s_fun_id
    /\ \/ reg[m_cbs[x][k]] = [var |-> x, key |-> k]
       \/ \E t \in Threads : pc[t] = "return" /\ cb[t] = m_cbs[x][k] /\ k = s_fun_id

\* The counter, at each point of addListener.
KeysTaken ==
  \A t \in Threads : Adding(t) =>
    /\ reg[cb[t]] = NoReg /\ heard[cb[t]] = None
    /\ pc[t] = "inc" => id[t] = s_fun_id
    /\ pc[t] = "store" => 0 < s_fun_id /\ s_fun_id \notin DOMAIN m_cbs[this[t]]
    /\ pc[t] = "return" =>
         s_fun_id \in DOMAIN m_cbs[this[t]] /\ m_cbs[this[t]][s_fun_id] = cb[t]

KeyInv == KeysGiven /\ KeysTaken /\ KeyFindsListener

\* What each registered callback has heard, at each point of the one setter.
SyncInv ==
  \A x \in Vars : \A k \in DOMAIN m_cbs[x] :
    LET h == heard[m_cbs[x][k]] IN
    /\ (\A t \in Threads : ~Setting(t, x)) => h \in {None, m_val[x]}
    /\ \A t \in Threads :
         /\ pc[t] = "notify" /\ k <= at[t] => h = v[t]
         /\ pc[t] = "notify" /\ k > at[t] => h \in {None, m_val[x]}
         /\ pc[t] = "assign" => h \in {None, v[t]}

=============================================================================
