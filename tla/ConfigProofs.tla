---------------------------- MODULE ConfigProofs ----------------------------
(***************************************************************************)
(* Config, for any threads, names, documents and variables: what is        *)
(* registered stays, a load reaches every variable that it names, and what *)
(* is printed of a variable is read back to its value.                     *)
(***************************************************************************)
EXTENDS Config, ConfigVarProofs

(* The registry *)

Forms ==
  /\ DOMAIN m_val = Vars /\ DOMAIN v = Threads /\ born \subseteq Vars
  /\ rpc \in [Threads -> {"idle", "insert", "report", "load", "visit"}]
  /\ i \in [Threads -> Nat]
  /\ DOMAIN name = Threads /\ DOMAIN fresh = Threads
  /\ DOMAIN all_nodes = Threads /\ DOMAIN kept = Threads

\* Thread t has a variable to insert; thread t is in setValue.
Pending(t) == rpc[t] \in {"insert", "report"}
InSet(t) == pc[t] \in {"notify", "assign"}

ReadersInv == \A t \in Threads : t \in s_readers <=> rpc[t] \in {"visit", "report"}

\* What a thread is to insert: a variable that it asked for, and nobody else has.
ToInsert(t) ==
  /\ fresh[t] \in born /\ <<t, name[t], Type[fresh[t]]>> \in Asks
  /\ \A n \in DOMAIN s_datas : s_datas[n] # fresh[t]
  /\ \A u \in Threads : Pending(u) /\ fresh[u] = fresh[t] => u = t
  /\ OneRegistrar(name[t]) => name[t] \notin DOMAIN s_datas

\* An entry: a variable that a thread asked for, under one name only.
EntryOK(n) ==
  /\ s_datas[n] \in born
  /\ \E u \in Threads : <<u, n, Type[s_datas[n]]>> \in Asks
  /\ \A m \in DOMAIN s_datas : s_datas[m] = s_datas[n] => m = n

RegistryInv ==
  /\ \A n \in DOMAIN s_datas : EntryOK(n)
  /\ \A t \in Threads : Pending(t) => ToInsert(t)

Registered == Held /\ Forms /\ ReadersInv /\ RegistryInv

\* LookupBase finds the entry of a name, which is a variable, if there is one.
LEMMA FoundIs ==
  ASSUME Registered, NEW n
  PROVE  /\ n \in DOMAIN s_datas => Found(n) = s_datas[n] /\ Found(n) # None
         /\ Found(n) # None => n \in DOMAIN s_datas /\ Found(n) = s_datas[n] /\ Found(n) \in born /\ Found(n) \in Vars
<1>1. n \in DOMAIN s_datas => s_datas[n] \in born /\ s_datas[n] \in Vars
  BY DEF Registered, RegistryInv, EntryOK, Forms
<1>2. None \notin Vars
  BY ConfigVarAssumption
<1> QED  BY <1>1, <1>2 DEF Found

\* A step of ConfigNext, by what it does to ConfigVar.
LEMMA VarSteps ==
  ASSUME [ConfigNext]_allVars
  PROVE  \/ UNCHANGED vars
         \/ \E t \in Threads : Step(t) /\ UNCHANGED configVars
         \/ \E t \in Threads : LoadNode(t) /\ \E val \in Read(all_nodes[t][i[t]]) : SetValue(t, Found(all_nodes[t][i[t]].key), val)
         \/ \E t \in Threads, x \in Vars, c \in Cbs : Listen(t, x, c)
<1>1. CASE UNCHANGED allVars
  BY <1>1 DEF allVars
<1>2. ASSUME NEW t \in Threads, LoadNode(t)
      PROVE  UNCHANGED vars \/ \E val \in Read(all_nodes[t][i[t]]) : SetValue(t, Found(all_nodes[t][i[t]].key), val)
  BY <1>2 DEF LoadNode
<1>3. ASSUME NEW t \in Threads,
             \/ LookupReport(t) \/ LookupInsert(t) \/ Loaded(t) \/ VisitNode(t) \/ Visited(t) \/ Visit(t)
             \/ \E a \in Asks : Lookup(t, a[2], a[3])
             \/ \E d \in DOMAIN Docs : Load(t, d)
      PROVE  UNCHANGED vars
  BY <1>3, Zenon DEF LookupReport, LookupInsert, Loaded, VisitNode, Visited, Visit, Lookup, Load
<1> QED  BY <1>1, <1>2, <1>3 DEF ConfigNext, ConfigStep

\* The steps of ConfigNext that leave the registry alone, and what is to be inserted.
RegistrySame ==
  /\ UNCHANGED <<s_datas, born, name, fresh>>
  /\ \A u \in Threads : Pending(u)' <=> Pending(u)

\* A step of ConfigNext, by what it does to the registry: only Lookup changes it.
LEMMA RegistrySteps ==
  ASSUME Forms, [ConfigNext]_allVars
  PROVE  \/ RegistrySame
         \/ \E t \in Threads, a \in Asks : Lookup(t, a[2], a[3]) /\ Looked(a[2], a[3]) # "idle"
         \/ \E t \in Threads : LookupInsert(t)
<1>0. rpc \in [Threads -> {"idle", "insert", "report", "load", "visit"}]
  BY DEF Forms
<1>1. CASE UNCHANGED configVars
  BY <1>1 DEF RegistrySame, Pending, configVars, registry, configLocals
<1>2. ASSUME NEW t \in Threads, LookupReport(t) PROVE RegistrySame
  BY <1>0, <1>2 DEF RegistrySame, Pending, LookupReport, Goto, configLocals
<1>3. ASSUME NEW t \in Threads, LoadNode(t) \/ VisitNode(t) PROVE RegistrySame
  BY <1>3 DEF RegistrySame, Pending, LoadNode, VisitNode, registry
<1>4. ASSUME NEW t \in Threads, Loaded(t) \/ Visited(t) PROVE RegistrySame
  BY <1>0, <1>4 DEF RegistrySame, Pending, Loaded, Visited, Goto, registry, configLocals
<1>5. ASSUME NEW t \in Threads, Visit(t) \/ \E d \in DOMAIN Docs : Load(t, d) PROVE RegistrySame
  BY <1>0, <1>5 DEF RegistrySame, Pending, Visit, Load, Ask, registry
<1>6. ASSUME NEW t \in Threads, NEW n, NEW ty, Lookup(t, n, ty), Looked(n, ty) = "idle" PROVE RegistrySame
  BY <1>0, <1>6 DEF RegistrySame, Pending, Lookup, Ask
<1>7. ASSUME NEW t \in Threads, NEW x, NEW c, Listen(t, x, c) PROVE UNCHANGED configVars
  BY <1>7 DEF Listen
<1> QED  BY <1>1, <1>2, <1>3, <1>4, <1>5, <1>6, <1>7 DEF ConfigNext, ConfigStep, allVars

\* The form of the state is the same after every step.
LEMMA FormsKept ==
  ASSUME Forms, [ConfigNext]_allVars
  PROVE  Forms'
<1>1. DOMAIN m_val' = Vars /\ DOMAIN v' = Threads
  <2>1. ASSUME NEW t \in Threads, Step(t) PROVE DOMAIN m_val' = Vars /\ DOMAIN v' = Threads
    BY <2>1 DEF Forms, Step, Notify, NotifyThrows, Notified, Assign, Increment, Store, AddReturn, locals
  <2>2. ASSUME NEW t \in Threads, NEW x, NEW val, SetValue(t, x, val) PROVE DOMAIN m_val' = Vars /\ DOMAIN v' = Threads
    BY <2>2 DEF Forms, SetValue
  <2>3. ASSUME NEW t \in Threads, NEW x, NEW c, Listen(t, x, c) PROVE DOMAIN m_val' = Vars /\ DOMAIN v' = Threads
    BY <2>3 DEF Forms, Listen, AddListener
  <2>4. CASE UNCHANGED vars
    BY <2>4 DEF Forms, vars, locals
  <2> QED  BY <2>1, <2>2, <2>3, <2>4, VarSteps
<1>2. born' \subseteq Vars
  <2>1. ASSUME NEW t \in Threads, NEW n, NEW ty, Lookup(t, n, ty), Looked(n, ty) # "idle" PROVE born' \subseteq Vars
    BY <2>1 DEF Forms, Lookup, The, Unborn
  <2>2. ASSUME NEW t \in Threads, LookupInsert(t) PROVE born' \subseteq Vars
    BY <2>2 DEF Forms, LookupInsert
  <2> QED  BY <2>1, <2>2, RegistrySteps DEF Forms, RegistrySame
<1>3. rpc' \in [Threads -> {"idle", "insert", "report", "load", "visit"}]
  <2>1. \A n, ty : Looked(n, ty) \in {"idle", "insert", "report"}
    BY DEF Looked
  <2>2. ASSUME NEW t \in Threads, NEW n, NEW ty, Lookup(t, n, ty)
        PROVE  rpc' \in [Threads -> {"idle", "insert", "report", "load", "visit"}]
    BY <2>1, <2>2 DEF Forms, Lookup, Ask
  <2>3. ASSUME NEW t \in Threads, Visit(t) \/ \E d \in DOMAIN Docs : Load(t, d)
        PROVE  rpc' \in [Threads -> {"idle", "insert", "report", "load", "visit"}]
    BY <2>3 DEF Forms, Visit, Load, Ask
  <2>4. ASSUME NEW t \in Threads, LookupReport(t) \/ LookupInsert(t) \/ Loaded(t) \/ Visited(t)
        PROVE  rpc' \in [Threads -> {"idle", "insert", "report", "load", "visit"}]
    BY <2>4 DEF Forms, LookupReport, LookupInsert, Loaded, Visited, Goto
  <2>5. ASSUME NEW t \in Threads, LoadNode(t) \/ VisitNode(t) PROVE rpc' = rpc
    BY <2>5, Zenon DEF LoadNode, VisitNode
  <2>6. UNCHANGED configVars => rpc' = rpc
    BY DEF configVars
  <2> QED  BY <2>2, <2>3, <2>4, <2>5, <2>6 DEF ConfigNext, ConfigStep, Listen, allVars, Forms
<1>4. i' \in [Threads -> Nat]
  <2>1. ASSUME NEW t \in Threads, LoadNode(t) PROVE i' \in [Threads -> Nat]
    BY <2>1 DEF Forms, LoadNode, After
  <2>2. ASSUME NEW t \in Threads, Loaded(t) \/ \E d \in DOMAIN Docs : Load(t, d) PROVE i' \in [Threads -> Nat]
    <3>1. i' = [i EXCEPT ![t] = 0] \/ i' = [i EXCEPT ![t] = 1]
      BY <2>2 DEF Load, Loaded
    <3> QED  BY <3>1 DEF Forms
  <2>3. ASSUME NEW t \in Threads, NEW n, NEW ty, Lookup(t, n, ty) PROVE i' = i
    BY <2>3 DEF Lookup
  <2>4. ASSUME NEW t \in Threads, LookupReport(t) \/ LookupInsert(t) \/ VisitNode(t) \/ Visited(t) \/ Visit(t)
        PROVE  i' = i
    <3>1. LookupReport(t) \/ Visited(t) => i' = i
      BY DEF LookupReport, Visited, configLocals
    <3>2. LookupInsert(t) \/ VisitNode(t) \/ Visit(t) => i' = i
      BY DEF LookupInsert, VisitNode, Visit
    <3> QED  BY <2>4, <3>1, <3>2
  <2>5. UNCHANGED configVars => i' = i
    BY DEF configVars, configLocals
  <2> QED  BY <2>1, <2>2, <2>3, <2>4, <2>5 DEF ConfigNext, ConfigStep, Listen, allVars, Forms
<1>5. DOMAIN name' = Threads /\ DOMAIN fresh' = Threads
  <2>1. ASSUME NEW t \in Threads, NEW n, NEW ty, Lookup(t, n, ty) PROVE DOMAIN name' = Threads /\ DOMAIN fresh' = Threads
    BY <2>1 DEF Forms, Lookup
  <2>2. ASSUME NEW t \in Threads, LookupInsert(t) PROVE DOMAIN name' = Threads /\ DOMAIN fresh' = Threads
    BY <2>2 DEF Forms, LookupInsert
  <2> QED  BY <2>1, <2>2, RegistrySteps DEF Forms, RegistrySame
<1>6. DOMAIN all_nodes' = Threads /\ DOMAIN kept' = Threads
  <2>1. ASSUME NEW t \in Threads, Loaded(t) \/ LookupInsert(t) \/ \E d \in DOMAIN Docs : Load(t, d)
        PROVE  DOMAIN all_nodes' = Threads /\ DOMAIN kept' = Threads
    BY <2>1 DEF Forms, Load, Loaded, LookupInsert
  <2>2. ASSUME NEW t \in Threads, NEW n, NEW ty, Lookup(t, n, ty) PROVE UNCHANGED <<all_nodes, kept>>
    BY <2>2 DEF Lookup
  <2>3. ASSUME NEW t \in Threads, LookupReport(t) \/ LoadNode(t) \/ VisitNode(t) \/ Visited(t) \/ Visit(t)
        PROVE  UNCHANGED <<all_nodes, kept>>
    BY <2>3, Zenon DEF LookupReport, LoadNode, VisitNode, Visited, Visit, configLocals
  <2>4. UNCHANGED configVars => UNCHANGED <<all_nodes, kept>>
    BY DEF configVars, configLocals
  <2> QED  BY <2>1, <2>2, <2>3, <2>4 DEF ConfigNext, ConfigStep, Listen, allVars, Forms
<1> QED  BY <1>1, <1>2, <1>3, <1>4, <1>5, <1>6 DEF Forms

\* Who holds the registry for reading: a Visit, and a Lookup that reports.
LEMMA ReadersKept ==
  ASSUME Forms, ReadersInv, [ConfigNext]_allVars
  PROVE  ReadersInv'
<1>0. rpc \in [Threads -> {"idle", "insert", "report", "load", "visit"}]
  BY DEF Forms
<1>1. ASSUME UNCHANGED <<s_readers, rpc>> PROVE ReadersInv'
  BY <1>1 DEF ReadersInv
<1>2. ASSUME NEW t \in Threads, NEW n, NEW ty, Lookup(t, n, ty) PROVE ReadersInv'
  <2>1. Looked(n, ty) \in {"idle", "insert", "report"}
    BY DEF Looked
  <2>2. /\ rpc[t] = "idle" /\ rpc' = [rpc EXCEPT ![t] = Looked(n, ty)]
        /\ s_readers' = IF Looked(n, ty) = "report" THEN s_readers \cup {t} ELSE s_readers
    BY <1>2 DEF Lookup, Ask
  <2> QED  BY <1>0, <2>1, <2>2 DEF ReadersInv
<1>3. ASSUME NEW t \in Threads, LookupReport(t) \/ Visited(t) PROVE ReadersInv'
  BY <1>0, <1>3 DEF ReadersInv, LookupReport, Visited, Goto
<1>4. ASSUME NEW t \in Threads, LookupInsert(t) \/ Loaded(t) PROVE ReadersInv'
  BY <1>0, <1>4 DEF ReadersInv, LookupInsert, Loaded, Goto, registry
<1>5. ASSUME NEW t \in Threads, Visit(t) PROVE ReadersInv'
  BY <1>0, <1>5 DEF ReadersInv, Visit, Ask
<1>6. ASSUME NEW t \in Threads, NEW d, Load(t, d) PROVE ReadersInv'
  BY <1>0, <1>6 DEF ReadersInv, Load, Ask, registry
<1>7. ASSUME NEW t \in Threads, LoadNode(t) \/ VisitNode(t) PROVE UNCHANGED <<s_readers, rpc>>
  BY <1>7, Zenon DEF LoadNode, VisitNode, registry
<1>8. UNCHANGED configVars => UNCHANGED <<s_readers, rpc>>
  BY DEF configVars, registry
<1> QED
  BY <1>1, <1>2, <1>3, <1>4, <1>5, <1>6, <1>7, <1>8 DEF ConfigNext, ConfigStep, Listen, allVars

\* A Lookup that found no entry of its type makes a variable that nobody has, and no
\* other thread that registers the name can be ahead of it.
LEMMA LookupMakes ==
  ASSUME Registered, NEW t \in Threads, NEW n, NEW ty, Lookup(t, n, ty), Looked(n, ty) # "idle"
  PROVE  \E x \in Vars \ born :
           /\ Type[x] = ty /\ <<t, n, ty>> \in Asks /\ UNCHANGED s_datas
           /\ fresh' = [fresh EXCEPT ![t] = x] /\ name' = [name EXCEPT ![t] = n] /\ born' = born \cup {x}
           /\ rpc[t] = "idle" /\ rpc' = [rpc EXCEPT ![t] = Looked(n, ty)] /\ Looked(n, ty) \in {"insert", "report"}
           /\ OneRegistrar(n) => n \notin DOMAIN s_datas
<1> DEFINE x == The(Unborn(ty))
<1>1. Unborn(ty) # {} /\ <<t, n, ty>> \in Asks /\ UNCHANGED s_datas
      /\ fresh' = [fresh EXCEPT ![t] = x] /\ name' = [name EXCEPT ![t] = n] /\ born' = born \cup {x}
  BY DEF Lookup
<1>2. x \in Unborn(ty)
  BY <1>1 DEF The
<1>3. x \in Vars \ born /\ Type[x] = ty
  BY <1>2 DEF Unborn
<1>4. rpc[t] = "idle" /\ rpc' = [rpc EXCEPT ![t] = Looked(n, ty)]
  BY DEF Lookup, Ask
<1>5. Looked(n, ty) \in {"insert", "report"}
  BY DEF Looked
<1>6. ASSUME OneRegistrar(n), n \in DOMAIN s_datas PROVE FALSE
  <2>1. PICK u \in Threads : <<u, n, Type[s_datas[n]]>> \in Asks
    BY <1>6 DEF Registered, RegistryInv, EntryOK
  <2>2. Type[s_datas[n]] = ty
    BY <1>1, <1>6, <2>1 DEF OneRegistrar
  <2>3. Found(n) # None /\ Type[Found(n)] = ty
    BY <1>6, <2>2, FoundIs
  <2> QED  BY <2>3 DEF Looked
<1> HIDE DEF x
<1> QED  BY <1>1, <1>3, <1>4, <1>5, <1>6, Zenon

\* The entries stay in order, and so does what is to be inserted: a Lookup.
LEMMA LookupRegistry ==
  ASSUME Registered, NEW t \in Threads, NEW n, NEW ty, Lookup(t, n, ty), Looked(n, ty) # "idle"
  PROVE  RegistryInv'
<1>0. PICK x \in Vars \ born :
           /\ Type[x] = ty /\ <<t, n, ty>> \in Asks /\ UNCHANGED s_datas
           /\ fresh' = [fresh EXCEPT ![t] = x] /\ name' = [name EXCEPT ![t] = n] /\ born' = born \cup {x}
           /\ rpc[t] = "idle" /\ rpc' = [rpc EXCEPT ![t] = Looked(n, ty)] /\ Looked(n, ty) \in {"insert", "report"}
           /\ OneRegistrar(n) => n \notin DOMAIN s_datas
  BY LookupMakes
<1>1. fresh'[t] = x /\ name'[t] = n /\ \A u \in Threads : u # t =>
        fresh'[u] = fresh[u] /\ name'[u] = name[u] /\ (Pending(u)' <=> Pending(u))
  BY <1>0 DEF Registered, Forms, Pending
<1>2. RegistryInv
  BY DEF Registered
<1>3. ASSUME NEW m \in DOMAIN s_datas' PROVE EntryOK(m)'
  BY <1>0, <1>2 DEF RegistryInv, EntryOK
<1>4. \A m \in DOMAIN s_datas : s_datas[m] # x
  BY <1>0, <1>2 DEF RegistryInv, EntryOK
<1>5. \A u \in Threads : u # t /\ Pending(u) => fresh[u] # x
  BY <1>0, <1>2, Zenon DEF RegistryInv, ToInsert
<1>6. ToInsert(t)'
  <2>1. fresh'[t] \in born' /\ <<t, name'[t], Type[fresh'[t]]>> \in Asks /\ \A m \in DOMAIN s_datas' : s_datas'[m] # fresh'[t]
    BY <1>0, <1>1, <1>4
  <2>2. \A u \in Threads : Pending(u)' /\ fresh'[u] = fresh'[t] => u = t
    BY <1>1, <1>5
  <2>3. OneRegistrar(name'[t]) => name'[t] \notin DOMAIN s_datas'
    BY <1>0, <1>1
  <2> QED  BY <2>1, <2>2, <2>3 DEF ToInsert, OneRegistrar
<1>7. ASSUME NEW u \in Threads, u # t, Pending(u)' PROVE ToInsert(u)'
  <2>1. ToInsert(u) /\ fresh'[u] = fresh[u] /\ name'[u] = name[u]
    BY <1>1, <1>2, <1>7 DEF RegistryInv
  <2>2. \A w \in Threads : Pending(w)' /\ fresh'[w] = fresh'[u] => w = u
    BY <1>1, <1>5, <1>7, <2>1 DEF ToInsert
  <2>3. fresh'[u] \in born' /\ <<u, name'[u], Type[fresh'[u]]>> \in Asks /\ \A m \in DOMAIN s_datas' : s_datas'[m] # fresh'[u]
    BY <1>0, <2>1 DEF ToInsert
  <2>4. OneRegistrar(name'[u]) => name'[u] \notin DOMAIN s_datas'
    BY <1>0, <2>1 DEF ToInsert
  <2> QED  BY <2>2, <2>3, <2>4 DEF ToInsert, OneRegistrar
<1> QED  BY <1>3, <1>6, <1>7 DEF RegistryInv

\* The entries stay in order, and so does what is to be inserted: GetDatas()[name] = v.
LEMMA InsertRegistry ==
  ASSUME Registered, NEW t \in Threads, LookupInsert(t)
  PROVE  /\ RegistryInv' /\ ToInsert(t)
         /\ \A n \in DOMAIN s_datas : n # name[t] => s_datas'[n] = s_datas[n]
<1>1. /\ DOMAIN s_datas' = DOMAIN s_datas \cup {name[t]} /\ s_datas'[name[t]] = fresh[t] /\ UNCHANGED born
      /\ \A n \in DOMAIN s_datas : n # name[t] => s_datas'[n] = s_datas[n]
  BY DEF LookupInsert
<1>2. /\ Pending(t) /\ ~Pending(t)'
      /\ \A u \in Threads : u # t =>
           fresh'[u] = fresh[u] /\ name'[u] = name[u] /\ (Pending(u)' <=> Pending(u))
  BY DEF LookupInsert, Goto, Registered, Forms, Pending
<1>3. RegistryInv /\ ToInsert(t)
  BY <1>2 DEF Registered, RegistryInv
<1>4. ASSUME NEW n \in DOMAIN s_datas' PROVE EntryOK(n)'
  <2>1. CASE n = name[t]
    <3>1. s_datas'[n] = fresh[t] /\ fresh[t] \in born /\ <<t, n, Type[fresh[t]]>> \in Asks
      BY <1>1, <1>3, <2>1 DEF ToInsert
    <3>2. \A m \in DOMAIN s_datas' : s_datas'[m] = s_datas'[n] => m = n
      BY <1>1, <1>3, <2>1, <3>1 DEF ToInsert
    <3> QED  BY <1>1, <3>1, <3>2 DEF EntryOK
  <2>2. CASE n # name[t]
    <3>1. n \in DOMAIN s_datas /\ s_datas'[n] = s_datas[n] /\ EntryOK(n) /\ s_datas[n] # fresh[t]
      BY <1>1, <1>3, <2>2 DEF RegistryInv, ToInsert
    <3>2. \A m \in DOMAIN s_datas' : s_datas'[m] = s_datas'[n] => m = n
      BY <1>1, <3>1 DEF EntryOK
    <3> QED  BY <1>1, <3>1, <3>2 DEF EntryOK
  <2> QED  BY <2>1, <2>2
<1>5. ASSUME NEW u \in Threads, Pending(u)' PROVE ToInsert(u)'
  <2>1. u # t /\ Pending(u) /\ ToInsert(u) /\ fresh'[u] = fresh[u] /\ name'[u] = name[u]
    BY <1>2, <1>3, <1>5, Zenon DEF RegistryInv
  <2>2. fresh[u] # fresh[t]
    BY <1>2, <1>3, <2>1 DEF ToInsert
  <2>3. OneRegistrar(name[u]) => name[u] # name[t]
    BY <1>3, <2>1 DEF ToInsert, OneRegistrar
  <2>4. fresh'[u] \in born' /\ <<u, name'[u], Type[fresh'[u]]>> \in Asks
    BY <1>1, <2>1 DEF ToInsert
  <2>5. \A n \in DOMAIN s_datas' : s_datas'[n] # fresh'[u]
    BY <1>1, <2>1, <2>2 DEF ToInsert
  <2>6. \A w \in Threads : Pending(w)' /\ fresh'[w] = fresh'[u] => w = u
    BY <1>2, <2>1 DEF ToInsert
  <2>7. OneRegistrar(name'[u]) => name'[u] \notin DOMAIN s_datas'
    BY <1>1, <2>1, <2>3 DEF ToInsert
  <2> QED  BY <2>4, <2>5, <2>6, <2>7 DEF ToInsert, OneRegistrar
<1> QED  BY <1>1, <1>3, <1>4, <1>5 DEF RegistryInv

\* Every step of Config keeps the registry in order.
LEMMA RegisteredKept ==
  ASSUME Registered, [ConfigNext]_allVars
  PROVE  Registered'
<1>1. Forms' /\ ReadersInv'
  BY FormsKept, ReadersKept DEF Registered
<1>2. RegistryInv'
  <2>1. ASSUME RegistrySame PROVE RegistryInv'
    BY <2>1 DEF Registered, RegistryInv, RegistrySame, EntryOK, ToInsert, OneRegistrar
  <2> QED  BY <2>1, RegistrySteps, LookupRegistry, InsertRegistry DEF Registered
<1>3. Held'
  <2>0. Held
    BY DEF Registered
  <2>1. ASSUME NEW t \in Threads, NEW e, NEW val \in Read(e), SetValue(t, Found(e.key), val) PROVE Held'
    <3>1. Found(e.key) \in Vars
      BY <2>1, FoundIs DEF Read
    <3> QED  BY <2>0, <2>1, <3>1, SetValueHeld
  <2>2. ASSUME NEW t \in Threads, NEW x \in Vars, NEW c \in Cbs, Listen(t, x, c) PROVE Held'
    BY <2>0, <2>2, AddListenerHeld DEF Listen
  <2> QED  BY <2>0, <2>1, <2>2, VarSteps, StepHeld, SameHeld, Zenon
<1> QED  BY <1>1, <1>2, <1>3 DEF Registered

\* Nothing is registered at first.
LEMMA RegisteredFirst == ConfigInit => Registered
<1> SUFFICES ASSUME ConfigInit PROVE Registered
  OBVIOUS
<1>1. Held
  BY QuietHeld DEF ConfigInit
<1>2. Forms
  BY ConfigAssumption DEF ConfigInit, Quiet, Forms
<1>3. ReadersInv
  BY DEF ConfigInit, ReadersInv
<1>4. RegistryInv
  <2>1. DOMAIN s_datas = {} /\ \A t \in Threads : ~Pending(t)
    BY DEF ConfigInit, NoDatas, Pending
  <2> QED  BY <2>1 DEF RegistryInv
<1> QED  BY <1>1, <1>2, <1>3, <1>4 DEF Registered

\* Of every behaviour of Config: the registry is in order.
THEOREM RegistryInvariant == ConfigSpec => []Registered
BY RegisteredFirst, RegisteredKept, PTL DEF ConfigSpec

(***************************************************************************)
(* The look and the insertion of Lookup (config.h:364 to 384) are two      *)
(* critical sections; a name that one thread registers, with one type,     *)
(* keeps its variable for ever all the same, whatever the other threads    *)
(* look up, load and visit.                                                *)
(***************************************************************************)
THEOREM EntriesStay == ConfigSpec => RegisteredStays
<1> DEFINE Stays == \A n \in DOMAIN s_datas : OneRegistrar(n) => s_datas'[n] = s_datas[n]
<1>1. ASSUME Registered, ConfigNext, NEW n \in DOMAIN s_datas, OneRegistrar(n)
      PROVE  s_datas'[n] = s_datas[n]
  <2>1. ASSUME NEW t \in Threads, LookupInsert(t) PROVE s_datas'[n] = s_datas[n]
    <3>1. n # name[t]
      BY <1>1, <2>1, InsertRegistry, Zenon DEF ToInsert
    <3> QED  BY <1>1, <2>1, <3>1, InsertRegistry
  <2>2. ASSUME NEW t \in Threads, NEW m, NEW ty, Lookup(t, m, ty) PROVE s_datas'[n] = s_datas[n]
    BY <2>2 DEF Lookup
  <2> QED  BY <1>1, <2>1, <2>2, RegistrySteps DEF Registered, RegistrySame
<1>2. Registered /\ [ConfigNext]_allVars => [Stays]_allVars
  BY <1>1
<1> QED  BY <1>2, RegistryInvariant, PTL DEF ConfigSpec, RegisteredStays

(***************************************************************************)
(* No entry comes or goes while a Visit goes over the map (config.cc:60):  *)
(* it holds the registry for reading, and an insertion waits for it.       *)
(***************************************************************************)
THEOREM VisitsUndisturbed == ConfigSpec => VisitUndisturbed
<1> DEFINE Same == (\E t \in Threads : rpc[t] = "visit") => s_datas' = s_datas
<1>1. ASSUME Registered, ConfigNext, NEW u \in Threads, rpc[u] = "visit"
      PROVE  s_datas' = s_datas
  <2>1. s_readers # {}
    BY <1>1 DEF Registered, ReadersInv
  <2>2. ASSUME NEW t \in Threads, LookupInsert(t) PROVE FALSE
    BY <2>1, <2>2, Zenon DEF LookupInsert, CanInsert
  <2>3. ASSUME NEW t \in Threads, NEW m, NEW ty, Lookup(t, m, ty) PROVE s_datas' = s_datas
    BY <2>3 DEF Lookup
  <2> QED  BY <1>1, <2>2, <2>3, RegistrySteps DEF Registered, RegistrySame
<1>2. Registered /\ [ConfigNext]_allVars => [Same]_allVars
  BY <1>1
<1> QED  BY <1>2, RegistryInvariant, PTL DEF ConfigSpec, VisitUndisturbed

-----------------------------------------------------------------------------
(* The values of the registered variables *)

\* What a load goes through comes from a document.
Loading(t) ==
  /\ t \in Setters /\ \E d \in DOMAIN Docs : all_nodes[t] = AllNodes(d)
  /\ i[t] \in 1..Len(all_nodes[t]) + 1 /\ kept[t] \subseteq DOMAIN s_datas

NodesInv == \A t \in Threads : rpc[t] = "load" => Loading(t)

\* Every variable has a value of its type, and is only set to such a value.
ValuesInv ==
  /\ \A x \in Vars : ValueOf(Type[x], m_val[x])
  /\ \A t \in Threads : InSet(t) => ValueOf(Type[this[t]], v[t])

Valued == Registered /\ NodesInv /\ ValuesInv

\* The nodes of a load are a list of nodes as the parser builds them.
LEMMA ListedNodes ==
  ASSUME NEW t \in Threads, Loading(t)
  PROVE  /\ Len(all_nodes[t]) \in Nat /\ DOMAIN all_nodes[t] = 1..Len(all_nodes[t])
         /\ \A k \in DOMAIN all_nodes[t] : NodeOK(all_nodes[t][k].node)
<1>1. PICK d \in DOMAIN Docs : all_nodes[t] = AllNodes(d)
  BY Zenon DEF Loading
<1>2. IsList(AllNodes(d)) /\ \A k \in DOMAIN AllNodes(d) : NodeOK(AllNodes(d)[k].node)
  BY ConfigAssumption
<1> QED  BY <1>1, <1>2 DEF IsList

\* The variables are of the types that LexicalCast converts.
LEMMA Typed ==
  ASSUME NEW x \in Vars
  PROVE  Type[x] \in {"int", "vector", "set", "map"}
<1>1. ValueOf(Type[x], Default[x])
  BY ConfigAssumption
<1> QED  BY <1>1 DEF ValueOf

\* A thread that is at a node after a step: it begins a load, it has turned to the next
\* node, or it is where it was, and no entry that it counts on was replaced.
LEMMA LoadSteps ==
  ASSUME Forms, [ConfigNext]_allVars, NEW u \in Threads, rpc'[u] = "load"
  PROVE  \/ \E d \in DOMAIN Docs : Load(u, d)
         \/ /\ rpc[u] = "load" /\ all_nodes'[u] = all_nodes[u] /\ kept'[u] \subseteq kept[u]
            /\ DOMAIN s_datas \subseteq DOMAIN s_datas'
            /\ \A n \in kept'[u] : n \in DOMAIN s_datas => s_datas'[n] = s_datas[n]
            /\ LoadNode(u) \/ i'[u] = i[u]
<1> DEFINE Goal == /\ rpc[u] = "load" /\ all_nodes'[u] = all_nodes[u] /\ kept'[u] \subseteq kept[u]
                   /\ DOMAIN s_datas \subseteq DOMAIN s_datas'
                   /\ \A n \in kept'[u] : n \in DOMAIN s_datas => s_datas'[n] = s_datas[n]
                   /\ LoadNode(u) \/ i'[u] = i[u]
<1>0. rpc \in [Threads -> {"idle", "insert", "report", "load", "visit"}] /\ i \in [Threads -> Nat]
      /\ DOMAIN all_nodes = Threads /\ DOMAIN kept = Threads
  BY DEF Forms
<1>1. ASSUME UNCHANGED <<s_datas, all_nodes, i, kept>>, rpc[u] = "load" PROVE Goal
  BY <1>1
<1>2. ASSUME NEW t \in Threads, NEW n, NEW ty, Lookup(t, n, ty) PROVE Goal
  <2>1. Looked(n, ty) # "load"
    BY DEF Looked
  <2>2. rpc' = [rpc EXCEPT ![t] = Looked(n, ty)] /\ UNCHANGED <<s_datas, all_nodes, i, kept>>
    BY <1>2 DEF Lookup, Ask
  <2>3. rpc[u] = "load"
    BY <1>0, <2>1, <2>2
  <2> QED  BY <1>1, <2>2, <2>3, Zenon
<1>3. ASSUME NEW t \in Threads, Visit(t) PROVE Goal
  BY <1>0, <1>1, <1>3, Zenon DEF Visit, Ask
<1>4. ASSUME NEW t \in Threads, NEW d \in DOMAIN Docs, Load(t, d), u # t PROVE Goal
  <2>1. rpc[u] = "load" /\ all_nodes'[u] = all_nodes[u] /\ i'[u] = i[u] /\ kept'[u] = kept[u] /\ UNCHANGED s_datas
    BY <1>0, <1>4, Zenon DEF Load, Ask, registry
  <2> QED  BY <2>1, Zenon
<1>5. ASSUME NEW t \in Threads, LookupReport(t) \/ Visited(t) PROVE Goal
  BY <1>0, <1>1, <1>5, Zenon DEF LookupReport, Visited, Goto, configLocals
<1>6. ASSUME NEW t \in Threads, VisitNode(t) PROVE Goal
  BY <1>1, <1>6, Zenon DEF VisitNode, registry
<1>7. ASSUME NEW t \in Threads, LoadNode(t) PROVE Goal
  <2>1. rpc[u] = "load" /\ UNCHANGED <<all_nodes, kept, s_datas>>
    BY <1>7, Zenon DEF LoadNode, registry
  <2>2. u # t => i'[u] = i[u]
    BY <1>0, <1>7, Zenon DEF LoadNode
  <2> QED  BY <1>7, <2>1, <2>2, Zenon
<1>8. ASSUME NEW t \in Threads, Loaded(t) PROVE Goal
  <2>1. u # t
    BY <1>0, <1>8, Zenon DEF Loaded, Goto
  <2>2. rpc[u] = "load" /\ all_nodes'[u] = all_nodes[u] /\ i'[u] = i[u] /\ kept'[u] = kept[u] /\ UNCHANGED s_datas
    BY <1>0, <1>8, <2>1 DEF Loaded, Goto, registry
  <2> QED  BY <2>2, Zenon
<1>9. ASSUME NEW t \in Threads, LookupInsert(t) PROVE Goal
  <2>1. rpc[u] = "load" /\ UNCHANGED <<all_nodes, i>> /\ kept'[u] = kept[u] \ {name[t]}
    BY <1>0, <1>9 DEF LookupInsert, Goto
  <2>2. DOMAIN s_datas \subseteq DOMAIN s_datas' /\ \A n \in DOMAIN s_datas : n # name[t] => s_datas'[n] = s_datas[n]
    BY <1>9, Zenon DEF LookupInsert
  <2> QED  BY <2>1, <2>2, Zenon
<1>10. ASSUME UNCHANGED configVars PROVE Goal
  <2>1. UNCHANGED <<s_datas, all_nodes, i, kept, rpc>>
    BY <1>10 DEF configVars, registry, configLocals
  <2> QED  BY <1>1, <2>1
<1> HIDE DEF Goal
<1>11. Goal \/ \E d \in DOMAIN Docs : Load(u, d)
  BY <1>2, <1>3, <1>4, <1>5, <1>6, <1>7, <1>8, <1>9, <1>10, Zenon DEF ConfigNext, ConfigStep, Listen, allVars
<1> QED  BY <1>11 DEF Goal

\* A load stays within its nodes.
LEMMA NodesKept ==
  ASSUME Registered, NodesInv, [ConfigNext]_allVars
  PROVE  NodesInv'
<1> SUFFICES ASSUME NEW u \in Threads, rpc'[u] = "load" PROVE Loading(u)'
  BY DEF NodesInv
<1>0. Forms
  BY DEF Registered
<1>1. ASSUME NEW d \in DOMAIN Docs, Load(u, d) PROVE Loading(u)'
  <2>1. u \in Setters /\ all_nodes'[u] = AllNodes(d) /\ i'[u] = 1 /\ kept'[u] = DOMAIN s_datas /\ UNCHANGED s_datas
    BY <1>0, <1>1 DEF Load, Forms, registry
  <2>2. Len(AllNodes(d)) \in Nat
    BY ConfigAssumption DEF IsList
  <2>3. i'[u] \in 1..Len(all_nodes'[u]) + 1
    BY <2>1, <2>2
  <2> QED  BY <2>1, <2>3, Zenon DEF Loading
<1>2. ASSUME rpc[u] = "load", all_nodes'[u] = all_nodes[u], kept'[u] \subseteq kept[u],
             DOMAIN s_datas \subseteq DOMAIN s_datas', LoadNode(u) \/ i'[u] = i[u]
      PROVE  Loading(u)'
  <2>1. Loading(u) /\ Len(all_nodes[u]) \in Nat
    BY <1>2, ListedNodes, Zenon DEF NodesInv
  <2>2. i'[u] \in 1..Len(all_nodes[u]) + 1
    <3>1. LoadNode(u) => i'[u] = i[u] + 1 /\ i[u] <= Len(all_nodes[u])
      BY <1>0, Zenon DEF LoadNode, After, Forms
    <3>2. i[u] \in 1..Len(all_nodes[u]) + 1
      BY <2>1, Zenon DEF Loading
    <3> QED  BY <1>2, <2>1, <3>1, <3>2
  <2> QED  BY <1>2, <2>1, <2>2, Zenon DEF Loading
<1> QED  BY <1>0, <1>1, <1>2, LoadSteps, Zenon

\* A thread that is in setValue after a step was there before, with the same variable
\* and value, or a load has called setValue for the node it had come to.
LEMMA SetSteps ==
  ASSUME Registered, [ConfigNext]_allVars, NEW u \in Threads, InSet(u)'
  PROVE  \/ InSet(u) /\ this'[u] = this[u] /\ v'[u] = v[u]
         \/ /\ LoadNode(u) /\ pc[u] = "idle" /\ m_val' = m_val
            /\ \E val \in Read(all_nodes[u][i[u]]) : this'[u] = Found(all_nodes[u][i[u]].key) /\ v'[u] = val
<1>0. /\ pc \in [Threads -> {"idle", "notify", "assign", "inc", "store", "return"}]
      /\ DOMAIN this = Threads /\ DOMAIN v = Threads
  BY Zenon DEF Registered, Held, Shape, Forms
<1>1. ASSUME UNCHANGED <<this, v>>, NEW t \in Threads, NEW q, pc' = [pc EXCEPT ![t] = q],
             q \in {"notify", "assign"} => InSet(t)
      PROVE  InSet(u) /\ this'[u] = this[u] /\ v'[u] = v[u]
  BY <1>0, <1>1, Zenon DEF InSet
<1>2. ASSUME NEW t \in Threads, Step(t) PROVE InSet(u) /\ this'[u] = this[u] /\ v'[u] = v[u]
  <2>1. ASSUME NEW k, Notify(t, k) PROVE UNCHANGED <<this, v, pc>>
    BY <2>1, Zenon DEF Notify
  <2>2. ASSUME NEW k, NotifyThrows(t, k) PROVE UNCHANGED <<this, v>> /\ pc' = [pc EXCEPT ![t] = "idle"]
    BY <2>2 DEF NotifyThrows, locals
  <2>3. ASSUME Notified(t) PROVE UNCHANGED <<this, v>> /\ pc' = [pc EXCEPT ![t] = "assign"] /\ InSet(t)
    BY <2>3 DEF Notified, locals, InSet
  <2>4. ASSUME Assign(t) PROVE UNCHANGED <<this, v>> /\ pc' = [pc EXCEPT ![t] = "idle"]
    BY <2>4, Zenon DEF Assign, locals
  <2>5. ASSUME Increment(t) PROVE UNCHANGED <<this, v>> /\ pc' = [pc EXCEPT ![t] = "store"]
    BY <2>5 DEF Increment, locals
  <2>6. ASSUME Store(t) PROVE UNCHANGED <<this, v>> /\ pc' = [pc EXCEPT ![t] = "return"]
    BY <2>6 DEF Store, locals
  <2>7. ASSUME AddReturn(t) PROVE UNCHANGED <<this, v>> /\ pc' = [pc EXCEPT ![t] = "idle"]
    BY <2>7 DEF AddReturn
  <2>8. ASSUME UNCHANGED <<this, v, pc>> PROVE InSet(u) /\ this'[u] = this[u] /\ v'[u] = v[u]
    BY <2>8 DEF InSet
  <2> QED  BY <1>1, <1>2, <2>1, <2>2, <2>3, <2>4, <2>5, <2>6, <2>7, <2>8, Zenon DEF Step
<1>3. ASSUME NEW t \in Threads, NEW x \in Vars, NEW c \in Cbs, Listen(t, x, c)
      PROVE  InSet(u) /\ this'[u] = this[u] /\ v'[u] = v[u]
  <2>1. pc' = [pc EXCEPT ![t] = "inc"] /\ this' = [this EXCEPT ![t] = x] /\ v' = v
    BY <1>3 DEF Listen, AddListener
  <2>2. u # t
    BY <1>0, <2>1 DEF InSet
  <2> QED  BY <1>0, <2>1, <2>2 DEF InSet
<1>4. ASSUME NEW t \in Threads, LoadNode(t), NEW val \in Read(all_nodes[t][i[t]]),
             SetValue(t, Found(all_nodes[t][i[t]].key), val)
      PROVE  \/ InSet(u) /\ this'[u] = this[u] /\ v'[u] = v[u]
             \/ /\ u = t /\ pc[u] = "idle" /\ m_val' = m_val
                /\ this'[u] = Found(all_nodes[t][i[t]].key) /\ v'[u] = val
  <2>1. /\ pc[t] = "idle" /\ pc' = [pc EXCEPT ![t] = "notify"] /\ m_val' = m_val
        /\ this' = [this EXCEPT ![t] = Found(all_nodes[t][i[t]].key)] /\ v' = [v EXCEPT ![t] = val]
    BY <1>4, Zenon DEF SetValue, Call
  <2> QED  BY <1>0, <2>1, Zenon DEF InSet
<1>5. CASE UNCHANGED vars
  BY <1>5, Zenon DEF vars, locals, InSet
<1> QED  BY <1>2, <1>3, <1>4, <1>5, VarSteps, Zenon

\* Only an assignment of setValue changes a value.
LEMMA ValueSteps ==
  ASSUME [ConfigNext]_allVars
  PROVE  m_val' = m_val \/ \E t \in Threads : Assign(t) /\ UNCHANGED configVars
<1>1. ASSUME NEW t \in Threads, Step(t) PROVE m_val' = m_val \/ Assign(t)
  BY <1>1, Zenon DEF Step, Notify, NotifyThrows, Notified, Increment, Store, AddReturn
<1>2. ASSUME NEW t, NEW x, NEW val, SetValue(t, x, val) PROVE m_val' = m_val
  BY <1>2 DEF SetValue
<1>3. ASSUME NEW t, NEW x, NEW c, Listen(t, x, c) PROVE m_val' = m_val
  BY <1>3 DEF Listen, AddListener
<1>4. UNCHANGED vars => m_val' = m_val
  BY DEF vars
<1> QED  BY <1>1, <1>2, <1>3, <1>4, VarSteps, Zenon

\* What a load reads for a variable: one value, of the variable's type.
LEMMA NodeRead ==
  ASSUME Registered, NEW t \in Threads, Loading(t), i[t] <= Len(all_nodes[t]),
         NEW val \in Read(all_nodes[t][i[t]])
  PROVE  LET e == all_nodes[t][i[t]] IN
         /\ i[t] \in DOMAIN all_nodes[t] /\ e.key # <<>> /\ e.key \in DOMAIN s_datas
         /\ Found(e.key) = s_datas[e.key] /\ Found(e.key) \in born /\ Found(e.key) \in Vars
         /\ val \in FromStr(Type[Found(e.key)], e.node) /\ ValueOf(Type[Found(e.key)], val)
<1> DEFINE e == all_nodes[t][i[t]]
<1>1. i[t] \in DOMAIN all_nodes[t] /\ NodeOK(e.node)
  <2>1. /\ Len(all_nodes[t]) \in Nat /\ DOMAIN all_nodes[t] = 1..Len(all_nodes[t])
        /\ \A k \in DOMAIN all_nodes[t] : NodeOK(all_nodes[t][k].node)
    BY ListedNodes, Zenon
  <2>2. i[t] \in DOMAIN all_nodes[t]
    BY <2>1 DEF Loading
  <2> QED  BY <2>1, <2>2, Zenon
<1>2. e.key # <<>> /\ Found(e.key) # None /\ val \in FromStr(Type[Found(e.key)], e.node)
  BY Zenon DEF Read
<1>3. e.key \in DOMAIN s_datas /\ Found(e.key) = s_datas[e.key] /\ Found(e.key) \in born /\ Found(e.key) \in Vars
  BY <1>2, FoundIs, Zenon
<1> HIDE DEF e
<1>4. ValueOf(Type[Found(e.key)], val)
  <2>1. Type[Found(e.key)] \in {"int", "vector", "set", "map"}
    BY <1>3, Typed
  <2> QED  BY <1>1, <1>2, <2>1, ReadIsOfType, Zenon
<1> QED  BY <1>1, <1>2, <1>3, <1>4, Zenon DEF e

\* Every variable keeps a value of its type.
LEMMA ValuesKept ==
  ASSUME Valued, [ConfigNext]_allVars
  PROVE  ValuesInv'
<1>0. Registered /\ NodesInv /\ ValuesInv
  BY DEF Valued
<1>1. ASSUME NEW x \in Vars PROVE ValueOf(Type[x], m_val'[x])
  <2>1. ValueOf(Type[x], m_val[x])
    BY <1>0 DEF ValuesInv
  <2>2. ASSUME NEW t \in Threads, Assign(t) PROVE ValueOf(Type[x], m_val'[x])
    <3>1. InSet(t) /\ m_val' = [m_val EXCEPT ![this[t]] = v[t]] /\ DOMAIN m_val = Vars
      BY <1>0, <2>2, Zenon DEF Assign, InSet, Registered, Forms
    <3>2. ValueOf(Type[this[t]], v[t])
      BY <1>0, <3>1, Zenon DEF ValuesInv
    <3>3. m_val'[x] = m_val[x] \/ (x = this[t] /\ m_val'[x] = v[t])
      BY <3>1
    <3> QED  BY <2>1, <3>2, <3>3
  <2> QED  BY <2>1, <2>2, ValueSteps
<1>2. ASSUME NEW u \in Threads, InSet(u)' PROVE ValueOf(Type[this'[u]], v'[u])
  <2>1. CASE InSet(u) /\ this'[u] = this[u] /\ v'[u] = v[u]
    BY <1>0, <2>1, Zenon DEF ValuesInv
  <2>2. ASSUME LoadNode(u), NEW val \in Read(all_nodes[u][i[u]]),
               this'[u] = Found(all_nodes[u][i[u]].key), v'[u] = val
        PROVE  ValueOf(Type[this'[u]], v'[u])
    <3>1. Loading(u) /\ i[u] <= Len(all_nodes[u])
      BY <1>0, <2>2, Zenon DEF LoadNode, NodesInv
    <3> QED  BY <1>0, <2>2, <3>1, NodeRead, Zenon
  <2> QED  BY <1>0, <1>2, <2>1, <2>2, SetSteps, Zenon
<1> QED  BY <1>1, <1>2 DEF ValuesInv

\* Of every behaviour of Config: the variables have values of their types.
THEOREM ValuesInvariant == ConfigSpec => []Valued
<1>1. ConfigInit => Valued
  <2> SUFFICES ASSUME ConfigInit PROVE Valued
    OBVIOUS
  <2>1. NodesInv
    BY DEF ConfigInit, NodesInv
  <2>2. \A t \in Threads : ~InSet(t)
    BY DEF ConfigInit, Quiet, InSet
  <2>3. ValuesInv
    BY <2>2, ConfigAssumption DEF ConfigInit, ValuesInv
  <2> QED  BY <2>1, <2>3, RegisteredFirst DEF Valued
<1>2. Valued /\ [ConfigNext]_allVars => Valued'
  BY RegisteredKept, NodesKept, ValuesKept DEF Valued
<1> QED  BY <1>1, <1>2, PTL DEF ConfigSpec

(***************************************************************************)
(* What toString() prints of a registered variable, fromString() reads as  *)
(* the same value, whatever has been loaded: a number, and a vector, a set *)
(* or a map of numbers of any size (config.h, LexicalCast).                *)
(***************************************************************************)
THEOREM PrintedAndRead == ConfigSpec => []PrintedIsRead
<1>1. Valued => PrintedIsRead
  <2> SUFFICES ASSUME Valued, NEW x \in born
               PROVE  FromStr(Type[x], ToStr(Type[x], m_val[x])) = {m_val[x]}
    BY DEF PrintedIsRead
  <2>1. x \in Vars
    BY DEF Valued, Registered, Forms
  <2>2. ValueOf(Type[x], m_val[x])
    BY <2>1 DEF Valued, ValuesInv
  <2> QED  BY <2>2, RoundTrip
<1> QED  BY <1>1, ValuesInvariant, PTL

-----------------------------------------------------------------------------
(* A load reaches what it names *)

\* Callback c is registered with x, or a thread is about to return its key.
Returning(t, x, c) == pc[t] = "return" /\ this[t] = x /\ cb[t] = c
With(x, c) == reg[c].var = x \/ \E t \in Threads : Returning(t, x, c)

\* The listeners of a variable are registered with it, or are being so.
ListenersInv ==
  /\ \A x \in Vars : \A k \in DOMAIN m_cbs[x] : With(x, m_cbs[x][k])
  /\ \A t \in Threads : Adding(t) =>
       /\ reg[cb[t]] = NoReg
       /\ \A u \in Threads : Adding(u) /\ cb[t] = cb[u] => t = u

\* The node that a thread in setValue has come to, and the variable it sets.
SettingNode(t) ==
  /\ rpc[t] = "load" /\ i[t] - 1 \in DOMAIN all_nodes[t] /\ this[t] \in born
  /\ v[t] \in FromStr(Type[this[t]], all_nodes[t][i[t] - 1].node)
  /\ \A n \in DOMAIN s_datas : s_datas[n] = this[t] => n = all_nodes[t][i[t] - 1].key
  /\ \A u \in Threads : Pending(u) => fresh[u] # this[t]

SettingInv == \A t \in Threads : InSet(t) => SettingNode(t)

\* The k-th node is the last of its name before the one that t has come to, its entry
\* is as it was, and no listener of the variable throws.
Counts(t, k) ==
  LET e == all_nodes[t][k] IN
  /\ e.key # <<>> /\ e.key \in kept[t] /\ Unheard(s_datas[e.key])
  /\ \A j \in k + 1..i[t] - 1 : all_nodes[t][j].key # e.key

\* The variable has what the k-th node gives it.
Reached(t, k) ==
  LET e == all_nodes[t][k]
      x == s_datas[e.key]
  IN  FromStr(Type[x], e.node) \subseteq {m_val[x]}

\* Of the nodes behind it, a load has set each one that counts, or is setting it.
LoadInv ==
  \A t \in Threads : rpc[t] = "load" =>
    \A k \in 1..i[t] - 1 :
      Counts(t, k) =>
        \/ Reached(t, k)
        \/ k = i[t] - 1 /\ InSet(t) /\ this[t] = s_datas[all_nodes[t][k].key]

Loads == Registered /\ NodesInv /\ ListenersInv /\ SettingInv /\ LoadInv

\* A step of ConfigNext, by what it does to the listeners.
LEMMA ListenerSteps ==
  ASSUME Registered, [ConfigNext]_allVars
  PROVE  \/ UNCHANGED <<m_cbs, reg, cb, this, pc>>
         \/ \E t \in Threads :
              \/ \E x \in Vars, c \in Cbs : AddListener(t, x, c)
              \/ Increment(t) \/ Store(t) \/ AddReturn(t)
              \/ /\ UNCHANGED <<m_cbs, reg, cb>> /\ ~Adding(t)
                 /\ \E q \in {"idle", "notify", "assign"} : pc' = [pc EXCEPT ![t] = q]
                 /\ \A u \in Threads : u # t => this'[u] = this[u]
<1> DEFINE Other(t) == /\ UNCHANGED <<m_cbs, reg, cb>> /\ ~Adding(t)
                       /\ \E q \in {"idle", "notify", "assign"} : pc' = [pc EXCEPT ![t] = q]
                       /\ \A u \in Threads : u # t => this'[u] = this[u]
<1>0. DOMAIN this = Threads
  BY DEF Registered, Held, Shape
<1>1. ASSUME NEW t \in Threads, NEW k, Notify(t, k) PROVE UNCHANGED <<m_cbs, reg, cb, this, pc>>
  BY <1>1 DEF Notify
<1>2. ASSUME NEW t \in Threads, NEW k, pc[t] = "notify", NotifyThrows(t, k) PROVE Other(t)
  BY <1>2, Zenon DEF NotifyThrows, locals, Adding
<1>3. ASSUME NEW t \in Threads, Notified(t) \/ Assign(t) PROVE Other(t)
  BY <1>3, Zenon DEF Notified, Assign, locals, Adding
<1>4. ASSUME NEW t \in Threads, NEW x, NEW val, SetValue(t, x, val) PROVE Other(t)
  BY <1>0, <1>4 DEF SetValue, Call, Adding
<1>5. UNCHANGED vars => UNCHANGED <<m_cbs, reg, cb, this, pc>>
  BY DEF vars, locals
<1> HIDE DEF Other
<1>6. ASSUME NEW t \in Threads, Step(t)
      PROVE  UNCHANGED <<m_cbs, reg, cb, this, pc>> \/ Increment(t) \/ Store(t) \/ AddReturn(t) \/ Other(t)
  BY <1>1, <1>2, <1>3, <1>6 DEF Step
<1>7. \/ UNCHANGED <<m_cbs, reg, cb, this, pc>>
      \/ \E t \in Threads :
           \/ \E x \in Vars, c \in Cbs : AddListener(t, x, c)
           \/ Increment(t) \/ Store(t) \/ AddReturn(t) \/ Other(t)
  BY <1>4, <1>5, <1>6, VarSteps, Zenon DEF Listen
<1> QED  BY <1>7 DEF Other

\* The listeners stay in order: addListener takes a callback that is free.
LEMMA AddListeners ==
  ASSUME Registered, ListenersInv, NEW t \in Threads, NEW y \in Vars, NEW c \in Cbs, AddListener(t, y, c)
  PROVE  ListenersInv'
<1>0. pc \in [Threads -> {"idle", "notify", "assign", "inc", "store", "return"}]
      /\ DOMAIN this = Threads /\ DOMAIN cb = Threads
  BY Zenon DEF Registered, Held, Shape
<1>1. /\ pc[t] = "idle" /\ pc'[t] = "inc" /\ cb'[t] = c /\ reg[c] = NoReg
      /\ \A u \in Threads : u # t => pc'[u] = pc[u] /\ cb'[u] = cb[u] /\ this'[u] = this[u]
      /\ \A u \in Threads : pc[u] # "idle" => cb[u] # c
      /\ UNCHANGED <<m_cbs, reg>>
  BY <1>0, Zenon DEF AddListener, Call, Free
<1>2. \A u \in Threads : u # t => (Adding(u)' <=> Adding(u)) /\ \A x, d : Returning(u, x, d)' <=> Returning(u, x, d)
  BY <1>1, Zenon DEF Adding, Returning
<1>3. \A x, d : ~Returning(t, x, d)
  BY <1>1, Zenon DEF Returning
<1>4. \A u \in Threads : Adding(u) => u # t /\ cb[u] # c
  BY <1>1 DEF Adding
<1>5. ASSUME NEW x \in Vars, NEW k \in DOMAIN m_cbs'[x] PROVE With(x, m_cbs[x][k])'
  <2>1. With(x, m_cbs[x][k])
    BY <1>1, <1>5, Zenon DEF ListenersInv
  <2>2. \A d : With(x, d) => With(x, d)'
    BY <1>1, <1>2, <1>3, Zenon DEF With
  <2>3. m_cbs'[x][k] = m_cbs[x][k]
    BY <1>1, Zenon
  <2> QED  BY <2>1, <2>2, <2>3, Zenon
<1>6. ASSUME NEW u \in Threads, Adding(u)'
      PROVE  reg'[cb'[u]] = NoReg /\ \A w \in Threads : Adding(w)' /\ cb'[u] = cb'[w] => u = w
  <2>1. CASE u = t
    BY <1>1, <1>2, <1>4, <2>1, Zenon
  <2>2. CASE u # t
    <3>1. Adding(u) /\ cb'[u] = cb[u] /\ cb[u] # c
      BY <1>1, <1>2, <1>4, <1>6, <2>2, Zenon
    <3> QED  BY <1>1, <1>2, <3>1, Zenon DEF ListenersInv
  <2> QED  BY <2>1, <2>2, Zenon
<1> QED  BY <1>5, <1>6, Zenon DEF ListenersInv

\* The listeners stay in order: m_cbs[s_fun_id] = cb.
LEMMA StoreListeners ==
  ASSUME Registered, ListenersInv, NEW t \in Threads, Store(t)
  PROVE  ListenersInv'
<1>0. /\ pc \in [Threads -> {"idle", "notify", "assign", "inc", "store", "return"}] /\ DOMAIN m_cbs = Vars
      /\ this[t] \in Vars
  BY Zenon DEF Registered, Held, Shape, LockInv, Store
<1>1. /\ pc[t] = "store" /\ pc'[t] = "return" /\ \A u \in Threads : u # t => pc'[u] = pc[u]
      /\ UNCHANGED <<this, cb, reg>>
  BY <1>0 DEF Store, locals
<1>2. \A x \in Vars : \A k \in DOMAIN m_cbs'[x] :
        \/ x = this[t] /\ m_cbs'[x][k] = cb[t]
        \/ k \in DOMAIN m_cbs[x] /\ m_cbs'[x][k] = m_cbs[x][k]
  BY <1>0 DEF Store
<1>3. \A u \in Threads : (Adding(u)' <=> Adding(u)) /\ \A x, d : Returning(u, x, d) => Returning(u, x, d)'
  BY <1>1 DEF Adding, Returning
<1>5. ASSUME NEW x \in Vars, NEW k \in DOMAIN m_cbs'[x] PROVE With(x, m_cbs[x][k])'
  <2>1. \A d : With(x, d) => With(x, d)'
    BY <1>1, <1>3, Zenon DEF With
  <2>2. x = this[t] => With(x, cb[t])'
    BY <1>1, Zenon DEF With, Returning
  <2>3. CASE x = this[t] /\ m_cbs'[x][k] = cb[t]
    BY <1>1, <2>2, <2>3, Zenon
  <2>4. CASE k \in DOMAIN m_cbs[x] /\ m_cbs'[x][k] = m_cbs[x][k]
    <3>1. With(x, m_cbs[x][k])
      BY <2>4, Zenon DEF ListenersInv
    <3> QED  BY <2>1, <2>4, <3>1, Zenon
  <2> QED  BY <1>2, <2>3, <2>4, Zenon
<1>6. \A u \in Threads : Adding(u)' =>
        reg'[cb'[u]] = NoReg /\ \A w \in Threads : Adding(w)' /\ cb'[u] = cb'[w] => u = w
  BY <1>1, <1>3, Zenon DEF ListenersInv
<1> QED  BY <1>5, <1>6, Zenon DEF ListenersInv

\* The listeners stay in order: addListener returns the key.
LEMMA ReturnListeners ==
  ASSUME Registered, ListenersInv, NEW t \in Threads, AddReturn(t)
  PROVE  /\ ListenersInv'
         /\ cb[t] \in Cbs /\ reg[cb[t]] = NoReg /\ \A c \in Cbs : c # cb[t] => reg'[c] = reg[c]
<1>0. /\ pc \in [Threads -> {"idle", "notify", "assign", "inc", "store", "return"}]
      /\ DOMAIN reg = Cbs /\ DOMAIN cb = Threads /\ pc[t] = "return" /\ Adding(t)
  BY Zenon DEF Registered, Held, Shape, AddReturn, Adding
<1>1. this[t] \in Vars /\ cb[t] \in Cbs /\ writer[this[t]] = t /\ t # None
  BY <1>0, Holds, ConfigVarAssumption, Zenon DEF Registered
<1>2. /\ pc'[t] = "idle" /\ \A u \in Threads : u # t => pc'[u] = pc[u] /\ cb'[u] = cb[u]
      /\ reg'[cb[t]].var = this[t] /\ \A c \in Cbs : c # cb[t] => reg'[c] = reg[c]
      /\ UNCHANGED <<m_cbs, this>>
  BY <1>0, <1>1, Zenon DEF AddReturn
<1>3. reg[cb[t]] = NoReg /\ \A u \in Threads : Adding(u) /\ cb[u] = cb[t] => u = t
  BY <1>0, Zenon DEF ListenersInv
<1>4. \A u \in Threads : u # t => (Adding(u)' <=> Adding(u))
  BY <1>2, Zenon DEF Adding
<1>5. ~Adding(t)'
  BY <1>2 DEF Adding
<1>6. ASSUME NEW x \in Vars, NEW k \in DOMAIN m_cbs'[x] PROVE With(x, m_cbs[x][k])'
  <2>0. k \in DOMAIN m_cbs[x] /\ m_cbs'[x][k] = m_cbs[x][k]
    BY <1>2
  <2>1. m_cbs[x][k] \in Cbs /\ With(x, m_cbs[x][k])
    BY <2>0, Zenon DEF Registered, Held, Shape, ListenersInv
  <2>2. ASSUME NEW c \in Cbs, With(x, c), c = cb[t] PROVE reg'[c].var = x
    <3>1. reg[c].var # x
      <4>1. NoReg.var \notin Vars
        BY ConfigVarAssumption, Zenon DEF NoReg
      <4> QED  BY <1>3, <2>2, <4>1, Zenon
    <3>2. PICK u \in Threads : Returning(u, x, c)
      BY <2>2, <3>1, Zenon DEF With
    <3>3. u = t
      BY <1>3, <2>2, <3>2 DEF Returning, Adding
    <3>4. x = this[t]
      BY <3>2, <3>3 DEF Returning
    <3> QED  BY <1>2, <2>2, <3>4, Zenon
  <2>3. ASSUME NEW c \in Cbs, With(x, c), c # cb[t] PROVE With(x, c)'
    <3>1. reg'[c] = reg[c]
      BY <1>2, <2>3, Zenon
    <3>2. ASSUME NEW u \in Threads, Returning(u, x, c) PROVE Returning(u, x, c)'
      BY <1>2, <2>3, <3>2, Zenon DEF Returning
    <3> QED  BY <2>3, <3>1, <3>2 DEF With
  <2>4. \A c \in Cbs : With(x, c) => With(x, c)'
    BY <2>2, <2>3, Zenon DEF With
  <2> QED  BY <2>0, <2>1, <2>4
<1>7. ASSUME NEW u \in Threads, Adding(u)'
      PROVE  reg'[cb'[u]] = NoReg /\ \A w \in Threads : Adding(w)' /\ cb'[u] = cb'[w] => u = w
  <2>1. u # t /\ Adding(u) /\ cb'[u] = cb[u] /\ cb[u] # cb[t] /\ reg[cb[u]] = NoReg
    BY <1>2, <1>3, <1>4, <1>5, <1>7, Zenon DEF ListenersInv
  <2>2. cb[u] \in Cbs
    BY <2>1, Holds, Zenon DEF Registered
  <2>3. ASSUME NEW w \in Threads, Adding(w)', cb'[u] = cb'[w] PROVE u = w
    <3>1. w # t /\ Adding(w) /\ cb'[w] = cb[w]
      BY <1>2, <1>4, <1>5, <2>3, Zenon
    <3> QED  BY <2>1, <2>3, <3>1, Zenon DEF ListenersInv
  <2> QED  BY <1>2, <2>1, <2>2, <2>3, Zenon
<1> QED  BY <1>1, <1>2, <1>3, <1>6, <1>7, Zenon DEF ListenersInv

\* Every step of Config keeps the listeners in order.
LEMMA ListenersKept ==
  ASSUME Registered, ListenersInv, [ConfigNext]_allVars
  PROVE  ListenersInv'
<1>0. pc \in [Threads -> {"idle", "notify", "assign", "inc", "store", "return"}]
  BY Zenon DEF Registered, Held, Shape
<1>1. ASSUME UNCHANGED <<m_cbs, reg, cb>>,
             \A u \in Threads : (Adding(u)' <=> Adding(u)) /\ \A x, c : Returning(u, x, c) => Returning(u, x, c)'
      PROVE  ListenersInv'
  <2>1. ASSUME NEW x \in Vars, NEW k \in DOMAIN m_cbs'[x] PROVE With(x, m_cbs[x][k])'
    <3>1. \A d : With(x, d) => With(x, d)'
      BY <1>1, Zenon DEF With
    <3>2. m_cbs'[x][k] = m_cbs[x][k] /\ With(x, m_cbs[x][k])
      BY <1>1, <2>1, Zenon DEF ListenersInv
    <3> QED  BY <3>1, <3>2
  <2>2. \A u \in Threads : Adding(u)' =>
          reg'[cb'[u]] = NoReg /\ \A w \in Threads : Adding(w)' /\ cb'[u] = cb'[w] => u = w
    BY <1>1, Zenon DEF ListenersInv
  <2> QED  BY <2>1, <2>2, Zenon DEF ListenersInv
<1>2. ASSUME UNCHANGED <<m_cbs, reg, cb, this, pc>> PROVE ListenersInv'
  BY <1>1, <1>2, Zenon DEF Adding, Returning
<1>3. ASSUME NEW t \in Threads, Increment(t) PROVE ListenersInv'
  <2>1. UNCHANGED <<m_cbs, reg, cb, this>> /\ pc[t] = "inc" /\ pc' = [pc EXCEPT ![t] = "store"]
    BY <1>3, Zenon DEF Increment, locals
  <2> QED  BY <1>0, <1>1, <2>1 DEF Adding, Returning
<1>4. ASSUME NEW t \in Threads, UNCHANGED <<m_cbs, reg, cb>>, ~Adding(t),
             NEW q \in {"idle", "notify", "assign"}, pc' = [pc EXCEPT ![t] = q],
             \A u \in Threads : u # t => this'[u] = this[u]
      PROVE  ListenersInv'
  BY <1>0, <1>1, <1>4 DEF Adding, Returning
<1> QED  BY <1>2, <1>3, <1>4, ListenerSteps, AddListeners, StoreListeners, ReturnListeners, Zenon

\* A thread in setValue sets the variable that the node names, and only a load does.
LEMMA SettingKept ==
  ASSUME Registered, NodesInv, SettingInv, [ConfigNext]_allVars
  PROVE  SettingInv'
<1> SUFFICES ASSUME NEW u \in Threads, InSet(u)' PROVE SettingNode(u)'
  BY DEF SettingInv
<1>0. Forms /\ RegistryInv
  BY DEF Registered
<1>1. CASE InSet(u) /\ this'[u] = this[u] /\ v'[u] = v[u]
  <2>1. SettingNode(u)
    BY <1>1 DEF SettingInv
  <2>2. rpc'[u] = "load" /\ all_nodes'[u] = all_nodes[u] /\ i'[u] = i[u]
    <3>1. ASSUME NEW t \in Threads,
                 LookupReport(t) \/ LookupInsert(t) \/ VisitNode(t) \/ Visited(t) \/ Visit(t)
          PROVE  rpc'[u] = "load" /\ all_nodes'[u] = all_nodes[u] /\ i'[u] = i[u]
      <4>1. rpc'[u] = rpc[u]
        BY <1>0, <2>1, <3>1, Zenon DEF Forms, SettingNode, LookupReport, LookupInsert, VisitNode, Visited, Visit, Goto, Ask
      <4>2. UNCHANGED <<all_nodes, i>>
        BY <3>1, Zenon DEF LookupReport, LookupInsert, VisitNode, Visited, Visit, configLocals
      <4> QED  BY <2>1, <4>1, <4>2, Zenon DEF SettingNode
    <3>2. ASSUME NEW t \in Threads, NEW n, NEW ty, Lookup(t, n, ty)
          PROVE  rpc'[u] = "load" /\ all_nodes'[u] = all_nodes[u] /\ i'[u] = i[u]
      BY <1>0, <2>1, <3>2, Zenon DEF Forms, SettingNode, Lookup, Ask
    <3>3. ASSUME NEW t \in Threads, NEW d, Load(t, d)
          PROVE  rpc'[u] = "load" /\ all_nodes'[u] = all_nodes[u] /\ i'[u] = i[u]
      <4>1. u # t
        BY <2>1, <3>3, Zenon DEF SettingNode, Load, Ask
      <4> QED  BY <1>0, <2>1, <3>3, <4>1, Zenon DEF Forms, SettingNode, Load, Ask
    <3>4. ASSUME NEW t \in Threads, LoadNode(t)
          PROVE  rpc'[u] = "load" /\ all_nodes'[u] = all_nodes[u] /\ i'[u] = i[u]
      <4>1. u # t
        BY <1>1, <3>4, Zenon DEF InSet, LoadNode
      <4> QED  BY <1>0, <2>1, <3>4, <4>1, Zenon DEF Forms, SettingNode, LoadNode
    <3>5. ASSUME NEW t \in Threads, Loaded(t)
          PROVE  rpc'[u] = "load" /\ all_nodes'[u] = all_nodes[u] /\ i'[u] = i[u]
      <4>1. u # t
        BY <1>1, <3>5, Zenon DEF InSet, Loaded
      <4> QED  BY <1>0, <2>1, <3>5, <4>1, Zenon DEF Forms, SettingNode, Loaded, Goto
    <3>6. ASSUME UNCHANGED configVars
          PROVE  rpc'[u] = "load" /\ all_nodes'[u] = all_nodes[u] /\ i'[u] = i[u]
      BY <2>1, <3>6, Zenon DEF SettingNode, configVars, configLocals
    <3> QED
      BY <3>1, <3>2, <3>3, <3>4, <3>5, <3>6, Zenon DEF ConfigNext, ConfigStep, Listen, allVars
  <2>3. /\ this[u] \in born'
        /\ \A n \in DOMAIN s_datas' : s_datas'[n] = this[u] => n \in DOMAIN s_datas /\ s_datas[n] = this[u]
        /\ \A w \in Threads : Pending(w)' => fresh'[w] # this[u]
    <3>0. this[u] \in born /\ \A w \in Threads : Pending(w) => fresh[w] # this[u]
      BY <2>1, Zenon DEF SettingNode
    <3>1. CASE RegistrySame
      BY <3>0, <3>1, Zenon DEF RegistrySame
    <3>2. ASSUME NEW t \in Threads, NEW n, NEW ty, Lookup(t, n, ty), Looked(n, ty) # "idle"
          PROVE  /\ this[u] \in born' /\ UNCHANGED s_datas
                 /\ \A w \in Threads : Pending(w)' => fresh'[w] # this[u]
      <4>1. PICK x \in Vars \ born :
              /\ UNCHANGED s_datas /\ fresh' = [fresh EXCEPT ![t] = x] /\ born' = born \cup {x}
              /\ rpc' = [rpc EXCEPT ![t] = Looked(n, ty)]
        BY <3>2, LookupMakes, Zenon
      <4>2. \A w \in Threads : (w = t /\ fresh'[w] = x) \/ (fresh'[w] = fresh[w] /\ (Pending(w)' => Pending(w)))
        BY <1>0, <4>1 DEF Forms, Pending
      <4> QED  BY <3>0, <4>1, <4>2
    <3>3. ASSUME NEW t \in Threads, LookupInsert(t)
          PROVE  /\ this[u] \in born'
                 /\ \A n \in DOMAIN s_datas' : s_datas'[n] = this[u] => n \in DOMAIN s_datas /\ s_datas[n] = this[u]
                 /\ \A w \in Threads : Pending(w)' => fresh'[w] # this[u]
      <4>1. Pending(t) /\ ~Pending(t)' /\ UNCHANGED born
        BY <1>0, <3>3, Zenon DEF LookupInsert, Goto, Forms, Pending
      <4>2. \A w \in Threads : w # t => fresh'[w] = fresh[w] /\ (Pending(w)' <=> Pending(w))
        BY <1>0, <3>3 DEF LookupInsert, Goto, Forms, Pending
      <4>3. \A n \in DOMAIN s_datas' : \/ s_datas'[n] = fresh[t]
                                       \/ n \in DOMAIN s_datas /\ s_datas'[n] = s_datas[n]
        BY <3>3, Zenon DEF LookupInsert
      <4> QED  BY <3>0, <4>1, <4>2, <4>3
    <3> QED  BY <1>0, <3>1, <3>2, <3>3, RegistrySteps, Zenon DEF RegistrySame
  <2>4. v[u] \in FromStr(Type[this[u]], all_nodes[u][i[u] - 1].node) /\ i[u] - 1 \in DOMAIN all_nodes[u]
    BY <2>1, Zenon DEF SettingNode
  <2>5. \A n \in DOMAIN s_datas' : s_datas'[n] = this[u] => n = all_nodes[u][i[u] - 1].key
    BY <2>1, <2>3, Zenon DEF SettingNode
  <2> QED  BY <1>1, <2>2, <2>3, <2>4, <2>5, Zenon DEF SettingNode
<1>2. ASSUME LoadNode(u), NEW val \in Read(all_nodes[u][i[u]]),
             this'[u] = Found(all_nodes[u][i[u]].key), v'[u] = val
      PROVE  SettingNode(u)'
  <2> DEFINE e == all_nodes[u][i[u]]
  <2>1. rpc[u] = "load" /\ Loading(u) /\ i[u] <= Len(all_nodes[u])
    BY <1>2, Zenon DEF LoadNode, NodesInv
  <2>2. /\ i[u] \in DOMAIN all_nodes[u] /\ e.key \in DOMAIN s_datas /\ Found(e.key) = s_datas[e.key]
        /\ Found(e.key) \in born /\ val \in FromStr(Type[Found(e.key)], e.node)
    BY <2>1, NodeRead, Zenon
  <2>3. UNCHANGED <<s_datas, born, rpc, fresh, all_nodes>> /\ i[u] \in Nat /\ i'[u] = i[u] + 1 /\ i'[u] - 1 = i[u]
    <3>1. UNCHANGED <<s_datas, born, rpc, fresh, all_nodes>> /\ i' = [i EXCEPT ![u] = i[u] + 1]
      BY <1>2, Zenon DEF LoadNode, After, registry
    <3>2. i[u] \in Nat /\ i'[u] = i[u] + 1
      BY <1>0, <3>1, Zenon DEF Forms
    <3>3. \A n \in Nat : (n + 1) - 1 = n
      OBVIOUS
    <3> QED  BY <3>1, <3>2, <3>3, Zenon
  <2>4. \A n \in DOMAIN s_datas : s_datas[n] = Found(e.key) => n = e.key
    BY <1>0, <2>2, Zenon DEF RegistryInv, EntryOK
  <2>5. \A w \in Threads : Pending(w) => fresh[w] # Found(e.key)
    BY <1>0, <2>2, Zenon DEF RegistryInv, ToInsert
  <2>6. \A w \in Threads : Pending(w)' => fresh'[w] # this'[u]
    BY <1>2, <2>3, <2>5, Zenon DEF Pending
  <2>7. all_nodes'[u][i'[u] - 1] = e
    BY <2>3, Zenon
  <2>8. this'[u] \in born' /\ v'[u] \in FromStr(Type[this'[u]], e.node)
    BY <1>2, <2>2, <2>3, Zenon
  <2>9. \A n \in DOMAIN s_datas' : s_datas'[n] = this'[u] => n = e.key
    BY <1>2, <2>3, <2>4, Zenon
  <2>10. rpc'[u] = "load" /\ i'[u] - 1 \in DOMAIN all_nodes'[u]
    BY <2>1, <2>2, <2>3, Zenon
  <2> HIDE DEF e
  <2> QED  BY <2>6, <2>7, <2>8, <2>9, <2>10, Zenon DEF SettingNode
<1> QED  BY <1>1, <1>2, SetSteps, Zenon

\* A callback that is registered with a variable stays so.
LEMMA UnheardBefore ==
  ASSUME Registered, ListenersInv, [ConfigNext]_allVars, NEW x \in Vars, Unheard(x)'
  PROVE  Unheard(x)
<1>1. ASSUME NEW t \in Threads, AddReturn(t) PROVE Unheard(x)
  <2>1. reg[cb[t]].var # x
    BY <1>1, ReturnListeners, ConfigVarAssumption DEF NoReg
  <2>2. \A c \in Cbs : c # cb[t] => reg'[c] = reg[c]
    BY <1>1, ReturnListeners
  <2> QED  BY <2>1, <2>2, ConfigVarAssumption DEF Unheard
<1>2. ASSUME reg' = reg PROVE Unheard(x)
  BY <1>2 DEF Unheard
<1>3. ASSUME NEW t \in Threads, NEW y, NEW c, AddListener(t, y, c) PROVE reg' = reg
  BY <1>3 DEF AddListener
<1>4. ASSUME NEW t \in Threads, Increment(t) \/ Store(t) PROVE reg' = reg
  BY <1>4 DEF Increment, Store
<1> QED  BY <1>1, <1>2, <1>3, <1>4, ListenerSteps

\* A thread that leaves setValue has assigned, or a listener of the variable threw.
LEMMA LeaveSteps ==
  ASSUME Registered, ListenersInv, [ConfigNext]_allVars, NEW u \in Threads, InSet(u)
  PROVE  \/ InSet(u)' /\ this'[u] = this[u]
         \/ Assign(u)
         \/ ~Unheard(this[u]) /\ m_val' = m_val
<1>0. pc \in [Threads -> {"idle", "notify", "assign", "inc", "store", "return"}] /\ DOMAIN this = Threads
  BY Zenon DEF Registered, Held, Shape
<1>1. ASSUME NEW t \in Threads, t # u, NEW q, pc' = [pc EXCEPT ![t] = q], this'[u] = this[u]
      PROVE  InSet(u)' /\ this'[u] = this[u]
  BY <1>0, <1>1, Zenon DEF InSet
<1>2. ASSUME NEW k, Notify(u, k) PROVE InSet(u)' /\ this'[u] = this[u]
  BY <1>2 DEF Notify, InSet
<1>3. ASSUME Notified(u) PROVE InSet(u)' /\ this'[u] = this[u]
  BY <1>0, <1>3 DEF Notified, InSet, locals
<1>4. ASSUME pc[u] = "notify", NEW k \in Ahead(u), NotifyThrows(u, k) PROVE ~Unheard(this[u]) /\ m_val' = m_val
  <2>1. this[u] \in Vars /\ writer[this[u]] = None
    BY <1>4, Holds, Zenon DEF Registered
  <2>2. k \in DOMAIN m_cbs[this[u]] /\ m_cbs[this[u]][k] \in Throwing /\ m_val' = m_val
    BY <1>4, Zenon DEF NotifyThrows, Ahead
  <2>3. With(this[u], m_cbs[this[u]][k])
    BY <2>1, <2>2, Zenon DEF ListenersInv
  <2>4. ASSUME NEW t \in Threads, Returning(t, this[u], m_cbs[this[u]][k]) PROVE FALSE
    <3>1. Adding(t) /\ this[t] = this[u]
      BY <2>4, Zenon DEF Returning, Adding
    <3>2. writer[this[t]] = t
      BY <3>1, Holds, Zenon DEF Registered
    <3> QED  BY <2>1, <3>1, <3>2, ConfigVarAssumption, Zenon
  <2>5. reg[m_cbs[this[u]][k]].var = this[u]
    BY <2>3, <2>4, Zenon DEF With
  <2> QED  BY <2>2, <2>5 DEF Unheard
<1>5. ASSUME Increment(u) \/ Store(u) \/ AddReturn(u) PROVE FALSE
  BY <1>5, Zenon DEF Increment, Store, AddReturn, InSet
<1>6. ASSUME Step(u)
      PROVE  (InSet(u)' /\ this'[u] = this[u]) \/ Assign(u) \/ (~Unheard(this[u]) /\ m_val' = m_val)
  BY <1>2, <1>3, <1>4, <1>5, <1>6, Zenon DEF Step
<1>7. ASSUME NEW t \in Threads, t # u, Step(t) PROVE InSet(u)' /\ this'[u] = this[u]
  <2>1. UNCHANGED this
    BY <1>7, Zenon DEF Step, Notify, NotifyThrows, Notified, Assign, Increment, Store, AddReturn, locals
  <2>2. UNCHANGED pc \/ \E q : pc' = [pc EXCEPT ![t] = q]
    BY <1>7, Zenon DEF Step, Notify, NotifyThrows, Notified, Assign, Increment, Store, AddReturn
  <2>3. UNCHANGED pc => InSet(u)'
    BY DEF InSet
  <2> QED  BY <1>1, <1>7, <2>1, <2>2, <2>3
<1>8. ASSUME NEW t \in Threads, NEW x, NEW val, SetValue(t, x, val) PROVE InSet(u)' /\ this'[u] = this[u]
  <2>1. pc[t] = "idle" /\ pc' = [pc EXCEPT ![t] = "notify"] /\ this' = [this EXCEPT ![t] = x]
    BY <1>8 DEF SetValue, Call
  <2>2. t # u
    BY <2>1 DEF InSet
  <2> QED  BY <1>0, <1>1, <2>1, <2>2, Zenon
<1>9. ASSUME NEW t \in Threads, NEW x, NEW c, Listen(t, x, c) PROVE InSet(u)' /\ this'[u] = this[u]
  <2>1. pc[t] = "idle" /\ pc' = [pc EXCEPT ![t] = "inc"] /\ this' = [this EXCEPT ![t] = x]
    BY <1>9 DEF Listen, AddListener, Call
  <2>2. t # u
    BY <2>1 DEF InSet
  <2> QED  BY <1>0, <1>1, <2>1, <2>2, Zenon
<1>10. UNCHANGED vars => InSet(u)' /\ this'[u] = this[u]
  BY DEF vars, locals, InSet
<1> QED  BY <1>6, <1>7, <1>8, <1>9, <1>10, VarSteps, Zenon

\* One thread loads.
OneSetter == \A t, u \in Setters : t = u

\* A node that counts after a step that does not pass it counted before, and has the
\* same entry.
LEMMA CountedBefore ==
  ASSUME Registered, ListenersInv, [ConfigNext]_allVars, NEW u \in Threads, Loading(u),
         all_nodes'[u] = all_nodes[u], kept'[u] \subseteq kept[u],
         \A n \in kept'[u] : n \in DOMAIN s_datas => s_datas'[n] = s_datas[n],
         i'[u] \in {i[u], i[u] + 1}, NEW k \in Nat, Counts(u, k)'
  PROVE  LET key == all_nodes[u][k].key IN
         /\ Counts(u, k) /\ key # <<>> /\ key \in DOMAIN s_datas /\ s_datas'[key] = s_datas[key] /\ s_datas[key] \in Vars
         /\ \A j \in k + 1..i'[u] - 1 : all_nodes[u][j].key # key
<1> DEFINE key == all_nodes[u][k].key
<1>1. /\ key # <<>> /\ key \in kept'[u] /\ (Unheard(s_datas[key]))'
      /\ \A j \in k + 1..i'[u] - 1 : all_nodes[u][j].key # key
  BY Zenon DEF Counts
<1>2. key \in kept[u] /\ key \in DOMAIN s_datas /\ s_datas'[key] = s_datas[key]
  BY <1>1, Zenon DEF Loading
<1>3. s_datas[key] \in Vars
  BY <1>2, Zenon DEF Registered, RegistryInv, EntryOK, Forms
<1>4. Unheard(s_datas[key])
  <2>1. ASSUME NEW x \in Vars, s_datas[key] = x PROVE Unheard(x)
    <3>1. Unheard(x)'
      BY <1>1, <1>2, <2>1, Zenon DEF Unheard
    <3> QED  BY <3>1, UnheardBefore, Zenon
  <2> QED  BY <1>3, <2>1, Zenon
<1>5. \A j \in k + 1..i[u] - 1 : j \in k + 1..i'[u] - 1
  BY DEF Registered, Forms
<1> HIDE DEF key
<1>6. \A j \in k + 1..i[u] - 1 : all_nodes[u][j].key # key
  BY <1>1, <1>5, Zenon
<1>7. Counts(u, k)
  BY <1>1, <1>2, <1>4, <1>6, Zenon DEF Counts, key
<1> QED  BY <1>1, <1>2, <1>3, <1>7, Zenon DEF key

\* m_val = v reaches the node that the load has come to, and no other that counts.
LEMMA AssignReaches ==
  ASSUME Loads, NEW u \in Threads, rpc[u] = "load", Assign(u), NEW k \in 1..i[u] - 1, Counts(u, k)
  PROVE  LET e == all_nodes[u][k]
             x == s_datas[e.key]
         IN  FromStr(Type[x], e.node) \subseteq {m_val'[x]}
<1> DEFINE e == all_nodes[u][k]
           x == s_datas[e.key]
<1>0. Registered /\ Loading(u) /\ i[u] \in Nat
  BY Zenon DEF Loads, NodesInv, Registered, Forms
<1>1. InSet(u) /\ SettingNode(u)
  BY Zenon DEF Loads, SettingInv, Assign, InSet
<1>2. this[u] \in Vars /\ m_val' = [m_val EXCEPT ![this[u]] = v[u]] /\ DOMAIN m_val = Vars
  BY <1>0, Zenon DEF Assign, Registered, Forms, Held, LockInv
<1>3. e.key \in DOMAIN s_datas /\ x \in Vars
  BY <1>0, Zenon DEF Counts, Loading, Registered, RegistryInv, EntryOK, Forms
<1>4. /\ \A n \in DOMAIN s_datas : s_datas[n] = this[u] => n = all_nodes[u][i[u] - 1].key
      /\ v[u] \in FromStr(Type[this[u]], all_nodes[u][i[u] - 1].node)
  BY <1>1, Zenon DEF SettingNode
<1>5. \A j \in k + 1..i[u] - 1 : all_nodes[u][j].key # e.key
  BY Zenon DEF Counts
<1>6. x = s_datas[e.key] /\ all_nodes[u][k] = e
  OBVIOUS
<1> SUFFICES FromStr(Type[x], e.node) \subseteq {m_val'[x]}
  BY Zenon
<1> HIDE DEF e, x
<1>7. CASE x = this[u]
  <2>1. e.key = all_nodes[u][i[u] - 1].key /\ v[u] \in FromStr(Type[x], all_nodes[u][i[u] - 1].node)
    BY <1>3, <1>4, <1>6, <1>7, Zenon
  <2>2. k = i[u] - 1
    <3>1. k # i[u] - 1 => i[u] - 1 \in k + 1..i[u] - 1
      BY <1>0
    <3> QED  BY <1>5, <2>1, <3>1, Zenon
  <2>3. v[u] \in FromStr(Type[x], e.node) /\ m_val'[x] = v[u]
    BY <1>2, <1>6, <1>7, <2>1, <2>2, Zenon
  <2>4. Type[x] \in {"int", "vector", "set", "map"}
    BY <1>3, Typed
  <2>5. \A b \in FromStr(Type[x], e.node) : b = v[u]
    BY <2>3, <2>4, OneResult
  <2> QED  BY <2>3, <2>5, Zenon
<1>8. CASE x # this[u]
  <2>1. FromStr(Type[x], e.node) \subseteq {m_val[x]}
    <3>1. Reached(u, k) \/ (k = i[u] - 1 /\ InSet(u) /\ this[u] = s_datas[all_nodes[u][k].key])
      BY Zenon DEF Loads, LoadInv
    <3>2. Reached(u, k)
      BY <1>6, <1>8, <3>1, Zenon
    <3> QED  BY <1>6, <3>2, Zenon DEF Reached
  <2>2. m_val'[x] = m_val[x]
    BY <1>2, <1>3, <1>8, Zenon
  <2> QED  BY <2>1, <2>2
<1> QED  BY <1>7, <1>8, Zenon

\* The node that a turn of the loop passes: its variable has the value, or is being set.
LEMMA TurnReaches ==
  ASSUME Registered, NEW u \in Threads, Loading(u), LoadNode(u),
         all_nodes[u][i[u]].key # <<>>, all_nodes[u][i[u]].key \in DOMAIN s_datas
  PROVE  LET e == all_nodes[u][i[u]]
             x == s_datas[e.key]
         IN  \/ FromStr(Type[x], e.node) \subseteq {m_val[x]}
             \/ InSet(u)' /\ this'[u] = x
<1> DEFINE e == all_nodes[u][i[u]]
           x == s_datas[e.key]
<1>1. Found(e.key) = x /\ Found(e.key) # None /\ x \in Vars
  BY FoundIs, Zenon
<1>2. Read(e) = FromStr(Type[x], e.node)
  BY <1>1, Zenon DEF Read
<1>3. Read(e) = {} \/ \E val \in Read(e) : val = m_val[x] \/ SetValue(u, x, val)
  BY <1>1, Zenon DEF LoadNode
<1> HIDE DEF e, x
<1>4. ASSUME NEW val \in Read(e), val = m_val[x] PROVE FromStr(Type[x], e.node) \subseteq {m_val[x]}
  <2>1. Type[x] \in {"int", "vector", "set", "map"} /\ val \in FromStr(Type[x], e.node)
    BY <1>1, <1>2, <1>4, Typed, Zenon
  <2>2. \A b \in FromStr(Type[x], e.node) : b = val
    BY <2>1, OneResult, Zenon
  <2> QED  BY <1>4, <2>2, Zenon
<1>5. ASSUME NEW val, SetValue(u, x, val) PROVE InSet(u)' /\ this'[u] = x
  <2>1. DOMAIN pc = Threads /\ DOMAIN this = Threads
    BY Zenon DEF Registered, Held, Shape
  <2> QED  BY <1>5, <2>1, Zenon DEF SetValue, InSet
<1>6. FromStr(Type[x], e.node) \subseteq {m_val[x]} \/ (InSet(u)' /\ this'[u] = x)
  BY <1>2, <1>3, <1>4, <1>5, Zenon
<1> QED  BY <1>6, Zenon DEF e, x

\* A load goes on to have set each node behind it that counts.
LEMMA LoadKept ==
  ASSUME OneSetter, Loads, [ConfigNext]_allVars
  PROVE  LoadInv'
<1>0. Registered /\ ListenersInv /\ NodesInv /\ SettingInv /\ LoadInv /\ Forms
  BY DEF Loads, Registered
<1> SUFFICES ASSUME NEW u \in Threads, rpc'[u] = "load", NEW k \in 1..i'[u] - 1, (Counts(u, k))'
             PROVE  (Reached(u, k) \/ (k = i[u] - 1 /\ InSet(u) /\ this[u] = s_datas[all_nodes[u][k].key]))'
  BY Zenon DEF LoadInv
<1>1. ASSUME NEW d \in DOMAIN Docs, Load(u, d) PROVE FALSE
  <2>1. i' = [i EXCEPT ![u] = 1]
    BY <1>1 DEF Load
  <2>2. i'[u] = 1
    BY <1>0, <2>1, Zenon DEF Forms
  <2> HIDE <1>1
  <2> QED  BY <2>2
<1>2. /\ rpc[u] = "load" /\ all_nodes'[u] = all_nodes[u] /\ kept'[u] \subseteq kept[u]
      /\ \A n \in kept'[u] : n \in DOMAIN s_datas => s_datas'[n] = s_datas[n]
      /\ LoadNode(u) \/ i'[u] = i[u]
  BY <1>0, <1>1, LoadSteps, Zenon
<1>3. Loading(u) /\ i[u] \in Nat /\ (LoadNode(u) => i'[u] = i[u] + 1 /\ ~InSet(u) /\ i[u] <= Len(all_nodes[u]))
  BY <1>0, <1>2, Zenon DEF NodesInv, Forms, LoadNode, After, InSet
<1> DEFINE e == all_nodes[u][k]
           x == s_datas[e.key]
<1>4. /\ Counts(u, k) /\ e.key # <<>> /\ e.key \in DOMAIN s_datas /\ s_datas'[e.key] = x /\ x \in Vars
      /\ i'[u] \in Nat /\ k \in Nat
  <2>1. i'[u] \in {i[u], i[u] + 1}
    BY <1>2, <1>3, Zenon
  <2>2. i'[u] \in Nat /\ k \in Nat
    BY <1>3, <2>1
  <2> QED  BY <1>0, <1>2, <1>3, <2>1, <2>2, CountedBefore, Zenon
<1>5. all_nodes'[u][k] = e /\ s_datas'[all_nodes'[u][k].key] = x
  BY <1>2, <1>4, Zenon
<1> SUFFICES FromStr(Type[x], e.node) \subseteq {m_val'[x]} \/ (k = i'[u] - 1 /\ InSet(u)' /\ this'[u] = x)
  BY <1>5, Zenon DEF Reached
<1>c. Unheard(x) /\ (Reached(u, k) => FromStr(Type[x], e.node) \subseteq {m_val[x]})
  BY <1>4, Zenon DEF Counts, Reached
<1>d. s_datas[e.key] = x /\ (k = i[u] => all_nodes[u][i[u]] = e)
  BY Zenon
<1>r. k \in 1..i[u] - 1 => Reached(u, k) \/ (k = i[u] - 1 /\ InSet(u) /\ this[u] = x)
  BY <1>0, <1>2, <1>4, Zenon DEF LoadInv
<1> HIDE DEF e, x
<1>6. ASSUME LoadNode(u) PROVE m_val' = m_val
  BY <1>6, Zenon DEF LoadNode, SetValue, vars
<1>7. CASE LoadNode(u) /\ k = i[u]
  <2>1. i'[u] - 1 = k
    BY <1>3, <1>7
  <2>2. all_nodes[u][i[u]] = e
    BY <1>7, <1>d, Zenon
  <2>3. FromStr(Type[x], e.node) \subseteq {m_val[x]} \/ (InSet(u)' /\ this'[u] = x)
    BY <1>0, <1>3, <1>4, <1>7, <1>d, <2>2, TurnReaches, Zenon
  <2> QED  BY <1>6, <1>7, <2>1, <2>3, Zenon
<1>8. CASE LoadNode(u) /\ k # i[u]
  <2>1. i'[u] = i[u] + 1 /\ ~InSet(u)
    BY <1>3, <1>8, Zenon
  <2>2. k \in 1..i[u] - 1
    <3>1. \A m \in Nat : \A n \in 1..(m + 1) - 1 : n # m => n \in 1..m - 1
      OBVIOUS
    <3> QED  BY <1>3, <1>8, <2>1, <3>1, Zenon
  <2> QED  BY <1>6, <1>8, <1>c, <1>r, <2>1, <2>2, Zenon
<1>9. CASE ~LoadNode(u)
  <2>1. i'[u] = i[u] /\ k \in 1..i[u] - 1
    BY <1>2, <1>9, Zenon
  <2>2. ASSUME NEW t \in Threads, Assign(t) PROVE t = u
    <3>1. t \in Setters /\ u \in Setters
      BY <1>0, <1>3, <2>2, Zenon DEF Assign, Registered, Held, LockInv, Loading
    <3> QED  BY <3>1 DEF OneSetter
  <2>3. CASE Assign(u)
    BY <1>2, <1>4, <2>1, <2>3, AssignReaches, Zenon DEF e, x
  <2>4. CASE ~Assign(u)
    <3>1. m_val' = m_val
      BY <2>2, <2>4, ValueSteps
    <3>2. CASE Reached(u, k)
      BY <1>c, <3>1, <3>2, Zenon
    <3>3. CASE k = i[u] - 1 /\ InSet(u) /\ this[u] = x
      <4>1. Unheard(this[u])
        BY <1>c, <3>3, Zenon
      <4>2. InSet(u)' /\ this'[u] = this[u]
        BY <1>0, <2>4, <3>3, <4>1, LeaveSteps, Zenon
      <4> QED  BY <2>1, <3>3, <4>2, Zenon
    <3> QED  BY <1>r, <2>1, <3>2, <3>3, Zenon
  <2> QED  BY <2>3, <2>4, Zenon
<1> QED  BY <1>7, <1>8, <1>9, Zenon

\* Of every behaviour of Config in which one thread loads: the loads are in order.
THEOREM LoadsInvariant ==
  ASSUME OneSetter
  PROVE  ConfigSpec => []Loads
<1>1. ConfigInit => Loads
  <2> SUFFICES ASSUME ConfigInit PROVE Loads
    OBVIOUS
  <2>1. \A t \in Threads : rpc[t] # "load" /\ ~InSet(t) /\ ~Adding(t)
    BY DEF ConfigInit, Quiet, InSet, Adding
  <2>2. \A x \in Vars : DOMAIN m_cbs[x] = {}
    BY DEF ConfigInit, Quiet, NoListener
  <2> QED  BY <2>1, <2>2, RegisteredFirst, Zenon DEF Loads, NodesInv, ListenersInv, SettingInv, LoadInv
<1>2. Loads /\ [ConfigNext]_allVars => Loads'
  BY RegisteredKept, NodesKept, ListenersKept, SettingKept, LoadKept DEF Loads
<1> QED  BY <1>1, <1>2, PTL DEF ConfigSpec

(***************************************************************************)
(* LoadFromYaml (config.cc:27) reaches every variable that the document    *)
(* names, where one thread loads: when it returns, a variable that was     *)
(* registered under its name all the time, and has no listener that        *)
(* throws, has the value of the last node with that name, although other   *)
(* nodes could not be converted, other variables had listeners that threw, *)
(* and other threads looked names up and added listeners.                  *)
(***************************************************************************)
THEOREM LoadsReachAll ==
  ASSUME OneSetter
  PROVE  ConfigSpec => LoadReachesAll
<1> DEFINE Reach ==
      \A t \in Threads : rpc[t] = "load" /\ rpc'[t] = "idle" =>
        \A k \in DOMAIN all_nodes[t] :
          LET e == all_nodes[t][k]
              x == s_datas[e.key]
          IN  /\ e.key # <<>> /\ e.key \in kept[t] /\ Unheard(x)
              /\ \A j \in k + 1..Len(all_nodes[t]) : all_nodes[t][j].key # e.key
              => FromStr(Type[x], e.node) \subseteq {m_val[x]}
<1>1. ASSUME Loads, ConfigNext, NEW u \in Threads, rpc[u] = "load", rpc'[u] = "idle" PROVE Loaded(u)
  <2>0. rpc \in [Threads -> {"idle", "insert", "report", "load", "visit"}]
    BY <1>1 DEF Loads, Registered, Forms
  <2>1. ASSUME NEW t \in Threads, LookupReport(t) \/ LookupInsert(t) \/ Visited(t) PROVE FALSE
    BY <1>1, <2>0, <2>1 DEF LookupReport, LookupInsert, Visited, Goto
  <2>2. ASSUME NEW t \in Threads, Visit(t) \/ \E d \in DOMAIN Docs : Load(t, d) PROVE FALSE
    BY <1>1, <2>0, <2>2, Zenon DEF Visit, Load, Ask
  <2>3. ASSUME NEW t \in Threads, NEW n, NEW ty, Lookup(t, n, ty) PROVE FALSE
    BY <1>1, <2>0, <2>3, Zenon DEF Lookup, Ask
  <2>4. ASSUME NEW t \in Threads, LoadNode(t) \/ VisitNode(t) PROVE FALSE
    BY <1>1, <2>4, Zenon DEF LoadNode, VisitNode
  <2>5. ASSUME UNCHANGED configVars PROVE FALSE
    BY <1>1, <2>5 DEF configVars
  <2>6. ASSUME NEW t \in Threads, Loaded(t) PROVE t = u
    BY <1>1, <2>0, <2>6, Zenon DEF Loaded, Goto
  <2> QED  BY <1>1, <2>1, <2>2, <2>3, <2>4, <2>5, <2>6, Zenon DEF ConfigNext, ConfigStep, Listen
<1>2. ASSUME Loads, NEW u \in Threads, rpc[u] = "load", Loaded(u), NEW k \in DOMAIN all_nodes[u],
             all_nodes[u][k].key # <<>>, all_nodes[u][k].key \in kept[u], Unheard(s_datas[all_nodes[u][k].key]),
             \A j \in k + 1..Len(all_nodes[u]) : all_nodes[u][j].key # all_nodes[u][k].key
      PROVE  Reached(u, k)
  <2>1. Loading(u) /\ LoadInv
    BY <1>2, Zenon DEF Loads, NodesInv
  <2>0. Len(all_nodes[u]) \in Nat /\ DOMAIN all_nodes[u] = 1..Len(all_nodes[u])
    BY <2>1, ListedNodes
  <2>a. i[u] > Len(all_nodes[u]) /\ i[u] \in 1..Len(all_nodes[u]) + 1
    BY <1>2, <2>1, Zenon DEF Loaded, Loading
  <2>2. i[u] = Len(all_nodes[u]) + 1
    BY <2>0, <2>a
  <2>3. i[u] - 1 = Len(all_nodes[u]) /\ k \in 1..i[u] - 1
    BY <2>0, <2>2
  <2>4. Counts(u, k)
    BY <1>2, <2>3, Zenon DEF Counts
  <2>5. ~InSet(u)
    BY <1>2, Zenon DEF Loaded, InSet
  <2> QED  BY <1>2, <2>1, <2>3, <2>4, <2>5, Zenon DEF LoadInv
<1>3. Loads /\ ConfigNext => Reach
  BY <1>1, <1>2, Zenon DEF Reached
<1>4. Loads /\ [ConfigNext]_allVars => [Reach]_allVars
  BY <1>3, Zenon
<1> QED  BY <1>4, LoadsInvariant, PTL DEF ConfigSpec, LoadReachesAll

-----------------------------------------------------------------------------
(* The registry uses ConfigVar as ConfigVar says *)

\* The values that the defaults and the documents give the variables.
Covered ==
  /\ Default \in [Vars -> Values]
  /\ \A d \in DOMAIN Docs : \A k \in DOMAIN AllNodes(d) : \A x \in Vars :
       FromStr(Type[x], AllNodes(d)[k].node) \subseteq Values

(***************************************************************************)
(* Each step of Lookup, LoadFromYaml and Visit is a step of ConfigVar, or  *)
(* leaves it alone: what is proved of ConfigVar holds of the variables in  *)
(* the registry.                                                           *)
(***************************************************************************)
THEOREM ConfigImplements ==
  ASSUME Covered
  PROVE  ConfigSpec => Spec
<1>1. ConfigInit => Init
  BY DEF ConfigInit, Init, Covered
<1>2. Valued /\ [ConfigNext]_allVars => [Next]_vars
  <2> SUFFICES ASSUME Valued, [ConfigNext]_allVars PROVE [Next]_vars
    OBVIOUS
  <2>0. Registered /\ NodesInv
    BY DEF Valued
  <2>1. ASSUME NEW t \in Threads, Step(t) PROVE Next
    BY <2>1 DEF Next
  <2>2. ASSUME NEW t \in Threads, NEW x \in Vars, NEW c \in Cbs, Listen(t, x, c) PROVE Next
    BY <2>2 DEF Next, Listen
  <2>3. ASSUME NEW t \in Threads, LoadNode(t), NEW val \in Read(all_nodes[t][i[t]]),
               SetValue(t, Found(all_nodes[t][i[t]].key), val)
        PROVE  Next
    <3> DEFINE e == all_nodes[t][i[t]]
    <3>1. Loading(t) /\ i[t] <= Len(all_nodes[t])
      BY <2>0, <2>3, Zenon DEF LoadNode, NodesInv
    <3>2. i[t] \in DOMAIN all_nodes[t] /\ Found(e.key) \in Vars /\ val \in FromStr(Type[Found(e.key)], e.node)
      BY <2>0, <2>3, <3>1, NodeRead, Zenon
    <3>3. PICK d \in DOMAIN Docs : all_nodes[t] = AllNodes(d)
      BY <3>1, Zenon DEF Loading
    <3>4. val \in Values
      BY <3>2, <3>3, Zenon DEF Covered
    <3> QED  BY <2>3, <3>2, <3>4, Zenon DEF Next
  <2> QED  BY <2>1, <2>2, <2>3, VarSteps, Zenon
<1> QED  BY <1>1, <1>2, ValuesInvariant, PTL DEF ConfigSpec, Spec

\* While a load notifies the listeners of a variable, nobody changes its value or its
\* listeners: the loop of setValue (config.h:317) in the whole of Config.
THEOREM LoadsNotifySafely ==
  ASSUME Covered
  PROVE  ConfigSpec => LoopUndisturbed
BY ConfigImplements, LoopSafe, PTL

=============================================================================
