------------------------------- MODULE Config -------------------------------
(***************************************************************************)
(* sylar::Config (sylar/config.h, sylar/config.cc): the registry of        *)
(* configuration variables by name, on top of ConfigVar.  Lookup with a    *)
(* default value looks under the read lock, lets go of it, and inserts     *)
(* under the write lock; LoadFromYaml sets the registered variables one by *)
(* one; Visit calls back under the read lock.                              *)
(*                                                                         *)
(* A name is the sequence of its words, so that the name of a member is    *)
(* the name of the map followed by the key.  The variables of Vars are the *)
(* objects that Lookup may construct, each with its type and default.      *)
(***************************************************************************)
EXTENDS ConfigVar, LexicalCast, FiniteSetsExt

CONSTANTS
  ValidWords,   \* the words without a character that the registry refuses
  Type,         \* per variable
  Default,      \* per variable
  Asks,         \* the calls of Lookup with a default: thread, name and type
  Docs,         \* the documents that may be loaded: a sequence of YAML trees
  MaxDepth,     \* bound: the depth of a document
  MaxAsks       \* bound: calls of Config, per thread

VARIABLES
  s_datas,      \* name -> variable
  s_readers,    \* the threads that hold s_mutex for reading; writers take one step
  born,         \* the variables constructed
  rpc,          \* per thread: where its call of Config is
  name,         \* per thread: the argument of Lookup
  fresh,        \* per thread: the variable that its Lookup is to insert
  all_nodes, i, \* per thread: the nodes being loaded, and the one it has come to
  kept,         \* per thread: names whose entry is the same as when it began to load
  unseen,       \* per thread: the variables that Visit has still to come to
  asks          \* per thread: calls of Config so far

registry == <<s_datas, s_readers, born>>
configLocals == <<name, fresh, all_nodes, i, kept, unseen>>
configVars == <<registry, rpc, configLocals, asks>>
allVars == <<vars, configVars>>

NoDatas == [n \in {} |-> None]

ConfigInit ==
  /\ Quiet /\ m_val = Default
  /\ s_datas = NoDatas /\ s_readers = {} /\ born = {}
  /\ rpc = [t \in Threads |-> "idle"] /\ asks = [t \in Threads |-> 0]
  /\ name = [t \in Threads |-> <<>>] /\ fresh = [t \in Threads |-> None]
  /\ all_nodes = [t \in Threads |-> <<>>] /\ i = [t \in Threads |-> 0]
  /\ kept = [t \in Threads |-> {}] /\ unseen = [t \in Threads |-> {}]

Valid(n) == \A k \in DOMAIN n : n[k] \in ValidWords
Found(n) == IF n \in DOMAIN s_datas THEN s_datas[n] ELSE None

Unborn(ty) == {x \in Vars \ born : Type[x] = ty}

\* Thread t makes a call of Config, and is at r in it; or its call returns.
Ask(t, r) ==
  /\ rpc[t] = "idle" /\ pc[t] = "idle"
  /\ asks[t] < MaxAsks[t]
  /\ asks' = [asks EXCEPT ![t] = @ + 1]
  /\ rpc' = [rpc EXCEPT ![t] = r]

Goto(t, from, to) == rpc[t] = from /\ rpc' = [rpc EXCEPT ![t] = to]

-----------------------------------------------------------------------------
(* Lookup *)

\* Faulty variant: an entry found is not returned.
Looked_Forgets(n, ty) == IF Valid(n) THEN "insert" ELSE "idle"

\* What Lookup(name, default) does after it has looked: it returns what it found,
\* reports an entry of another type, throws at an invalid name, or inserts.
Looked(n, ty) ==
  IF Found(n) # None THEN IF Type[Found(n)] = ty THEN "idle" ELSE "report"
  ELSE IF Valid(n) THEN "insert" ELSE "idle"

\* Lookup(name) under the read lock, which is kept to report a wrong type.  A call
\* that will insert has a variable left to construct (a bound: Vars).
Lookup(t, n, ty) ==
  LET r == Looked(n, ty) IN
  /\ <<t, n, ty>> \in Asks
  /\ Ask(t, r)
  /\ s_readers' = IF r = "report" THEN s_readers \cup {t} ELSE s_readers
  /\ \/ r = "idle" /\ UNCHANGED <<name, fresh, born>>
     \/ /\ r # "idle" /\ Unborn(ty) # {}
        /\ name' = [name EXCEPT ![t] = n]
        /\ fresh' = [fresh EXCEPT ![t] = The(Unborn(ty))]
        /\ born' = born \cup {The(Unborn(ty))}
  /\ UNCHANGED <<vars, s_datas, all_nodes, i, kept, unseen>>

\* The report prints the variable, under its read lock.  The name was valid when
\* it was inserted.
LookupReport(t) ==
  /\ Goto(t, "report", "insert")
  /\ CanRead(Found(name[t]))
  /\ s_readers' = s_readers \ {t}
  /\ UNCHANGED <<vars, s_datas, born, configLocals, asks>>

\* Faulty variant: the entry is written under the read lock.
CanInsert_Reading == TRUE

\* The write lock of the registry.
CanInsert == s_readers = {}

\* make_shared, the write lock, GetDatas()[name] = v, and the return.
LookupInsert(t) ==
  /\ Goto(t, "insert", "idle")
  /\ CanInsert
  /\ s_datas' = [n \in DOMAIN s_datas \cup {name[t]} |->
                   IF n = name[t] THEN fresh[t] ELSE s_datas[n]]
  /\ kept' = [u \in Threads |-> kept[u] \ {name[t]}]
  /\ name' = [name EXCEPT ![t] = <<>>] /\ fresh' = [fresh EXCEPT ![t] = None]
  /\ UNCHANGED <<vars, s_readers, born, all_nodes, i, unseen, asks>>

-----------------------------------------------------------------------------
(* LoadFromYaml *)

\* Lists, one after another.
Joined(lists) == MapThenFoldSet(LAMBDA a, b : a \o b, <<>>, LAMBDA k : lists[k], Min, DOMAIN lists)

\* A node with its name: one entry of the list, at its depth in the document.
Entry(prefix, tree, d) == [key |-> prefix, node |-> tree, depth |-> d]

\* What the call of ListAllMember for an entry adds after it: the members of a map,
\* but for those with an invalid name, which are left out with all their members.
Members(e) ==
  LET member(k) == Entry(e.key \o e.node.v[k][1], e.node.v[k][2], e.depth + 1)
  IN  IF e.node.kind # "map" THEN <<>>
      ELSE Joined([k \in DOMAIN e.node.v |-> IF Valid(member(k).key) THEN <<member(k)>> ELSE <<>>])

\* The nodes of a tree down to depth n, a map before its members.
ListAllMember(tree) ==
  LET list[n \in Nat] ==
        IF n = 0 THEN <<Entry(<<>>, tree, 0)>>
        ELSE LET above == list[n - 1]
             IN  Joined([k \in DOMAIN above |->
                   <<above[k]>> \o (IF above[k].depth = n - 1 THEN Members(above[k]) ELSE <<>>)])
  IN  list[MaxDepth]

\* The nodes that LoadFromYaml goes through.
AllNodes(d) == ListAllMember(Docs[d])

ASSUME ConfigAssumption ==
  /\ Default = [x \in Vars |-> Default[x]]
  /\ \A x \in Vars : ValueOf(Type[x], Default[x])
  /\ \A d \in DOMAIN Docs :
       /\ IsList(AllNodes(d))
       /\ \A k \in DOMAIN AllNodes(d) : NodeOK(AllNodes(d)[k].node)

Load(t, d) ==
  /\ t \in Setters
  /\ Ask(t, "load")
  /\ all_nodes' = [all_nodes EXCEPT ![t] = AllNodes(d)] /\ i' = [i EXCEPT ![t] = 1]
  /\ kept' = [kept EXCEPT ![t] = DOMAIN s_datas]
  /\ UNCHANGED <<vars, registry, name, fresh, unseen>>

\* Faulty variant: a node that cannot be converted ends the load.
After_Stops(t, bad) == IF bad THEN Len(all_nodes[t]) + 1 ELSE i[t] + 1

\* The loop goes on after a node that cannot be converted: fromString catches.
After(t, bad) == i[t] + 1

\* LookupBase under the read lock, and what fromString reads for the variable; a node
\* without a name is passed over.
Read(e) ==
  IF e.key = <<>> \/ Found(e.key) = None THEN {} ELSE FromStr(Type[Found(e.key)], e.node)

\* One turn of the loop: fromString calls setValue, or catches what the conversion
\* throws.
LoadNode(t) ==
  /\ rpc[t] = "load" /\ pc[t] = "idle" /\ i[t] <= Len(all_nodes[t])
  /\ \E e \in {all_nodes[t][i[t]]} :
       /\ i' = [i EXCEPT ![t] = After(t, e.key # <<>> /\ Found(e.key) # None /\ Read(e) = {})]
       /\ \/ Read(e) = {} /\ UNCHANGED vars
          \/ \E val \in Read(e) :
               \/ CanRead(Found(e.key)) /\ val = m_val[Found(e.key)] /\ UNCHANGED vars
               \/ SetValue(t, Found(e.key), val)
  /\ UNCHANGED <<registry, rpc, name, fresh, all_nodes, kept, unseen, asks>>

Loaded(t) ==
  /\ Goto(t, "load", "idle")
  /\ pc[t] = "idle" /\ i[t] > Len(all_nodes[t])
  /\ all_nodes' = [all_nodes EXCEPT ![t] = <<>>] /\ i' = [i EXCEPT ![t] = 0]
  /\ kept' = [kept EXCEPT ![t] = {}]
  /\ UNCHANGED <<vars, registry, name, fresh, unseen, asks>>

-----------------------------------------------------------------------------
(* Visit, with a callback that prints the variable (tests/test_config.cc:297) *)

Visit(t) ==
  /\ Ask(t, "visit")
  /\ s_readers' = s_readers \cup {t}
  /\ unseen' = [unseen EXCEPT ![t] = {s_datas[n] : n \in DOMAIN s_datas}]
  /\ UNCHANGED <<vars, s_datas, born, name, fresh, all_nodes, i, kept>>

\* Faulty variant: the callback looks a variable up with a default.
VisitCallback_Inserts(x) == CanRead(x) /\ CanInsert

\* toString() of the variable.
VisitCallback(x) == CanRead(x)

VisitNode(t) ==
  /\ rpc[t] = "visit"
  /\ \E x \in unseen[t] :
       VisitCallback(x) /\ unseen' = [unseen EXCEPT ![t] = @ \ {x}]
  /\ UNCHANGED <<vars, registry, rpc, name, fresh, all_nodes, i, kept, asks>>

Visited(t) ==
  /\ unseen[t] = {}
  /\ Goto(t, "visit", "idle")
  /\ s_readers' = s_readers \ {t}
  /\ UNCHANGED <<vars, s_datas, born, configLocals, asks>>

-----------------------------------------------------------------------------
\* What a thread does to go on with a call, of Config or of ConfigVar.
ConfigStep(t) ==
  \/ Step(t) /\ UNCHANGED configVars
  \/ LookupReport(t) \/ LookupInsert(t)
  \/ LoadNode(t) \/ Loaded(t)
  \/ VisitNode(t) \/ Visited(t)

\* A thread registers a callback with a variable of the registry.
Listen(t, x, c) ==
  /\ rpc[t] = "idle" /\ \E n \in DOMAIN s_datas : s_datas[n] = x
  /\ AddListener(t, x, c)
  /\ UNCHANGED configVars

ConfigNext ==
  \E t \in Threads :
    \/ ConfigStep(t)
    \/ \E a \in Asks : Lookup(t, a[2], a[3])
    \/ \E d \in DOMAIN Docs : Load(t, d)
    \/ Visit(t)
    \/ \E x \in Vars, c \in Cbs : Listen(t, x, c)

ConfigSpec ==
  ConfigInit /\ [][ConfigNext]_allVars /\ \A t \in Threads : WF_allVars(ConfigStep(t))

-----------------------------------------------------------------------------
(* Properties *)

(***************************************************************************)
(* The look and the insertion of Lookup are two critical sections, so a    *)
(* variable can be replaced.  Where one thread registers a name, with one  *)
(* type (as the static initialisers of the library do), the entry stays:   *)
(* the pointers handed out remain the ones that LoadFromYaml sets.         *)
(***************************************************************************)
OneRegistrar(n) == \A a, b \in Asks : a[2] = n /\ b[2] = n => a[1] = b[1] /\ a[3] = b[3]

RegisteredStays ==
  [][\A n \in DOMAIN s_datas : OneRegistrar(n) => s_datas'[n] = s_datas[n]]_allVars

\* Visit's loop over the map is safe: no entry comes or goes while it runs.
VisitUndisturbed ==
  [][(\E t \in Threads : rpc[t] = "visit") => s_datas' = s_datas]_allVars

(***************************************************************************)
(* A load reaches every variable that it names: when it returns, a         *)
(* variable that was registered under a name all the time, and has had no  *)
(* listener that throws, has the value that the document gives it, though  *)
(* other nodes could not be converted or had a listener that threw.  (One  *)
(* thread loads; where a document has a name twice, the last one counts.)  *)
(***************************************************************************)
Unheard(x) == \A c \in Throwing : reg[c].var # x

LoadReachesAll ==
  [][\A t \in Threads : rpc[t] = "load" /\ rpc'[t] = "idle" =>
       \A k \in DOMAIN all_nodes[t] :
         LET e == all_nodes[t][k]
             x == s_datas[e.key]
         IN  /\ e.key # <<>> /\ e.key \in kept[t] /\ Unheard(x)
             /\ \A j \in k + 1..Len(all_nodes[t]) : all_nodes[t][j].key # e.key
             => FromStr(Type[x], e.node) \subseteq {m_val[x]}]_allVars

\* What toString() prints of a variable, fromString() reads as the same value.
PrintedIsRead ==
  \A x \in born : FromStr(Type[x], ToStr(Type[x], m_val[x])) = {m_val[x]}

\* Every call of Config returns: no thread waits for ever for the registry, or for
\* a variable while it holds the registry.
ConfigReturns == \A t \in Threads : rpc[t] # "idle" ~> rpc[t] = "idle" /\ pc[t] = "idle"

=============================================================================
