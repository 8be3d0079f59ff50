---------------------------- MODULE LoggerProofs ----------------------------
(***************************************************************************)
(* Logger, for any threads, names of loggers, documents and events: every  *)
(* appender listed has a formatter, an event goes to the appenders of one  *)
(* logger, and the mutexes of log.h exclude.  And LogIniter, the listener  *)
(* of "logs", for any documents, in any order, and any threads that log,   *)
(* print and set up loggers of their own meanwhile: when it has returned,  *)
(* the loggers are what the document says.                                 *)
(***************************************************************************)
EXTENDS Logger, LocksProofs, FiniteSetTheorems

(* The conversions of "logs" *)

\* The elements of a container are converted, or the conversion throws.
LEMMA ElementsConverted ==
  ASSUME NEW results, NEW s \in FromElements(results)
  PROVE  /\ s = [k \in DOMAIN results |-> The(results[k])]
         /\ \A k \in DOMAIN results : The(results[k]) \in results[k]
<1>1. ~(\E k \in DOMAIN results : results[k] = {}) /\ s = [k \in DOMAIN results |-> The(results[k])]
  BY DEF FromElements
<1>2. ASSUME NEW k \in DOMAIN results PROVE The(results[k]) \in results[k]
  <2>1. results[k] # {}
    BY <1>1
  <2> QED  BY <2>1 DEF The
<1> QED  BY <1>1, <1>2

\* The image of a list is a finite set.
LEMMA ImageFinite ==
  ASSUME NEW n \in Nat, NEW I \in SUBSET (1..n), NEW f
  PROVE  IsFiniteSet({f[k] : k \in I})
<1> DEFINE T == {f[k] : k \in I}
           g == [k \in I |-> f[k]]
<1>1. IsFiniteSet(I)
  <2>1. IsFiniteSet(1..n)
    BY FS_Interval
  <2> QED  BY <2>1, FS_Subset, Zenon
<1>2. g \in Surjection(I, T)
  BY DEF Surjection
<1> HIDE DEF T, g
<1>3. IsFiniteSet(T)
  BY <1>1, <1>2, FS_Surjection
<1> QED  BY <1>3 DEF T

\* A list of n elements has n indices.
LEMMA Indices ==
  ASSUME NEW n \in Nat
  PROVE  Cardinality(1..n) = n
<1>1. Cardinality(1..n) = IF 1 > n THEN 0 ELSE n - 1 + 1
  BY FS_Interval
<1> QED  BY <1>1

\* The elements of a finite set, each once.
LEMMA ListOfSet ==
  ASSUME NEW X, IsFiniteSet(X)
  PROVE  LET n == Cardinality(X)
             s == Listing(X)
         IN  /\ n \in Nat /\ s \in [1..n -> X]
             /\ \A j, k \in 1..n : s[j] = s[k] => j = k
             /\ \A x \in X : \E k \in 1..n : s[k] = x
<1> DEFINE n == Cardinality(X)
           s == Listing(X)
<1>1. n \in Nat /\ ExistsBijection(1..n, X)
  BY FS_CardinalityType
<1>2. \E f : f \in Injection(1..n, X)
  BY <1>1 DEF ExistsBijection, Bijection
<1>3. s \in Injection(1..n, X)
  BY <1>2, Zenon DEF Listing, The
<1> HIDE DEF s
<1>4. s \in [1..n -> X] /\ IsInjective(s)
  BY <1>3 DEF Injection
<1>5. Cardinality(1..n) = n
  BY <1>1, Indices
<1>6. s \in Surjection(1..n, X)
  BY <1>3, <1>5, FS_Injection
<1> QED  BY <1>1, <1>4, <1>6 DEF IsInjective, Surjection, s

\* The elements of a node that ToStr wrote are the texts it wrote.
LEMMA ElementsOfText ==
  ASSUME NEW n \in Nat, NEW texts, texts = [k \in 1..n |-> texts[k]]
  PROVE  Elements(SeqNode(texts)) = texts
<1>1. CASE texts = <<>>
  BY <1>1 DEF SeqNode, NullNode, Elements
<1>2. CASE texts # <<>>
  BY <1>2 DEF SeqNode, Elements
<1> QED  BY <1>1, <1>2

\* node[key] finds what was assigned to it, and nothing under another key.
LEMMA MapBack ==
  ASSUME NEW text, IsFiniteSet(DOMAIN text), DOMAIN text # {}, NEW key
  PROVE  /\ ToMap(text).kind = "map"
         /\ Get(ToMap(text), key) = IF key \in DOMAIN text THEN text[key] ELSE Undefined
<1> DEFINE D == DOMAIN text
           n == Cardinality(D)
           s == Listing(D)
           pairs == [k \in DOMAIN s |-> <<s[k], text[s[k]]>>]
           at == {k \in DOMAIN pairs : pairs[k][1] = key}
<1>1. /\ n \in Nat /\ s \in [1..n -> D]
      /\ \A j, k \in 1..n : s[j] = s[k] => j = k
      /\ \A x \in D : \E k \in 1..n : s[k] = x
  BY ListOfSet
<1> HIDE DEF s, n
<1>2. DOMAIN pairs = 1..n /\ \A k \in 1..n : pairs[k][1] = s[k] /\ pairs[k][2] = text[s[k]]
  BY <1>1
<1>3. pairs # <<>>
  <2>1. PICK x \in D : TRUE
    OBVIOUS
  <2>2. PICK k \in 1..n : s[k] = x
    BY <1>1, <2>1
  <2>3. DOMAIN pairs # {}
    BY <1>2, <2>2
  <2> QED  BY <2>3
<1>4. ToMap(text) = MapNode(pairs)
  BY DEF ToMap, s
<1> HIDE DEF pairs
<1>5. ToMap(text) = [kind |-> "map", v |-> pairs]
  BY <1>3, <1>4 DEF MapNode
<1>6. ToMap(text).kind = "map" /\ ToMap(text).v = pairs
  BY <1>5
<1>7. Get(ToMap(text), key) = IF at # {} THEN pairs[CHOOSE k \in at : \A j \in at : k <= j][2] ELSE Undefined
  BY <1>6 DEF Get
<1>8. CASE key \in D
  <2>1. PICK k \in 1..n : s[k] = key
    BY <1>1, <1>8
  <2>2. at = {k}
    BY <1>1, <1>2, <2>1
  <2>3. (CHOOSE m \in at : \A j \in at : m <= j) = k
    BY <2>1, <2>2
  <2>4. Get(ToMap(text), key) = pairs[k][2]
    BY <1>7, <2>2, <2>3
  <2> QED  BY <1>2, <1>6, <1>8, <2>1, <2>4
<1>9. CASE key \notin D
  <2>1. at = {}
    BY <1>1, <1>2, <1>9
  <2> QED  BY <1>6, <1>7, <1>9, <2>1
<1> QED  BY <1>8, <1>9

\* A level is read from its own text (log.cc:9 and log.cc:24).
LEMMA LevelBack ==
  ASSUME NEW level \in UNKNOW..Len(Levels)
  PROVE  LevelFromString(LevelToString(level)) = level
<1>1. Len(Levels) = 5 /\ DOMAIN Levels = 1..5
  BY DEF Levels
<1>2. CASE level = UNKNOW
  BY <1>1, <1>2 DEF LevelFromString, LevelToString, UNKNOW, Levels
<1>3. CASE level \in 1..5
  <2>1. LevelToString(level) = Levels[level]
    BY <1>1, <1>3 DEF LevelToString
  <2>2. \A k \in 1..5 : Levels[k] = Levels[level] => k = level
    BY <1>3 DEF Levels
  <2>3. (CHOOSE k \in DOMAIN Levels : Levels[k] = Levels[level]) = level
    BY <1>1, <1>3, <2>2
  <2> QED  BY <1>1, <1>3, <2>1, <2>3 DEF LevelFromString
<1> QED  BY <1>1, <1>2, <1>3 DEF UNKNOW

\* An empty string is no text of a level.
LEMMA NoLevel == LevelFromString("") = UNKNOW /\ \A k \in DOMAIN Levels : Levels[k] # ""
<1>1. \A k \in DOMAIN Levels : Levels[k] # ""
  <2>1. DOMAIN Levels = 1..5
    BY DEF Levels
  <2>2. \A k \in 1..5 : Levels[k] \in {"DEBUG", "INFO", "WARN", "ERROR", "FATAL"}
    BY DEF Levels
  <2>3. "" \notin {"DEBUG", "INFO", "WARN", "ERROR", "FATAL"}
    OBVIOUS
  <2> QED  BY <2>1, <2>2, <2>3, Zenon
<1> QED  BY <1>1, Zenon DEF LevelFromString

\* The definition of an appender as it can be read, and one that can be printed as well:
\* an appender to a file has a name of one.
AppenderOK(a) ==
  /\ a = [type |-> a.type, file |-> a.file, level |-> a.level, formatter |-> a.formatter]
  /\ a.type \in {File, Stdout} /\ a.level \in UNKNOW..Len(Levels)
  /\ a.type = Stdout => a.file = ""

Named(a) == a.type = File => a.file # ""

\* The definition of an appender is read as it was printed: a text left out is read as
\* the empty one (log.cc:1010 to log.cc:1018).
LEMMA AppenderBack ==
  ASSUME NEW a, AppenderOK(a), Named(a)
  PROVE  /\ ~IsScalar(ToAppender(a)) /\ AppenderIsRead(ToAppender(a))
         /\ ReadAppender(ToAppender(a)) = a
<1> DEFINE text == [file |-> a.file, formatter |-> a.formatter, type |-> a.type,
                    level |-> IF a.level = UNKNOW THEN "" ELSE LevelToString(a.level)]
           D == {"type"} \cup {f \in DOMAIN text : text[f] # ""}
           texts == [key \in D |-> Text(text[key])]
           node == ToMap(texts)
<1>1. DOMAIN text = {"file", "formatter", "type", "level"}
  OBVIOUS
<1>2. /\ text["file"] = a.file /\ text["formatter"] = a.formatter /\ text["type"] = a.type
      /\ text["level"] = IF a.level = UNKNOW THEN "" ELSE LevelToString(a.level)
  OBVIOUS
<1>3. node = ToAppender(a)
  BY DEF ToAppender
<1> HIDE DEF text
<1>4. IsFiniteSet(D) /\ D # {}
  <2>1. IsFiniteSet(DOMAIN text)
    <3>1. IsFiniteSet({"file"})
      BY FS_Singleton, Zenon
    <3>2. IsFiniteSet({"file"} \cup {"formatter"})
      BY <3>1, FS_AddElement
    <3>3. IsFiniteSet({"file"} \cup {"formatter"} \cup {"type"})
      BY <3>2, FS_AddElement
    <3>4. IsFiniteSet({"file"} \cup {"formatter"} \cup {"type"} \cup {"level"})
      BY <3>3, FS_AddElement
    <3>5. DOMAIN text = {"file"} \cup {"formatter"} \cup {"type"} \cup {"level"}
      BY <1>1
    <3> QED  BY <3>4, <3>5
  <2>2. D \subseteq DOMAIN text
    BY <1>1, Zenon
  <2> QED  BY <2>1, <2>2, FS_Subset, Zenon
<1>5. DOMAIN texts = D /\ \A key \in D : texts[key] = [kind |-> "text", v |-> text[key]]
  BY Zenon DEF Text
<1> HIDE DEF texts
<1>6. \A key : Get(node, key) = IF key \in D THEN texts[key] ELSE Undefined
  BY <1>4, <1>5, MapBack, Zenon
<1>7. node.kind = "map"
  BY <1>4, <1>5, MapBack, Zenon
<1> HIDE DEF node
<1>8. ASSUME NEW key \in DOMAIN text
      PROVE  /\ TextOf(Get(node, key)) = text[key] /\ OptionalText(Get(node, key))
             /\ key \in D => IsScalar(Get(node, key))
  <2>1. CASE key \in D
    <3> DEFINE g == Get(node, key)
    <3>1. g = [kind |-> "text", v |-> text[key]]
      BY <1>5, <1>6, <2>1, Zenon
    <3> HIDE DEF g
    <3>2. g.kind = "text" /\ g.v = text[key]
      BY <3>1
    <3>3. TextOf(g) = text[key] /\ OptionalText(g) /\ IsScalar(g)
      BY <3>2 DEF TextOf, OptionalText, IsScalar
    <3> QED  BY <3>3 DEF g
  <2>2. CASE key \notin D
    <3>1. Get(node, key) = Undefined
      BY <1>6, <2>2, Zenon
    <3>2. text[key] = ""
      BY <2>2, Zenon
    <3>3. TextOf(Undefined) = "" /\ OptionalText(Undefined)
      BY DEF TextOf, OptionalText, Undefined
    <3> QED  BY <2>2, <3>1, <3>2, <3>3, Zenon
  <2> QED  BY <2>1, <2>2, Zenon
<1>9. LevelFromString(text["level"]) = a.level
  BY <1>2, LevelBack, NoLevel, Zenon DEF AppenderOK
<1>10. /\ TextOf(Get(node, "type")) = a.type /\ TextOf(Get(node, "file")) = a.file
       /\ TextOf(Get(node, "formatter")) = a.formatter /\ TextOf(Get(node, "level")) = text["level"]
       /\ OptionalText(Get(node, "level")) /\ OptionalText(Get(node, "formatter"))
  BY <1>1, <1>2, <1>8, Zenon
<1>11. a.type = File => IsScalar(Get(node, "file"))
  BY <1>1, <1>2, <1>8, Zenon DEF Named
<1>12. AppenderIsRead(node)
  BY <1>10, <1>11, Zenon DEF AppenderIsRead, AppenderOK
<1>13. a.type # File => a.file = ""
  BY Zenon DEF AppenderOK
<1>14. ReadAppender(node) = [type |-> a.type, file |-> a.file, level |-> a.level, formatter |-> a.formatter]
  BY <1>9, <1>10, <1>13, Zenon DEF ReadAppender
<1> QED  BY <1>3, <1>7, <1>12, <1>14, Zenon DEF IsScalar, AppenderOK

\* The nth of the first numbers is n.
LEMMA NthOfAll ==
  ASSUME NEW n \in Nat, NEW m \in 1..n
  PROVE  Nth(1..n, m) = m
<1>1. ASSUME NEW k \in 1..n PROVE Cardinality({j \in 1..n : j <= k}) = k
  <2>1. {j \in 1..n : j <= k} = 1..k
    OBVIOUS
  <2>2. Cardinality(1..k) = k
    BY Indices
  <2> QED  BY <2>1, <2>2, Zenon
<1>2. \A k \in 1..n : Cardinality({j \in 1..n : j <= k}) = m <=> k = m
  BY <1>1
<1>3. \E k \in 1..n : Cardinality({j \in 1..n : j <= k}) = m
  BY <1>2
<1>4. Nth(1..n, m) \in 1..n /\ Cardinality({j \in 1..n : j <= Nth(1..n, m)}) = m
  BY <1>3, Zenon DEF Nth
<1> QED  BY <1>2, <1>4

\* The definition of a logger as it can be read.
DefineOK(ld) ==
  /\ ld = [name |-> ld.name, level |-> ld.level, formatter |-> ld.formatter, appenders |-> ld.appenders]
  /\ ld.level \in UNKNOW..Len(Levels) /\ Len(ld.appenders) \in Nat
  /\ ld.appenders = [k \in 1..Len(ld.appenders) |-> ld.appenders[k]]
  /\ \A k \in 1..Len(ld.appenders) : AppenderOK(ld.appenders[k])

AllNamed(ld) == \A k \in DOMAIN ld.appenders : Named(ld.appenders[k])

\* The appenders of a definition are read as they were printed, in their order.
LEMMA AppendersBack ==
  ASSUME NEW ld, DefineOK(ld), AllNamed(ld)
  PROVE  LET list == [k \in 1..Len(ld.appenders) |-> ToAppender(ld.appenders[k])]
             good == {k \in DOMAIN list : AppenderIsRead(list[k])}
         IN  /\ ~\E k \in DOMAIN list : IsScalar(list[k])
             /\ [n \in 1..Cardinality(good) |-> ReadAppender(list[Nth(good, n)])] = ld.appenders
<1> DEFINE n == Len(ld.appenders)
           s == ld.appenders
           list == [k \in 1..n |-> ToAppender(s[k])]
           good == {k \in DOMAIN list : AppenderIsRead(list[k])}
<1>1. n \in Nat /\ s = [k \in 1..n |-> s[k]] /\ \A k \in 1..n : AppenderOK(s[k])
  BY DEF DefineOK
<1>2. DOMAIN s = 1..n
  BY <1>1
<1>3. \A k \in 1..n : AppenderOK(s[k]) /\ Named(s[k])
  BY <1>1, <1>2 DEF AllNamed
<1>4. DOMAIN list = 1..n /\ \A k \in 1..n : list[k] = ToAppender(s[k])
  OBVIOUS
<1> HIDE DEF list, n, s
<1>5. \A k \in 1..n : ~IsScalar(list[k]) /\ AppenderIsRead(list[k]) /\ ReadAppender(list[k]) = s[k]
  BY <1>3, <1>4, AppenderBack
<1>6. good = 1..n
  BY <1>4, <1>5
<1> HIDE DEF good
<1>7. Cardinality(good) = n
  BY <1>1, <1>6, Indices
<1>8. \A m \in 1..n : ReadAppender(list[Nth(good, m)]) = s[m]
  BY <1>1, <1>5, <1>6, NthOfAll
<1>9. [m \in 1..Cardinality(good) |-> ReadAppender(list[Nth(good, m)])] = [m \in 1..n |-> s[m]]
  BY <1>7, <1>8
<1>10. [m \in 1..Cardinality(good) |-> ReadAppender(list[Nth(good, m)])] = s
  BY <1>1, <1>9, Zenon
<1>11. ~\E k \in DOMAIN list : IsScalar(list[k])
  BY <1>4, <1>5
<1> QED  BY <1>10, <1>11, Zenon DEF good, list, n, s

\* The definition of a logger is read as it was printed (log.cc:862 and log.cc:999).
LEMMA DefineBack ==
  ASSUME NEW ld, DefineOK(ld), AllNamed(ld)
  PROVE  FromLogDefine(ToLogDefine(ld)) = {ld}
<1> DEFINE printed == [k \in 1..Len(ld.appenders) |-> ToAppender(ld.appenders[k])]
           texts == [name |-> Text(ld.name), level |-> Text(LevelToString(ld.level)),
                     formatter |-> Text(ld.formatter), appenders |-> SeqNode(printed)]
           node == ToLogDefine(ld)
           good == {k \in DOMAIN printed : AppenderIsRead(printed[k])}
<1>1. DOMAIN ld.appenders = 1..Len(ld.appenders)
  BY DEF DefineOK
<1>2. node = ToMap(texts)
  BY <1>1 DEF ToLogDefine
<1>3. DOMAIN texts = {"name", "level", "formatter", "appenders"}
  OBVIOUS
<1>4. /\ texts["name"] = Text(ld.name) /\ texts["level"] = Text(LevelToString(ld.level))
      /\ texts["formatter"] = Text(ld.formatter) /\ texts["appenders"] = SeqNode(printed)
  OBVIOUS
<1> HIDE DEF texts
<1>5. IsFiniteSet(DOMAIN texts)
  <2>1. IsFiniteSet({"name"})
    BY FS_Singleton, Zenon
  <2>2. IsFiniteSet({"name"} \cup {"level"})
    BY <2>1, FS_AddElement
  <2>3. IsFiniteSet({"name"} \cup {"level"} \cup {"formatter"})
    BY <2>2, FS_AddElement
  <2>4. IsFiniteSet({"name"} \cup {"level"} \cup {"formatter"} \cup {"appenders"})
    BY <2>3, FS_AddElement
  <2>5. DOMAIN texts = {"name"} \cup {"level"} \cup {"formatter"} \cup {"appenders"}
    BY <1>3
  <2> QED  BY <2>4, <2>5
<1>6. node.kind = "map" /\ \A key \in DOMAIN texts : Get(node, key) = texts[key]
  BY <1>2, <1>3, <1>5, MapBack
<1> HIDE DEF node
<1>7. ASSUME NEW str PROVE IsScalar(Text(str)) /\ OptionalText(Text(str)) /\ TextOf(Text(str)) = str
  BY DEF IsScalar, OptionalText, TextOf, Text
<1>8. /\ Get(node, "name") = Text(ld.name) /\ Get(node, "level") = Text(LevelToString(ld.level))
      /\ Get(node, "formatter") = Text(ld.formatter) /\ Get(node, "appenders") = SeqNode(printed)
  BY <1>3, <1>4, <1>6
<1>9. /\ ~\E k \in DOMAIN printed : IsScalar(printed[k])
      /\ [n \in 1..Cardinality(good) |-> ReadAppender(printed[Nth(good, n)])] = ld.appenders
  BY AppendersBack, Zenon
<1> HIDE DEF printed
<1>10. (IF SeqNode(printed).kind = "seq" THEN SeqNode(printed).v ELSE <<>>) = printed
  <2>1. CASE printed = <<>>
    BY <2>1 DEF SeqNode, NullNode
  <2>2. CASE printed # <<>>
    BY <2>2 DEF SeqNode
  <2> QED  BY <2>1, <2>2
<1>11. LevelFromString(LevelToString(ld.level)) = ld.level
  BY LevelBack DEF DefineOK
<1>12. ~IsScalar(node)
  BY <1>6 DEF IsScalar
<1> DEFINE name == IsScalar(Get(node, "name"))
           level == name /\ IsScalar(Get(node, "level"))
           formatter == level /\ OptionalText(Get(node, "formatter"))
           list == IF formatter /\ Get(node, "appenders").kind = "seq" THEN Get(node, "appenders").v
                   ELSE <<>>
           read == {k \in DOMAIN list : AppenderIsRead(list[k])}
<1>13. name /\ level /\ formatter
  BY <1>7, <1>8
<1>14. list = printed
  BY <1>8, <1>10, <1>13
<1>15. FromLogDefine(node) =
         IF IsScalar(node) \/ \E k \in DOMAIN list : IsScalar(list[k]) THEN {}
         ELSE {[name |-> IF name THEN TextOf(Get(node, "name")) ELSE "",
                level |-> IF level THEN LevelFromString(TextOf(Get(node, "level"))) ELSE UNKNOW,
                formatter |-> IF formatter THEN TextOf(Get(node, "formatter")) ELSE "",
                appenders |-> [n \in 1..Cardinality(read) |-> ReadAppender(list[Nth(read, n)])]]}
  BY Zenon DEF FromLogDefine
<1> HIDE DEF list
<1>16. [n \in 1..Cardinality(read) |-> ReadAppender(list[Nth(read, n)])] = ld.appenders
  BY <1>9, <1>14
<1>17. ~\E k \in DOMAIN list : IsScalar(list[k])
  BY <1>9, <1>14
<1> HIDE DEF read, name, level, formatter
<1>18. FromLogDefine(node) =
         {[name |-> TextOf(Get(node, "name")), level |-> LevelFromString(TextOf(Get(node, "level"))),
           formatter |-> TextOf(Get(node, "formatter")), appenders |-> ld.appenders]}
  BY <1>12, <1>13, <1>15, <1>16, <1>17, Zenon
<1>19. FromLogDefine(node) = {[name |-> ld.name, level |-> ld.level, formatter |-> ld.formatter,
                               appenders |-> ld.appenders]}
  BY <1>7, <1>8, <1>11, <1>18
<1> QED  BY <1>19 DEF DefineOK, node

\* There is an nth of a finite set of numbers, up to its size.
LEMMA NthIn ==
  ASSUME NEW X \in SUBSET Nat, IsFiniteSet(X), NEW m \in 1..Cardinality(X)
  PROVE  Nth(X, m) \in X
<1> DEFINE Upto(k) == {j \in X : j <= k}
           n == Cardinality(X)
           rank == [k \in X |-> Cardinality(Upto(k))]
<1>1. n \in Nat
  BY FS_CardinalityType
<1>2. ASSUME NEW k \in X PROVE IsFiniteSet(Upto(k)) /\ rank[k] \in 1..n
  <2>1. Upto(k) \subseteq X /\ k \in Upto(k)
    OBVIOUS
  <2> HIDE DEF Upto
  <2>2. IsFiniteSet(Upto(k)) /\ Cardinality(Upto(k)) <= n
    BY <2>1, FS_Subset
  <2>3. Cardinality(Upto(k)) \in Nat /\ Cardinality(Upto(k)) # 0
    BY <2>1, <2>2, FS_CardinalityType, FS_EmptySet
  <2>4. rank[k] = Cardinality(Upto(k))
    OBVIOUS
  <2> HIDE DEF rank, n
  <2> QED  BY <1>1, <2>2, <2>3, <2>4
<1>3. ASSUME NEW j \in X, NEW k \in X, j < k PROVE rank[j] # rank[k]
  <2>1. Upto(j) \subseteq Upto(k) /\ Upto(j) # Upto(k)
    <3>0. j \in Nat /\ k \in Nat
      OBVIOUS
    <3>1. k \in Upto(k) /\ k \notin Upto(j)
      BY <1>3, <3>0
    <3>2. ASSUME NEW x \in Upto(j) PROVE x \in Upto(k)
      BY <1>3, <3>0
    <3> QED  BY <3>1, <3>2, Zenon
  <2>2. IsFiniteSet(Upto(k)) /\ IsFiniteSet(Upto(j))
    BY <1>2
  <2>3. rank[j] = Cardinality(Upto(j)) /\ rank[k] = Cardinality(Upto(k))
    OBVIOUS
  <2> HIDE DEF Upto, rank
  <2>4. Cardinality(Upto(j)) # Cardinality(Upto(k))
    BY <2>1, <2>2, FS_Subset
  <2> QED  BY <2>3, <2>4
<1>4. rank \in Injection(X, 1..n)
  <2>1. rank \in [X -> 1..n]
    BY <1>2
  <2>2. ASSUME NEW j \in X, NEW k \in X, rank[j] = rank[k] PROVE j = k
    <3>1. ~(j < k) /\ ~(k < j)
      BY <1>3, <2>2
    <3> QED  BY <3>1
  <2> HIDE DEF rank
  <2> QED  BY <2>1, <2>2 DEF Injection, IsInjective
<1>5. Cardinality(1..n) = n /\ IsFiniteSet(1..n)
  BY <1>1, Indices, FS_Interval
<1>6. rank \in Surjection(X, 1..n)
  <2> HIDE DEF rank
  <2> QED  BY <1>4, <1>5, FS_Injection
<1>7. PICK k \in X : rank[k] = m
  <2> HIDE DEF rank
  <2> QED  BY <1>6 DEF Surjection
<1>8. \E x \in X : Cardinality({j \in X : j <= x}) = m
  BY <1>7
<1> QED  BY <1>8, Zenon DEF Nth

\* A level that is read is one.
LEMMA LevelRead ==
  ASSUME NEW str
  PROVE  LevelFromString(str) \in UNKNOW..Len(Levels)
<1>1. Len(Levels) = 5 /\ DOMAIN Levels = 1..5
  BY DEF Levels
<1> QED  BY <1>1 DEF LevelFromString, UNKNOW

\* What _read_an_appender fills in, if it returns true (log.cc:862).
LEMMA AppenderRead ==
  ASSUME NEW node, AppenderIsRead(node)
  PROVE  AppenderOK(ReadAppender(node))
<1>1. TextOf(Get(node, "type")) \in {File, Stdout}
  BY DEF AppenderIsRead
<1>2. LevelFromString(TextOf(Get(node, "level"))) \in UNKNOW..Len(Levels)
  BY LevelRead
<1>3. File # Stdout
  BY DEF File, Stdout
<1> QED  BY <1>1, <1>2, <1>3, Zenon DEF ReadAppender, AppenderOK

\* What the definition of a logger is read to (log.cc:862 to log.cc:997).
LEMMA DefineRead ==
  ASSUME NEW node, NEW ld \in FromLogDefine(node),
         Get(node, "appenders").kind = "seq" => IsList(Get(node, "appenders").v)
  PROVE  DefineOK(ld)
<1> DEFINE name == IsScalar(Get(node, "name"))
           level == name /\ IsScalar(Get(node, "level"))
           formatter == level /\ OptionalText(Get(node, "formatter"))
           list == IF formatter /\ Get(node, "appenders").kind = "seq" THEN Get(node, "appenders").v
                   ELSE <<>>
           good == {k \in DOMAIN list : AppenderIsRead(list[k])}
           lname == IF name THEN TextOf(Get(node, "name")) ELSE ""
           llevel == IF level THEN LevelFromString(TextOf(Get(node, "level"))) ELSE UNKNOW
           lformatter == IF formatter THEN TextOf(Get(node, "formatter")) ELSE ""
           n == Cardinality(good)
           appenders == [m \in 1..n |-> ReadAppender(list[Nth(good, m)])]
<1>1. ld \in IF IsScalar(node) \/ \E k \in DOMAIN list : IsScalar(list[k]) THEN {}
             ELSE {[name |-> lname, level |-> llevel, formatter |-> lformatter, appenders |-> appenders]}
  BY Zenon DEF FromLogDefine
<1>2. \E l \in Nat : DOMAIN list = 1..l
  <2>1. CASE list = <<>>
    BY <2>1
  <2>2. CASE list # <<>>
    BY <2>2 DEF IsList
  <2> QED  BY <2>1, <2>2
<1>3. llevel \in UNKNOW..Len(Levels)
  <2>1. UNKNOW \in UNKNOW..Len(Levels)
    BY DEF UNKNOW, Levels
  <2> QED  BY <2>1, LevelRead
<1> HIDE DEF list, lname, llevel, lformatter, name, level, formatter
<1>4. good \in SUBSET Nat /\ IsFiniteSet(good)
  <2>1. PICK l \in Nat : DOMAIN list = 1..l
    BY <1>2
  <2>2. good \subseteq 1..l
    BY <2>1
  <2> HIDE DEF good
  <2>3. IsFiniteSet(1..l)
    BY <2>1, FS_Interval
  <2>4. IsFiniteSet(good)
    BY <2>2, <2>3, FS_Subset, Zenon
  <2> QED  BY <2>1, <2>2, <2>4
<1>5. ASSUME NEW k \in good PROVE AppenderOK(ReadAppender(list[k]))
  BY AppenderRead
<1> HIDE DEF good
<1>6. n \in Nat
  BY <1>4, FS_CardinalityType
<1>7. ASSUME NEW m \in 1..n PROVE AppenderOK(appenders[m])
  <2>1. Nth(good, m) \in good
    BY <1>4, NthIn
  <2> QED  BY <1>5, <2>1
<1> HIDE DEF n
<1>8. DOMAIN appenders = 1..n /\ Len(appenders) = n /\ appenders = [m \in 1..n |-> appenders[m]]
  BY <1>6
<1> HIDE DEF appenders
<1>9. ld = [name |-> lname, level |-> llevel, formatter |-> lformatter, appenders |-> appenders]
  BY <1>1
<1>10. ld.level = llevel /\ ld.appenders = appenders
  BY <1>9
<1>11. ld = [name |-> ld.name, level |-> ld.level, formatter |-> ld.formatter, appenders |-> ld.appenders]
  BY <1>9
<1> QED  BY <1>3, <1>6, <1>7, <1>8, <1>10, <1>11 DEF DefineOK

Unique(lds) == \A a, b \in lds : a.name = b.name => a = b

\* A value of "logs" as it can be read.
LogsOK(X) == IsFiniteSet(X) /\ Unique(X) /\ \A ld \in X : DefineOK(ld)

\* A text of "logs" is read to definitions with different names: operator< of LogDefine
\* compares the names (log.cc:853), and insert() leaves the element that is there.
LEMMA DefinesRead ==
  ASSUME NEW node, TreeOK(node), NEW X \in FromLogDefines(node)
  PROVE  LogsOK(X)
<1> DEFINE elements == Elements(node)
           results == [k \in DOMAIN elements |-> FromLogDefine(elements[k])]
           first(s) == {j \in DOMAIN s : \A k \in 1..j - 1 : s[j].name # s[k].name}
<1>1. PICK s \in FromElements(results) : X = Inserted(s, [k \in DOMAIN s |-> s[k].name])
  BY Zenon DEF FromLogDefines
<1>2. PICK n \in Nat : DOMAIN elements = 1..n
  BY Zenon DEF TreeOK, IsList
<1>3. DOMAIN results = 1..n /\ \A k \in 1..n : results[k] = FromLogDefine(elements[k])
  BY <1>2
<1> HIDE DEF results
<1>4. s = [k \in DOMAIN results |-> The(results[k])] /\ \A k \in DOMAIN results : The(results[k]) \in results[k]
  BY ElementsConverted
<1>5. DOMAIN s = 1..n /\ \A k \in 1..n : s[k] \in FromLogDefine(elements[k])
  BY <1>3, <1>4
<1>6. ASSUME NEW k \in 1..n PROVE DefineOK(s[k])
  <2>1. LET list == Get(elements[k], "appenders") IN list.kind = "seq" => IsList(list.v)
    BY <1>2 DEF TreeOK
  <2>2. s[k] \in FromLogDefine(elements[k])
    BY <1>5
  <2> HIDE DEF elements
  <2> QED  BY <2>1, <2>2, DefineRead
<1>7. X = {s[k] : k \in first(s)}
  <2> DEFINE keys == [k \in DOMAIN s |-> s[k].name]
  <2>1. \A j \in 1..n : \A k \in 1..j - 1 : keys[j] = s[j].name /\ keys[k] = s[k].name
    BY <1>5
  <2>2. first(s) = {j \in DOMAIN s : \A k \in 1..j - 1 : keys[j] # keys[k]}
    BY <1>5, <2>1, Zenon
  <2> HIDE DEF keys, first
  <2> QED  BY <1>1, <2>2 DEF Inserted, keys
<1>8. first(s) \in SUBSET (1..n)
  BY <1>5
<1>9. IsFiniteSet(X)
  <2> HIDE DEF first
  <2> QED  BY <1>7, <1>8, ImageFinite, Zenon
<1>10. ASSUME NEW a \in X, NEW b \in X, a.name = b.name PROVE a = b
  <2>1. PICK j \in first(s) : a = s[j]
    BY <1>7
  <2>2. PICK k \in first(s) : b = s[k]
    BY <1>7
  <2>3. j \in 1..n /\ k \in 1..n
    BY <1>8
  <2>4. ~(j < k) /\ ~(k < j)
    BY <1>10, <2>1, <2>2, <2>3
  <2> QED  BY <2>1, <2>2, <2>3, <2>4
<1>11. \A ld \in X : DefineOK(ld)
  BY <1>6, <1>7, <1>8
<1> QED  BY <1>9, <1>10, <1>11 DEF LogsOK, Unique

\* What print_log_config_var prints of "logs" is read to the same definitions.
LEMMA DefinesBack ==
  ASSUME NEW X, LogsOK(X), \A ld \in X : AllNamed(ld)
  PROVE  FromLogDefines(ToLogDefines(X)) = {X}
<1> DEFINE n == Cardinality(X)
           s == Listing(X)
           text == [ld \in X |-> ToLogDefine(ld)]
           texts == [k \in DOMAIN s |-> text[s[k]]]
           node == ToLogDefines(X)
           results == [k \in DOMAIN Elements(node) |-> FromLogDefine(Elements(node)[k])]
           keys == [k \in DOMAIN s |-> s[k].name]
<1>1. /\ n \in Nat /\ s \in [1..n -> X]
      /\ \A j, k \in 1..n : s[j] = s[k] => j = k
      /\ \A x \in X : \E k \in 1..n : s[k] = x
  BY ListOfSet DEF LogsOK
<1>2. node = SeqNode(texts)
  BY DEF ToLogDefines, SetText
<1> HIDE DEF s, n
<1>3. DOMAIN texts = 1..n /\ \A k \in 1..n : texts[k] = ToLogDefine(s[k])
  BY <1>1
<1> HIDE DEF node, text
<1>4. Elements(node) = texts
  <2>1. texts = [k \in 1..n |-> texts[k]]
    BY <1>1
  <2> HIDE DEF texts
  <2> QED  BY <1>1, <1>2, <2>1, ElementsOfText
<1> HIDE DEF texts
<1>5. DOMAIN results = 1..n /\ \A k \in 1..n : results[k] = {s[k]}
  <2>1. \A k \in 1..n : FromLogDefine(ToLogDefine(s[k])) = {s[k]}
    BY <1>1, DefineBack DEF LogsOK
  <2> QED  BY <1>3, <1>4, <2>1
<1>6. FromLogDefines(node) = {Inserted(r, [k \in DOMAIN r |-> r[k].name]) : r \in FromElements(results)}
  BY DEF FromLogDefines
<1> HIDE DEF results
<1>7. FromElements(results) = {s}
  <2>1. ~\E k \in DOMAIN results : results[k] = {}
    BY <1>5, Zenon
  <2>2. \A k \in 1..n : The(results[k]) = s[k]
    BY <1>5 DEF The
  <2>3. [k \in DOMAIN results |-> The(results[k])] = s
    BY <1>1, <1>5, <2>2
  <2> QED  BY <2>1, <2>3 DEF FromElements
<1>8. FromLogDefines(node) = {Inserted(s, keys)}
  BY <1>6, <1>7
<1>9. DOMAIN s = 1..n /\ DOMAIN keys = 1..n /\ \A k \in 1..n : keys[k] = s[k].name /\ s[k] \in X
  BY <1>1
<1> HIDE DEF keys
<1>10. \A j, k \in 1..n : keys[j] = keys[k] => j = k
  BY <1>1, <1>9 DEF LogsOK, Unique
<1>11. ASSUME NEW j \in DOMAIN s, NEW k \in 1..j - 1 PROVE keys[j] # keys[k]
  <2>1. k \in 1..n /\ j \in 1..n /\ j # k
    BY <1>1, <1>9
  <2> QED  BY <1>10, <2>1
<1>12. Inserted(s, keys) = {s[j] : j \in DOMAIN s}
  BY <1>11 DEF Inserted
<1>13. {s[j] : j \in DOMAIN s} = X
  BY <1>1, <1>9
<1> QED  BY <1>8, <1>12, <1>13, Zenon DEF node

-----------------------------------------------------------------------------
(* The inductive invariant *)

Appender == [type : STRING, file : STRING, level : UNKNOW..Len(Levels),
             formatter : STRING \ {NoFormatter}, has : BOOLEAN]

LogCalls == [at : {"check", "lock", "append", "leave"}, level : EventLevels \cup {DEBUG},
             from : Names, on : Names, sent : Seq(Appender), n : Nat]

PrintCalls == [at : {"print"}, todo : SUBSET Names]

\* What the listener applies: a definition, or the muting of a logger.
Applicable == [name : Names \ Own, level : UNKNOW..Silent, formatter : STRING, appenders : Seq(AppenderDefines)]

Changes == [at : {"take", "level", "formatter", "clear", "add"}, new : SUBSET Defines,
            todo : SUBSET Defines, gone : SUBSET (Names \ Own), ld : {None} \cup Applicable]

LoggerTypeOK ==
  /\ m_loggers \subseteq Names
  /\ m_level \in [Names -> UNKNOW..Silent]
  /\ m_formatter \in [Names -> STRING \ {NoFormatter}]
  /\ m_appenders \in [Names -> Seq(Appender)]
  /\ logs \subseteq Defines /\ muted \subseteq Names \ Own /\ raced \in BOOLEAN
  /\ call \in [Threads -> {Idle} \cup LogCalls \cup PrintCalls]
  /\ change \in {Idle} \cup Changes
  /\ change.at \notin {"idle", "take"} => change.ld \in Applicable

\* Thread t, at each point of log(): the locks it holds and what it has sent.
RouteInv(t) ==
  LET c == call[t] IN
  c \in LogCalls =>
    /\ c.on # c.from =>
         c.on = root /\ c.from # root /\ Holds(c.from, t) /\ m_appenders[c.from] = <<>>
    /\ c.at \in {"check", "lock"} => c.sent = <<>> /\ c.n = 1
    /\ c.at = "append" =>
         /\ Holds(c.on, t) /\ c.n \in 1..Len(m_appenders[c.on])
         /\ SentUpTo(c, m_appenders[c.on], c.n - 1)
    /\ c.at = "leave" =>
         /\ Holds(c.on, t)
         /\ c.on = root \/ m_appenders[c.on] # <<>> =>
              SentUpTo(c, m_appenders[c.on], Len(m_appenders[c.on]))

LoggerInv == LoggerTypeOK /\ LockInv /\ (~raced => \A t \in Threads : RouteInv(t))

-----------------------------------------------------------------------------
(* Types *)

\* The sets of values are constants.
LEMMA SetsFixed ==
  /\ LogCalls' = LogCalls /\ PrintCalls' = PrintCalls /\ Changes' = Changes /\ Defines' = Defines
  /\ Appender' = Appender /\ Applicable' = Applicable /\ Idle' = Idle
  BY DEF LogCalls, PrintCalls, Changes, Defines, Appender, Applicable, AppenderDefines, Idle

\* Where a call is tells which call it is.
LEMMA CallKind ==
  ASSUME LoggerTypeOK, NEW t \in Threads
  PROVE  /\ call[t].at \in {"check", "lock", "append", "leave"} => call[t] \in LogCalls
         /\ call[t].at = "print" => call[t] \in PrintCalls
         /\ call[t] = Idle => call[t] \notin LogCalls
  BY DEF LoggerTypeOK, LogCalls, PrintCalls, Idle

\* An appender that NewAppender and addAppender make of a definition.
LEMMA AddedType ==
  ASSUME LoggerTypeOK, NEW l \in Names, NEW a \in AppenderDefines
  PROVE  /\ Wanted(l, a) \in Appender
         /\ Added(l, NewAppender(a)) = [m_appenders EXCEPT ![l] = Append(@, Wanted(l, a))]
<1>1. Wanted(l, a) \in Appender
  BY Zenon DEF Wanted, With, Appender, AppenderDefines, LoggerTypeOK, NoFormatter
<1> DEFINE new == NewAppender(a)
<1>2. /\ new.type = a.type /\ new.file = a.file /\ new.level = a.level /\ new.formatter = a.formatter
      /\ new = [type |-> a.type, file |-> a.file, level |-> a.level, formatter |-> a.formatter,
                has |-> a.formatter # NoFormatter]
  BY DEF NewAppender
<1> HIDE DEF new
<1>3. (IF new.formatter # NoFormatter THEN new ELSE With(new, m_formatter[l])) = Wanted(l, a)
  BY <1>2, Zenon DEF Wanted, With, NoFormatter
<1>4. Added(l, new) = [m_appenders EXCEPT ![l] = Append(@, Wanted(l, a))]
  BY <1>3, Zenon DEF Added
<1> QED  BY <1>1, <1>4 DEF new

\* The members of Logger keep the types.
LEMMA MembersType ==
  ASSUME LoggerTypeOK, NEW l \in Names,
         \/ \E a \in AppenderDefines : AddAppender(l, NewAppender(a))
         \/ \E k \in DOMAIN m_appenders[l] : DelAppender(l, k)
         \/ \E f \in STRING \ {NoFormatter} : SetFormatter(l, f)
         \/ \E t \in Threads : ClearAppenders(t, l) /\ UNCHANGED m_formatter
  PROVE  /\ m_formatter' \in [Names -> STRING \ {NoFormatter}]
         /\ m_appenders' \in [Names -> Seq(Appender)]
<1>0. m_appenders \in [Names -> Seq(Appender)] /\ m_formatter \in [Names -> STRING \ {NoFormatter}]
  BY DEF LoggerTypeOK
<1>1. ASSUME NEW a \in AppenderDefines, AddAppender(l, NewAppender(a))
      PROVE  m_appenders' \in [Names -> Seq(Appender)] /\ UNCHANGED m_formatter
  <2>1. m_appenders' = [m_appenders EXCEPT ![l] = Append(@, Wanted(l, a))] /\ Wanted(l, a) \in Appender
    BY <1>1, AddedType DEF AddAppender
  <2> QED  BY <1>0, <1>1, <2>1 DEF AddAppender
<1>2. ASSUME NEW k \in DOMAIN m_appenders[l], DelAppender(l, k)
      PROVE  m_appenders' \in [Names -> Seq(Appender)] /\ UNCHANGED m_formatter
  <2> DEFINE list == m_appenders[l]
  <2>1. SubSeq(list, 1, k - 1) \o SubSeq(list, k + 1, Len(list)) \in Seq(Appender)
    BY <1>0
  <2> QED  BY <1>0, <1>2, <2>1 DEF DelAppender
<1>3. ASSUME NEW f \in STRING \ {NoFormatter}, SetFormatter(l, f)
      PROVE  /\ m_formatter' \in [Names -> STRING \ {NoFormatter}]
             /\ m_appenders' \in [Names -> Seq(Appender)]
  <2> DEFINE list == m_appenders[l]
             one(a) == IF a.has THEN a ELSE With(a, f)
             new == [k \in DOMAIN list |-> one(list[k])]
  <2>1. list \in Seq(Appender) /\ DOMAIN list = 1..Len(list) /\ Len(list) \in Nat
    BY <1>0
  <2>2. \A a \in Appender : one(a) \in Appender
    BY DEF Appender, With
  <2>3. new \in Seq(Appender)
    BY <2>1, <2>2
  <2> QED  BY <1>0, <1>3, <2>3, Zenon DEF SetFormatter
<1>4. ASSUME NEW t \in Threads, ClearAppenders(t, l), UNCHANGED m_formatter
      PROVE  m_appenders' \in [Names -> Seq(Appender)]
  BY <1>0, <1>4 DEF ClearAppenders
<1> QED  BY <1>0, <1>1, <1>2, <1>3, <1>4, Zenon

-----------------------------------------------------------------------------
(* log() *)

LogCall(at, c, on, sent, n) ==
  [at |-> at, level |-> c.level, from |-> c.from, on |-> on, sent |-> sent, n |-> n]

\* A call of log() that goes elsewhere.
LEMMA Moved ==
  ASSUME NEW c \in LogCalls, NEW a, NEW l
  PROVE  /\ [c EXCEPT !.at = a] = LogCall(a, c, c.on, c.sent, c.n)
         /\ [c EXCEPT !.on = l] = LogCall(c.at, c, l, c.sent, c.n)
         /\ [c EXCEPT !.at = a, !.on = l] = LogCall(a, c, l, c.sent, c.n)
<1> DEFINE d == LogCall(a, c, c.on, c.sent, c.n)
<1>1. [c EXCEPT !.at = a] = d /\ [c EXCEPT !.on = l] = LogCall(c.at, c, l, c.sent, c.n)
  BY DEF LogCalls, LogCall
<1>2. [d EXCEPT !.on = l] = LogCall(a, c, l, c.sent, c.n)
  BY DEF LogCall
<1>3. [c EXCEPT !.at = a, !.on = l] = [[c EXCEPT !.at = a] EXCEPT !.on = l]
  OBVIOUS
<1> QED  BY <1>1, <1>2, <1>3, Zenon

\* The steps of log() in full: what becomes of the call.
LEMMA DeliverCall ==
  ASSUME LoggerTypeOK, NEW t \in Threads, Deliver(t)
  PROVE  LET c == call[t]
             list == m_appenders[c.on]
         IN  /\ c \in LogCalls
             /\ call' = [call EXCEPT ![t] =
                  LogCall(IF c.n = Len(list) THEN "leave" ELSE "append", c, c.on,
                          IF Takes(list[c.n], c.level) THEN Append(c.sent, list[c.n]) ELSE c.sent, c.n + 1)]
<1>1. call[t] \in LogCalls /\ call \in [Threads -> {Idle} \cup LogCalls \cup PrintCalls]
  BY CallKind, Zenon DEF Deliver, At, LoggerTypeOK
<1> QED  BY <1>1 DEF Deliver, At, LogCalls, LogCall, LoopEnds

\* log() checks the level.
LEMMA CheckCall ==
  ASSUME LoggerTypeOK, NEW t \in Threads, Check(t)
  PROVE  LET c == call[t] IN
         /\ c \in LogCalls
         /\ \E new \in {LogCall("lock", c, c.on, c.sent, c.n)}
                   \cup (IF c.on = c.from THEN {Idle} ELSE {LogCall("leave", c, c.from, c.sent, c.n)}) :
              call' = [call EXCEPT ![t] = new]
<1>1. call[t] \in LogCalls /\ call \in [Threads -> {Idle} \cup LogCalls \cup PrintCalls]
  BY CallKind DEF Check, At, LoggerTypeOK
<1> DEFINE c == call[t]
<1>2. /\ [c EXCEPT !.at = "lock"] = LogCall("lock", c, c.on, c.sent, c.n)
      /\ [c EXCEPT !.at = "leave", !.on = c.from] = LogCall("leave", c, c.from, c.sent, c.n)
  BY <1>1, Moved, Zenon
<1> HIDE DEF c
<1>3. CASE c.level >= m_level[c.on]
  BY <1>1, <1>2, <1>3 DEF Check, Go, c
<1>4. CASE ~(c.level >= m_level[c.on]) /\ c.on = c.from
  BY <1>1, <1>4 DEF Check, c
<1>5. CASE ~(c.level >= m_level[c.on]) /\ c.on # c.from
  BY <1>1, <1>2, <1>5 DEF Check, c
<1> QED  BY <1>1, <1>3, <1>4, <1>5, Zenon DEF c

\* log() enters the lock, and finds out where the event goes.
LEMMA EnterCall ==
  ASSUME LoggerTypeOK, NEW t \in Threads, Enter(t)
  PROVE  LET c == call[t] IN
         /\ c \in LogCalls
         /\ call' = [call EXCEPT ![t] =
              IF m_appenders[c.on] # <<>> THEN LogCall("append", c, c.on, c.sent, c.n)
              ELSE IF c.on # root THEN LogCall("check", c, root, c.sent, c.n)
              ELSE LogCall("leave", c, c.on, c.sent, c.n)]
<1>1. call[t] \in LogCalls /\ call \in [Threads -> {Idle} \cup LogCalls \cup PrintCalls]
  BY CallKind DEF Enter, At, LoggerTypeOK
<1> DEFINE c == call[t]
<1>2. /\ [c EXCEPT !.at = "append"] = LogCall("append", c, c.on, c.sent, c.n)
      /\ [c EXCEPT !.at = "leave"] = LogCall("leave", c, c.on, c.sent, c.n)
      /\ [c EXCEPT !.at = "check", !.on = root] = LogCall("check", c, root, c.sent, c.n)
  BY <1>1, Moved, Zenon
<1> HIDE DEF c
<1>3. CASE m_appenders[c.on] # <<>>
  BY <1>1, <1>2, <1>3 DEF Enter, Go, Route, c
<1>4. CASE m_appenders[c.on] = <<>> /\ c.on # root
  BY <1>1, <1>2, <1>4, Zenon DEF Enter, Go, Route, c
<1>5. CASE m_appenders[c.on] = <<>> /\ c.on = root
  BY <1>1, <1>2, <1>5 DEF Enter, Go, Route, c
<1> QED  BY <1>1, <1>3, <1>4, <1>5, Zenon DEF c

\* log() returns.
LEMMA LeaveCall ==
  ASSUME LoggerTypeOK, NEW t \in Threads, Leave(t)
  PROVE  LET c == call[t] IN
         /\ c \in LogCalls
         /\ call' = [call EXCEPT ![t] =
              IF c.on = c.from THEN Idle ELSE LogCall("leave", c, c.from, c.sent, c.n)]
<1>1. call[t] \in LogCalls /\ call \in [Threads -> {Idle} \cup LogCalls \cup PrintCalls]
  BY CallKind DEF Leave, At, LoggerTypeOK
<1>2. [call[t] EXCEPT !.on = call[t].from] = LogCall("leave", call[t], call[t].from, call[t].sent, call[t].n)
  BY <1>1, Moved, Zenon DEF Leave, At
<1> QED  BY ZenonT(40), <1>1, <1>2 DEF Leave

\* One turn of the loop over the appenders (log.cc:368).
LEMMA TurnSends ==
  ASSUME NEW c, NEW e, NEW list \in Seq(Appender), NEW n \in 1..Len(list), c.sent \in Seq(Appender),
         SentUpTo(c, list, n - 1), e.level = c.level,
         e.sent = IF Takes(list[n], c.level) THEN Append(c.sent, list[n]) ELSE c.sent
  PROVE  SentUpTo(e, list, n)
<1> DEFINE before == Takers(c, list, n - 1)
<1>0. n \in Nat /\ n - 1 \in Nat
  OBVIOUS
<1>1. \A k \in 0..Len(list) : /\ Takers(e, list, k) = Takers(c, list, k)
                              /\ IsFiniteSet(Takers(c, list, k))
                              /\ Cardinality(Takers(c, list, k)) \in Nat
  <2> SUFFICES ASSUME NEW k \in 0..Len(list)
               PROVE  /\ Takers(e, list, k) = Takers(c, list, k)
                      /\ IsFiniteSet(Takers(c, list, k)) /\ Cardinality(Takers(c, list, k)) \in Nat
    OBVIOUS
  <2>1. IsFiniteSet(1..k) /\ Takers(c, list, k) \in SUBSET (1..k)
    BY FS_Interval DEF Takers
  <2> QED  BY <2>1, FS_Subset, FS_CardinalityType DEF Takers
<1>2. Len(c.sent) = Cardinality(before) /\ \A k \in before : c.sent[Cardinality(Takers(c, list, k))] = list[k]
  BY DEF SentUpTo
<1>3. \A k \in before : Cardinality(Takers(c, list, k)) \in 1..Cardinality(before)
  <2> SUFFICES ASSUME NEW k \in before  PROVE Cardinality(Takers(c, list, k)) \in 1..Cardinality(before)
    OBVIOUS
  <2>1. k \in 1..n - 1 /\ k \in 0..Len(list) /\ n - 1 \in 0..Len(list)
    BY DEF Takers
  <2>2. Takers(c, list, k) \in SUBSET before /\ k \in Takers(c, list, k)
    BY <2>1 DEF Takers
  <2>3. Cardinality(Takers(c, list, k)) # 0
    BY <1>1, <2>1, <2>2, FS_EmptySet
  <2>4. Cardinality(Takers(c, list, k)) <= Cardinality(before)
    BY <1>1, <2>1, <2>2, FS_Subset
  <2> QED  BY <1>1, <2>1, <2>3, <2>4
<1>4. CASE Takes(list[n], c.level)
  <2>1. Takers(c, list, n) = before \cup {n} /\ n \notin before
    BY <1>0, <1>4 DEF Takers
  <2>2. Cardinality(Takers(c, list, n)) = Cardinality(before) + 1
    <3>1. n - 1 \in 0..Len(list)
      OBVIOUS
    <3>2. IsFiniteSet(before)
      BY <1>1, <3>1
    <3> HIDE DEF before
    <3> QED  BY <2>1, <3>2, FS_AddElement, Zenon
  <2>3. e.sent = Append(c.sent, list[n]) /\ list[n] \in Appender
    BY <1>4
  <2>4. Len(e.sent) = Cardinality(Takers(c, list, n)) /\ e.sent[Cardinality(before) + 1] = list[n]
    BY <1>2, <2>2, <2>3
  <2>5. \A j \in 1..Cardinality(before) : e.sent[j] = c.sent[j]
    BY <1>2, <2>3
  <2>6. n \in 0..Len(list) /\ \A k \in before : k \in 0..Len(list)
    BY DEF Takers
  <2>7. ASSUME NEW k \in Takers(c, list, n)  PROVE e.sent[Cardinality(Takers(e, list, k))] = list[k]
    <3>1. CASE k = n
      BY <1>1, <2>2, <2>4, <2>6, <3>1
    <3>2. CASE k \in before
      BY <1>1, <1>2, <1>3, <2>5, <2>6, <3>2, Zenon
    <3> QED  BY <2>1, <2>7, <3>1, <3>2, Zenon
  <2> QED  BY <1>1, <2>4, <2>6, <2>7, Zenon DEF SentUpTo
<1>5. CASE ~Takes(list[n], c.level)
  <2>1. Takers(c, list, n) = before
    BY <1>0, <1>5 DEF Takers
  <2>2. n \in 0..Len(list) /\ \A k \in before : k \in 0..Len(list)
    BY DEF Takers
  <2> QED  BY <1>1, <1>2, <1>5, <2>1, <2>2, Zenon DEF SentUpTo
<1> QED  BY <1>4, <1>5

-----------------------------------------------------------------------------
(* The locks of log.h *)

\* Every step uses one guard, or leaves locks and guards alone.
LEMMA LoggerUsesLocks ==
  ASSUME LoggerTypeOK, [Next]_vars
  PROVE  [LocksNext]_lockVars
<1>0. Names \subseteq Locks /\ manager \in Locks /\ \A l \in Locks : "exclusive" \in Modes(l)
  BY LoggerAssumption DEF Modes
<1>1. ASSUME NEW t \in Threads, Enter(t) \/ Leave(t)  PROVE LocksNext
  <2>1. call[t].on \in Names
    BY <1>1, CallKind DEF Enter, Leave, At, LogCalls
  <2> QED  BY <1>0, <1>1, <2>1 DEF Enter, Leave, LocksNext, Use
<1>2. ASSUME NEW t \in Threads, PrintLogger(t)  PROVE LocksNext
  <2>1. call[t].todo \subseteq Names
    BY <1>2, CallKind DEF PrintLogger, At, PrintCalls
  <2> QED  BY <1>0, <1>2, <2>1 DEF PrintLogger, LocksNext, Use
<1>3. ASSUME NEW t \in Threads, PrintAll(t) \/ Printed(t)  PROVE LocksNext
  BY <1>0, <1>3 DEF PrintAll, Printed, LocksNext, Use
<1> QED  BY <1>1, <1>2, <1>3, Zenon
    DEF Next, Step, vars, Check, Deliver, Log, SetUp, Change, Take, ApplyLevel, ApplyFormatter,
        ApplyClear, ApplyAppender, Applied, Assign

\* A logger's lock that a thread holds cannot be taken by another.
LEMMA HeldIsLocked ==
  ASSUME LockInv, NEW l \in Names, NEW u \in Threads, Holds(l, u)
  PROVE  ~CanLock(l, "exclusive")
<1>1. l \in Real /\ l \in Locks /\ Kind[l] \notin Null
  BY LoggerAssumption DEF Real
<1>2. guard[l][u].mode \in {"read", "exclusive"}
  BY <1>1, HeldExists, GuardMode
<1>3. /\ guard[l][u].mode = "read" => u \in m_lock[l].readers
      /\ guard[l][u].mode = "exclusive" => m_lock[l].owner \in {Taken, u}
  BY <1>1 DEF LockInv, LockMatchesGuards
<1> QED  BY <1>1, <1>2, <1>3, LocksAssumption DEF CanLock

\* What a thread has sent stays right as long as it holds the lock and the list of
\* appenders is not touched.
LEMMA RouteFrame ==
  ASSUME LoggerTypeOK, NEW t \in Threads, RouteInv(t), call'[t] = call[t],
         \A l \in Names : Holds(l, t) => Holds(l, t)' /\ m_appenders'[l] = m_appenders[l]
  PROVE  RouteInv(t)'
<1> SUFFICES ASSUME call[t] \in LogCalls  PROVE RouteInv(t)'
  BY Zenon DEF RouteInv, LogCalls, Appender
<1>1. call[t].on \in Names /\ call[t].from \in Names
  BY Zenon DEF LogCalls
<1>2. LogCalls' = LogCalls
  BY Zenon DEF LogCalls, Appender
<1> QED  BY <1>1, <1>2, Zenon DEF RouteInv

-----------------------------------------------------------------------------
(* Every step keeps the types. *)

\* A step of log(), or of printing.
LEMMA CallKeepsType ==
  ASSUME LoggerTypeOK, NEW t \in Threads, RouteInv(t),
         Check(t) \/ Enter(t) \/ Deliver(t) \/ Leave(t) \/ PrintLogger(t) \/ Printed(t)
  PROVE  LoggerTypeOK'
<1> DEFINE Calls == {Idle} \cup LogCalls \cup PrintCalls
           c == call[t]
<1>0. call \in [Threads -> Calls] /\ LogCalls' = LogCalls /\ PrintCalls' = PrintCalls /\ root \in Names
  BY LoggerAssumption, Zenon DEF LoggerTypeOK, LogCalls, PrintCalls, Appender
<1>1. UNCHANGED <<loggerVars, logs, change, muted, raced>>
  BY Zenon DEF Check, Enter, Deliver, Leave, PrintLogger, Printed
<1>2. ASSUME c \in LogCalls, NEW a \in {"check", "lock", "append", "leave"}, NEW l \in Names,
             NEW s \in Seq(Appender), NEW k \in Nat
      PROVE  LogCall(a, c, l, s, k) \in LogCalls
  BY <1>2, Zenon DEF LogCalls, LogCall
<1>3. c \in LogCalls => c.sent \in Seq(Appender) /\ c.n \in Nat /\ c.on \in Names /\ c.from \in Names
  BY DEF LogCalls
<1>4. call' \in [Threads -> Calls]
  <2>1. CASE Check(t)
    <3>1. PICK new \in {LogCall("lock", c, c.on, c.sent, c.n), Idle, LogCall("leave", c, c.from, c.sent, c.n)} :
            call' = [call EXCEPT ![t] = new]
      BY <2>1, CheckCall, Zenon
    <3>2. new \in Calls
      <4>1. c \in LogCalls
        BY <2>1, CheckCall, Zenon
      <4>2. LogCall("lock", c, c.on, c.sent, c.n) \in LogCalls /\ LogCall("leave", c, c.from, c.sent, c.n) \in LogCalls
        BY <1>2, <1>3, <4>1, Zenon
      <4> QED  BY <3>1, <4>2, Zenon
    <3> QED  BY <1>0, <3>1, <3>2, Zenon
  <2>2. CASE Enter(t)
    <3> DEFINE new == IF m_appenders[c.on] # <<>> THEN LogCall("append", c, c.on, c.sent, c.n)
                      ELSE IF c.on # root THEN LogCall("check", c, root, c.sent, c.n)
                      ELSE LogCall("leave", c, c.on, c.sent, c.n)
    <3>1. c \in LogCalls /\ call' = [call EXCEPT ![t] = new]
      BY <2>2, EnterCall, Zenon
    <3>2. new \in LogCalls
      BY <1>0, <1>2, <1>3, <3>1, Zenon
    <3> HIDE DEF new
    <3> QED  BY <1>0, <3>1, <3>2, Zenon
  <2>3. CASE Deliver(t)
    <3>1. c \in LogCalls /\ c.at = "append" /\ m_appenders[c.on] \in Seq(Appender)
      BY <1>3, <2>3, DeliverCall, Zenon DEF Deliver, At, LoggerTypeOK
    <3>2. m_appenders[c.on][c.n] \in Appender
      <4>1. c.n \in 1..Len(m_appenders[c.on])
        BY <3>1, Zenon DEF RouteInv
      <4>2. \A q \in Seq(Appender) : \A k \in 1..Len(q) : q[k] \in Appender
        OBVIOUS
      <4> QED  BY <3>1, <4>1, <4>2, Zenon
    <3>3. Append(c.sent, m_appenders[c.on][c.n]) \in Seq(Appender) /\ c.n + 1 \in Nat
      <4>1. (\A q \in Seq(Appender), x \in Appender : Append(q, x) \in Seq(Appender)) /\ \A k \in Nat : k + 1 \in Nat
        OBVIOUS
      <4> QED  BY <1>3, <3>1, <3>2, <4>1, Zenon
    <3> DEFINE list == m_appenders[c.on]
               a == IF c.n = Len(list) THEN "leave" ELSE "append"
               s == IF Takes(list[c.n], c.level) THEN Append(c.sent, list[c.n]) ELSE c.sent
    <3>4. LogCall(a, c, c.on, s, c.n + 1) \in LogCalls
      <4>1. a \in {"check", "lock", "append", "leave"} /\ s \in Seq(Appender)
        BY <1>3, <3>1, <3>3, Zenon
      <4> HIDE DEF a, s
      <4> QED  BY <1>2, <1>3, <3>1, <3>3, <4>1, Zenon
    <3>5. call' = [call EXCEPT ![t] = LogCall(a, c, c.on, s, c.n + 1)]
      BY <2>3, DeliverCall, Zenon
    <3> HIDE DEF a, s
    <3> QED  BY <1>0, <3>4, <3>5
  <2>4. CASE Leave(t)
    <3> DEFINE new == IF c.on = c.from THEN Idle ELSE LogCall("leave", c, c.from, c.sent, c.n)
    <3>1. c \in LogCalls /\ call' = [call EXCEPT ![t] = new]
      BY <2>4, LeaveCall, Zenon
    <3>2. new \in Calls
      BY <1>2, <1>3, <3>1, Zenon
    <3> HIDE DEF new
    <3> QED  BY <1>0, <3>1, <3>2, Zenon
  <2>5. CASE PrintLogger(t)
    <3>1. c \in PrintCalls
      BY <2>5, CallKind DEF PrintLogger, At
    <3>2. ASSUME NEW l  PROVE [c EXCEPT !.todo = @ \ {l}] \in PrintCalls
      BY <3>1 DEF PrintCalls
    <3> QED  BY <1>0, <2>5, <3>2 DEF PrintLogger
  <2>6. CASE Printed(t)
    BY <1>0, <2>6 DEF Printed
  <2> QED  BY <2>1, <2>2, <2>3, <2>4, <2>5, <2>6
<1> QED  BY <1>0, <1>1, <1>4, Zenon DEF LoggerTypeOK, loggerVars, Changes, Defines, AppenderDefines, Appender, Idle

\* The beginning of a call.
LEMMA BeginCall ==
  ASSUME LoggerTypeOK, NEW t \in Threads, NEW l \in Names, NEW level \in EventLevels \cup {DEBUG},
         Begin(t, l, level)
  PROVE  \E new \in {Idle} \cup LogCalls :
           /\ call' = [call EXCEPT ![t] = new]
           /\ new # Idle => new.at = "check" /\ new.on = new.from /\ new.sent = <<>> /\ new.n = 1
<1> DEFINE c == [at |-> "check", level |-> level, from |-> l, on |-> l, sent |-> <<>>, n |-> 1]
<1>1. c \in LogCalls /\ c.at = "check" /\ c.on = c.from /\ c.sent = <<>> /\ c.n = 1
  BY DEF LogCalls
<1>2. call' = [call EXCEPT ![t] = IF m_level[l] > level THEN Idle ELSE c]
  BY DEF Begin
<1> HIDE DEF c
<1> QED  BY <1>1, <1>2, Zenon

\* The values of "logs" that a document is read to.
LEMMA DocsType ==
  ASSUME NEW d \in DOMAIN Docs, NEW new \in FromLogDefines(Docs[d])
  PROVE  new \subseteq Defines
  BY DocsAssumption

ChangeTo(at, c, todo, gone, ld) == [at |-> at, new |-> c.new, todo |-> todo, gone |-> gone, ld |-> ld]

Rest(ld) == [name |-> ld.name, level |-> ld.level, formatter |-> ld.formatter, appenders |-> Tail(ld.appenders)]

\* The listener takes a definition, or a name that is gone.
TakesDefine(ld) ==
  /\ ld \in change.todo
  /\ change' = ChangeTo("level", change, change.todo \ {ld}, change.gone, ld)
  /\ m_loggers' = m_loggers \cup {ld.name} /\ muted' = muted \ {ld.name}

TakesName(name) ==
  /\ change.todo = {} /\ name \in change.gone
  /\ change' = ChangeTo("level", change, change.todo, change.gone \ {name}, Muting(name))
  /\ m_loggers' = m_loggers \cup {name} /\ UNCHANGED muted

\* The steps of the listener in full: what becomes of its locals.
LEMMA ListenerLocals ==
  ASSUME LoggerTypeOK
  PROVE  LET c == change IN
         /\ c.at # "idle" => c \in Changes
         /\ Take => (\E ld \in c.todo : TakesDefine(ld)) \/ (\E name \in c.gone : TakesName(name))
         /\ ApplyLevel => change' = ChangeTo("formatter", c, c.todo, c.gone, c.ld)
         /\ ApplyFormatter => change' = ChangeTo("clear", c, c.todo, c.gone, c.ld)
         /\ ApplyClear => change' = ChangeTo("add", c, c.todo, c.gone, c.ld)
         /\ ApplyAppender => change' = ChangeTo("add", c, c.todo, c.gone, Rest(c.ld))
         /\ Applied => change' = ChangeTo("take", c, c.todo, c.gone, None)
<1>1. change.at # "idle" => change \in Changes
  BY DEF LoggerTypeOK, Idle
<1>2. ASSUME change \in Changes, NEW at
      PROVE  [change EXCEPT !.at = at] = ChangeTo(at, change, change.todo, change.gone, change.ld)
  BY <1>2 DEF Changes, ChangeTo
<1>3. ASSUME Take
      PROVE  (\E ld \in change.todo : TakesDefine(ld)) \/ (\E name \in change.gone : TakesName(name))
  <2>0. change \in Changes
    BY <1>1, <1>3, Zenon DEF Take
  <2>1. ASSUME NEW ld \in change.todo
        PROVE  [change EXCEPT !.at = "level", !.todo = @ \ {ld}, !.ld = ld]
                 = ChangeTo("level", change, change.todo \ {ld}, change.gone, ld)
    <3> DEFINE c1 == [change EXCEPT !.at = "level"]
               c2 == [c1 EXCEPT !.todo = @ \ {ld}]
    <3>1. c1 = ChangeTo("level", change, change.todo, change.gone, change.ld)
      BY <1>2, <2>0
    <3> HIDE DEF c1
    <3>2. c2 = ChangeTo("level", change, change.todo \ {ld}, change.gone, change.ld)
      BY <3>1 DEF ChangeTo
    <3> HIDE DEF c2
    <3>3. [c2 EXCEPT !.ld = ld] = ChangeTo("level", change, change.todo \ {ld}, change.gone, ld)
      BY <3>2 DEF ChangeTo
    <3> QED  BY <3>3 DEF c1, c2
  <2>2. ASSUME NEW name \in change.gone, NEW ld
        PROVE  [change EXCEPT !.at = "level", !.gone = @ \ {name}, !.ld = ld]
                 = ChangeTo("level", change, change.todo, change.gone \ {name}, ld)
    <3> DEFINE c1 == [change EXCEPT !.at = "level"]
               c2 == [c1 EXCEPT !.gone = @ \ {name}]
    <3>1. c1 = ChangeTo("level", change, change.todo, change.gone, change.ld)
      BY <1>2, <2>0
    <3> HIDE DEF c1
    <3>2. c2 = ChangeTo("level", change, change.todo, change.gone \ {name}, change.ld)
      BY <3>1 DEF ChangeTo
    <3> HIDE DEF c2
    <3>3. [c2 EXCEPT !.ld = ld] = ChangeTo("level", change, change.todo, change.gone \ {name}, ld)
      BY <3>2 DEF ChangeTo
    <3> QED  BY <3>3 DEF c1, c2
  <2> QED  BY <1>3, <2>1, <2>2, Zenon DEF Take, GetLogger, TakesDefine, TakesName
<1>4. ASSUME ApplyAppender  PROVE change' = ChangeTo("add", change, change.todo, change.gone, Rest(change.ld))
  <2>1. change \in Changes /\ change.ld \in Applicable /\ change.at = "add"
    BY <1>1, <1>4 DEF ApplyAppender, LoggerTypeOK
  <2>2. [change.ld EXCEPT !.appenders = Tail(@)] = Rest(change.ld)
    <3>1. ASSUME NEW ld \in Applicable, NEW a
          PROVE  [ld EXCEPT !.appenders = a]
                   = [name |-> ld.name, level |-> ld.level, formatter |-> ld.formatter, appenders |-> a]
      BY DEF Applicable
    <3> QED  BY <2>1, <3>1, Zenon DEF Rest
  <2>3. change' = [change EXCEPT !.ld = [change.ld EXCEPT !.appenders = Tail(@)]]
    BY <1>4, <2>1 DEF ApplyAppender, Changes
  <2> QED  BY <2>1, <2>2, <2>3, Zenon DEF Changes, ChangeTo
<1>5. ASSUME Applied  PROVE change' = ChangeTo("take", change, change.todo, change.gone, None)
  BY ZenonT(40), <1>1, <1>5 DEF Applied, Changes, ChangeTo
<1> QED  BY <1>1, <1>2, <1>3, <1>4, <1>5, Zenon DEF ApplyLevel, ApplyFormatter, ApplyClear

\* A step of the listener keeps the types.
LEMMA ListenerKeepsType ==
  ASSUME LoggerTypeOK,
         Take \/ ApplyLevel \/ ApplyFormatter \/ ApplyClear \/ ApplyAppender \/ Applied \/ Assign
  PROVE  LoggerTypeOK'
<1> DEFINE ld == change.ld
<1>0. change \in Changes /\ change.at # "idle" /\ (change.at # "take" => ld \in Applicable)
  BY ListenerLocals, Zenon DEF Take, ApplyLevel, ApplyFormatter, ApplyClear, ApplyAppender, Applied, Assign, LoggerTypeOK
<1>1. ASSUME NEW at \in {"level", "formatter", "clear", "add"}, NEW todo \in SUBSET Defines,
             NEW gone \in SUBSET (Names \ Own), NEW d \in Applicable,
             change' = ChangeTo(at, change, todo, gone, d)
      PROVE  change' \in Changes /\ change'.at # "idle" /\ change'.ld \in Applicable
  BY <1>0, <1>1, Zenon DEF ChangeTo, Changes
<1>2. change.todo \subseteq Defines /\ change.gone \subseteq Names \ Own /\ change.new \subseteq Defines
  BY <1>0 DEF Changes
<1>3. CASE Take
  <2>1. \A d \in Defines : d \in Applicable /\ d.name \in Names \ Own
    BY DEF Defines, Applicable, Silent, UNKNOW, Levels
  <2>2. ASSUME NEW name \in Names \ Own  PROVE Muting(name) \in Applicable
    <3>1. <<>> \in Seq(AppenderDefines)
      OBVIOUS
    <3>2. Silent \in UNKNOW..Silent
      BY DEF Silent, UNKNOW
    <3>3. "" \in STRING
      BY TextsAssumption, Zenon
    <3> QED  BY <3>1, <3>2, <3>3, Zenon DEF Muting, Applicable
  <2>3. ASSUME NEW d \in change.todo, TakesDefine(d)  PROVE LoggerTypeOK'
    <3>1. change' \in Changes /\ change'.at # "idle" /\ change'.ld \in Applicable
      BY <1>1, <1>2, <2>1, <2>3 DEF TakesDefine
    <3> QED  BY <1>2, <1>3, <2>1, <2>3, <3>1, SetsFixed, Zenon DEF Take, TakesDefine, LoggerTypeOK
  <2>4. ASSUME NEW name \in change.gone, TakesName(name)  PROVE LoggerTypeOK'
    <3>1. change' \in Changes /\ change'.at # "idle" /\ change'.ld \in Applicable
      BY <1>1, <1>2, <2>2, <2>4 DEF TakesName
    <3> QED  BY <1>2, <1>3, <2>4, <3>1, SetsFixed, Zenon DEF Take, TakesName, LoggerTypeOK
  <2> QED  BY <1>3, <2>3, <2>4, ListenerLocals
<1>4. CASE ApplyLevel
  <2>1. change' \in Changes /\ change'.at # "idle" /\ change'.ld \in Applicable
    BY <1>0, <1>1, <1>2, <1>4, ListenerLocals DEF ApplyLevel
  <2>2. ld.name \in Names /\ ld.level \in UNKNOW..Silent
    BY <1>0, <1>4 DEF ApplyLevel, Applicable
  <2>3. m_level' \in [Names -> UNKNOW..Silent]
    BY <1>4, <2>2 DEF ApplyLevel, LoggerTypeOK
  <2> QED  BY <1>4, <2>1, <2>3, SetsFixed DEF ApplyLevel, LoggerTypeOK
<1>5. CASE ApplyFormatter \/ ApplyClear \/ ApplyAppender
  <2>1. ld \in Applicable /\ ld.name \in Names /\ ld.formatter \in STRING /\ ld.appenders \in Seq(AppenderDefines)
    BY <1>0, <1>5, Zenon DEF ApplyFormatter, ApplyClear, ApplyAppender, Applicable
  <2>2. ApplyAppender => Rest(ld) \in Applicable /\ Head(ld.appenders) \in AppenderDefines
    BY <2>1 DEF Rest, Applicable, ApplyAppender
  <2>3. change' \in Changes /\ change'.at # "idle" /\ change'.ld \in Applicable
    BY <1>0, <1>1, <1>2, <1>5, <2>1, <2>2, ListenerLocals, Zenon
  <2>4. m_formatter' \in [Names -> STRING \ {NoFormatter}] /\ m_appenders' \in [Names -> Seq(Appender)]
    BY <1>5, <2>1, <2>2, MembersType, LoggerAssumption, Zenon
      DEF ApplyFormatter, ApplyClear, ApplyAppender, NoFormatter, LoggerTypeOK
  <2>5. UNCHANGED <<m_loggers, m_level, logs, muted, call>> /\ raced' \in BOOLEAN
    BY <1>5, Zenon DEF ApplyFormatter, ApplyClear, ApplyAppender, ClearAppenders, LoggerTypeOK
  <2> QED  BY <2>3, <2>4, <2>5, SetsFixed DEF LoggerTypeOK
<1>6. CASE Applied
  <2>1. change' \in Changes /\ change'.at = "take"
    BY <1>0, <1>2, <1>6, ListenerLocals DEF ChangeTo, Changes
  <2>2. ld.name \in Names \ Own
    BY <1>0, <1>6 DEF Applied, Applicable
  <2> QED  BY <1>6, <2>1, <2>2, SetsFixed DEF Applied, LoggerTypeOK, loggerVars
<1>7. CASE Assign
  BY <1>2, <1>7, SetsFixed, Zenon DEF Assign, LoggerTypeOK, loggerVars, Idle
<1> QED  BY <1>3, <1>4, <1>5, <1>6, <1>7

\* The beginnings of calls keep the types.
LEMMA ClientKeepsType ==
  ASSUME LoggerTypeOK, NEW t \in Threads,
         \/ \E l \in Names, level \in EventLevels : Log(t, l, level)
         \/ \E l \in Own : SetUp(t, l)
         \/ \E d \in DOMAIN Docs : Change(t, d)
         \/ PrintAll(t)
  PROVE  LoggerTypeOK'
<1>0. call \in [Threads -> {Idle} \cup LogCalls \cup PrintCalls] /\ root \in Names /\ Own \subseteq Names
  BY LoggerAssumption DEF LoggerTypeOK
<1>1. ASSUME NEW l \in Names, NEW level \in EventLevels, Log(t, l, level)  PROVE LoggerTypeOK'
  <2>1. call' \in [Threads -> {Idle} \cup LogCalls \cup PrintCalls]
    BY <1>0, <1>1, BeginCall, Zenon DEF Log
  <2>2. m_loggers' \subseteq Names
    BY <1>1 DEF Log, GetLogger, LoggerTypeOK
  <2> QED  BY <1>1, <2>1, <2>2, SetsFixed, Zenon DEF Log, LoggerTypeOK
<1>2. ASSUME NEW l \in Own, SetUp(t, l)  PROVE LoggerTypeOK'
  <2>1. m_formatter' \in [Names -> STRING \ {NoFormatter}] /\ m_appenders' \in [Names -> Seq(Appender)]
    BY <1>0, <1>2, MembersType, LoggerAssumption, Zenon DEF SetUp
  <2>2. raced' \in BOOLEAN
    BY ZenonT(40), <1>2 DEF SetUp, ClearAppenders, LoggerTypeOK
  <2> QED  BY <1>2, <2>1, <2>2, SetsFixed, Zenon DEF SetUp, LoggerTypeOK
<1>3. ASSUME NEW d \in DOMAIN Docs, Change(t, d)  PROVE LoggerTypeOK'
  <2>1. PICK new \in FromLogDefines(Docs[d]) :
           change' = [at |-> "take", new |-> new, todo |-> new \ logs,
                      gone |-> {ld.name : ld \in logs} \ {ld.name : ld \in new}, ld |-> None]
    BY <1>3, Zenon DEF Change
  <2>2. change' \in Changes /\ change'.at = "take"
    <3>1. \A ld \in logs : ld.name \in Names \ Own
      BY DEF LoggerTypeOK, Defines
    <3> QED  BY <2>1, <3>1, DocsType, Zenon DEF Changes
  <2>3. call' \in [Threads -> {Idle} \cup LogCalls \cup PrintCalls]
    BY <1>0, <1>3, BeginCall, Zenon DEF Change
  <2> QED  BY <1>3, <2>2, <2>3, SetsFixed, Zenon DEF Change, LoggerTypeOK, loggerVars
<1>4. ASSUME PrintAll(t)  PROVE LoggerTypeOK'
  <2>1. call' \in [Threads -> {Idle} \cup LogCalls \cup PrintCalls]
    BY <1>0, <1>4, Zenon DEF PrintAll, PrintCalls, LoggerTypeOK
  <2> QED  BY <1>4, <2>1, SetsFixed, Zenon DEF PrintAll, LoggerTypeOK, loggerVars
<1> QED  BY <1>1, <1>2, <1>3, <1>4

-----------------------------------------------------------------------------
(* What an event has been sent to *)

\* A step that thread t takes.
Acts(t) ==
  \/ Step(t)
  \/ /\ ~raced
     /\ \/ \E l \in Names, level \in EventLevels : Log(t, l, level)
        \/ \E l \in Own : SetUp(t, l)
        \/ \E d \in DOMAIN Docs : Change(t, d)
        \/ PrintAll(t)

\* The guards and the call of a thread are its own.
LEMMA OthersKeep ==
  ASSUME LoggerTypeOK, LockInv, NEW t \in Threads, Acts(t), NEW u \in Threads \ {t}
  PROVE  call'[u] = call[u] /\ \A l \in Names : Holds(l, u)' = Holds(l, u)
<1>0. /\ call \in [Threads -> {Idle} \cup LogCalls \cup PrintCalls]
      /\ \A l \in Names : l \in Locks /\ guard[l] \in [Threads -> {NoGuard} \cup [mode : {"read", "exclusive"}, m_locked : BOOLEAN]]
      /\ guard \in [Locks -> [Threads -> {NoGuard} \cup [mode : {"read", "exclusive"}, m_locked : BOOLEAN]]]
  BY LoggerAssumption DEF LoggerTypeOK, LockInv, LocksTypeOK
<1>1. \/ UNCHANGED call \/ \E new : call' = [call EXCEPT ![t] = new]
  BY Zenon DEF Acts, Step, Check, Enter, Deliver, Leave, PrintLogger, Printed, Log, SetUp, Change, PrintAll, Begin, Go,
         Take, ApplyLevel, ApplyFormatter, ApplyClear, ApplyAppender, Applied, Assign
<1>2. \/ UNCHANGED guard \/ \E l, g : guard' = [guard EXCEPT ![l][t] = g]
  BY Zenon DEF Acts, Step, Check, Enter, Deliver, Leave, PrintLogger, Printed, Log, SetUp, Change, PrintAll,
         Take, ApplyLevel, ApplyFormatter, ApplyClear, ApplyAppender, Applied, Assign, lockVars,
         Construct, GuardLocks, Destruct
<1>3. \A l \in Names : guard'[l][u] = guard[l][u]
  BY <1>0, <1>2
<1> QED  BY <1>0, <1>1, <1>3, Zenon DEF Holds

\* The list of a logger does not change under a thread that is inside it, unless
\* clearAppenders does it.
LEMMA ListKept ==
  ASSUME LoggerTypeOK, LockInv, NEW t \in Threads, Acts(t), ~raced',
         NEW u \in Threads, NEW l \in Names, Holds(l, u), call[u] \in LogCalls
  PROVE  m_appenders'[l] = m_appenders[l]
<1>0. ~CanLock(l, "exclusive") /\ m_appenders \in [Names -> Seq(Appender)] /\ call[u] # Idle
  BY HeldIsLocked, CallKind DEF LoggerTypeOK
<1>1. ASSUME NEW k \in Names, call[t] = Idle,
             \/ \E a : AddAppender(k, a) \/ DelAppender(k, a) \/ SetFormatter(k, a)
             \/ ClearAppenders(t, k)
      PROVE  m_appenders'[l] = m_appenders[l]
  <2>1. CASE k = l
    <3>1. CASE ClearAppenders(t, l)
      BY ZenonT(40), <1>0, <1>1, <3>1 DEF ClearAppenders
    <3> QED  BY <1>0, <1>1, <2>1, <3>1 DEF AddAppender, DelAppender, SetFormatter
  <2>2. CASE k # l
    BY <1>0, <1>1, <2>2 DEF AddAppender, Added, DelAppender, SetFormatter, ClearAppenders
  <2> QED  BY <2>1, <2>2, Zenon
<1>2. ASSUME NEW k \in Own, SetUp(t, k)  PROVE m_appenders'[l] = m_appenders[l]
  BY ZenonT(40), <1>1, <1>2, LoggerAssumption DEF SetUp, Call, Free
<1>3. ASSUME ApplyFormatter \/ ApplyClear \/ ApplyAppender, t = Configurator, call[t] = Idle
      PROVE  m_appenders'[l] = m_appenders[l]
  <2>1. change.ld.name \in Names
    BY <1>3, Zenon DEF ApplyFormatter, ApplyClear, ApplyAppender, LoggerTypeOK, Applicable
  <2> QED  BY <1>1, <1>3, <2>1, Zenon DEF ApplyFormatter, ApplyClear, ApplyAppender
<1>4. CASE UNCHANGED m_appenders
  BY <1>4
<1> QED  BY <1>2, <1>3, <1>4, Zenon
    DEF Acts, Step, Check, Enter, Deliver, Leave, PrintLogger, Printed, Log, Change, PrintAll,
        Take, ApplyLevel, Applied, Assign, loggerVars

\* Nothing has been sent before the loop.
LEMMA NothingSent ==
  ASSUME NEW c, NEW list, c.sent = <<>>
  PROVE  SentUpTo(c, list, 0)
<1>1. Takers(c, list, 0) = {}
  BY DEF Takers
<1> QED  BY <1>1, FS_EmptySet DEF SentUpTo

\* What is in a call of log().
LEMMA LogCallParts ==
  ASSUME NEW a, NEW c, NEW l, NEW sent, NEW n
  PROVE  LET d == LogCall(a, c, l, sent, n) IN
         d.at = a /\ d.level = c.level /\ d.from = c.from /\ d.on = l /\ d.sent = sent /\ d.n = n
  BY DEF LogCall

\* The guards that thread t takes and lets go.
LEMMA OwnGuards ==
  ASSUME LockInv, NEW t \in Threads, NEW l \in Names
  PROVE  /\ Construct(l, t, "exclusive") =>
              Holds(l, t)' /\ \A k \in Names \ {l} : Holds(k, t)' = Holds(k, t)
         /\ Destruct(l, t) => \A k \in Names \ {l} : Holds(k, t)' = Holds(k, t)
<1>1. /\ guard \in [Locks -> [Threads -> {NoGuard} \cup [mode : {"read", "exclusive"}, m_locked : BOOLEAN]]]
      /\ Names \subseteq Locks
  BY LoggerAssumption DEF LockInv, LocksTypeOK
<1> QED  BY <1>1 DEF Construct, GuardLocks, Destruct, Holds

\* log() goes on: the thread holds the locks it should, and what it has sent is right.
LEMMA OwnRoute ==
  ASSUME LoggerTypeOK, LockInv, NEW t \in Threads, RouteInv(t),
         Check(t) \/ Enter(t) \/ Deliver(t) \/ Leave(t)
  PROVE  RouteInv(t)'
<1> DEFINE c == call[t]
           list == m_appenders[c.on]
<1>0. /\ c \in LogCalls /\ call \in [Threads -> {Idle} \cup LogCalls \cup PrintCalls]
      /\ UNCHANGED m_appenders /\ LogCalls' = LogCalls /\ Idle \notin LogCalls
  BY ZenonT(40), CallKind, SetsFixed DEF Check, Enter, Deliver, Leave, At, LoggerTypeOK, loggerVars, LogCalls, Idle
<1>1. c.on \in Names /\ c.from \in Names /\ list \in Seq(Appender) /\ c.sent \in Seq(Appender)
  BY <1>0, Zenon DEF LogCalls, LoggerTypeOK
<1>2. CASE Check(t)
  <2>1. c.at = "check" /\ \A l \in Names : Holds(l, t)' = Holds(l, t)
    BY <1>2 DEF Check, At, lockVars, Holds
  <2>2. CASE call' = [call EXCEPT ![t] = LogCall("lock", c, c.on, c.sent, c.n)]
    <3> DEFINE d == LogCall("lock", c, c.on, c.sent, c.n)
    <3>1. call'[t] = d
      BY <1>0, <2>2
    <3>2. d.at = "lock" /\ d.from = c.from /\ d.on = c.on /\ d.sent = c.sent /\ d.n = c.n
      BY DEF LogCall
    <3> HIDE DEF d
    <3> QED  BY <1>0, <1>1, <2>1, <3>1, <3>2, Zenon DEF RouteInv
  <2>3. CASE call' = [call EXCEPT ![t] = Idle]
    BY <1>0, <2>3, Zenon DEF RouteInv
  <2>4. CASE call' = [call EXCEPT ![t] = LogCall("leave", c, c.from, c.sent, c.n)] /\ c.on # c.from
    <3> DEFINE d == LogCall("leave", c, c.from, c.sent, c.n)
    <3>1. call'[t] = d
      BY <1>0, <2>4, Zenon
    <3>2. d.at = "leave" /\ d.from = c.from /\ d.on = c.from
      BY DEF LogCall
    <3> HIDE DEF d
    <3> QED  BY <1>0, <1>1, <2>1, <2>4, <3>1, <3>2, Zenon DEF RouteInv
  <2> QED  BY <1>2, <2>2, <2>3, <2>4, CheckCall, Zenon
<1>3. CASE Enter(t)
  <2>1. /\ c.at = "lock"
        /\ \A l \in Names : IF l = c.on THEN Holds(l, t)' ELSE Holds(l, t)' = Holds(l, t)
    BY <1>1, <1>3, OwnGuards DEF Enter, At
  <2>2. c.sent = <<>> /\ c.n = 1
    BY <1>0, <2>1, Zenon DEF RouteInv
  <2>3. CASE list # <<>>
    <3> DEFINE d == LogCall("append", c, c.on, c.sent, c.n)
    <3>1. call'[t] = d
      BY <1>0, <1>3, <2>3, EnterCall, Zenon
    <3>2. SentUpTo(d, list, d.n - 1) /\ d.n \in 1..Len(list)
      <4>1. d.n = 1 /\ d.sent = <<>>
        BY <2>2, Zenon DEF LogCall
      <4> HIDE DEF d
      <4>2. SentUpTo(d, list, 0)
        BY <4>1, NothingSent, Zenon
      <4>3. 1 - 1 = 0 /\ \A q \in Seq(Appender) : q # <<>> => 1 \in 1..Len(q)
        OBVIOUS
      <4> QED  BY <1>1, <2>3, <4>1, <4>2, <4>3, Zenon
    <3>3. d.at = "append" /\ d.from = c.from /\ d.on = c.on
      BY DEF LogCall
    <3> HIDE DEF d
    <3> QED  BY <1>0, <1>1, <2>1, <3>1, <3>2, <3>3, Zenon DEF RouteInv
  <2>4. CASE list = <<>> /\ c.on # root
    <3> DEFINE d == LogCall("check", c, root, c.sent, c.n)
    <3>1. call'[t] = d
      BY <1>0, <1>3, <2>4, EnterCall, Zenon
    <3>2. d.at = "check" /\ d.from = c.from /\ d.on = root /\ d.sent = c.sent /\ d.n = c.n
      BY Zenon DEF LogCall
    <3> HIDE DEF d
    <3> QED  BY <1>0, <1>1, <2>1, <2>2, <2>4, <3>1, <3>2, Zenon DEF RouteInv
  <2>5. CASE list = <<>> /\ c.on = root
    <3> DEFINE d == LogCall("leave", c, c.on, c.sent, c.n)
    <3>1. call'[t] = d
      BY <1>0, <1>3, <2>5, EnterCall, Zenon
    <3>2. SentUpTo(d, list, Len(list))
      <4>1. d.sent = <<>>
        BY <2>2, Zenon DEF LogCall
      <4> HIDE DEF d
      <4>2. SentUpTo(d, list, 0)
        BY <4>1, NothingSent, Zenon
      <4>3. Len(<<>>) = 0
        OBVIOUS
      <4> QED  BY <2>5, <4>2, <4>3, Zenon
    <3>3. d.at = "leave" /\ d.from = c.from /\ d.on = c.on
      BY Zenon DEF LogCall
    <3> HIDE DEF d
    <3> QED  BY <1>0, <1>1, <2>1, <2>5, <3>1, <3>2, <3>3, Zenon DEF RouteInv
  <2> QED  BY <2>3, <2>4, <2>5, Zenon
<1>4. CASE Deliver(t)
  <2>1. c.at = "append" /\ \A l \in Names : Holds(l, t)' = Holds(l, t)
    BY <1>4, Zenon DEF Deliver, At, lockVars, Holds
  <2>2. c.n \in 1..Len(list) /\ SentUpTo(c, list, c.n - 1) /\ Holds(c.on, t)
    BY <1>0, <2>1, Zenon DEF RouteInv
  <2> DEFINE a == IF c.n = Len(list) THEN "leave" ELSE "append"
             sent == IF Takes(list[c.n], c.level) THEN Append(c.sent, list[c.n]) ELSE c.sent
             d == LogCall(a, c, c.on, sent, c.n + 1)
  <2>3. call'[t] = d
    BY <1>0, <1>4, DeliverCall, Zenon
  <2>4. SentUpTo(d, list, c.n)
    <3> HIDE DEF a, sent
    <3>1. d.level = c.level /\ d.sent = sent
      BY Zenon DEF LogCall
    <3> USE DEF sent
    <3> HIDE DEF d
    <3> QED  BY <1>1, <2>2, <3>1, TurnSends, Zenon
  <2>5. d.at = a /\ d.from = c.from /\ d.on = c.on /\ d.n = c.n + 1
    <3> HIDE DEF a, sent
    <3> QED  BY Zenon DEF LogCall
  <2>6. (a = "append" => d.n \in 1..Len(list) /\ SentUpTo(d, list, d.n - 1)) /\ (a = "leave" => SentUpTo(d, list, Len(list)))
    <3> HIDE DEF d
    <3>1. Len(list) \in Nat /\ (c.n = Len(list) \/ c.n + 1 \in 1..Len(list)) /\ (c.n + 1) - 1 = c.n
      <4>1. \A q \in Seq(Appender) : Len(q) \in Nat
        OBVIOUS
      <4>2. \A m \in Nat : \A k \in 1..m : (k = m \/ k + 1 \in 1..m) /\ (k + 1) - 1 = k
        OBVIOUS
      <4> QED  BY <1>1, <2>2, <4>1, <4>2, Zenon
    <3>2. CASE c.n = Len(list)
      BY <2>4, <3>2, Zenon
    <3>3. CASE c.n # Len(list)
      BY <2>4, <2>5, <3>1, <3>3, Zenon
    <3> QED  BY <3>2, <3>3, Zenon
  <2> HIDE DEF d
  <2> QED  BY <1>0, <1>1, <2>1, <2>2, <2>3, <2>5, <2>6, Zenon DEF RouteInv
<1>5. CASE Leave(t)
  <2>1. c.at = "leave" /\ \A l \in Names \ {c.on} : Holds(l, t)' = Holds(l, t)
    BY <1>1, <1>5, OwnGuards DEF Leave, At
  <2>2. CASE c.on = c.from
    BY <1>0, <1>5, <2>2, LeaveCall, Zenon DEF RouteInv
  <2>3. CASE c.on # c.from
    <3> DEFINE d == LogCall("leave", c, c.from, c.sent, c.n)
    <3>1. call'[t] = d
      BY <1>0, <1>5, <2>3, LeaveCall, Zenon
    <3>2. d.at = "leave" /\ d.from = c.from /\ d.on = c.from
      BY DEF LogCall
    <3> HIDE DEF d
    <3> QED  BY <1>0, <1>1, <2>1, <2>3, <3>1, <3>2, Zenon DEF RouteInv
  <2> QED  BY <2>2, <2>3
<1> QED  BY <1>2, <1>3, <1>4, <1>5

\* Every step keeps what the threads have sent right.
LEMMA RouteKept ==
  ASSUME LoggerTypeOK, LockInv, \A u \in Threads : RouteInv(u), NEW t \in Threads, Acts(t), ~raced',
         NEW u \in Threads
  PROVE  RouteInv(u)'
<1>0. call \in [Threads -> {Idle} \cup LogCalls \cup PrintCalls] /\ LogCalls' = LogCalls
  BY SetsFixed DEF LoggerTypeOK
<1>1. \A l \in Names : Holds(l, u) /\ call[u] \in LogCalls => m_appenders'[l] = m_appenders[l]
  BY ListKept
<1>2. CASE call'[u] = call[u] /\ \A l \in Names : Holds(l, u)' = Holds(l, u)
  <2>1. CASE call[u] \in LogCalls
    BY <1>1, <1>2, <2>1, RouteFrame, Zenon
  <2> QED  BY <1>0, <1>2, <2>1, Zenon DEF RouteInv
<1>3. CASE u # t
  BY <1>2, <1>3, OthersKeep
<1>4. CASE u = t
  <2>1. CASE Check(t) \/ Enter(t) \/ Deliver(t) \/ Leave(t)
    BY <1>4, <2>1, OwnRoute
  <2>2. ASSUME NEW l \in Names, NEW level \in EventLevels \cup {DEBUG}, Begin(t, l, level)  PROVE RouteInv(u)'
    <3>1. PICK new \in {Idle} \cup LogCalls :
             /\ call' = [call EXCEPT ![t] = new]
             /\ new # Idle => new.at = "check" /\ new.on = new.from /\ new.sent = <<>> /\ new.n = 1
      BY <2>2, BeginCall, Zenon
    <3>2. call'[u] = new
      BY <1>0, <1>4, <3>1
    <3>3. CASE new = Idle
      <4>1. Idle \notin LogCalls
        BY Zenon DEF LogCalls, Idle
      <4> QED  BY <1>0, <3>2, <3>3, <4>1, Zenon DEF RouteInv
    <3>4. CASE new # Idle
      BY ZenonT(40), <3>1, <3>2, <3>4 DEF RouteInv
    <3> QED  BY <3>3, <3>4
  <2>3. CASE PrintAll(t) \/ PrintLogger(t) \/ Printed(t)
    <3>1. call[t].at = "print" => call[t] \in PrintCalls
      BY CallKind
    <3>2. call'[t].at \in {"print", "idle"}
      BY <1>0, <2>3, <3>1 DEF PrintAll, PrintLogger, Printed, At, PrintCalls, Idle
    <3> QED  BY <1>0, <1>4, <3>2, Zenon DEF RouteInv, LogCalls
  <2>4. CASE UNCHANGED <<lockVars, call>>
    BY <1>2, <1>4, <2>4 DEF lockVars, Holds
  <2> QED  BY <2>1, <2>2, <2>3, <2>4, LoggerAssumption, Zenon
      DEF Acts, Step, Log, SetUp, Change, Take, ApplyLevel, ApplyFormatter, ApplyClear, ApplyAppender, Applied, Assign
<1> QED  BY <1>3, <1>4

-----------------------------------------------------------------------------
(* The invariant *)

\* After LoggerManager(): two appenders at root, and nothing else.
LEMMA LoggerInitInv == Init => LoggerInv
<1> SUFFICES ASSUME Init  PROVE LoggerInv
  OBVIOUS
<1> DEFINE first == NewAppender([type |-> Stdout, file |-> "", level |-> DEBUG, formatter |-> "dft"])
           second == NewAppender([type |-> File, file |-> "root.log", level |-> DEBUG, formatter |-> "dft"])
<1>1. first \in Appender /\ second \in Appender
  <2>1. DEBUG \in UNKNOW..Len(Levels)
    BY DEF DEBUG, UNKNOW, Levels
  <2>2. "dft" # NoFormatter
    BY DEF NoFormatter
  <2>3. ASSUME NEW type \in STRING, NEW file \in STRING
        PROVE  NewAppender([type |-> type, file |-> file, level |-> DEBUG, formatter |-> "dft"]) \in Appender
    BY <2>1, <2>2, TextsAssumption, Zenon DEF NewAppender, Appender
  <2> QED  BY <2>3, TextsAssumption, Zenon
<1>2. m_appenders \in [Names -> Seq(Appender)]
  <2>1. m_appenders = [l \in Names |-> IF l # root THEN <<>> ELSE <<first, second>>]
    BY Zenon DEF Init
  <2> HIDE DEF first, second
  <2>2. <<first, second>> \in Seq(Appender) /\ <<>> \in Seq(Appender)
    BY <1>1
  <2> QED  BY <2>1, <2>2
<1>3. LockInv
  BY InitInv, Zenon DEF Init
<1>4. LoggerTypeOK
  <2>1. Default \in STRING \ {NoFormatter}
    BY TextsAssumption, Zenon DEF Default, NoFormatter
  <2>2. DEBUG \in UNKNOW..Silent
    BY DEF DEBUG, UNKNOW, Silent
  <2> QED  BY <1>2, <2>1, <2>2, LoggerAssumption, Zenon DEF Init, LoggerTypeOK, Idle
<1> QED  BY <1>3, <1>4, CallKind, Zenon DEF LoggerInv, RouteInv, Init

\* Every step keeps it.
LEMMA LoggerStepInv == LoggerInv /\ [Next]_vars => LoggerInv'
<1> SUFFICES ASSUME LoggerInv, [Next]_vars  PROVE LoggerInv'
  OBVIOUS
<1>0. LoggerTypeOK /\ LockInv /\ (~raced => \A t \in Threads : RouteInv(t))
  BY DEF LoggerInv
<1>1. LockInv'
  <2>1. [LocksNext]_lockVars
    BY <1>0, LoggerUsesLocks
  <2>2. CASE UNCHANGED lockVars
    BY <1>0, <2>2, Zenon DEF lockVars, LockInv, LocksTypeOK, LockMatchesGuards, Holds
  <2> QED  BY <1>0, <2>1, <2>2, UseKeepsInv DEF LocksNext
<1>2. ASSUME NEW t \in Threads, Acts(t)  PROVE LoggerInv'
  <2>1. ~raced
    BY <1>2 DEF Acts, Step
  <2>2. LoggerTypeOK'
    BY <1>0, <1>2, <2>1, CallKeepsType, ListenerKeepsType, ClientKeepsType DEF Acts, Step
  <2> QED  BY <1>0, <1>1, <1>2, <2>1, <2>2, RouteKept DEF LoggerInv
<1>3. CASE UNCHANGED vars
  <2>1. LoggerTypeOK'
    BY <1>0, <1>3, SetsFixed DEF vars, loggerVars, LoggerTypeOK
  <2>2. ASSUME NEW t \in Threads, RouteInv(t)  PROVE RouteInv(t)'
    BY <1>0, <1>3, <2>2, RouteFrame, Zenon DEF vars, loggerVars, lockVars, Holds
  <2> QED  BY <1>0, <1>1, <1>3, <2>1, <2>2 DEF LoggerInv, vars
<1>4. Next => \E t \in Threads : Acts(t)
  BY DEF Next, Acts
<1> QED  BY <1>2, <1>3, <1>4

\* It holds always.
LEMMA LoggerInvariance == Spec => []LoggerInv
  BY LoggerInitInv, LoggerStepInv, PTL DEF Spec

-----------------------------------------------------------------------------
(* What follows from it *)

\* A formatter is never null when log() or toYamlString() uses it: addAppender and
\* setFormatter leave every appender listed with one (log.cc:291, log.cc:314).
THEOREM AppendersHaveFormatter == Spec => []AppendersFormatted
<1>1. ASSUME LoggerInv, NEW l \in Names, NEW k \in DOMAIN m_appenders[l]
      PROVE  m_appenders[l][k].formatter # NoFormatter
  <2>1. m_appenders[l] \in Seq(Appender)
    BY <1>1 DEF LoggerInv, LoggerTypeOK
  <2>2. m_appenders[l][k] \in Appender
    BY <2>1
  <2> QED  BY <2>2 DEF Appender
<1>2. LoggerInv => AppendersFormatted
  BY <1>1 DEF AppendersFormatted
<1> QED  BY <1>2, LoggerInvariance, PTL

\* An event that log() has handled has gone to the appenders of one logger that take
\* its level, to each once and in order, whatever other threads do to the list and
\* to the levels meanwhile (log.cc:364).
THEOREM EventsRouted == Spec => []OneRoute
<1>1. LoggerInv => OneRoute
  BY CallKind, Zenon DEF LoggerInv, RouteInv, OneRoute
<1> QED  BY <1>1, LoggerInvariance, PTL

\* Two guards on one mutex of log.h, of a logger or of the manager, hold it at once
\* only to read (thread.h).
THEOREM LoggerLocksExclude == Spec => []Exclusion
  BY LoggerInvariance, InvExcludes, PTL DEF LoggerInv

-----------------------------------------------------------------------------
(* The listener of "logs": its inductive invariant, on top of LoggerInv *)

\* The definition o is being applied by a listener with the locals c to a logger with
\* this level, formatter f and appenders done: what has been done, and what is left.
WantedOf(f, a) == With(a, IF a.formatter # "" THEN a.formatter ELSE f)

Progress(o, c, level, f, done) ==
  LET ld == c.ld IN
  /\ o.name = ld.name /\ o.level = ld.level /\ o.formatter = ld.formatter
  /\ c.at # "level" => level = ld.level
  /\ c.at \in {"clear", "add"} /\ ld.formatter \notin Bad \cup {""} => f = ld.formatter
  /\ c.at # "add" => ld.appenders = o.appenders
  /\ c.at = "add" =>
       /\ Len(done) + Len(ld.appenders) = Len(o.appenders)
       /\ \A k \in 1..Len(done) : done[k] = WantedOf(f, o.appenders[k])
       /\ \A k \in 1..Len(ld.appenders) : ld.appenders[k] = o.appenders[Len(done) + k]

Applying(o) ==
  LET l == change.ld.name IN
  l \in m_loggers /\ Progress(o, change, m_level[l], m_formatter[l], m_appenders[l])

ChangeInv ==
  /\ \A l \in muted : Silenced(l)
  /\ Unique(logs)
  /\ change = Idle => \A ld \in logs : Matches(ld)
  /\ change # Idle =>
       /\ Unique(change.new) /\ change.todo \subseteq change.new
       /\ \A d \in change.new : d.name \notin change.gone
       /\ \A d \in change.new \ change.todo :
            change.at = "take" \/ d.name # change.ld.name => Matches(d)
  /\ change # Idle /\ change.at # "take" =>
       \/ /\ change.ld.name \notin muted
          /\ \E o \in change.new \ change.todo : Applying(o)
       \/ /\ \A d \in change.new : d.name # change.ld.name
          /\ Applying(Muting(change.ld.name))

-----------------------------------------------------------------------------
(* What the invariant depends on *)

\* Whether a change is under way.
LEMMA ChangeKind ==
  ASSUME LoggerTypeOK
  PROVE  /\ change = Idle <=> change.at = "idle"
         /\ change # Idle => change \in Changes
         /\ change # Idle /\ change.at # "take" => change.ld \in Applicable /\ change.ld.name \in Names \ Own
         /\ \A d \in logs : d \in Defines
         /\ change # Idle => change.new \subseteq Defines /\ change.gone \subseteq Names \ Own
         /\ muted \subseteq Names \ Own
<1>1. /\ change \in {Idle} \cup Changes /\ (change.at \notin {"idle", "take"} => change.ld \in Applicable)
      /\ logs \subseteq Defines /\ muted \subseteq Names \ Own
  BY Zenon DEF LoggerTypeOK
<1>2. Idle.at = "idle" /\ \A c \in Changes : c.at # "idle" /\ c.new \subseteq Defines /\ c.gone \subseteq Names \ Own
  BY DEF Changes, Idle
<1>3. \A d \in Applicable : d.name \in Names \ Own
  BY DEF Applicable
<1> QED  BY <1>1, <1>2, <1>3, Zenon

Alone(l) == m_level'[l] = m_level[l] /\ m_formatter'[l] = m_formatter[l] /\ m_appenders'[l] = m_appenders[l]

\* A definition stays matched as long as its logger is left alone.
LEMMA MatchFrame ==
  ASSUME NEW d, Matches(d), m_loggers \subseteq m_loggers', Alone(d.name)
  PROVE  Matches(d)'
  BY Zenon DEF Matches, Wanted, With, Alone

\* Logging, printing, and setting up loggers that the configuration does not know
\* disturb neither the listener nor what it has done.
LEMMA OthersKeepChange ==
  ASSUME LoggerTypeOK, ChangeInv, m_loggers \subseteq m_loggers', UNCHANGED <<logs, change, muted>>,
         \A l \in Names \ Own : Alone(l)
  PROVE  ChangeInv'
<1>1. \A d \in Defines : d.name \in Names \ Own
  BY DEF Defines
<1>2. \A l \in muted : Silenced(l)'
  BY ChangeKind, Zenon DEF ChangeInv, Silenced, Alone
<1>3. \A d \in Defines : Matches(d) => Matches(d)'
  BY <1>1, MatchFrame
<1>4. ASSUME change # Idle, change.at # "take", NEW o, Applying(o)  PROVE Applying(o)'
  <2>1. Alone(change.ld.name) /\ UNCHANGED change
    BY <1>4, ChangeKind
  <2> QED  BY <1>4, <2>1, Zenon DEF Applying, Alone
<1>5. change # Idle => change.new \subseteq Defines
  BY ChangeKind
<1>6. (change # Idle => \A d \in change.new \ change.todo :
          change.at = "take" \/ d.name # change.ld.name => Matches(d))'
  BY <1>3, <1>5, SetsFixed, Zenon DEF ChangeInv
<1>7. (change = Idle => \A d \in logs : Matches(d))'
  BY <1>3, ChangeKind, SetsFixed, Zenon DEF ChangeInv
<1>8. (change # Idle /\ change.at # "take" =>
         \/ /\ change.ld.name \notin muted
            /\ \E o \in change.new \ change.todo : Applying(o)
         \/ /\ \A d \in change.new : d.name # change.ld.name
            /\ Applying(Muting(change.ld.name)))'
  <2>1. ASSUME change # Idle, change.at # "take", Applying(Muting(change.ld.name))
        PROVE  Applying(Muting(change.ld.name))'
    <3> DEFINE name == change.ld.name
    <3>1. \E o : o = Muting(name) /\ Applying(o)'
      BY <1>4, <2>1
    <3> QED  BY <3>1, Zenon DEF Applying, Muting
  <2> QED  BY <1>4, <2>1, SetsFixed, Zenon DEF ChangeInv
<1> QED  BY <1>2, <1>6, <1>7, <1>8, SetsFixed, Zenon DEF ChangeInv, Unique

-----------------------------------------------------------------------------
(* The listener *)

\* What is in the locals after a step.
LEMMA ChangeToParts ==
  ASSUME NEW at, NEW c, NEW todo, NEW gone, NEW ld
  PROVE  LET d == ChangeTo(at, c, todo, gone, ld) IN
         d.at = at /\ d.new = c.new /\ d.todo = todo /\ d.gone = gone /\ d.ld = ld
  BY DEF ChangeTo

\* What can be applied.
LEMMA ApplicableOnes ==
  /\ Defines \subseteq Applicable /\ \A d \in Defines : d.level # Silent /\ d.name \in Names \ Own
  /\ \A name \in Names \ Own : Muting(name) \in Applicable
<1>1. Defines \subseteq Applicable /\ \A d \in Defines : d.level # Silent /\ d.name \in Names \ Own
  BY DEF Defines, Applicable, Silent, UNKNOW, Levels
<1>2. ASSUME NEW name \in Names \ Own  PROVE Muting(name) \in Applicable
  <2>1. <<>> \in Seq(AppenderDefines)
    OBVIOUS
  <2>2. Silent \in UNKNOW..Silent
    BY DEF Silent, UNKNOW
  <2> QED  BY <2>1, <2>2, TextsAssumption, Zenon DEF Muting, Applicable
<1> QED  BY <1>1, <1>2

\* A step that applies a part of the definition to its logger.
LEMMA PartApplied ==
  ASSUME LoggerTypeOK, ChangeInv, change.at \notin {"idle", "take"},
         NEW at \in {"formatter", "clear", "add"}, NEW ld, ld.name = change.ld.name,
         change' = ChangeTo(at, change, change.todo, change.gone, ld),
         UNCHANGED <<logs, muted, m_loggers>>,
         \A l \in Names \ {change.ld.name} : Alone(l),
         \A o \in Applicable : Applying(o) => Applying(o)',
         \A l \in muted : l = change.ld.name /\ Applying(Muting(l)) => Silenced(l)'
  PROVE  ChangeInv'
<1> DEFINE c == change
           name == change.ld.name
<1>0. /\ c # Idle /\ c \in Changes /\ name \in Names \ Own /\ c.new \subseteq Defines /\ muted \subseteq Names
      /\ change' # Idle /\ change'.at = at /\ change'.new = c.new /\ change'.todo = c.todo
      /\ change'.gone = c.gone /\ change'.ld.name = name
  <2>1. /\ change'.at = at /\ change'.new = c.new /\ change'.todo = c.todo /\ change'.gone = c.gone
        /\ change'.ld.name = name
    BY Zenon DEF ChangeTo
  <2>2. Idle.at = "idle" /\ at # "idle"
    BY DEF Idle
  <2> QED  BY <2>1, <2>2, ChangeKind, Zenon
<1>1. \A l \in muted : Silenced(l)'
  <2> SUFFICES ASSUME NEW l \in muted  PROVE Silenced(l)'
    BY Zenon
  <2>1. CASE l # name
    BY <1>0, <2>1, Zenon DEF ChangeInv, Silenced, Alone
  <2>2. CASE l = name
    BY <1>0, <2>2, Zenon DEF ChangeInv
  <2> QED  BY <2>1, <2>2, Zenon
<1>2. \A d \in c.new \ c.todo : d.name # name => Matches(d)'
  <2> SUFFICES ASSUME NEW d \in c.new \ c.todo, d.name # name  PROVE Matches(d)'
    BY Zenon
  <2>1. Matches(d) /\ d.name \in Names
    BY <1>0, ApplicableOnes, Zenon DEF ChangeInv
  <2> QED  BY <2>1, MatchFrame, Zenon
<1>3. \/ name \notin muted /\ \E o \in c.new \ c.todo : Applying(o)'
      \/ (\A d \in c.new : d.name # name) /\ \E o : o = Muting(name) /\ Applying(o)'
  BY <1>0, ApplicableOnes, Zenon DEF ChangeInv
<1>4. (\E o : o = Muting(name) /\ Applying(o)') => Applying(Muting(change.ld.name))'
  BY <1>0, Zenon DEF Applying, Muting
<1>5. /\ Unique(logs) /\ Unique(c.new) /\ c.todo \subseteq c.new /\ \A d \in c.new : d.name \notin c.gone
  BY <1>0, Zenon DEF ChangeInv
<1> HIDE DEF c
<1> QED  BY <1>0, <1>1, <1>2, <1>3, <1>4, <1>5, SetsFixed, Zenon DEF ChangeInv, Unique, c

\* The parts, one by one, for the logger l that the listener has under way.
LEMMA ApplyKeepsChange ==
  ASSUME LoggerTypeOK, ChangeInv, ~raced', ApplyLevel \/ ApplyFormatter \/ ApplyClear \/ ApplyAppender
  PROVE  ChangeInv'
<1> DEFINE c == change
           ld == change.ld
           l == change.ld.name
<1>0. /\ c.at \notin {"idle", "take"} /\ c \in Changes /\ ld \in Applicable /\ l \in Names
      /\ ld.appenders \in Seq(AppenderDefines)
      /\ m_level \in [Names -> UNKNOW..Silent] /\ m_formatter \in [Names -> STRING \ {NoFormatter}]
      /\ m_appenders \in [Names -> Seq(Appender)]
  BY ChangeKind, Zenon DEF ApplyLevel, ApplyFormatter, ApplyClear, ApplyAppender, LoggerTypeOK, Applicable
<1>1. CASE ApplyLevel
  <2> DEFINE d == ChangeTo("formatter", c, c.todo, c.gone, ld)
  <2>1. change' = d /\ c.at = "level" /\ d.at = "formatter" /\ d.ld = ld
    <3>1. c.at = "level" /\ change' = d
      BY <1>1, ListenerLocals, Zenon DEF ApplyLevel
    <3>2. d.at = "formatter" /\ d.ld = ld
      BY Zenon DEF ChangeTo
    <3> QED  BY <3>1, <3>2, Zenon
  <2>2. /\ UNCHANGED <<logs, muted, m_loggers>> /\ \A k \in Names \ {l} : Alone(k)
        /\ m_level'[l] = ld.level /\ m_formatter'[l] = m_formatter[l] /\ m_appenders'[l] = m_appenders[l]
    BY <1>0, <1>1 DEF ApplyLevel, Alone
  <2>3. ASSUME NEW o \in Applicable, Applying(o)  PROVE Applying(o)'
    <3>1. Progress(o, d, ld.level, m_formatter[l], m_appenders[l])
      BY <2>1, <2>3, Zenon DEF Applying, Progress
    <3> HIDE DEF d
    <3> QED  BY <2>1, <2>2, <2>3, <3>1, Zenon DEF Applying
  <2>4. ASSUME NEW k \in muted, k = l, Applying(Muting(k))  PROVE Silenced(k)'
    <3>1. ld.level = Silent
      BY <2>4, Zenon DEF Applying, Progress, Muting
    <3> QED  BY <2>2, <2>4, <3>1, Zenon DEF Silenced, ChangeInv
  <2> QED  BY <1>0, <2>1, <2>2, <2>3, <2>4, PartApplied, Zenon
<1>2. CASE ApplyFormatter
  <2> DEFINE d == ChangeTo("clear", c, c.todo, c.gone, ld)
  <2>1. change' = d /\ c.at = "formatter" /\ d.at = "clear" /\ d.ld = ld
    <3>1. c.at = "formatter" /\ change' = d
      BY <1>2, ListenerLocals, Zenon DEF ApplyFormatter
    <3>2. d.at = "clear" /\ d.ld = ld
      BY Zenon DEF ChangeTo
    <3> QED  BY <3>1, <3>2, Zenon
  <2>2. /\ UNCHANGED <<logs, muted, m_loggers>> /\ \A k \in Names \ {l} : Alone(k)
        /\ m_level'[l] = m_level[l]
        /\ ld.formatter \notin Bad \cup {""} => m_formatter'[l] = ld.formatter
        /\ ld.formatter = "" => m_appenders'[l] = m_appenders[l]
    BY <1>0, <1>2, Zenon DEF ApplyFormatter, SetFormatter, Alone
  <2>3. ASSUME NEW o \in Applicable, Applying(o)  PROVE Applying(o)'
    <3>1. ASSUME NEW f, NEW done, ld.formatter \notin Bad \cup {""} => f = ld.formatter
          PROVE  Progress(o, d, m_level[l], f, done)
      BY <2>1, <2>3, <3>1, Zenon DEF Applying, Progress
    <3> HIDE DEF d
    <3> QED  BY <2>1, <2>2, <2>3, <3>1, Zenon DEF Applying
  <2>4. ASSUME NEW k \in muted, k = l, Applying(Muting(k))  PROVE Silenced(k)'
    <3>1. ld.formatter = ""
      BY <2>4, Zenon DEF Applying, Progress, Muting
    <3> QED  BY <2>2, <2>4, <3>1, Zenon DEF Silenced, ChangeInv
  <2> QED  BY <1>0, <2>1, <2>2, <2>3, <2>4, PartApplied, Zenon
<1>3. CASE ApplyClear
  <2> DEFINE d == ChangeTo("add", c, c.todo, c.gone, ld)
  <2>1. change' = d /\ c.at = "clear" /\ d.at = "add" /\ d.ld = ld
    <3>1. c.at = "clear" /\ change' = d
      BY <1>3, ListenerLocals, Zenon DEF ApplyClear
    <3>2. d.at = "add" /\ d.ld = ld
      BY Zenon DEF ChangeTo
    <3> QED  BY <3>1, <3>2, Zenon
  <2>2. /\ UNCHANGED <<logs, muted, m_loggers>> /\ \A k \in Names \ {l} : Alone(k)
        /\ m_level'[l] = m_level[l] /\ m_formatter'[l] = m_formatter[l] /\ m_appenders'[l] = <<>>
    BY <1>0, <1>3 DEF ApplyClear, ClearAppenders, Alone
  <2>3. ASSUME NEW o \in Applicable, Applying(o)  PROVE Applying(o)'
    <3>1. Progress(o, d, m_level[l], m_formatter[l], <<>>)
      <4>1. Progress(o, c, m_level[l], m_formatter[l], m_appenders[l])
        BY <2>3, Zenon DEF Applying
      <4>2. ld.appenders = o.appenders
        BY <2>1, <4>1, Zenon DEF Progress
      <4> DEFINE empty == <<>>
      <4>3. /\ Len(empty) + Len(ld.appenders) = Len(o.appenders) /\ 1..Len(empty) = {}
            /\ \A k \in 1..Len(ld.appenders) : ld.appenders[k] = o.appenders[Len(empty) + k]
        BY <1>0, <4>2
      <4> HIDE DEF d, empty
      <4>4. Progress(o, d, m_level[l], m_formatter[l], empty)
        BY <2>1, <4>1, <4>3, Zenon DEF Progress
      <4> QED  BY <4>4 DEF empty
    <3> HIDE DEF d
    <3> QED  BY <2>1, <2>2, <2>3, <3>1, Zenon DEF Applying
  <2>4. ASSUME NEW k \in muted, k = l  PROVE Silenced(k)'
    BY <2>2, <2>4, Zenon DEF Silenced, ChangeInv
  <2> QED  BY <1>0, <2>1, <2>2, <2>3, <2>4, PartApplied, Zenon
<1>4. CASE ApplyAppender
  <2> DEFINE d == ChangeTo("add", c, c.todo, c.gone, Rest(ld))
             a == Head(ld.appenders)
             done == m_appenders[l]
             more == Append(done, WantedOf(m_formatter[l], a))
  <2>1. change' = d /\ c.at = "add" /\ d.at = "add" /\ d.ld = Rest(ld) /\ ld.appenders # <<>> /\ Rest(ld).name = l
    <3>1. c.at = "add" /\ change' = d /\ ld.appenders # <<>>
      BY <1>4, ListenerLocals, Zenon DEF ApplyAppender
    <3>2. d.at = "add" /\ d.ld = Rest(ld)
      BY Zenon DEF ChangeTo
    <3>3. Rest(ld).name = l
      BY Zenon DEF Rest
    <3> QED  BY <3>1, <3>2, <3>3, Zenon
  <2>0. a \in AppenderDefines /\ Wanted(l, a) = WantedOf(m_formatter[l], a)
    <3>1. \A q \in Seq(AppenderDefines) : q # <<>> => Head(q) \in AppenderDefines
      OBVIOUS
    <3>2. \A b : Wanted(l, b) = WantedOf(m_formatter[l], b)
      BY Zenon DEF Wanted, WantedOf
    <3> QED  BY <1>0, <2>1, <3>1, <3>2, Zenon
  <2>2. m_appenders' = [m_appenders EXCEPT ![l] = more]
    BY <1>0, <1>4, <2>0, AddedType, Zenon DEF ApplyAppender, AddAppender
  <2>3. /\ UNCHANGED <<logs, muted, m_loggers>> /\ \A k \in Names \ {l} : Alone(k)
        /\ m_level'[l] = m_level[l] /\ m_formatter'[l] = m_formatter[l] /\ m_appenders'[l] = more
    BY <1>0, <1>4, <2>2, Zenon DEF ApplyAppender, AddAppender, Alone
  <2>4. ASSUME NEW o \in Applicable, Applying(o)  PROVE Applying(o)'
    <3>1. Progress(o, d, m_level[l], m_formatter[l], more)
      <4>1. Progress(o, c, m_level[l], m_formatter[l], done)
        BY <2>4 DEF Applying
      <4> DEFINE rest == Tail(ld.appenders)
                 f == m_formatter[l]
      <4>2. Rest(ld).name = l /\ Rest(ld).level = ld.level /\ Rest(ld).formatter = ld.formatter /\ Rest(ld).appenders = rest
        BY DEF Rest
      <4>3. /\ Len(done) + Len(ld.appenders) = Len(o.appenders)
            /\ \A k \in 1..Len(done) : done[k] = WantedOf(f, o.appenders[k])
            /\ \A k \in 1..Len(ld.appenders) : ld.appenders[k] = o.appenders[Len(done) + k]
        BY <2>1, <4>1, Zenon DEF Progress
      <4>4. /\ done \in Seq(Appender) /\ Len(done) \in Nat /\ Len(ld.appenders) \in Nat \ {0}
            /\ WantedOf(f, a) \in Appender /\ a = ld.appenders[1]
            /\ Len(rest) = Len(ld.appenders) - 1 /\ \A k \in 1..Len(rest) : rest[k] = ld.appenders[k + 1]
        <5>1. \A q \in Seq(Appender) : Len(q) \in Nat
          OBVIOUS
        <5>2. ASSUME NEW q \in Seq(AppenderDefines), q # <<>>
              PROVE  /\ Len(q) \in Nat \ {0} /\ Head(q) = q[1]
                     /\ Len(Tail(q)) = Len(q) - 1 /\ \A k \in 1..Len(Tail(q)) : Tail(q)[k] = q[k + 1]
          BY <5>2
        <5>3. WantedOf(f, a) \in Appender
          <6>1. Wanted(l, a) \in Appender
            BY <1>0, <2>0, AddedType, Zenon
          <6> QED  BY <2>0, <6>1, Zenon
        <5> QED  BY <1>0, <2>1, <5>1, <5>2, <5>3, Zenon
      <4>5. /\ Len(more) = Len(done) + 1
            /\ \A k \in 1..Len(done) : more[k] = done[k]
            /\ more[Len(done) + 1] = WantedOf(f, a)
        <5>1. \A q \in Seq(Appender), x \in Appender :
                /\ Len(Append(q, x)) = Len(q) + 1 /\ Append(q, x)[Len(q) + 1] = x
                /\ \A k \in 1..Len(q) : Append(q, x)[k] = q[k]
          OBVIOUS
        <5> QED  BY <4>4, <5>1, Zenon
      <4> HIDE DEF more, rest, a
      <4>6. /\ Len(more) + Len(rest) = Len(o.appenders)
            /\ \A k \in 1..Len(more) : more[k] = WantedOf(f, o.appenders[k])
            /\ \A k \in 1..Len(rest) : rest[k] = o.appenders[Len(more) + k]
        <5>1. Len(more) + Len(rest) = Len(o.appenders)
          <6> DEFINE n == Len(done)
                     m == Len(ld.appenders)
          <6>1. n \in Nat /\ m \in Nat /\ Len(more) = n + 1 /\ Len(rest) = m - 1 /\ n + m = Len(o.appenders)
            BY <4>3, <4>4, <4>5, Zenon
          <6> HIDE DEF n, m
          <6>2. (n + 1) + (m - 1) = n + m
            BY <6>1
          <6> QED  BY <6>1, <6>2
        <5>2. ASSUME NEW k \in 1..Len(more)  PROVE more[k] = WantedOf(f, o.appenders[k])
          <6>1. a = o.appenders[Len(done) + 1]
            BY <4>3, <4>4
          <6>2. k \in 1..Len(done) \/ k = Len(done) + 1
            BY <4>4, <4>5
          <6> QED  BY <4>3, <4>5, <6>1, <6>2, Zenon
        <5>3. ASSUME NEW k \in 1..Len(rest)  PROVE rest[k] = o.appenders[Len(more) + k]
          <6> DEFINE n == Len(done)
                     m == Len(ld.appenders)
          <6>1. k \in 1..m - 1 /\ n \in Nat /\ m \in Nat /\ Len(more) = n + 1 /\ rest[k] = ld.appenders[k + 1]
            BY <4>4, <4>5, Zenon
          <6>2. k + 1 \in 1..m => ld.appenders[k + 1] = o.appenders[n + (k + 1)]
            BY <4>3, Zenon
          <6> HIDE DEF n, m
          <6>3. k + 1 \in 1..m /\ n + (k + 1) = (n + 1) + k
            BY <6>1
          <6> QED  BY <6>1, <6>2, <6>3, Zenon
        <5> QED  BY <5>1, <5>2, <5>3
      <4> HIDE DEF d
      <4> QED  BY <2>1, <4>1, <4>2, <4>6, Zenon DEF Progress
    <3> HIDE DEF d, more
    <3> QED  BY <2>1, <2>3, <2>4, <3>1, Zenon DEF Applying
  <2>5. ASSUME NEW k \in muted, k = l, Applying(Muting(k))  PROVE FALSE
    <3>1. Len(done) + Len(ld.appenders) = 0
      <4>1. Len(done) + Len(ld.appenders) = Len(Muting(k).appenders)
        BY <2>1, <2>5, Zenon DEF Applying, Progress
      <4> QED  BY <4>1, Zenon DEF Muting
    <3> DEFINE n == Len(done)
               m == Len(ld.appenders)
    <3>2. n \in Nat /\ m \in Nat /\ m # 0
      BY <1>0, <2>1
    <3>3. n + m = 0
      BY <3>1, Zenon
    <3> HIDE DEF n, m
    <3> QED  BY <3>2, <3>3
  <2> QED  BY <1>0, <2>1, <2>3, <2>4, <2>5, PartApplied, Zenon
<1> QED  BY <1>1, <1>2, <1>3, <1>4

\* The listener goes on to the next definition or name.
LEMMA TakeKeepsChange ==
  ASSUME LoggerTypeOK, ChangeInv, Take
  PROVE  ChangeInv'
<1> DEFINE c == change
<1>0. /\ c \in Changes /\ c # Idle /\ c.at = "take" /\ c.new \subseteq Defines /\ muted \subseteq Names \ Own
      /\ c.gone \subseteq Names \ Own
      /\ UNCHANGED <<m_level, m_formatter, m_appenders, logs>>
  BY ListenerLocals, ChangeKind, Zenon DEF Take
<1>1. /\ \A l \in muted : Silenced(l)
      /\ Unique(logs) /\ Unique(c.new) /\ c.todo \subseteq c.new /\ (\A d \in c.new : d.name \notin c.gone)
      /\ \A d \in c.new \ c.todo : Matches(d)
  BY <1>0, Zenon DEF ChangeInv
<1>2. m_loggers \subseteq m_loggers' => \A d \in c.new \ c.todo : Matches(d)'
  BY <1>0, <1>1, MatchFrame, Zenon DEF Alone
<1>3. \A l \in muted : Silenced(l)'
  BY <1>0, <1>1, Zenon DEF Silenced
<1>4. ASSUME NEW ld \in c.todo, TakesDefine(ld)  PROVE ChangeInv'
  <2> DEFINE d == ChangeTo("level", c, c.todo \ {ld}, c.gone, ld)
  <2>1. /\ change' = d /\ d.at = "level" /\ d.new = c.new /\ d.todo = c.todo \ {ld} /\ d.gone = c.gone /\ d.ld = ld
        /\ m_loggers' = m_loggers \cup {ld.name} /\ muted' = muted \ {ld.name}
    <3>1. change' = d /\ m_loggers' = m_loggers \cup {ld.name} /\ muted' = muted \ {ld.name}
      BY <1>4, Zenon DEF TakesDefine
    <3>2. d.at = "level" /\ d.new = c.new /\ d.todo = c.todo \ {ld} /\ d.gone = c.gone /\ d.ld = ld
      BY Zenon DEF ChangeTo
    <3> QED  BY <3>1, <3>2, Zenon
  <2> HIDE DEF d
  <2>2. change' # Idle
    <3>1. Idle.at = "idle" /\ "idle" # "level"
      BY DEF Idle
    <3> QED  BY <2>1, <3>1, Zenon
  <2>3. Applying(ld)'
    <3>1. \A level, f, done : Progress(ld, d, level, f, done)
      BY <2>1, Zenon DEF Progress
    <3> QED  BY <2>1, <3>1, Zenon DEF Applying
  <2> QED  BY <1>0, <1>1, <1>2, <1>3, <1>4, <2>1, <2>2, <2>3, SetsFixed, Zenon DEF ChangeInv, Unique
<1>5. ASSUME NEW name \in c.gone, TakesName(name)  PROVE ChangeInv'
  <2> DEFINE d == ChangeTo("level", c, c.todo, c.gone \ {name}, Muting(name))
  <2>1. /\ change' = d /\ d.at = "level" /\ d.new = c.new /\ d.todo = c.todo /\ d.gone = c.gone \ {name}
        /\ d.ld = Muting(name) /\ d.ld.name = name
        /\ m_loggers' = m_loggers \cup {name} /\ muted' = muted
    <3>1. Muting(name).name = name
      BY Zenon DEF Muting
    <3>2. change' = d /\ m_loggers' = m_loggers \cup {name} /\ muted' = muted
      BY <1>5, Zenon DEF TakesName
    <3>3. d.at = "level" /\ d.new = c.new /\ d.todo = c.todo /\ d.gone = c.gone \ {name} /\ d.ld = Muting(name)
      BY Zenon DEF ChangeTo
    <3> QED  BY <3>1, <3>2, <3>3, Zenon
  <2> HIDE DEF d
  <2>2. change' # Idle
    <3>1. Idle.at = "idle" /\ "idle" # "level"
      BY DEF Idle
    <3> QED  BY <2>1, <3>1, Zenon
  <2>3. Applying(Muting(change.ld.name))'
    <3>1. \A level, f, done : Progress(Muting(name), d, level, f, done)
      BY <2>1, Zenon DEF Progress
    <3> QED  BY <2>1, <3>1, Zenon DEF Applying, Muting
  <2> QED  BY <1>0, <1>1, <1>2, <1>3, <1>5, <2>1, <2>2, <2>3, SetsFixed, Zenon DEF ChangeInv, Unique
<1> QED  BY <1>4, <1>5, ListenerLocals, Zenon

\* A definition has been applied in full, or a logger muted.
LEMMA AppliedKeepsChange ==
  ASSUME LoggerTypeOK, ChangeInv, Applied
  PROVE  ChangeInv'
<1> DEFINE c == change
           ld == change.ld
           l == change.ld.name
           done == m_appenders[l]
<1>0. /\ c \in Changes /\ c # Idle /\ c.at = "add" /\ c.new \subseteq Defines /\ muted \subseteq Names \ Own
      /\ ld \in Applicable /\ l \in Names \ Own /\ ld.appenders = <<>> /\ done \in Seq(Appender)
      /\ UNCHANGED <<m_loggers, m_level, m_formatter, m_appenders, logs>>
  BY ListenerLocals, ChangeKind, Zenon DEF Applied, loggerVars, LoggerTypeOK
<1>1. /\ \A k \in muted : Silenced(k)
      /\ Unique(logs) /\ Unique(c.new) /\ c.todo \subseteq c.new /\ (\A d \in c.new : d.name \notin c.gone)
      /\ \A d \in c.new \ c.todo : d.name # l => Matches(d)
      /\ \/ l \notin muted /\ \E o \in c.new \ c.todo : Applying(o)
         \/ (\A d \in c.new : d.name # l) /\ Applying(Muting(l))
  BY <1>0, Zenon DEF ChangeInv
<1> DEFINE e == ChangeTo("take", c, c.todo, c.gone, None)
<1>2. change' = e /\ e.at = "take" /\ e.new = c.new /\ e.todo = c.todo /\ e.gone = c.gone
  <2>1. change' = e
    BY ListenerLocals, Zenon
  <2>2. e.at = "take" /\ e.new = c.new /\ e.todo = c.todo /\ e.gone = c.gone
    BY Zenon DEF ChangeTo
  <2> QED  BY <2>1, <2>2, Zenon
<1> HIDE DEF e
<1>3. change' # Idle
  <2>1. Idle.at = "idle" /\ "idle" # "take"
    BY DEF Idle
  <2> QED  BY <1>2, <2>1, Zenon
<1>4. SUFFICES (\A d \in c.new \ c.todo : Matches(d)) /\ \A k \in muted' : Silenced(k)
  <2>1. (\A d \in c.new \ c.todo : Matches(d)) => \A d \in c.new \ c.todo : Matches(d)'
    BY <1>0, MatchFrame, Zenon DEF Alone
  <2>2. (\A k \in muted' : Silenced(k)) => \A k \in muted' : Silenced(k)'
    BY <1>0 DEF Silenced
  <2> QED  BY <1>0, <1>1, <1>2, <1>3, <2>1, <2>2, SetsFixed, Zenon DEF ChangeInv, Unique
<1>5. ASSUME NEW o, Applying(o)
      PROVE  /\ o.name = l /\ o.level = ld.level /\ l \in m_loggers /\ m_level[l] = o.level
             /\ o.formatter \notin Bad \cup {""} => m_formatter[l] = o.formatter
             /\ Len(done) = Len(o.appenders)
             /\ \A k \in 1..Len(done) : done[k] = Wanted(l, o.appenders[k])
  <2>1. Progress(o, c, m_level[l], m_formatter[l], done) /\ l \in m_loggers
    BY <1>5 DEF Applying
  <2>2. \A a : WantedOf(m_formatter[l], a) = Wanted(l, a)
    BY DEF WantedOf, Wanted
  <2>3. Len(done) + Len(ld.appenders) = Len(o.appenders) /\ Len(ld.appenders) = 0 /\ Len(done) \in Nat
    <3>1. Len(ld.appenders) = 0 /\ Len(done) \in Nat
      BY <1>0
    <3> QED  BY <1>0, <2>1, <3>1, Zenon DEF Progress
  <2>4. Len(done) = Len(o.appenders)
    <3> DEFINE n == Len(done)
               m == Len(ld.appenders)
    <3>1. n \in Nat /\ m = 0 /\ n + m = Len(o.appenders)
      BY <2>3
    <3> HIDE DEF n, m
    <3>2. n = Len(o.appenders)
      BY <3>1
    <3> QED  BY <3>2 DEF n
  <2> QED  BY <1>0, <2>1, <2>2, <2>4, Zenon DEF Progress
<1>6. ASSUME l \notin muted, NEW o \in c.new \ c.todo, Applying(o)
      PROVE  (\A d \in c.new \ c.todo : Matches(d)) /\ \A k \in muted' : Silenced(k)
  <2>1. o \in Defines /\ o.appenders \in Seq(AppenderDefines) /\ o.level # Silent
    BY <1>0, ApplicableOnes, Zenon DEF Defines
  <2>2. done = [k \in DOMAIN o.appenders |-> Wanted(l, o.appenders[k])]
    <3>1. Len(done) = Len(o.appenders) /\ \A k \in 1..Len(done) : done[k] = Wanted(l, o.appenders[k])
      BY <1>5, <1>6, Zenon
    <3>2. DOMAIN done = 1..Len(done) /\ done = [k \in DOMAIN done |-> done[k]]
      BY <1>0
    <3>3. DOMAIN o.appenders = 1..Len(o.appenders)
      BY <2>1
    <3> QED  BY <3>1, <3>2, <3>3, Zenon
  <2>3. Matches(o)
    BY <1>5, <1>6, <2>2, Zenon DEF Matches
  <2>4. \A d \in c.new : d.name = l => d = o
    BY <1>1, <1>5, <1>6, Zenon DEF Unique
  <2>5. muted' = muted
    BY <1>5, <1>6, <2>1, Zenon DEF Applied
  <2> QED  BY <1>1, <2>3, <2>4, <2>5, Zenon
<1>7. ASSUME \A d \in c.new : d.name # l, Applying(Muting(l))
      PROVE  (\A d \in c.new \ c.todo : Matches(d)) /\ \A k \in muted' : Silenced(k)
  <2>1. m_level[l] = Silent /\ Len(done) = Len(Muting(l).appenders)
    <3>1. Muting(l).level = Silent
      BY DEF Muting
    <3> QED  BY <1>5, <1>7, <3>1, Zenon
  <2>2. done = <<>>
    BY <1>0, <2>1 DEF Muting
  <2>3. muted' \subseteq muted \cup {l}
    BY DEF Applied
  <2> QED  BY <1>1, <1>7, <2>1, <2>2, <2>3, Zenon DEF Silenced
<1> QED  BY <1>1, <1>6, <1>7, Zenon

-----------------------------------------------------------------------------
(* The invariant *)

\* fromString compares the new value with the old one.
LEMMA BeginKeepsChange ==
  ASSUME LoggerTypeOK, ChangeInv, NEW t \in Threads, NEW d \in DOMAIN Docs, Change(t, d)
  PROVE  ChangeInv'
<1>0. change = Idle /\ UNCHANGED <<m_loggers, m_level, m_formatter, m_appenders, logs, muted>>
  BY Zenon DEF Change, Call, Free, loggerVars
<1>1. PICK new \in FromLogDefines(Docs[d]) :
         change' = [at |-> "take", new |-> new, todo |-> new \ logs,
                    gone |-> {ld.name : ld \in logs} \ {ld.name : ld \in new}, ld |-> None]
  BY Zenon DEF Change
<1>2. /\ change'.at = "take" /\ change'.new = new /\ change'.todo = new \ logs
      /\ \A ld \in new : ld.name \notin change'.gone
  BY <1>1, Zenon
<1>3. change' # Idle
  BY <1>2 DEF Idle
<1>4. Unique(new)
  BY DocsAssumption, DefinesRead DEF LogsOK
<1>5. \A ld \in logs : Matches(ld)'
  BY <1>0, MatchFrame, Zenon DEF Alone, ChangeInv
<1>6. \A l \in muted : Silenced(l)'
  BY <1>0, Zenon DEF Silenced, ChangeInv
<1> QED  BY <1>0, <1>2, <1>3, <1>4, <1>5, <1>6, SetsFixed, Zenon DEF ChangeInv, Unique

\* setValue assigns when all has been applied.
LEMMA AssignKeepsChange ==
  ASSUME LoggerTypeOK, ChangeInv, Assign
  PROVE  ChangeInv'
<1>0. /\ change # Idle /\ change.at = "take" /\ change.todo = {}
      /\ logs' = change.new /\ change' = Idle
      /\ UNCHANGED <<m_loggers, m_level, m_formatter, m_appenders, muted>>
  BY DEF Assign, loggerVars, Idle
<1>1. Unique(change.new) /\ \A d \in change.new : Matches(d)
  BY <1>0, Zenon DEF ChangeInv
<1>2. \A d \in change.new : Matches(d)'
  BY <1>0, <1>1, MatchFrame, Zenon DEF Alone
<1>3. \A l \in muted : Silenced(l)'
  BY <1>0, Zenon DEF Silenced, ChangeInv
<1> QED  BY <1>0, <1>1, <1>2, <1>3, SetsFixed, Zenon DEF ChangeInv, Unique

\* Every step keeps the invariant.
LEMMA ChangeStepInv == LoggerInv /\ (~raced => ChangeInv) /\ [Next]_vars => (~raced => ChangeInv)'
<1> SUFFICES ASSUME LoggerTypeOK, ~raced => ChangeInv, [Next]_vars, ~raced'  PROVE ChangeInv'
  BY DEF LoggerInv
<1>1. CASE UNCHANGED vars
  BY <1>1, OthersKeepChange, Zenon DEF vars, loggerVars, Alone
<1>2. ASSUME NEW t \in Threads, Acts(t)  PROVE ChangeInv'
  <2>0. ChangeInv
    BY <1>2 DEF Acts, Step
  <2>1. ASSUME Check(t) \/ Enter(t) \/ Deliver(t) \/ Leave(t) \/ PrintLogger(t) \/ Printed(t) \/ PrintAll(t)
        PROVE  ChangeInv'
    BY <2>0, <2>1, OthersKeepChange, Zenon
      DEF Check, Enter, Deliver, Leave, PrintLogger, Printed, PrintAll, loggerVars, Alone
  <2>2. ASSUME NEW l \in Names, NEW level \in EventLevels, Log(t, l, level)  PROVE ChangeInv'
    BY <2>0, <2>2, OthersKeepChange, Zenon DEF Log, GetLogger, Alone
  <2>3. ASSUME NEW l \in Own, SetUp(t, l)  PROVE ChangeInv'
    <3>1. \A k \in Names \ Own : Alone(k)
      BY <2>3, LoggerAssumption, Zenon
        DEF SetUp, AddAppender, Added, DelAppender, SetFormatter, ClearAppenders, Alone, LoggerTypeOK
    <3> QED  BY <2>0, <2>3, <3>1, OthersKeepChange DEF SetUp
  <2> QED  BY <1>2, <2>0, <2>1, <2>2, <2>3, TakeKeepsChange, ApplyKeepsChange, AppliedKeepsChange,
              BeginKeepsChange, AssignKeepsChange, Zenon DEF Acts, Step
<1>3. Next => \E t \in Threads : Acts(t)
  BY DEF Next, Acts
<1> QED  BY <1>1, <1>2, <1>3

\* When the listener of "logs" is not at work, every logger defined has the level, the
\* formatter and the appenders of its definition, and every logger deleted since then
\* has level 100 and none (log.cc:1032), unless clearAppenders met a thread in a list.
THEOREM ConfigurationApplied == Spec => []ConfigApplied
<1>1. Init => ChangeInv
  BY Zenon DEF Init, ChangeInv, Unique
<1>2. LoggerTypeOK /\ (~raced => ChangeInv) => ConfigApplied
  BY Zenon DEF ChangeInv, ConfigApplied
<1> QED  BY <1>1, <1>2, ChangeStepInv, LoggerInvariance, PTL DEF Spec, LoggerInv

-----------------------------------------------------------------------------
(* What is printed of "logs" *)

LogsInv == LogsOK(logs) /\ (change # Idle => LogsOK(change.new))

\* The listener leaves the document that it applies alone.
LEMMA NewStays ==
  ASSUME LoggerTypeOK, change # Idle,
         Take \/ ApplyLevel \/ ApplyFormatter \/ ApplyClear \/ ApplyAppender \/ Applied
  PROVE  change'.new = change.new /\ UNCHANGED logs
<1>1. change \in Changes
  BY DEF LoggerTypeOK
<1>2. CASE Take
  BY <1>1, <1>2, Zenon DEF Take, Changes
<1>3. CASE ApplyLevel
  BY <1>1, <1>3 DEF ApplyLevel, Changes
<1>4. CASE ApplyFormatter
  BY <1>1, <1>4, Zenon DEF ApplyFormatter, Changes
<1>5. CASE ApplyClear
  BY <1>1, <1>5 DEF ApplyClear, Changes
<1>6. CASE ApplyAppender
  BY <1>1, <1>6 DEF ApplyAppender, Changes
<1>7. CASE Applied
  BY <1>1, <1>7 DEF Applied, Changes
<1> QED  BY <1>2, <1>3, <1>4, <1>5, <1>6, <1>7, Zenon

\* The value of "logs" has been read from a document, or is the first, empty one
\* (log.cc:1026).
LEMMA LogsStep == LoggerTypeOK /\ LogsInv /\ [Next]_vars => LogsInv'
<1> SUFFICES ASSUME LoggerTypeOK, LogsInv, [Next]_vars  PROVE LogsInv'
  OBVIOUS
<1>1. ASSUME UNCHANGED <<logs, change>>  PROVE LogsInv'
  BY <1>1 DEF LogsInv
<1>2. ASSUME NEW t \in Threads, Acts(t)  PROVE LogsInv'
  <2>1. ASSUME NEW d \in DOMAIN Docs, Change(t, d)  PROVE LogsInv'
    <3>1. PICK new \in FromLogDefines(Docs[d]) : change'.new = new
      <4>1. PICK x \in FromLogDefines(Docs[d]) :
              change' = [at |-> "take", new |-> x, todo |-> x \ logs,
                         gone |-> {ld.name : ld \in logs} \ {ld.name : ld \in x}, ld |-> None]
        BY <2>1, Zenon DEF Change
      <4>2. change'.new = x
        BY <4>1, Zenon
      <4> QED  BY <4>2, Zenon
    <3>2. LogsOK(new)
      BY <3>1, DocsAssumption, DefinesRead, Zenon
    <3>3. UNCHANGED logs
      BY <2>1, Zenon DEF Change
    <3> QED  BY <3>1, <3>2, <3>3 DEF LogsInv
  <2>2. CASE Assign
    <3>1. logs' = change.new /\ change' = Idle /\ change # Idle
      BY <2>2 DEF Assign, Idle
    <3> QED  BY <3>1 DEF LogsInv
  <2>3. CASE Take \/ ApplyLevel \/ ApplyFormatter \/ ApplyClear \/ ApplyAppender \/ Applied
    <3>0. change.at \in {"take", "level", "formatter", "clear", "add"} /\ Idle.at = "idle"
      <4>1. Idle.at = "idle"
        BY DEF Idle
      <4>2. change.at \in {"take", "level", "formatter", "clear", "add"}
        BY <2>3, Zenon DEF Take, ApplyLevel, ApplyFormatter, ApplyClear, ApplyAppender, Applied
      <4> QED  BY <4>1, <4>2
    <3>1. change # Idle
      BY <3>0
    <3> QED  BY <2>3, <3>1, NewStays DEF LogsInv
  <2>4. ASSUME Check(t) \/ Enter(t) \/ Deliver(t) \/ Leave(t) \/ PrintLogger(t) \/ Printed(t) \/ PrintAll(t)
        PROVE  LogsInv'
    BY <1>1, <2>4, Zenon DEF Check, Enter, Deliver, Leave, PrintLogger, Printed, PrintAll
  <2>5. ASSUME NEW l \in Names, NEW level \in EventLevels, Log(t, l, level)  PROVE LogsInv'
    BY <1>1, <2>5 DEF Log
  <2>6. ASSUME NEW l \in Own, SetUp(t, l)  PROVE LogsInv'
    BY <1>1, <2>6 DEF SetUp
  <2> QED  BY <1>2, <2>1, <2>2, <2>3, <2>4, <2>5, <2>6 DEF Acts, Step
<1>3. Next => \E t \in Threads : Acts(t)
  BY DEF Next, Acts
<1>4. CASE UNCHANGED vars
  BY <1>1, <1>4 DEF vars
<1> QED  BY <1>2, <1>3, <1>4

\* What print_log_config_var prints of "logs" (log.cc:1117) is read to the same value, for
\* any documents loaded before, unless an appender to a file has no name of one.
THEOREM LogsReloaded == Spec => []LogsReloads
<1>1. Init => LogsInv
  BY FS_EmptySet, Zenon DEF Init, LogsInv, LogsOK, Unique
<1>2. LogsInv => LogsReloads
  <2>1. \A ld \in logs : ~Nameless(ld) => AllNamed(ld)
    BY Zenon DEF Nameless, AllNamed, Named
  <2> QED  BY <2>1, DefinesBack DEF LogsInv, LogsReloads
<1> QED  BY <1>1, <1>2, LogsStep, LoggerInvariance, PTL DEF Spec, LoggerInv

=============================================================================
