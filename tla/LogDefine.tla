------------------------------ MODULE LogDefine ------------------------------
(***************************************************************************)
(* LogDefine and LogAppenderDefine (sylar/log.cc): what the configuration  *)
(* says of a logger, and its conversion from a YAML tree and back.  A tree *)
(* that lacks something gives what was read until then; a scalar where a   *)
(* map should be makes yaml-cpp throw.                                     *)
(***************************************************************************)
EXTENDS LexicalCast

Levels == <<"DEBUG", "INFO", "WARN", "ERROR", "FATAL">>
UNKNOW == 0

\* LogLevel::ToString and FromString (whose texts are in upper case here).
LevelToString(level) == IF level \in DOMAIN Levels THEN Levels[level] ELSE "UNKNOW"
LevelFromString(str) ==
  IF \E k \in DOMAIN Levels : Levels[k] = str THEN CHOOSE k \in DOMAIN Levels : Levels[k] = str
  ELSE UNKNOW

File == "FileLogAppender"
Stdout == "StdoutLogAppender"

\* node[key]: the first pair with the key.  Only a map has any.
Undefined == [kind |-> "undefined"]
Get(node, key) ==
  LET at == {k \in DOMAIN node.v : node.v[k][1] = key} IN
  IF node.kind = "map" /\ at # {} THEN node.v[CHOOSE k \in at : \A j \in at : k <= j][2]
  ELSE Undefined

TextOf(node) == IF node.kind = "text" THEN node.v ELSE ""
OptionalText(node) == node.kind = "undefined" \/ IsScalar(node)

-----------------------------------------------------------------------------
(* From a tree *)

\* _read_an_appender: does it return true, and the lad it filled in.
AppenderIsRead(node) ==
  /\ TextOf(Get(node, "type")) \in {File, Stdout}
  /\ TextOf(Get(node, "type")) = File => IsScalar(Get(node, "file"))
  /\ OptionalText(Get(node, "level")) /\ OptionalText(Get(node, "formatter"))

ReadAppender(node) ==
  [type |-> TextOf(Get(node, "type")),
   file |-> IF TextOf(Get(node, "type")) = File THEN TextOf(Get(node, "file")) ELSE "",
   level |-> LevelFromString(TextOf(Get(node, "level"))),
   formatter |-> TextOf(Get(node, "formatter"))]

\* The nth of a set of numbers.
Nth(S, n) == CHOOSE k \in S : Cardinality({j \in S : j <= k}) = n

\* LexicalCast<std::string, LogDefine>: the reads in order, up to one that fails.
\* An appender that cannot be read is left out.
FromLogDefine(node) ==
  LET name == IsScalar(Get(node, "name"))
      level == name /\ IsScalar(Get(node, "level"))
      formatter == level /\ OptionalText(Get(node, "formatter"))
      list == IF formatter /\ Get(node, "appenders").kind = "seq" THEN Get(node, "appenders").v
              ELSE <<>>
      good == {k \in DOMAIN list : AppenderIsRead(list[k])}
  IN  IF IsScalar(node) \/ \E k \in DOMAIN list : IsScalar(list[k]) THEN {}
      ELSE {[name |-> IF name THEN TextOf(Get(node, "name")) ELSE "",
             level |-> IF level THEN LevelFromString(TextOf(Get(node, "level"))) ELSE UNKNOW,
             formatter |-> IF formatter THEN TextOf(Get(node, "formatter")) ELSE "",
             appenders |-> [n \in 1..Cardinality(good) |-> ReadAppender(list[Nth(good, n)])]]}

-----------------------------------------------------------------------------
(* To a tree *)

\* A text that is empty is left out, and so is a level that is not known.
ToAppender(a) ==
  LET text == [file |-> a.file, formatter |-> a.formatter, type |-> a.type,
               level |-> IF a.level = UNKNOW THEN "" ELSE LevelToString(a.level)]
  IN  ToMap([key \in {"type"} \cup {f \in DOMAIN text : text[f] # ""} |-> Text(text[key])])

\* Faulty variant: the level is printed as a number, as the enum is by default.
ToLogDefine_Number(ld) ==
  ToMap([name |-> Text(ld.name), level |-> Number(ld.level), formatter |-> Text(ld.formatter),
         appenders |-> SeqNode([k \in DOMAIN ld.appenders |-> ToAppender(ld.appenders[k])])])

\* LexicalCast<LogDefine, std::string>.  No appender makes a null node.
ToLogDefine(ld) ==
  ToMap([name |-> Text(ld.name), level |-> Text(LevelToString(ld.level)), formatter |-> Text(ld.formatter),
         appenders |-> SeqNode([k \in DOMAIN ld.appenders |-> ToAppender(ld.appenders[k])])])

\* std::set<LogDefine>, where operator< compares the names alone.
FromLogDefines(node) ==
  LET elements == Elements(node) IN
  {Inserted(s, [i \in DOMAIN s |-> s[i].name])
     : s \in FromElements([i \in DOMAIN elements |-> FromLogDefine(elements[i])])}
ToLogDefines(S) == SetText([ld \in S |-> ToLogDefine(ld)])

\* The tree and its lists are as the parser builds them.
TreeOK(node) ==
  /\ IsList(Elements(node))
  /\ \A i \in DOMAIN Elements(node) :
       LET list == Get(Elements(node)[i], "appenders") IN list.kind = "seq" => IsList(list.v)

=============================================================================
