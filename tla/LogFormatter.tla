----------------------------- MODULE LogFormatter -----------------------------
(***************************************************************************)
(* sylar::LogFormatter::init() (sylar/log.cc): the parser that turns the   *)
(* pattern of a formatter into items.  It reads the pattern once, in three *)
(* states, and is meant for "%xxx %xxx{xxx} %%": a named item, a named     *)
(* item with a format, a per cent sign; anything else is plain text.       *)
(*                                                                         *)
(* A character is a string.  Which letters there are, and which names are  *)
(* in the table s_format_items, is up to the constants.                    *)
(***************************************************************************)
EXTENDS Naturals, Sequences, SequencesExt

CONSTANTS
  Letters,   \* the characters isalpha accepts
  Others,    \* the other characters, apart from % { }
  Names,     \* the keys of s_format_items
  MaxLen     \* bound: length of a pattern

ASSUME LogFormatterAssumption ==
  /\ Letters \cap Others = {}
  /\ (Letters \cup Others) \cap {"%", "{", "}", "<<error_pattern>>", "<<error_format %"} = {}
  /\ Names \subseteq Seq(Letters) /\ <<>> \notin Names
  /\ MaxLen \in Nat

Chars == Letters \cup Others \cup {"%", "{", "}"}

VARIABLES
  m_pattern,
  i,            \* characters read
  status,
  nstr,         \* plain text not yet in vec
  pstr, pfmt,   \* name and format of the item being read
  vec,
  m_error,
  m_items,
  done          \* has init() returned

vars == <<m_pattern, i, status, nstr, pstr, pfmt, vec, m_error, m_items, done>>

\* The tuples in vec: plain text, an item of the table, <<error_pattern>>.
Text(s) == [type |-> 0, str |-> s, fmt |-> <<>>]
Item(s, f) == [type |-> 1, str |-> s, fmt |-> f]
Error == [type |-> 0, str |-> <<"<<error_pattern>>">>, fmt |-> <<>>]

\* What m_items holds in place of an item whose name is not in the table.
ErrorFormat(s) == Text(<<"<<error_format %">> \o s)

TypeOK ==
  /\ m_pattern \in Seq(Chars) /\ i \in 0..Len(m_pattern)
  /\ status \in {"NORMAL_STRING", "PARSING_STR", "PARSING_FMT"}
  /\ nstr \in Seq(Chars) /\ pstr \in Seq(Letters) /\ pfmt \in Seq(Chars)
  /\ m_error \in BOOLEAN /\ done \in BOOLEAN

Init ==
  /\ m_pattern \in BoundedSeq(Chars, MaxLen)
  /\ i = 0 /\ status = "NORMAL_STRING"
  /\ nstr = <<>> /\ pstr = <<>> /\ pfmt = <<>> /\ vec = <<>>
  /\ m_error = FALSE /\ m_items = <<>> /\ done = FALSE

-----------------------------------------------------------------------------
(* One turn of the loop *)

\* The turn is in state s and reads character c.
Reads(s, c) == status = s /\ i < Len(m_pattern) /\ m_pattern[i + 1] = c

\* There is a next character and it is a per cent sign.
Doubled == i + 1 < Len(m_pattern) /\ m_pattern[i + 2] = "%"

Advance(n, s) ==
  /\ i' = i + n
  /\ status' = s
  /\ UNCHANGED <<m_pattern, m_items, done>>

\* The item that is being read goes into vec as e, and the next one is empty.
EndItem(e) ==
  /\ vec' = Append(vec, e)
  /\ pstr' = <<>> /\ pfmt' = <<>>

NormalEscape ==
  /\ Reads("NORMAL_STRING", "%") /\ Doubled
  /\ nstr' = Append(nstr, "%")
  /\ Advance(2, "NORMAL_STRING")
  /\ UNCHANGED <<pstr, pfmt, vec, m_error>>

\* Faulty variant: the text before an item is not cleared.
NormalPercent_KeepsText ==
  /\ Reads("NORMAL_STRING", "%") /\ ~Doubled
  /\ vec' = IF nstr = <<>> THEN vec ELSE Append(vec, Text(nstr))
  /\ Advance(1, "PARSING_STR")
  /\ UNCHANGED <<nstr, pstr, pfmt, m_error>>

NormalPercent ==
  /\ Reads("NORMAL_STRING", "%") /\ ~Doubled
  /\ vec' = IF nstr = <<>> THEN vec ELSE Append(vec, Text(nstr))
  /\ nstr' = <<>>
  /\ Advance(1, "PARSING_STR")
  /\ UNCHANGED <<pstr, pfmt, m_error>>

NormalChar(c) ==
  /\ c # "%" /\ Reads("NORMAL_STRING", c)
  /\ nstr' = Append(nstr, c)
  /\ Advance(1, "NORMAL_STRING")
  /\ UNCHANGED <<pstr, pfmt, vec, m_error>>

StrOpen ==
  /\ Reads("PARSING_STR", "{")
  /\ Advance(1, "PARSING_FMT")
  /\ UNCHANGED <<nstr, pstr, pfmt, vec, m_error>>

StrClose ==
  /\ Reads("PARSING_STR", "}")
  /\ EndItem(Error)
  /\ m_error' = TRUE
  /\ Advance(1, "NORMAL_STRING")
  /\ UNCHANGED nstr

\* Faulty variant: the second sign of a doubled one is read again.
StrEscape_OffByOne ==
  /\ Reads("PARSING_STR", "%") /\ Doubled
  /\ EndItem(Item(pstr, pfmt))
  /\ nstr' = Append(nstr, "%")
  /\ Advance(1, "NORMAL_STRING")
  /\ UNCHANGED m_error

StrEscape ==
  /\ Reads("PARSING_STR", "%") /\ Doubled
  /\ EndItem(Item(pstr, pfmt))
  /\ nstr' = Append(nstr, "%")
  /\ Advance(2, "NORMAL_STRING")
  /\ UNCHANGED m_error

StrPercent ==
  /\ Reads("PARSING_STR", "%") /\ ~Doubled
  /\ EndItem(Item(pstr, pfmt))
  /\ Advance(1, "PARSING_STR")
  /\ UNCHANGED <<nstr, m_error>>

StrOther(c) ==
  /\ c \in Others /\ Reads("PARSING_STR", c)
  /\ EndItem(Item(pstr, pfmt))
  /\ nstr' = Append(nstr, c)
  /\ Advance(1, "NORMAL_STRING")
  /\ UNCHANGED m_error

StrLetter(c) ==
  /\ c \in Letters /\ Reads("PARSING_STR", c)
  /\ pstr' = Append(pstr, c)
  /\ Advance(1, "PARSING_STR")
  /\ UNCHANGED <<nstr, pfmt, vec, m_error>>

FmtClose ==
  /\ Reads("PARSING_FMT", "}")
  /\ EndItem(Item(pstr, pfmt))
  /\ Advance(1, "NORMAL_STRING")
  /\ UNCHANGED <<nstr, m_error>>

\* Faulty variant: the item is marked in vec, m_error is forgotten.
FmtOpen_NoFlag ==
  /\ Reads("PARSING_FMT", "{")
  /\ EndItem(Error)
  /\ Advance(1, "NORMAL_STRING")
  /\ UNCHANGED <<nstr, m_error>>

FmtOpen ==
  /\ Reads("PARSING_FMT", "{")
  /\ EndItem(Error)
  /\ m_error' = TRUE
  /\ Advance(1, "NORMAL_STRING")
  /\ UNCHANGED nstr

FmtChar(c) ==
  /\ c \notin {"{", "}"} /\ Reads("PARSING_FMT", c)
  /\ pfmt' = Append(pfmt, c)
  /\ Advance(1, "PARSING_FMT")
  /\ UNCHANGED <<nstr, pstr, vec, m_error>>

-----------------------------------------------------------------------------
(* After the loop *)

Known(e) == e.type = 0 \/ e.str \in Names

\* The parse end check adds one tuple, <<error_pattern>> if nothing is pending.
LastTuple ==
  CASE status = "PARSING_STR" -> Item(pstr, pfmt)
    [] status = "NORMAL_STRING" /\ nstr # <<>> -> Text(nstr)
    [] OTHER -> Error

\* The end check, and the loop that looks the names up in the table.
Finish ==
  LET all == Append(vec, LastTuple) IN
  /\ ~done /\ i = Len(m_pattern)
  /\ vec' = all
  /\ m_error' = (m_error \/ LastTuple = Error \/ \E k \in DOMAIN all : ~Known(all[k]))
  /\ m_items' = [k \in DOMAIN all |->
                   IF Known(all[k]) THEN all[k] ELSE ErrorFormat(all[k].str)]
  /\ done' = TRUE
  /\ UNCHANGED <<m_pattern, i, status, nstr, pstr, pfmt>>

Next ==
  \/ NormalEscape \/ NormalPercent \/ (\E c \in Chars : NormalChar(c))
  \/ StrOpen \/ StrClose \/ StrEscape \/ StrPercent
  \/ (\E c \in Others : StrOther(c)) \/ (\E c \in Letters : StrLetter(c))
  \/ FmtClose \/ FmtOpen \/ (\E c \in Chars : FmtChar(c))
  \/ Finish

Spec == Init /\ [][Next]_vars

-----------------------------------------------------------------------------
(* Properties *)

\* The shortest way to write a tuple of vec in a pattern.
Escaped(s) == FlattenSeq([k \in DOMAIN s |-> IF s[k] = "%" THEN <<"%", "%">> ELSE <<s[k]>>])
Written(e) ==
  IF e.type = 0 THEN Escaped(e.str)
  ELSE <<"%">> \o e.str \o (IF e.fmt = <<>> THEN <<>> ELSE <<"{">> \o e.fmt \o <<"}">>)

WrittenAll(v) == FlattenSeq([k \in DOMAIN v |-> Written(v[k])])

\* What the parser has read and not yet put into vec.
Pending ==
  IF done THEN <<>> ELSE
  CASE status = "NORMAL_STRING" -> Escaped(nstr)
    [] status = "PARSING_STR" -> <<"%">> \o pstr
    [] OTHER -> <<"%">> \o pstr \o <<"{">> \o pfmt

\* The pattern has a format in braces that is empty; it reads like none.
EmptyFormat == \E k \in 1..(Len(m_pattern) - 1) : SubSeq(m_pattern, k, k + 1) = <<"{", "}">>

(***************************************************************************)
(* The parser drops, duplicates and reorders nothing: until it meets an    *)
(* error, vec and what is pending, written out again, are the characters   *)
(* that the loop of init() has read.                                       *)
(***************************************************************************)
NothingLost ==
  ~m_error /\ ~EmptyFormat =>
    WrittenAll(vec) \o Pending = SubSeq(m_pattern, 1, i)

(***************************************************************************)
(* The reference: a sentence is made of words, "%name", "%name{format}",   *)
(* "%%" and plain characters, where a name without a format reaches to the *)
(* next character that is neither a letter nor a brace.                    *)
(***************************************************************************)
IsPlain(w) == w = <<"%", "%">> \/ \E c \in Chars \ {"%"} : w = <<c>>
IsBare(w) == w[1] = "%" /\ Tail(w) \in Names
IsBraced(w) ==
  /\ w[Len(w)] = "}"
  /\ \E k \in 2..(Len(w) - 1) :
       /\ IsBare(SubSeq(w, 1, k - 1)) /\ w[k] = "{"
       /\ \A j \in (k + 1)..(Len(w) - 1) : w[j] \notin {"{", "}"}

Sentence(p) ==
  LET n == Len(p)
      From[k \in 1..(n + 1)] ==
        \/ k = n + 1
        \/ \E e \in k..n :
             LET w == SubSeq(p, k, e) IN
             /\ \/ IsPlain(w) \/ IsBraced(w)
                \/ IsBare(w) /\ (e = n \/ p[e + 1] \notin Letters \cup {"{", "}"})
             /\ From[e + 1]
  IN  From[1]

Documented(p) == p # <<>> /\ Sentence(p)

\* A sentence whose last word is an item with a format.
EndsBraced(p) ==
  \E k \in DOMAIN p : Sentence(SubSeq(p, 1, k - 1)) /\ IsBraced(SubSeq(p, k, Len(p)))

(***************************************************************************)
(* isError() answers as the grammar does, with two exceptions: the end     *)
(* check of init() takes a pattern that ends with a format in braces, and  *)
(* the empty pattern, for an error.                                        *)
(***************************************************************************)
ErrorExact ==
  done => (m_error <=> ~Documented(m_pattern) \/ EndsBraced(m_pattern))

\* isError() and what format() writes agree: a formatter with an error shows it
\* in every line it formats, one without never does.
ErrorShown ==
  done => (m_error <=> \E k \in DOMAIN m_items :
                         m_items[k] = Error \/ (m_items[k].str # <<>> /\ m_items[k].str[1] = "<<error_format %"))

(***************************************************************************)
(* "%xxx %xxx{xxx} %%" (log.cc:501): every pattern made of these, with     *)
(* names of the table, is accepted.                                        *)
(***************************************************************************)
DocumentedAccepted ==
  done /\ Documented(m_pattern) /\ ~EmptyFormat => ~m_error

=============================================================================
