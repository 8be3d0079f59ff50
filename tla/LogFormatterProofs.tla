-------------------------- MODULE LogFormatterProofs --------------------------
(***************************************************************************)
(* LogFormatter::init() neither loses nor invents a character, and what it *)
(* calls an error is what format() shows as one, for every pattern of any  *)
(* length over any characters, and for every table of items.               *)
(***************************************************************************)
EXTENDS LogFormatter, SequenceTheorems, WellFoundedInduction, TLAPS

-----------------------------------------------------------------------------
(* FlattenSeq, one sequence at a time *)

\* A set of naturals that is not empty has a least member: induction over the
\* turns of a loop, as a fact about sets.
LEMMA Least ==
  ASSUME NEW T \in SUBSET Nat, T # {}
  PROVE  \E x \in T : \A y \in T : x <= y
<1>1. PICK x \in T : \A y \in T : ~ (<<y, x>> \in OpToRel(<, Nat))
  BY NatLessThanWellFounded, WFMin, Zenon
<1>2. \A y \in T : ~(y < x)
  BY <1>1, Zenon DEF OpToRel
<1> QED  BY <1>2

\* g holds the concatenations of the first 1, 2, ... n members of seqs.
IsFlat(g, seqs, n) ==
  \A k \in 1..n : g[k] = IF k = 1 THEN seqs[k] ELSE g[k - 1] \o seqs[k]

\* There are such concatenations.
LEMMA FlatExists ==
  ASSUME NEW S, NEW seqs \in Seq(Seq(S)), NEW m \in 0..Len(seqs)
  PROVE  \E g \in [1..m -> Seq(S)] : IsFlat(g, seqs, m)
<1> DEFINE Bad == {n \in 0..Len(seqs) : ~\E g \in [1..n -> Seq(S)] : IsFlat(g, seqs, n)}
<1> SUFFICES ASSUME Bad # {}  PROVE FALSE
  BY Zenon
<1>1. PICK n \in Bad : \A y \in Bad : n <= y
  <2>1. Bad \in SUBSET Nat
    OBVIOUS
  <2> HIDE DEF Bad
  <2> QED  BY <2>1, Least
<1>2. n \in Nat /\ n <= Len(seqs)
  OBVIOUS
<1>3. n # 0
  <2>1. \E g \in [1..0 -> Seq(S)] : IsFlat(g, seqs, 0)
    <3>1. [k \in 1..0 |-> <<>>] \in [1..0 -> Seq(S)] /\ IsFlat([k \in 1..0 |-> <<>>], seqs, 0)
      BY DEF IsFlat
    <3> QED  BY <3>1, Zenon
  <2> QED  BY <2>1, Zenon
<1>4. n - 1 \notin Bad /\ n - 1 \in 0..Len(seqs)
  <2>1. n - 1 \in 0..Len(seqs) /\ ~(n <= n - 1)
    BY <1>2, <1>3
  <2> HIDE DEF Bad
  <2> QED  BY <1>1, <2>1
<1>5. PICK g \in [1..n - 1 -> Seq(S)] : IsFlat(g, seqs, n - 1)
  BY <1>4
<1> DEFINE h == [k \in 1..n |-> IF k = n THEN (IF n = 1 THEN seqs[n] ELSE g[n - 1] \o seqs[n]) ELSE g[k]]
<1>6. h \in [1..n -> Seq(S)]
  <2>1. seqs[n] \in Seq(S) /\ (n # 1 => g[n - 1] \in Seq(S))
    BY <1>2, <1>3
  <2>2. n # 1 => g[n - 1] \o seqs[n] \in Seq(S)
    BY <2>1
  <2> QED  BY <1>2, <1>3, <2>1, <2>2
<1>7. IsFlat(h, seqs, n)
  <2> SUFFICES ASSUME NEW k \in 1..n  PROVE h[k] = IF k = 1 THEN seqs[k] ELSE h[k - 1] \o seqs[k]
    BY Zenon DEF IsFlat
  <2>1. CASE k = n
    <3>1. n # 1 => h[n - 1] = g[n - 1]
      BY <1>2, <1>3
    <3> QED BY <2>1, <3>1, <1>2, <1>3
  <2>2. CASE k # n
    <3>1. k \in 1..n - 1 /\ h[k] = g[k] /\ (k # 1 => h[k - 1] = g[k - 1])
      BY <1>2, <2>2
    <3> QED  BY <1>5, <3>1, Zenon DEF IsFlat
  <2> QED  BY <2>1, <2>2
<1> QED  BY <1>6, <1>7, Zenon

\* They depend on those members only.
LEMMA FlatUnique ==
  ASSUME NEW s, NEW t, NEW f, NEW g, NEW n \in Nat, IsFlat(f, s, n), IsFlat(g, t, n),
         \A k \in 1..n : s[k] = t[k]
  PROVE  \A k \in 1..n : f[k] = g[k]
<1> DEFINE Bad == {k \in 1..n : f[k] # g[k]}
<1> SUFFICES ASSUME Bad # {}  PROVE FALSE
  OBVIOUS
<1>1. PICK k \in Bad : \A y \in Bad : k <= y
  <2>1. Bad \in SUBSET Nat
    OBVIOUS
  <2> HIDE DEF Bad
  <2> QED  BY <2>1, Least
<1>2. CASE k = 1
  BY <1>1, <1>2 DEF IsFlat
<1>3. CASE k # 1
  <2>1. k - 1 \in 1..n /\ k - 1 \notin Bad
    BY <1>1, <1>3
  <2> QED  BY <1>1, <1>3, <2>1 DEF IsFlat
<1> QED  BY <1>2, <1>3

\* FlattenSeq is the last of them.
LEMMA FlattenIs ==
  ASSUME NEW S, NEW seqs \in Seq(Seq(S)), seqs # <<>>, NEW g, IsFlat(g, seqs, Len(seqs))
  PROVE  FlattenSeq(seqs) = g[Len(seqs)]
<1> DEFINE n == Len(seqs)
           Is(f) == f = [k \in 1..n |-> IF k = 1 THEN seqs[k] ELSE f[k - 1] \o seqs[k]]
<1>0. n \in Nat /\ n # 0 /\ n \in 0..Len(seqs)
  OBVIOUS
<1>1. PICK h \in [1..n -> Seq(S)] : IsFlat(h, seqs, n)
  <2> HIDE DEF n
  <2> QED  BY ZenonT(30), <1>0, FlatExists
<1>2. Is(h)
  BY <1>1, Zenon DEF IsFlat
<1> DEFINE f == CHOOSE f : Is(f)
<1>3. Is(f)
  BY <1>2, Zenon
<1>4. IsFlat(f, seqs, n)
  BY <1>3, Zenon DEF IsFlat
<1>5. FlattenSeq(seqs) = f[n]
  BY <1>0 DEF FlattenSeq
<1>6. f[n] = g[n]
  BY <1>0, <1>4, FlatUnique
<1> QED  BY <1>5, <1>6

\* What vec.push_back adds to the end of vec is written at the end.
LEMMA FlattenAppend ==
  ASSUME NEW S, NEW seqs \in Seq(Seq(S)), NEW x \in Seq(S)
  PROVE  /\ FlattenSeq(seqs) \in Seq(S)
         /\ FlattenSeq(Append(seqs, x)) = FlattenSeq(seqs) \o x
<1> DEFINE n == Len(seqs)
           all == Append(seqs, x)
<1>0. /\ n \in Nat /\ all \in Seq(Seq(S)) /\ all # <<>> /\ Len(all) = n + 1
      /\ all[n + 1] = x /\ \A k \in 1..n : all[k] = seqs[k]
  <2> DEFINE T == Seq(S)
  <2>1. seqs \in Seq(T) /\ x \in T
    OBVIOUS
  <2> HIDE DEF T
  <2>2. all \in Seq(T) /\ Len(seqs) \in Nat
    BY <2>1
  <2>3. all # <<>> /\ Len(all) = n + 1 /\ all[n + 1] = x /\ \A k \in 1..n : all[k] = seqs[k]
    BY <2>1, AppendProperties
  <2> USE DEF T
  <2> QED  BY <2>2, <2>3
<1>1. PICK g \in [1..n + 1 -> Seq(S)] : IsFlat(g, all, n + 1)
  <2>1. n + 1 \in 0..Len(all)
    BY <1>0
  <2> HIDE DEF all, n
  <2> QED  BY <1>0, <2>1, FlatExists, Zenon
<1>2. FlattenSeq(all) = g[n + 1]
  <2> HIDE DEF all
  <2> QED  BY <1>0, <1>1, FlattenIs
<1>3. CASE n = 0
  <2>1. seqs = <<>> /\ FlattenSeq(seqs) = <<>>
    BY <1>3 DEF FlattenSeq
  <2>2. g[n + 1] = x
    <3>1. \A k \in 1..n + 1 : k = 1 => g[k] = all[k]
      <4> HIDE DEF all, n
      <4> QED  BY <1>1, Zenon DEF IsFlat
    <3> HIDE DEF all, n
    <3> QED  BY <1>0, <1>3, <3>1
  <2>3. <<>> \in Seq(S) /\ <<>> \o x = x
    BY ConcatEmptySeq
  <2>4. FlattenSeq(seqs) = <<>>
    BY <2>1
  <2> HIDE DEF all, n
  <2>5. FlattenSeq(all) = FlattenSeq(seqs) \o x
    BY <1>2, <2>2, <2>3, <2>4
  <2> QED  BY <2>3, <2>4, <2>5 DEF all
<1>4. CASE n # 0
  <2>1. IsFlat(g, seqs, n)
    <3>1. \A k \in 1..n : k \in 1..n + 1 /\ all[k] = seqs[k]
      <4> HIDE DEF all, n
      <4> QED  BY <1>0
    <3> HIDE DEF all, n
    <3> QED  BY <1>1, <3>1, Zenon DEF IsFlat
  <2>2. FlattenSeq(seqs) = g[n]
    BY <1>4, <2>1, FlattenIs
  <2>3. g[n] \in Seq(S) /\ g[n + 1] = g[n] \o x
    <3>1. n \in 1..n + 1 /\ n + 1 \in 1..n + 1 /\ n + 1 # 1 /\ (n + 1) - 1 = n
      <4> HIDE DEF all, n
      <4> QED  BY <1>0, <1>4
    <3> HIDE DEF all, n
    <3> QED  BY <1>0, <1>1, <3>1, Zenon DEF IsFlat
  <2> QED  BY <1>2, <2>2, <2>3
<1> QED  BY <1>3, <1>4

-----------------------------------------------------------------------------
(* Writing a tuple out *)

\* The characters of vec: those of patterns, and the marks of errors.
Symbols == Chars \cup {"<<error_pattern>>"}
Tuples == [type : {0, 1}, str : Seq(Symbols), fmt : Seq(Symbols)]

Sign(c) == IF c = "%" THEN <<"%", "%">> ELSE <<c>>

\* Plain text is escaped one character after the other (nstr.push_back).
LEMMA EscapedAppend ==
  ASSUME NEW s \in Seq(Symbols), NEW c \in Symbols
  PROVE  /\ Escaped(s) \in Seq(Symbols)
         /\ Escaped(Append(s, c)) = Escaped(s) \o Sign(c)
<1> DEFINE e == [k \in DOMAIN s |-> Sign(s[k])]
           f == [k \in DOMAIN Append(s, c) |-> Sign(Append(s, c)[k])]
<1>1. \A d \in Symbols : Sign(d) \in Seq(Symbols)
  <2>1. "%" \in Symbols
    BY Zenon DEF Symbols, Chars
  <2> QED  BY <2>1 DEF Sign
<1>2. e \in Seq(Seq(Symbols))
  <2>1. e \in [1..Len(s) -> Seq(Symbols)]
    BY <1>1
  <2> QED  BY <2>1
<1>3. f = Append(e, Sign(c))
  <2>1. Append(s, c) \in Seq(Symbols) /\ Len(Append(s, c)) = Len(s) + 1 /\ Append(s, c)[Len(s) + 1] = c
        /\ \A k \in 1..Len(s) : Append(s, c)[k] = s[k]
    BY AppendProperties
  <2>2. Len(e) = Len(s) /\ DOMAIN e = 1..Len(s) /\ DOMAIN s = 1..Len(s)
    BY <1>2
  <2> QED  BY <1>1, <1>2, <2>1, <2>2
<1>4. Escaped(s) = FlattenSeq(e) /\ Escaped(Append(s, c)) = FlattenSeq(f)
  BY DEF Escaped, Sign
<1> HIDE DEF e, f
<1> QED  BY <1>1, <1>2, <1>3, <1>4, FlattenAppend, Zenon

\* Texts that only grow at the end (push_back) may be bracketed either way.
LEMMA Assoc == \A a, b, c \in Seq(Symbols) : (a \o b) \o c = a \o (b \o c)
BY ConcatAssociative

\* One text after the other, kept as it is in the proofs.
Then(a, b) == a \o b

\* The same of an item's text, which Pending grows from in four parts.
LEMMA AssocFour ==
  \A a, b, c, d \in Seq(Symbols) : Then(a, Then(Then(b, c), d)) = Then(Then(Then(a, b), c), d)
<1> DEFINE T == Seq(Symbols)
<1>1. \A a, b, c \in T : Then(Then(a, b), c) = Then(a, Then(b, c))
  BY Assoc, Zenon DEF Then
<1>2. \A a, b \in T : Then(a, b) \in T
  BY ConcatProperties DEF Then
<1> HIDE DEF T
<1>3. \A a, b, c, d \in T : Then(a, Then(Then(b, c), d)) = Then(Then(Then(a, b), c), d)
  BY <1>1, <1>2
<1> QED  BY <1>3 DEF T

\* A character is a text, and two in a row are one.
LEMMA Pair ==
  ASSUME NEW S, NEW c \in S, NEW d \in S
  PROVE  <<c>> \in Seq(S) /\ <<c, d>> \in Seq(S) /\ <<c>> \o <<d>> = <<c, d>>
<1> DEFINE a == <<c>>
           b == <<d>>
           e == <<c, d>>
<1>1. /\ a \in Seq(S) /\ Len(a) = 1 /\ a[1] = c
      /\ b \in Seq(S) /\ Len(b) = 1 /\ b[1] = d
  OBVIOUS
<1>2. e \in Seq(S) /\ Len(e) = 2 /\ e[1] = c /\ e[2] = d
  OBVIOUS
<1>3. a \o b \in Seq(S) /\ Len(a \o b) = 2 /\ (a \o b)[1] = c /\ (a \o b)[2] = d
  <2> HIDE DEF a, b
  <2>1. /\ a \o b \in Seq(S) /\ Len(a \o b) = Len(a) + Len(b)
        /\ \A k \in 1..Len(a) + Len(b) : (a \o b)[k] = IF k <= Len(a) THEN a[k] ELSE b[k - Len(a)]
    BY <1>1, ConcatProperties, Zenon
  <2>2. \A k \in 1..2 : (a \o b)[k] = IF k <= 1 THEN a[k] ELSE b[k - 1]
    BY <1>1, <2>1
  <2> DEFINE g == a \o b
  <2>3. \A k \in 1..2 : g[k] = IF k <= 1 THEN a[k] ELSE b[k - 1]
    BY <2>2, Zenon
  <2> HIDE DEF g
  <2>4. g[1] = c /\ g[2] = d
    BY <1>1, <2>3
  <2> QED  BY <1>1, <2>1, <2>4 DEF g
<1>4. a \o b = e
  <2> HIDE DEF a, b, e
  <2> QED  BY <1>2, <1>3, SeqEqual
<1> QED  BY <1>1, <1>2, <1>4

\* The literals are characters.
LEMMA Signs ==
  /\ <<>> \in Seq(Symbols) /\ <<"%">> \in Seq(Symbols) /\ <<"%", "%">> \in Seq(Symbols)
  /\ <<"{">> \in Seq(Symbols) /\ <<"}">> \in Seq(Symbols)
  /\ <<"%">> \o <<"%">> = <<"%", "%">>
<1>1. "%" \in Symbols /\ "{" \in Symbols /\ "}" \in Symbols
  BY DEF Symbols, Chars
<1> QED  BY <1>1, Pair, EmptySeq, Zenon

\* What is written for a tuple of vec is made of the same characters.
LEMMA WrittenType ==
  ASSUME NEW e \in Tuples
  PROVE  Written(e) \in Seq(Symbols)
<1>1. Escaped(e.str) \in Seq(Symbols)
  BY EscapedAppend, Zenon DEF Tuples, Symbols, Chars
<1>2. <<"%">> \in Seq(Symbols) /\ <<"{">> \in Seq(Symbols) /\ <<"}">> \in Seq(Symbols)
  BY Signs, Zenon
<1>3. e.str \in Seq(Symbols) /\ e.fmt \in Seq(Symbols)
  BY DEF Tuples
<1> DEFINE name == <<"%">> \o e.str
           fmt == <<"{">> \o e.fmt \o <<"}">>
<1>4. name \in Seq(Symbols) /\ fmt \in Seq(Symbols) /\ <<>> \in Seq(Symbols)
  <2>1. name \in Seq(Symbols)
    BY <1>2, <1>3, ConcatProperties, Zenon
  <2>2. <<"{">> \o e.fmt \in Seq(Symbols)
    BY <1>2, <1>3, ConcatProperties, Zenon
  <2>3. fmt \in Seq(Symbols)
    BY <1>2, <2>2, ConcatProperties, Zenon
  <2> HIDE DEF name, fmt
  <2> QED  BY <2>1, <2>3
<1>5. Written(e) = IF e.type = 0 THEN Escaped(e.str) ELSE name \o (IF e.fmt = <<>> THEN <<>> ELSE fmt)
  BY DEF Written
<1> HIDE DEF name, fmt
<1>6. name \o (IF e.fmt = <<>> THEN <<>> ELSE fmt) \in Seq(Symbols)
  BY <1>4, ConcatProperties
<1> QED  BY <1>1, <1>5, <1>6

\* A tuple added to vec (vec.push_back) is written after the others.
LEMMA WrittenAppend ==
  ASSUME NEW v \in Seq(Tuples), NEW e \in Tuples
  PROVE  /\ WrittenAll(v) \in Seq(Symbols)
         /\ WrittenAll(Append(v, e)) = WrittenAll(v) \o Written(e)
<1> DEFINE a == [k \in DOMAIN v |-> Written(v[k])]
           b == [k \in DOMAIN Append(v, e) |-> Written(Append(v, e)[k])]
<1>1. a \in Seq(Seq(Symbols))
  <2>1. a \in [1..Len(v) -> Seq(Symbols)]
    BY WrittenType
  <2> QED  BY <2>1
<1>2. b = Append(a, Written(e))
  <2>1. Append(v, e) \in Seq(Tuples) /\ Len(Append(v, e)) = Len(v) + 1 /\ Append(v, e)[Len(v) + 1] = e
        /\ \A k \in 1..Len(v) : Append(v, e)[k] = v[k]
    BY AppendProperties
  <2>2. Len(a) = Len(v) /\ DOMAIN a = 1..Len(v) /\ DOMAIN v = 1..Len(v)
    BY <1>1
  <2> QED  BY <1>1, <2>1, <2>2, WrittenType
<1>3. WrittenAll(v) = FlattenSeq(a) /\ WrittenAll(Append(v, e)) = FlattenSeq(b)
  BY DEF WrittenAll
<1> HIDE DEF a, b
<1> QED  BY <1>1, <1>2, <1>3, WrittenType, FlattenAppend

\* No text and no tuple, nothing written.
LEMMA NothingWritten == Escaped(<<>>) = <<>> /\ WrittenAll(<<>>) = <<>>
BY DEF Escaped, WrittenAll, FlattenSeq

-----------------------------------------------------------------------------
(* The parser *)

\* Between two turns: in each state only what that state reads is pending, and
\* an empty format has just been opened.
Shape ==
  /\ TypeOK /\ vec \in Seq(Tuples)
  /\ done => i = Len(m_pattern)
  /\ status # "NORMAL_STRING" => nstr = <<>>
  /\ status = "NORMAL_STRING" => pstr = <<>>
  /\ status # "PARSING_FMT" => pfmt = <<>>
  /\ status = "PARSING_FMT" /\ pfmt = <<>> => i # 0 /\ m_pattern[i] = "{"

ParseInv == Shape /\ NothingLost

\* What is pending is made of the characters of patterns.
LEMMA Types ==
  ASSUME TypeOK
  PROVE  /\ m_pattern \in Seq(Symbols) /\ nstr \in Seq(Symbols)
         /\ pstr \in Seq(Symbols) /\ pfmt \in Seq(Symbols)
         /\ Escaped(nstr) \in Seq(Symbols)
         /\ Pending \in Seq(Symbols)
<1>1. Chars \subseteq Symbols /\ Letters \subseteq Symbols /\ "%" \in Symbols /\ "{" \in Symbols
  BY Zenon DEF Symbols, Chars
<1>2. m_pattern \in Seq(Symbols) /\ nstr \in Seq(Symbols) /\ pfmt \in Seq(Symbols)
  BY <1>1, SeqMonotonic, Zenon DEF TypeOK
<1>3. pstr \in Seq(Symbols)
  BY <1>1, SeqMonotonic, Zenon DEF TypeOK
<1>4. Escaped(nstr) \in Seq(Symbols)
  BY <1>1, <1>2, EscapedAppend, Zenon
<1>5. <<"%">> \in Seq(Symbols) /\ <<"{">> \in Seq(Symbols) /\ <<>> \in Seq(Symbols)
  BY Signs, Zenon
<1>6. <<"%">> \o pstr \in Seq(Symbols)
  BY <1>3, <1>5, ConcatProperties, Zenon
<1>7. <<"%">> \o pstr \o <<"{">> \in Seq(Symbols)
  BY <1>5, <1>6, ConcatProperties, Zenon
<1>8. <<"%">> \o pstr \o <<"{">> \o pfmt \in Seq(Symbols)
  BY <1>2, <1>7, ConcatProperties, Zenon
<1>9. Pending \in Seq(Symbols)
  BY <1>4, <1>5, <1>6, <1>8, Zenon DEF Pending
<1> QED  BY <1>2, <1>3, <1>4, <1>9

\* A turn that reads c leaves one more character behind.
LEMMA ReadOne ==
  ASSUME TypeOK, NEW s, NEW c, Reads(s, c), m_pattern' = m_pattern, i' = i + 1
  PROVE  /\ c \in Chars
         /\ SubSeq(m_pattern, 1, i)' = SubSeq(m_pattern, 1, i) \o <<c>>
<1>1. m_pattern \in Seq(Chars) /\ i \in Nat /\ i + 1 \in 1..Len(m_pattern) /\ c = m_pattern[i + 1]
  BY DEF TypeOK, Reads
<1>2. SubSeq(m_pattern, 1, i + 1) = SubSeq(m_pattern, 1, (i + 1) - 1) \o <<m_pattern[i + 1]>>
  <2>1. 1 \in 1..Len(m_pattern) /\ i + 1 \in 1..Len(m_pattern)
    BY <1>1
  <2> QED  BY <1>1, <2>1, SubSeqRecursiveSecond
<1>3. (i + 1) - 1 = i
  BY <1>1
<1> QED  BY <1>1, <1>2, <1>3

\* A turn that reads a doubled per cent sign leaves both behind (++i).
LEMMA ReadTwo ==
  ASSUME TypeOK, NEW s, Reads(s, "%"), Doubled, m_pattern' = m_pattern, i' = i + 2
  PROVE  SubSeq(m_pattern, 1, i)' = SubSeq(m_pattern, 1, i) \o <<"%", "%">>
<1>1. /\ m_pattern \in Seq(Chars) /\ i \in Nat /\ i + 1 \in 1..Len(m_pattern) /\ i + 2 \in 1..Len(m_pattern)
      /\ m_pattern[i + 1] = "%" /\ m_pattern[i + 2] = "%"
  BY DEF TypeOK, Reads, Doubled
<1>2. 1 \in 1..Len(m_pattern) /\ (i + 1) - 1 = i /\ (i + 2) - 1 = i + 1
  BY <1>1
<1> DEFINE a == SubSeq(m_pattern, 1, i)
<1>3. SubSeq(m_pattern, 1, i + 1) = a \o <<"%">>
  BY <1>1, <1>2, SubSeqRecursiveSecond
<1>4. SubSeq(m_pattern, 1, i + 2) = SubSeq(m_pattern, 1, i + 1) \o <<"%">>
  BY <1>1, <1>2, SubSeqRecursiveSecond
<1>5. a \in Seq(Symbols) /\ <<"%">> \in Seq(Symbols)
  <2>1. \A k \in 1..i : m_pattern[k] \in Symbols
    BY <1>1 DEF Symbols
  <2>2. a \in Seq(Symbols)
    BY <1>1, <2>1, SubSeqProperties
  <2> HIDE DEF a
  <2> QED  BY <2>2, Signs, Zenon
<1>6. (a \o <<"%">>) \o <<"%">> = a \o (<<"%">> \o <<"%">>)
  <2> HIDE DEF a
  <2> QED  BY <1>5, Assoc, Zenon
<1>7. <<"%">> \o <<"%">> = <<"%", "%">>
  BY Signs, Zenon
<1> QED  BY <1>3, <1>4, <1>6, <1>7, Zenon

\* A turn that writes as many characters as it reads loses none.
LEMMA Turn ==
  ASSUME ParseInv, NEW x, m_pattern' = m_pattern, ~m_error' => ~m_error,
         SubSeq(m_pattern, 1, i)' = SubSeq(m_pattern, 1, i) \o x, x \in Seq(Symbols),
         ~EmptyFormat => WrittenAll(vec)' \o Pending' = WrittenAll(vec) \o (Pending \o x)
  PROVE  NothingLost'
<1> DEFINE w == WrittenAll(vec)
           a == SubSeq(m_pattern, 1, i)
<1> SUFFICES ASSUME ~m_error', ~EmptyFormat'
             PROVE  WrittenAll(vec)' \o Pending' = a'
  BY Zenon DEF NothingLost
<1>1. ~EmptyFormat
  BY Zenon DEF EmptyFormat
<1>2. w \o Pending = a
  BY <1>1, Zenon DEF ParseInv, Shape, NothingLost
<1>3. w \in Seq(Symbols) /\ Pending \in Seq(Symbols)
  <2>1. Error \in Tuples
    BY EmptySeq DEF Error, Tuples, Symbols
  <2> QED  BY <2>1, WrittenAppend, Types, Zenon DEF ParseInv, Shape
<1>4. w \o (Pending \o x) = (w \o Pending) \o x
  <2> HIDE DEF w
  <2> QED  BY <1>3, Assoc, Zenon
<1> QED  BY <1>1, <1>2, <1>4, Zenon

\* So does one that ends an item, if what it writes for it was pending.
LEMMA TurnEnds ==
  ASSUME ParseInv, NEW x \in Seq(Symbols), NEW e \in Tuples, NEW rest \in Seq(Symbols),
         Written(e) \o rest = Pending \o x
  PROVE  WrittenAll(Append(vec, e)) \o rest = WrittenAll(vec) \o (Pending \o x)
<1> DEFINE w == WrittenAll(vec)
           v == Written(e)
<1>1. w \in Seq(Symbols) /\ WrittenAll(Append(vec, e)) = w \o v
  BY WrittenAppend, Zenon DEF ParseInv, Shape
<1>2. v \in Seq(Symbols)
  BY WrittenType
<1>3. (w \o v) \o rest = w \o (v \o rest)
  <2> HIDE DEF w, v
  <2> QED  BY <1>1, <1>2, Assoc, Zenon
<1> QED  BY <1>1, <1>3, Zenon

\* What a turn adds to vec is a tuple.
LEMMA TurnTuples ==
  ASSUME TypeOK
  PROVE  Text(nstr) \in Tuples /\ Item(pstr, pfmt) \in Tuples /\ Error \in Tuples /\ LastTuple \in Tuples
<1>1. Text(nstr) \in Tuples
  BY Types, Signs, Zenon DEF Text, Tuples
<1>2. Item(pstr, pfmt) \in Tuples
  BY Types DEF Item, Tuples
<1>3. Error \in Tuples
  <2>1. <<"<<error_pattern>>">> \in Seq(Symbols)
    BY Pair DEF Symbols
  <2> QED  BY <2>1, Signs, Zenon DEF Error, Tuples
<1> QED  BY <1>1, <1>2, <1>3, Zenon DEF LastTuple

PendingOf(st, n, p, f) ==
  CASE st = "NORMAL_STRING" -> Escaped(n)
    [] st = "PARSING_STR" -> <<"%">> \o p
    [] OTHER -> <<"%">> \o p \o <<"{">> \o f

\* What is pending in each state of the parser, before and after a step.
LEMMA PendingIs ==
  /\ Pending = IF done THEN <<>> ELSE PendingOf(status, nstr, pstr, pfmt)
  /\ Pending' = IF done' THEN <<>> ELSE PendingOf(status', nstr', pstr', pfmt')
BY DEF Pending, PendingOf

\* The loop runs until init() returns.
LEMMA LoopRuns ==
  ASSUME ParseInv, NEW s, NEW c, Reads(s, c)
  PROVE  TypeOK /\ ~done /\ status = s
<1>1. TypeOK /\ status = s /\ i < Len(m_pattern) /\ (done => i = Len(m_pattern))
  BY Zenon DEF ParseInv, Shape, Reads
<1>2. Len(m_pattern) \in Nat
  BY <1>1, LenProperties DEF TypeOK
<1> QED  BY <1>1, <1>2

\* A turn that reads text keeps it pending (NORMAL_STRING).
LEMMA NormalKeeps ==
  ASSUME ParseInv, NormalEscape \/ \E c \in Chars : NormalChar(c)
  PROVE  NothingLost'
<1>0. TypeOK /\ ~done /\ status = "NORMAL_STRING" /\ status' = "NORMAL_STRING"
      /\ m_pattern' = m_pattern /\ done' = done /\ vec' = vec /\ m_error' = m_error
  BY LoopRuns DEF NormalEscape, NormalChar, Advance
<1>1. PICK c \in Chars : nstr' = Append(nstr, c) /\ SubSeq(m_pattern, 1, i)' = SubSeq(m_pattern, 1, i) \o Sign(c)
  <2>1. CASE NormalEscape
    <3>1. SubSeq(m_pattern, 1, i)' = SubSeq(m_pattern, 1, i) \o Sign("%")
      BY <1>0, <2>1, ReadTwo, Zenon DEF NormalEscape, Advance, Sign
    <3> QED  BY <2>1, <3>1, Zenon DEF NormalEscape, Chars
  <2>2. ASSUME NEW c \in Chars, NormalChar(c)
        PROVE  nstr' = Append(nstr, c) /\ SubSeq(m_pattern, 1, i)' = SubSeq(m_pattern, 1, i) \o Sign(c)
    BY <1>0, <2>2, ReadOne, Zenon DEF NormalChar, Advance, Sign
  <2> QED  BY <2>1, <2>2, Zenon
<1>2. nstr \in Seq(Symbols) /\ c \in Symbols /\ Sign(c) \in Seq(Symbols)
  <2>1. c \in Symbols
    BY DEF Symbols
  <2> QED  BY <1>0, <2>1, Types, Signs, Pair, Zenon DEF Sign
<1>3. Pending = Escaped(nstr) /\ Pending' = Escaped(nstr')
  BY <1>0, PendingIs DEF PendingOf
<1>4. Pending' = Pending \o Sign(c)
  BY <1>1, <1>2, <1>3, EscapedAppend, Zenon
<1>5. WrittenAll(vec)' = WrittenAll(vec)
  BY <1>0
<1> QED  BY <1>0, <1>1, <1>2, <1>4, <1>5, Turn, Zenon

\* A turn that reads a name or a format keeps it pending (PARSING_STR, PARSING_FMT).
LEMMA ItemKeeps ==
  ASSUME ParseInv, StrOpen \/ (\E c \in Letters : StrLetter(c)) \/ (\E c \in Chars : FmtChar(c))
  PROVE  NothingLost'
<1>0. TypeOK /\ ~done /\ m_pattern' = m_pattern /\ done' = done /\ vec' = vec /\ m_error' = m_error
  BY LoopRuns, Zenon DEF StrOpen, StrLetter, FmtChar, Advance
<1>t. /\ pstr \in Seq(Symbols) /\ pfmt \in Seq(Symbols)
      /\ <<"%">> \o pstr \in Seq(Symbols) /\ (<<"%">> \o pstr) \o <<"{">> \in Seq(Symbols)
  <2>1. pstr \in Seq(Symbols) /\ pfmt \in Seq(Symbols)
    BY <1>0, Types
  <2>2. <<"%">> \o pstr \in Seq(Symbols)
    BY <2>1, Signs, ConcatProperties, Zenon
  <2>3. (<<"%">> \o pstr) \o <<"{">> \in Seq(Symbols)
    BY <2>2, Signs, ConcatProperties, Zenon
  <2> QED  BY <2>1, <2>2, <2>3, Zenon
<1>1. PICK c \in Chars : Pending' = Pending \o <<c>> /\ SubSeq(m_pattern, 1, i)' = SubSeq(m_pattern, 1, i) \o <<c>>
  <2>1. CASE StrOpen
    <3>1. Pending = <<"%">> \o pstr /\ Pending' = <<"%">> \o pstr \o <<"{">> \o <<>>
      <4>1. status = "PARSING_STR" /\ status' = "PARSING_FMT" /\ pstr' = pstr /\ pfmt' = <<>>
        BY <2>1, Zenon DEF StrOpen, Reads, Advance, ParseInv, Shape
      <4> QED  BY <1>0, <4>1, PendingIs, Zenon DEF PendingOf
    <3>2. Pending' = Pending \o <<"{">>
      BY <1>t, <3>1, ConcatEmptySeq, Zenon
    <3>3. SubSeq(m_pattern, 1, i)' = SubSeq(m_pattern, 1, i) \o <<"{">>
      BY <1>0, <2>1, ReadOne, Zenon DEF StrOpen, Advance
    <3> QED  BY <3>2, <3>3, Zenon DEF Chars
  <2>2. ASSUME NEW c \in Letters, StrLetter(c)
        PROVE  Pending' = Pending \o <<c>> /\ SubSeq(m_pattern, 1, i)' = SubSeq(m_pattern, 1, i) \o <<c>>
    <3>1. Pending = <<"%">> \o pstr /\ Pending' = <<"%">> \o Append(pstr, c)
      <4>1. status = "PARSING_STR" /\ status' = "PARSING_STR" /\ pstr' = Append(pstr, c)
        BY <2>2 DEF StrLetter, Reads, Advance
      <4> QED  BY <1>0, <4>1, PendingIs DEF PendingOf
    <3>2. c \in Symbols /\ <<c>> \in Seq(Symbols) /\ Append(pstr, c) = pstr \o <<c>>
      <4>1. c \in Symbols
        BY Zenon DEF Symbols, Chars
      <4> QED  BY <1>t, <4>1, AppendIsConcat, Pair, Zenon
    <3>3. <<"%">> \o (pstr \o <<c>>) = (<<"%">> \o pstr) \o <<c>>
      <4> DEFINE sign == <<"%">>
      <4>1. sign \in Seq(Symbols)
        BY Signs, Zenon
      <4> HIDE DEF sign
      <4>2. sign \o (pstr \o <<c>>) = (sign \o pstr) \o <<c>>
        BY <1>t, <3>2, <4>1, Assoc, Zenon
      <4> QED  BY <4>2 DEF sign
    <3>4. SubSeq(m_pattern, 1, i)' = SubSeq(m_pattern, 1, i) \o <<c>>
      BY <1>0, <2>2, ReadOne, Zenon DEF StrLetter, Advance
    <3> QED  BY <3>1, <3>2, <3>3, <3>4, Zenon
  <2>3. ASSUME NEW c \in Chars, FmtChar(c)
        PROVE  Pending' = Pending \o <<c>> /\ SubSeq(m_pattern, 1, i)' = SubSeq(m_pattern, 1, i) \o <<c>>
    <3> DEFINE open == <<"%">> \o pstr \o <<"{">>
    <3>1. Pending = open \o pfmt /\ Pending' = open \o Append(pfmt, c)
      <4>1. status = "PARSING_FMT" /\ status' = "PARSING_FMT" /\ pstr' = pstr /\ pfmt' = Append(pfmt, c)
        BY <2>3, Zenon DEF FmtChar, Reads, Advance
      <4> QED  BY <1>0, <4>1, PendingIs, Zenon DEF PendingOf
    <3>2. c \in Symbols /\ <<c>> \in Seq(Symbols) /\ Append(pfmt, c) = pfmt \o <<c>>
      <4>1. c \in Symbols
        BY DEF Symbols
      <4> QED  BY <1>t, <4>1, AppendIsConcat, Pair, Zenon
    <3>3. open \o (pfmt \o <<c>>) = (open \o pfmt) \o <<c>>
      BY <1>t, <3>2, Assoc, Zenon
    <3>4. SubSeq(m_pattern, 1, i)' = SubSeq(m_pattern, 1, i) \o <<c>>
      BY <1>0, <2>3, ReadOne, Zenon DEF FmtChar, Advance
    <3> QED  BY <3>1, <3>2, <3>3, <3>4, Zenon
  <2>4. Letters \subseteq Chars
    BY Zenon DEF Chars
  <2> QED  BY <2>1, <2>2, <2>3, <2>4, Zenon
<1>2. <<c>> \in Seq(Symbols)
  BY Pair DEF Symbols
<1>3. WrittenAll(vec)' \o Pending' = WrittenAll(vec) \o (Pending \o <<c>>)
  BY <1>0, <1>1, Zenon
<1> QED  BY <1>0, <1>1, <1>2, <1>3, Turn, Zenon

\* The end of an item leaves the text after it pending, and nothing else.
LEMMA ItemEnds ==
  ASSUME ParseInv, NEW x \in Seq(Symbols), NEW e \in Tuples,
         Written(e) = Pending, vec' = Append(vec, e), Pending' = x
  PROVE  WrittenAll(vec)' \o Pending' = WrittenAll(vec) \o (Pending \o x)
<1>1. Written(e) \o x = Pending \o x
  BY Zenon
<1> QED  BY <1>1, TurnEnds, Zenon

\* An item without a format is written like it was read.
LEMMA BareWritten ==
  ASSUME TypeOK, pfmt = <<>>
  PROVE  Written(Item(pstr, pfmt)) = <<"%">> \o pstr
<1>1. Written(Item(pstr, pfmt)) = (<<"%">> \o pstr) \o <<>>
  BY DEF Written, Item
<1>2. <<"%">> \o pstr \in Seq(Symbols)
  BY Types, Signs, ConcatProperties, Zenon
<1> QED  BY <1>1, <1>2, ConcatEmptySeq, Zenon

\* Text that starts with a character is that character.
LEMMA FirstOfText ==
  ASSUME NEW c \in Symbols
  PROVE  Escaped(Append(<<>>, c)) = Sign(c) /\ Sign(c) \in Seq(Symbols)
<1>1. Sign(c) \in Seq(Symbols)
  BY Pair, Zenon DEF Sign
<1>2. Escaped(Append(<<>>, c)) = Escaped(<<>>) \o Sign(c)
  BY Signs, EscapedAppend, Zenon
<1> QED  BY <1>1, <1>2, NothingWritten, ConcatEmptySeq, Zenon

\* A turn that ends a name writes it (PARSING_STR).
LEMMA StrEnds ==
  ASSUME ParseInv, StrEscape \/ StrPercent \/ \E c \in Others : StrOther(c)
  PROVE  NothingLost'
<1>0. /\ TypeOK /\ ~done /\ status = "PARSING_STR" /\ nstr = <<>> /\ pfmt = <<>>
      /\ m_pattern' = m_pattern /\ done' = done /\ m_error' = m_error
      /\ vec' = Append(vec, Item(pstr, pfmt)) /\ pstr' = <<>>
  <2>1. TypeOK /\ ~done /\ status = "PARSING_STR"
    BY LoopRuns DEF StrEscape, StrPercent, StrOther
  <2>2. nstr = <<>> /\ pfmt = <<>>
    BY <2>1 DEF ParseInv, Shape
  <2>3. /\ m_pattern' = m_pattern /\ done' = done /\ m_error' = m_error
        /\ vec' = Append(vec, Item(pstr, pfmt)) /\ pstr' = <<>>
    BY DEF StrEscape, StrPercent, StrOther, Advance, EndItem
  <2> QED  BY <2>1, <2>2, <2>3, Zenon
<1>1. Item(pstr, pfmt) \in Tuples /\ Written(Item(pstr, pfmt)) = Pending
  <2>1. Pending = <<"%">> \o pstr
    BY <1>0, PendingIs, Zenon DEF PendingOf
  <2> QED  BY <1>0, <2>1, BareWritten, TurnTuples, Zenon
<1>2. Pending' \in Seq(Symbols) /\ SubSeq(m_pattern, 1, i)' = SubSeq(m_pattern, 1, i) \o Pending'
  <2>1. CASE StrEscape
    <3>1. Pending' = Sign("%")
      <4>1. status' = "NORMAL_STRING" /\ nstr' = Append(<<>>, "%")
        BY <1>0, <2>1 DEF StrEscape, Advance
      <4>2. Pending' = Escaped(Append(<<>>, "%"))
        BY <1>0, <4>1, PendingIs DEF PendingOf
      <4> QED  BY <4>2, FirstOfText, Zenon DEF Symbols, Chars
    <3>2. Sign("%") = <<"%", "%">>
      BY DEF Sign
    <3>3. SubSeq(m_pattern, 1, i)' = SubSeq(m_pattern, 1, i) \o <<"%", "%">>
      BY <1>0, <2>1, ReadTwo, Zenon DEF StrEscape, Advance
    <3> QED  BY <3>1, <3>2, <3>3, Signs, Zenon
  <2>2. CASE StrPercent
    <3>1. status' = "PARSING_STR"
      BY <2>2 DEF StrPercent, Advance
    <3>2. Pending' = <<"%">> \o <<>>
      BY <1>0, <3>1, PendingIs DEF PendingOf
    <3>3. Pending' = <<"%">>
      BY <3>2, Signs, ConcatEmptySeq, Zenon
    <3>4. SubSeq(m_pattern, 1, i)' = SubSeq(m_pattern, 1, i) \o <<"%">>
      BY <1>0, <2>2, ReadOne, Zenon DEF StrPercent, Advance
    <3> QED  BY <3>3, <3>4, Signs, Zenon
  <2>3. ASSUME NEW c \in Others, StrOther(c)
        PROVE  Pending' \in Seq(Symbols) /\ SubSeq(m_pattern, 1, i)' = SubSeq(m_pattern, 1, i) \o Pending'
    <3>1. c \in Symbols /\ Sign(c) = <<c>>
      BY LogFormatterAssumption, Zenon DEF Symbols, Chars, Sign
    <3>2. status' = "NORMAL_STRING" /\ nstr' = Append(<<>>, c)
      BY <1>0, <2>3 DEF StrOther, Advance
    <3>3. Pending' = Escaped(Append(<<>>, c))
      BY <1>0, <3>2, PendingIs DEF PendingOf
    <3>4. Pending' = <<c>> /\ <<c>> \in Seq(Symbols)
      BY <3>1, <3>3, FirstOfText, Zenon
    <3>5. SubSeq(m_pattern, 1, i)' = SubSeq(m_pattern, 1, i) \o <<c>>
      BY <1>0, <2>3, ReadOne, Zenon DEF StrOther, Advance
    <3> QED  BY <3>4, <3>5, Zenon
  <2> QED  BY <2>1, <2>2, <2>3, Zenon
<1> DEFINE x == Pending'
<1>3. WrittenAll(vec)' \o Pending' = WrittenAll(vec) \o (Pending \o x)
  BY <1>0, <1>1, <1>2, ItemEnds, Zenon
<1> QED  BY <1>0, <1>2, <1>3, Turn, Zenon

\* The end of a text writes it (NORMAL_STRING, a single per cent sign).
LEMMA TextEnds ==
  ASSUME ParseInv, NormalPercent
  PROVE  NothingLost'
<1>0. /\ TypeOK /\ ~done /\ status = "NORMAL_STRING" /\ pstr = <<>>
      /\ m_pattern' = m_pattern /\ done' = done /\ m_error' = m_error
      /\ vec' = IF nstr = <<>> THEN vec ELSE Append(vec, Text(nstr))
      /\ status' = "PARSING_STR" /\ pstr' = pstr
  <2>1. TypeOK /\ ~done /\ status = "NORMAL_STRING"
    BY LoopRuns DEF NormalPercent
  <2>2. pstr = <<>>
    BY <2>1 DEF ParseInv, Shape
  <2> QED  BY <2>1, <2>2, Zenon DEF NormalPercent, Advance
<1>1. Pending = Escaped(nstr) /\ Pending \in Seq(Symbols)
  BY <1>0, PendingIs, Types DEF PendingOf
<1>2. Pending' = <<"%">>
  <2>1. Pending' = <<"%">> \o <<>>
    BY <1>0, PendingIs DEF PendingOf
  <2> QED  BY <2>1, Signs, ConcatEmptySeq, Zenon
<1>3. SubSeq(m_pattern, 1, i)' = SubSeq(m_pattern, 1, i) \o <<"%">>
  BY <1>0, ReadOne, Zenon DEF NormalPercent, Advance
<1>4. WrittenAll(vec)' \o Pending' = WrittenAll(vec) \o (Pending \o <<"%">>)
  <2>1. CASE nstr = <<>>
    <3>1. Pending \o <<"%">> = <<"%">>
      BY <1>1, <2>1, NothingWritten, Signs, ConcatEmptySeq, Zenon
    <3> QED  BY <1>0, <1>2, <2>1, <3>1, Zenon
  <2>2. CASE nstr # <<>>
    <3>1. Text(nstr) \in Tuples /\ Written(Text(nstr)) = Pending
      <4>1. Written(Text(nstr)) = Escaped(nstr)
        BY DEF Written, Text
      <4> QED  BY <1>0, <1>1, <4>1, TurnTuples, Zenon
    <3>2. vec' = Append(vec, Text(nstr))
      BY <1>0, <2>2, Zenon
    <3> QED  BY <1>2, <3>1, <3>2, Signs, ItemEnds, Zenon
  <2> QED  BY <2>1, <2>2
<1> QED  BY <1>0, <1>2, <1>3, <1>4, Signs, Turn, Zenon

\* The closing brace ends an item, which is written with its format
\* (PARSING_FMT); an empty format has to have been opened just before.
LEMMA FmtEnds ==
  ASSUME ParseInv, FmtClose
  PROVE  NothingLost'
<1>0. /\ TypeOK /\ ~done /\ status = "PARSING_FMT" /\ nstr = <<>>
      /\ m_pattern' = m_pattern /\ done' = done /\ m_error' = m_error
      /\ vec' = Append(vec, Item(pstr, pfmt)) /\ status' = "NORMAL_STRING" /\ nstr' = nstr
  <2>1. TypeOK /\ ~done /\ status = "PARSING_FMT"
    BY LoopRuns, Zenon DEF FmtClose
  <2>2. nstr = <<>>
    BY <2>1, Zenon DEF ParseInv, Shape
  <2> QED  BY <2>1, <2>2, Zenon DEF FmtClose, Advance, EndItem
<1>1. SubSeq(m_pattern, 1, i)' = SubSeq(m_pattern, 1, i) \o <<"}">>
  BY <1>0, ReadOne, Zenon DEF FmtClose, Advance
<1>2. Pending' = <<>>
  <2>1. Pending' = Escaped(<<>>)
    BY <1>0, PendingIs, Zenon DEF PendingOf
  <2> QED  BY <2>1, NothingWritten
<1>3. CASE pfmt = <<>>
  <2>1. i # 0 /\ m_pattern[i] = "{" /\ i < Len(m_pattern) /\ m_pattern[i + 1] = "}"
    BY <1>0, <1>3, Zenon DEF ParseInv, Shape, FmtClose, Reads
  <2>2. /\ m_pattern \in Seq(Chars) /\ i \in 1..(Len(m_pattern) - 1)
        /\ i \in 1..Len(m_pattern) /\ i + 1 \in i..Len(m_pattern)
    <3>1. m_pattern \in Seq(Chars) /\ i \in Nat /\ Len(m_pattern) \in Nat
      BY <1>0, LenProperties DEF TypeOK
    <3> DEFINE n == Len(m_pattern)
    <3>2. i # 0 /\ i < n /\ i \in Nat /\ n \in Nat
      BY <2>1, <3>1, Zenon
    <3> HIDE DEF n
    <3>3. i \in 1..(n - 1) /\ i \in 1..n /\ i + 1 \in i..n
      BY <3>2
    <3> QED  BY <3>1, <3>3 DEF n
  <2>e. SubSeq(m_pattern, i, i + 1) = <<"{", "}">>
    <3>1. SubSeq(m_pattern, i, i) = <<"{">>
      <4>1. SubSeq(m_pattern, i, i) = SubSeq(m_pattern, i, i - 1) \o <<"{">>
        <5>1. i \in i..Len(m_pattern)
          BY <2>2
        <5> QED  BY <2>1, <2>2, <5>1, SubSeqRecursiveSecond, Zenon
      <4>2. SubSeq(m_pattern, i, i - 1) = <<>>
        BY <2>2, SubSeqEmpty
      <4> QED  BY <4>1, <4>2, Signs, ConcatEmptySeq, Zenon
    <3>2. SubSeq(m_pattern, i, i + 1) = SubSeq(m_pattern, i, (i + 1) - 1) \o <<"}">>
      BY <2>1, <2>2, SubSeqRecursiveSecond, Zenon
    <3>3. (i + 1) - 1 = i
      BY <2>2
    <3>4. <<"{">> \o <<"}">> = <<"{", "}">>
      <4>1. "{" \in Chars /\ "}" \in Chars
        BY DEF Chars
      <4> QED  BY <4>1, Pair, Zenon
    <3> QED  BY <3>1, <3>2, <3>3, <3>4, Zenon
  <2>3. EmptyFormat
    BY <2>2, <2>e, Zenon DEF EmptyFormat
  <2> QED  BY <1>0, <2>3, Zenon DEF NothingLost, EmptyFormat
<1>4. CASE pfmt # <<>>
  <2> DEFINE sign == <<"%">>
             open == <<"{">>
             close == <<"}">>
             name == sign \o pstr
  <2>1. /\ pstr \in Seq(Symbols) /\ pfmt \in Seq(Symbols)
        /\ sign \in Seq(Symbols) /\ open \in Seq(Symbols) /\ close \in Seq(Symbols)
    <3>1. pstr \in Seq(Symbols) /\ pfmt \in Seq(Symbols)
      BY <1>0, Types
    <3>2. sign \in Seq(Symbols) /\ open \in Seq(Symbols) /\ close \in Seq(Symbols)
      BY Signs, Zenon
    <3> QED  BY <3>1, <3>2, Zenon
  <2>2. Written(Item(pstr, pfmt)) = name \o ((open \o pfmt) \o close)
    <3>1. Item(pstr, pfmt).type # 0 /\ Item(pstr, pfmt).str = pstr /\ Item(pstr, pfmt).fmt = pfmt
      BY DEF Item
    <3> QED  BY <1>4, <3>1, Zenon DEF Written
  <2>3. Pending = (name \o open) \o pfmt
    BY <1>0, PendingIs, Zenon DEF PendingOf
  <2> HIDE DEF sign, open, close
  <2>4. name \in Seq(Symbols) /\ open \o pfmt \in Seq(Symbols)
    BY <2>1, ConcatProperties
  <2>5. name \o ((open \o pfmt) \o close) = ((name \o open) \o pfmt) \o close
    <3> HIDE DEF name
    <3>1. Then(name, Then(Then(open, pfmt), close)) = Then(Then(Then(name, open), pfmt), close)
      BY <2>1, <2>4, AssocFour
    <3> QED  BY <3>1, Zenon DEF Then
  <2>7. Written(Item(pstr, pfmt)) = Pending \o close
    BY <2>2, <2>3, <2>5, Zenon
  <2>8. Written(Item(pstr, pfmt)) \in Seq(Symbols) /\ Item(pstr, pfmt) \in Tuples
    BY <1>0, TurnTuples, WrittenType
  <2>9. Written(Item(pstr, pfmt)) \o <<>> = Pending \o close
    BY <2>7, <2>8, ConcatEmptySeq, Zenon
  <2>10. WrittenAll(Append(vec, Item(pstr, pfmt))) \o <<>> = WrittenAll(vec) \o (Pending \o close)
    BY <2>1, <2>8, <2>9, Signs, TurnEnds, Zenon
  <2>11. WrittenAll(vec)' \o Pending' = WrittenAll(vec) \o (Pending \o close)
    BY <1>0, <1>2, <2>10, Zenon
  <2>12. SubSeq(m_pattern, 1, i)' = SubSeq(m_pattern, 1, i) \o close
    BY <1>1, Zenon DEF close
  <2> QED  BY <1>0, <2>1, <2>11, <2>12, Turn, Zenon
<1> QED  BY <1>3, <1>4

\* The end check writes what is pending, or sets m_error.
LEMMA FinishKeeps ==
  ASSUME ParseInv, Finish
  PROVE  NothingLost'
<1>0. /\ TypeOK /\ ~done /\ done' /\ m_pattern' = m_pattern /\ i' = i
      /\ vec' = Append(vec, LastTuple) /\ (m_error \/ LastTuple = Error => m_error')
  BY Zenon DEF ParseInv, Shape, Finish
<1>1. CASE m_error'
  BY <1>1, Zenon DEF NothingLost
<1>2. CASE ~m_error'
  <2>1. ~m_error /\ LastTuple # Error
    BY <1>0, <1>2, Zenon
  <2>2. Written(LastTuple) = Pending
    <3>1. CASE status = "PARSING_STR"
      <4>1. LastTuple = Item(pstr, pfmt) /\ pfmt = <<>> /\ Pending = <<"%">> \o pstr
        BY <1>0, <3>1, PendingIs DEF LastTuple, PendingOf, ParseInv, Shape
      <4> QED  BY <1>0, <4>1, BareWritten, Zenon
    <3>2. CASE status = "NORMAL_STRING" /\ nstr # <<>>
      <4>1. LastTuple = Text(nstr) /\ Pending = Escaped(nstr)
        BY <1>0, <3>2, PendingIs DEF LastTuple, PendingOf
      <4>2. Written(Text(nstr)) = Escaped(nstr)
        BY DEF Written, Text
      <4> QED  BY <4>1, <4>2, Zenon
    <3> QED  BY <2>1, <3>1, <3>2 DEF LastTuple
  <2>3. LastTuple \in Tuples /\ Pending' = <<>>
    BY <1>0, TurnTuples, PendingIs
  <2>4. WrittenAll(vec)' \o Pending' = WrittenAll(vec) \o (Pending \o <<>>)
    BY <1>0, <2>2, <2>3, Signs, ItemEnds, Zenon
  <2>5. SubSeq(m_pattern, 1, i)' = SubSeq(m_pattern, 1, i) \o <<>>
    <3>1. \A k \in 1..i : m_pattern[k] \in Chars
      BY <1>0 DEF TypeOK
    <3>2. SubSeq(m_pattern, 1, i) \in Seq(Chars)
      BY <1>0, <3>1, SubSeqProperties DEF TypeOK
    <3> QED  BY <1>0, <3>2, ConcatEmptySeq, Zenon
  <2> QED  BY <1>0, <2>1, <2>4, <2>5, Signs, Turn, Zenon
<1> QED  BY <1>1, <1>2

\* A turn goes on by one character, or by two when a sign is doubled.
LEMMA TurnAdvances ==
  ASSUME Shape, NEW s, NEW c, NEW st \in {"NORMAL_STRING", "PARSING_STR", "PARSING_FMT"},
         Reads(s, c), Advance(1, st) \/ (Advance(2, st) /\ Doubled)
  PROVE  /\ m_pattern' \in Seq(Chars) /\ i' \in 0..Len(m_pattern') /\ done' = FALSE
         /\ status = s /\ status' = st /\ m_pattern'[i + 1] = c /\ i + 1 # 0
<1>1. TypeOK /\ m_pattern \in Seq(Chars) /\ i \in Nat /\ Len(m_pattern) \in Nat /\ done \in BOOLEAN
  <2>1. TypeOK
    BY Zenon DEF Shape
  <2>2. m_pattern \in Seq(Chars) /\ i \in 0..Len(m_pattern) /\ done \in BOOLEAN
    BY <2>1, Zenon DEF TypeOK
  <2>3. Len(m_pattern) \in Nat
    BY <2>2, LenProperties, Zenon
  <2> QED  BY <2>1, <2>2, <2>3
<1>2. i < Len(m_pattern) /\ m_pattern[i + 1] = c /\ status = s
  BY DEF Reads
<1>3. m_pattern' = m_pattern /\ status' = st /\ done' = done /\ (i' = i + 1 \/ (i' = i + 2 /\ i + 1 < Len(m_pattern)))
  BY Zenon DEF Advance, Doubled
<1>4. i' \in 0..Len(m_pattern) /\ i + 1 # 0
  BY <1>1, <1>2, <1>3
<1>5. done = FALSE
  <2>1. done => i = Len(m_pattern)
    BY Zenon DEF Shape
  <2> QED  BY <1>1, <1>2, <2>1
<1> QED  BY <1>1, <1>2, <1>3, <1>4, <1>5

\* The texts and the tuples that a turn makes have their types.
LEMMA TurnTypes ==
  ASSUME Shape
  PROVE  /\ nstr \in Seq(Chars) /\ pfmt \in Seq(Chars) /\ pstr \in Seq(Letters) /\ vec \in Seq(Tuples)
         /\ m_error \in BOOLEAN /\ <<>> \in Seq(Chars) /\ <<>> \in Seq(Letters)
         /\ \A c \in Chars : Append(nstr, c) \in Seq(Chars) /\ Append(pfmt, c) \in Seq(Chars) /\ Append(pfmt, c) # <<>>
         /\ \A c \in Letters : Append(pstr, c) \in Seq(Letters)
         /\ \A e \in {Text(nstr), Item(pstr, pfmt), Error, LastTuple} : Append(vec, e) \in Seq(Tuples)
<1>1. TypeOK /\ vec \in Seq(Tuples)
  BY Zenon DEF Shape
<1>2. nstr \in Seq(Chars) /\ pfmt \in Seq(Chars) /\ pstr \in Seq(Letters) /\ m_error \in BOOLEAN
  BY <1>1 DEF TypeOK
<1>3. /\ \A c \in Chars : Append(nstr, c) \in Seq(Chars) /\ Append(pfmt, c) \in Seq(Chars) /\ Append(pfmt, c) # <<>>
      /\ \A c \in Letters : Append(pstr, c) \in Seq(Letters)
  BY <1>2, AppendProperties
<1>4. \A e \in {Text(nstr), Item(pstr, pfmt), Error, LastTuple} : Append(vec, e) \in Seq(Tuples)
  BY <1>1, TurnTuples, AppendProperties, Zenon
<1> QED  BY <1>1, <1>2, <1>3, <1>4, EmptySeq, Zenon

\* A turn of the loop leaves the parser in one of its states.
LEMMA StepShape ==
  ASSUME Shape, Next
  PROVE  Shape'
<1> DEFINE Adv == /\ m_pattern' \in Seq(Chars) /\ i' \in 0..Len(m_pattern') /\ done' = FALSE
                  /\ status' \in {"NORMAL_STRING", "PARSING_STR", "PARSING_FMT"}
           Texts == /\ nstr' \in Seq(Chars) /\ pfmt' \in Seq(Chars) /\ pstr' \in Seq(Letters)
                    /\ vec' \in Seq(Tuples) /\ m_error' \in BOOLEAN
           Kept == /\ status' # "NORMAL_STRING" => nstr' = <<>>
                   /\ status' = "NORMAL_STRING" => pstr' = <<>>
                   /\ status' # "PARSING_FMT" => pfmt' = <<>>
                   /\ status' = "PARSING_FMT" /\ pfmt' = <<>> => i' # 0 /\ m_pattern'[i'] = "{"
<1>0. ASSUME Adv, Texts, Kept  PROVE Shape'
  BY <1>0, Zenon DEF Shape, TypeOK
<1>p. /\ "%" \in Chars /\ Letters \subseteq Chars /\ Others \subseteq Chars
  BY Zenon DEF Chars
<1>1. CASE NormalEscape
  <2>1. Reads("NORMAL_STRING", "%") /\ Advance(2, "NORMAL_STRING") /\ Doubled
    BY <1>1 DEF NormalEscape
  <2>2. Adv /\ status = "NORMAL_STRING" /\ status' = "NORMAL_STRING"
    BY <2>1, TurnAdvances, Zenon
  <2>3. Texts
    BY <1>p, <1>1, TurnTypes DEF NormalEscape
  <2>4. Kept
    BY <1>p, <1>1, <2>2, TurnTypes DEF NormalEscape, Shape
  <2> QED  BY <1>0, <2>2, <2>3, <2>4, Zenon
<1>2. CASE NormalPercent
  <2>1. Reads("NORMAL_STRING", "%") /\ Advance(1, "PARSING_STR")
    BY <1>2 DEF NormalPercent
  <2>2. Adv /\ status = "NORMAL_STRING" /\ status' = "PARSING_STR"
    BY <2>1, TurnAdvances, Zenon
  <2>3. Texts
    BY <1>p, <1>2, TurnTypes DEF NormalPercent
  <2>4. Kept
    BY <1>p, <1>2, <2>2, TurnTypes DEF NormalPercent, Shape
  <2> QED  BY <1>0, <2>2, <2>3, <2>4, Zenon
<1>3. ASSUME NEW c \in Chars, NormalChar(c)  PROVE Shape'
  <2>1. Reads("NORMAL_STRING", c) /\ Advance(1, "NORMAL_STRING")
    BY <1>3 DEF NormalChar
  <2>2. Adv /\ status = "NORMAL_STRING" /\ status' = "NORMAL_STRING"
    BY <2>1, TurnAdvances, Zenon
  <2>3. Texts
    BY <1>p, <1>3, TurnTypes DEF NormalChar
  <2>4. Kept
    BY <1>p, <1>3, <2>2, TurnTypes DEF NormalChar, Shape
  <2> QED  BY <1>0, <2>2, <2>3, <2>4, Zenon
<1>4. CASE StrOpen
  <2>1. Reads("PARSING_STR", "{") /\ Advance(1, "PARSING_FMT")
    BY <1>4, Zenon DEF StrOpen
  <2>2. Adv /\ status = "PARSING_STR" /\ status' = "PARSING_FMT" /\ m_pattern'[i'] = "{" /\ i' # 0
    BY <2>1, TurnAdvances, Zenon DEF Advance
  <2>3. Texts
    BY <1>p, <1>4, TurnTypes, Zenon DEF StrOpen
  <2>4. Kept
    BY <1>p, <1>4, <2>2, TurnTypes, Zenon DEF StrOpen, Shape
  <2> QED  BY <1>0, <2>2, <2>3, <2>4, Zenon
<1>5. CASE StrClose
  <2>1. Reads("PARSING_STR", "}") /\ Advance(1, "NORMAL_STRING")
    BY <1>5, Zenon DEF StrClose
  <2>2. Adv /\ status = "PARSING_STR" /\ status' = "NORMAL_STRING"
    BY <2>1, TurnAdvances, Zenon
  <2>3. Texts
    BY <1>p, <1>5, TurnTypes, Zenon DEF StrClose, EndItem
  <2>4. Kept
    BY <1>p, <1>5, <2>2, TurnTypes, Zenon DEF StrClose, EndItem, Shape
  <2> QED  BY <1>0, <2>2, <2>3, <2>4, Zenon
<1>6. CASE StrEscape
  <2>1. Reads("PARSING_STR", "%") /\ Advance(2, "NORMAL_STRING") /\ Doubled
    BY <1>6 DEF StrEscape
  <2>2. Adv /\ status = "PARSING_STR" /\ status' = "NORMAL_STRING"
    BY <2>1, TurnAdvances, Zenon
  <2>3. Texts
    BY <1>p, <1>6, TurnTypes DEF StrEscape, EndItem
  <2>4. Kept
    BY <1>p, <1>6, <2>2, TurnTypes DEF StrEscape, EndItem, Shape
  <2> QED  BY <1>0, <2>2, <2>3, <2>4, Zenon
<1>7. CASE StrPercent
  <2>1. Reads("PARSING_STR", "%") /\ Advance(1, "PARSING_STR")
    BY <1>7 DEF StrPercent
  <2>2. Adv /\ status = "PARSING_STR" /\ status' = "PARSING_STR"
    BY <2>1, TurnAdvances, Zenon
  <2>3. Texts
    BY <1>p, <1>7, TurnTypes DEF StrPercent, EndItem
  <2>4. Kept
    BY <1>p, <1>7, <2>2, TurnTypes DEF StrPercent, EndItem, Shape
  <2> QED  BY <1>0, <2>2, <2>3, <2>4, Zenon
<1>8. ASSUME NEW c \in Others, StrOther(c)  PROVE Shape'
  <2>1. Reads("PARSING_STR", c) /\ Advance(1, "NORMAL_STRING")
    BY <1>8 DEF StrOther
  <2>2. Adv /\ status = "PARSING_STR" /\ status' = "NORMAL_STRING"
    BY <2>1, TurnAdvances, Zenon
  <2>3. Texts
    BY <1>p, <1>8, TurnTypes DEF StrOther, EndItem
  <2>4. Kept
    BY <1>p, <1>8, <2>2, TurnTypes DEF StrOther, EndItem, Shape
  <2> QED  BY <1>0, <2>2, <2>3, <2>4, Zenon
<1>9. ASSUME NEW c \in Letters, StrLetter(c)  PROVE Shape'
  <2>1. Reads("PARSING_STR", c) /\ Advance(1, "PARSING_STR")
    BY <1>9 DEF StrLetter
  <2>2. Adv /\ status = "PARSING_STR" /\ status' = "PARSING_STR"
    BY <2>1, TurnAdvances, Zenon
  <2>3. Texts
    BY <1>p, <1>9, TurnTypes DEF StrLetter
  <2>4. Kept
    BY <1>p, <1>9, <2>2, TurnTypes DEF StrLetter, Shape
  <2> QED  BY <1>0, <2>2, <2>3, <2>4, Zenon
<1>10. CASE FmtClose
  <2>1. Reads("PARSING_FMT", "}") /\ Advance(1, "NORMAL_STRING")
    BY <1>10, Zenon DEF FmtClose
  <2>2. Adv /\ status = "PARSING_FMT" /\ status' = "NORMAL_STRING"
    BY <2>1, TurnAdvances, Zenon
  <2>3. Texts
    BY <1>p, <1>10, TurnTypes, Zenon DEF FmtClose, EndItem
  <2>4. Kept
    BY <1>p, <1>10, <2>2, TurnTypes, Zenon DEF FmtClose, EndItem, Shape
  <2> QED  BY <1>0, <2>2, <2>3, <2>4, Zenon
<1>11. CASE FmtOpen
  <2>1. Reads("PARSING_FMT", "{") /\ Advance(1, "NORMAL_STRING")
    BY <1>11, Zenon DEF FmtOpen
  <2>2. Adv /\ status = "PARSING_FMT" /\ status' = "NORMAL_STRING"
    BY <2>1, TurnAdvances, Zenon
  <2>3. Texts
    BY <1>p, <1>11, TurnTypes, Zenon DEF FmtOpen, EndItem
  <2>4. Kept
    BY <1>p, <1>11, <2>2, TurnTypes, Zenon DEF FmtOpen, EndItem, Shape
  <2> QED  BY <1>0, <2>2, <2>3, <2>4, Zenon
<1>12. ASSUME NEW c \in Chars, FmtChar(c)  PROVE Shape'
  <2>1. Reads("PARSING_FMT", c) /\ Advance(1, "PARSING_FMT")
    BY <1>12, Zenon DEF FmtChar
  <2>2. Adv /\ status = "PARSING_FMT" /\ status' = "PARSING_FMT"
    BY <2>1, TurnAdvances, Zenon
  <2>3. Texts
    BY <1>p, <1>12, TurnTypes, Zenon DEF FmtChar
  <2>4. Kept
    BY <1>p, <1>12, <2>2, TurnTypes, Zenon DEF FmtChar, Shape
  <2> QED  BY <1>0, <2>2, <2>3, <2>4, Zenon
<1>13. CASE Finish
  <2>1. /\ UNCHANGED <<m_pattern, i, status, nstr, pstr, pfmt>> /\ vec' = Append(vec, LastTuple)
        /\ m_error' \in BOOLEAN /\ done' = TRUE /\ i = Len(m_pattern)
    BY <1>13 DEF Finish
  <2>2. TypeOK' /\ vec' \in Seq(Tuples)
    BY <2>1, TurnTypes, Zenon DEF Shape, TypeOK
  <2> QED  BY <2>1, <2>2, Zenon DEF Shape
<1> QED  BY <1>1, <1>2, <1>3, <1>4, <1>5, <1>6, <1>7, <1>8, <1>9, <1>10, <1>11, <1>12, <1>13 DEF Next

\* The parser starts with nothing read and nothing lost.
LEMMA InitParse == Init => ParseInv
<1> SUFFICES ASSUME Init  PROVE ParseInv
  OBVIOUS
<1>1. PICK n \in 0..MaxLen : m_pattern \in [1..n -> Chars]
  <2>1. m_pattern \in UNION {[1..n -> Chars] : n \in 0..MaxLen}
    BY Zenon DEF Init, BoundedSeq, SeqOf
  <2> QED  BY <2>1
<1>2. m_pattern \in Seq(Chars) /\ Len(m_pattern) \in Nat
  <2>1. n \in Nat
    <3>1. MaxLen \in Nat
      BY LogFormatterAssumption, Zenon
    <3> QED  BY <3>1
  <2>2. m_pattern \in Seq(Chars)
    BY <1>1, <2>1
  <2> QED  BY <2>2, LenProperties, Zenon
<1>3. Shape
  <2>1. i = 0 /\ 0 \in 0..Len(m_pattern)
    BY <1>2 DEF Init
  <2>2. <<>> \in Seq(Chars) /\ <<>> \in Seq(Letters) /\ <<>> \in Seq(Tuples)
    BY EmptySeq, Zenon
  <2>3. /\ status = "NORMAL_STRING" /\ nstr = <<>> /\ pstr = <<>> /\ pfmt = <<>> /\ vec = <<>>
        /\ m_error = FALSE /\ done = FALSE
    BY Zenon DEF Init
  <2>4. TypeOK
    BY <1>2, <2>1, <2>2, <2>3, Zenon DEF TypeOK
  <2> QED  BY <2>2, <2>3, <2>4, Zenon DEF Shape
<1>4. NothingLost
  <2>1. WrittenAll(vec) = <<>> /\ Pending = <<>>
    <3>1. vec = <<>> /\ nstr = <<>> /\ ~done /\ status = "NORMAL_STRING"
      BY Zenon DEF Init
    <3>2. Pending = Escaped(nstr)
      BY <3>1, PendingIs, Zenon DEF PendingOf
    <3> QED  BY <3>1, <3>2, NothingWritten, Zenon
  <2>2. SubSeq(m_pattern, 1, i) = <<>>
    BY SubSeqEmpty DEF Init
  <2>3. <<>> \o <<>> = <<>>
    BY Signs, ConcatEmptySeq, Zenon
  <2> QED  BY <2>1, <2>2, <2>3, Zenon DEF NothingLost
<1> QED  BY <1>3, <1>4 DEF ParseInv

\* Every step of init() preserves ParseInv.
LEMMA NextParse ==
  ASSUME ParseInv, [Next]_vars
  PROVE  ParseInv'
<1>1. CASE Next
  <2>1. Shape'
    BY <1>1, StepShape DEF ParseInv
  <2>2. CASE StrClose \/ FmtOpen
    <3>1. m_error'
      BY <2>2, Zenon DEF StrClose, FmtOpen
    <3> QED  BY <2>1, <3>1, Zenon DEF ParseInv, NothingLost
  <2> QED  BY <1>1, <2>1, <2>2, NormalKeeps, ItemKeeps, StrEnds, TextEnds, FmtEnds, FinishKeeps, ZenonT(30) DEF ParseInv, Next
<1>2. CASE UNCHANGED vars
  BY <1>2, Zenon DEF vars, ParseInv, Shape, TypeOK, NothingLost, EmptyFormat, Pending
<1> QED  BY <1>1, <1>2

\* The parser of init() neither loses, repeats nor reorders a character until
\* it meets an error, whatever the pattern and its length.
THEOREM PatternKept == Spec => []NothingLost
<1>1. ParseInv => NothingLost
  BY DEF ParseInv
<1> QED  BY <1>1, InitParse, NextParse, PTL DEF Spec

-----------------------------------------------------------------------------
(* Errors *)

Marked(v) == \E k \in DOMAIN v : v[k] = Error
Clean(v) == \A k \in DOMAIN v : v[k] = Error \/ v[k].str \in Seq(Chars)

\* Before init() returns, m_error is set exactly if vec holds <<error_pattern>>,
\* and no other tuple of it reads like a mark.
MarkInv ==
  /\ Clean(vec)
  /\ ~done => (m_error <=> Marked(vec))
  /\ ErrorShown

\* What one more tuple means for vec.
LEMMA MarkAppend ==
  ASSUME NEW v \in Seq(Tuples), NEW e \in Tuples
  PROVE  /\ Marked(Append(v, e)) <=> Marked(v) \/ e = Error
         /\ Clean(v) /\ (e = Error \/ e.str \in Seq(Chars)) => Clean(Append(v, e))
<1> DEFINE w == Append(v, e)
           n == Len(v)
<1>1. /\ n \in Nat /\ DOMAIN v = 1..n /\ DOMAIN w = 1..n + 1 /\ w[n + 1] = e
      /\ \A k \in 1..n : w[k] = v[k]
  <2>1. n \in Nat /\ DOMAIN v = 1..n
    BY LenProperties
  <2>2. w \in Seq(Tuples) /\ Len(w) = n + 1 /\ w[n + 1] = e /\ \A k \in 1..n : w[k] = v[k]
    BY AppendProperties
  <2>3. DOMAIN w = 1..n + 1
    BY <2>2, LenProperties
  <2> QED  BY <2>1, <2>2, <2>3
<1> HIDE DEF w, n
<1>2. DOMAIN w = DOMAIN v \cup {n + 1} /\ \A k \in DOMAIN v : w[k] = v[k]
  BY <1>1
<1>3. w[n + 1] = e
  BY <1>1
<1>4. Marked(w) <=> Marked(v) \/ e = Error
  BY <1>2, <1>3, Zenon DEF Marked
<1>5. Clean(v) /\ (e = Error \/ e.str \in Seq(Chars)) => Clean(w)
  BY <1>2, <1>3, Zenon DEF Clean
<1> QED  BY <1>4, <1>5 DEF w

\* Plain text and the items never read like <<error_pattern>>.
LEMMA NoFalseMark ==
  ASSUME TypeOK
  PROVE  /\ Text(nstr) # Error /\ Text(nstr).str \in Seq(Chars)
         /\ Item(pstr, pfmt) # Error /\ Item(pstr, pfmt).str \in Seq(Chars)
<1>1. nstr \in Seq(Chars) /\ pstr \in Seq(Letters)
  BY Zenon DEF TypeOK
<1>2. pstr \in Seq(Chars)
  <2>1. Letters \subseteq Chars
    BY Zenon DEF Chars
  <2> QED  BY <1>1, <2>1, SeqMonotonic, Zenon
<1>3. Item(pstr, pfmt) # Error
  BY DEF Item, Error
<1>4. Text(nstr) # Error
  <2> SUFFICES ASSUME Text(nstr) = Error  PROVE FALSE
    OBVIOUS
  <2>1. nstr = <<"<<error_pattern>>">>
    BY DEF Text, Error
  <2>2. "<<error_pattern>>" \in Chars
    BY <1>1, <2>1
  <2>3. "<<error_pattern>>" \notin Letters \cup Others
    BY LogFormatterAssumption, Zenon
  <2> QED  BY <2>2, <2>3 DEF Chars
<1> QED  BY <1>1, <1>2, <1>3, <1>4 DEF Text, Item

\* An item that writes one of the two marks of an error.
Shown(m) == m = Error \/ (m.str # <<>> /\ m.str[1] = "<<error_format %")

\* What format() writes for a tuple is a mark of an error exactly if the tuple is
\* <<error_pattern>> or an item that s_format_items does not have.
LEMMA TupleShown ==
  ASSUME NEW e \in Tuples, e = Error \/ e.str \in Seq(Chars)
  PROVE  Shown(IF Known(e) THEN e ELSE ErrorFormat(e.str)) <=> e = Error \/ ~Known(e)
<1>1. CASE ~Known(e)
  <2> DEFINE mark == <<"<<error_format %">>
             t == mark \o e.str
  <2>1. t # <<>> /\ t[1] = "<<error_format %"
    <3>1. mark \in Seq(Symbols \cup {"<<error_format %"}) /\ Len(mark) = 1 /\ mark[1] = "<<error_format %"
      OBVIOUS
    <3>2. e.str \in Seq(Symbols \cup {"<<error_format %"})
      <4>1. e.str \in Seq(Symbols)
        BY DEF Tuples
      <4>2. Symbols \subseteq Symbols \cup {"<<error_format %"}
        BY Zenon
      <4> QED  BY <4>1, <4>2, SeqMonotonic, Zenon
    <3> HIDE DEF mark
    <3>3. Len(e.str) \in Nat
      BY <3>2, LenProperties, Zenon
    <3>4. /\ Len(t) = Len(mark) + Len(e.str)
          /\ \A k \in 1..Len(mark) + Len(e.str) : t[k] = IF k <= Len(mark) THEN mark[k] ELSE e.str[k - Len(mark)]
      BY <3>1, <3>2, ConcatProperties, Zenon
    <3> HIDE DEF t
    <3>5. Len(t) # 0 /\ t[1] = mark[1]
      <4> DEFINE m == Len(mark)
                 n == Len(e.str)
      <4>1. m = 1 /\ n \in Nat /\ Len(t) = m + n
        BY <3>1, <3>3, <3>4, Zenon
      <4>2. 1 \in 1..m + n => t[1] = IF 1 <= m THEN mark[1] ELSE e.str[1 - m]
        BY <3>4, Zenon
      <4> HIDE DEF m, n
      <4> QED  BY <4>1, <4>2
    <3>6. Len(<<>>) = 0
      OBVIOUS
    <3> QED  BY <3>1, <3>5, <3>6, Zenon
  <2>2. ErrorFormat(e.str).str = t
    BY Zenon DEF ErrorFormat, Text
  <2> HIDE DEF t
  <2> QED  BY <1>1, <2>1, <2>2, Zenon DEF Shown
<1>2. CASE Known(e) /\ e # Error
  <2>1. e.str \in Seq(Chars)
    BY <1>2
  <2>2. e.str # <<>> => e.str[1] \in Chars
    BY <2>1
  <2>3. "<<error_format %" \notin Chars
    <3>1. "<<error_format %" \notin Letters \cup Others
      BY LogFormatterAssumption, Zenon
    <3> QED  BY <3>1, Zenon DEF Chars
  <2> QED  BY <1>2, <2>2, <2>3, Zenon DEF Shown
<1>3. CASE Known(e) /\ e = Error
  BY <1>3, Zenon DEF Shown
<1> QED  BY <1>1, <1>2, <1>3

\* The end of init(): what it says is what the items show.
LEMMA FinishMarks ==
  ASSUME Shape, MarkInv, Finish
  PROVE  MarkInv'
<1> DEFINE all == Append(vec, LastTuple)
<1>0. TypeOK /\ vec \in Seq(Tuples) /\ LastTuple \in Tuples
  BY TurnTuples, Zenon DEF Shape
<1>1. /\ ~done /\ vec' = all /\ done'
      /\ m_error' = (m_error \/ LastTuple = Error \/ \E k \in DOMAIN all : ~Known(all[k]))
      /\ m_items' = [k \in DOMAIN all |-> IF Known(all[k]) THEN all[k] ELSE ErrorFormat(all[k].str)]
  BY DEF Finish
<1>2. LastTuple = Error \/ LastTuple.str \in Seq(Chars)
  BY <1>0, NoFalseMark, Zenon DEF LastTuple
<1>3. Clean(all) /\ (Marked(all) <=> Marked(vec) \/ LastTuple = Error)
  BY <1>0, <1>2, MarkAppend, Zenon DEF MarkInv
<1>4. all \in Seq(Tuples)
  BY <1>0, AppendProperties, Zenon
<1> HIDE DEF all
<1>5. m_error' <=> \E k \in DOMAIN all : all[k] = Error \/ ~Known(all[k])
  BY <1>1, <1>3, Zenon DEF MarkInv, Marked
<1>6. ASSUME NEW k \in DOMAIN all  PROVE Shown(m_items'[k]) <=> all[k] = Error \/ ~Known(all[k])
  <2>1. all[k] \in Tuples
    BY <1>4
  <2>2. all[k] = Error \/ all[k].str \in Seq(Chars)
    BY <1>3, Zenon DEF Clean
  <2>3. m_items'[k] = IF Known(all[k]) THEN all[k] ELSE ErrorFormat(all[k].str)
    BY <1>1
  <2> QED  BY <2>1, <2>2, <2>3, TupleShown, Zenon
<1>7. DOMAIN m_items' = DOMAIN all
  BY <1>1
<1>8. ErrorShown'
  BY <1>5, <1>6, <1>7, Zenon DEF ErrorShown, Shown
<1> QED  BY <1>1, <1>3, <1>8, Zenon DEF MarkInv

\* A turn sets m_error exactly when it adds <<error_pattern>>.
LEMMA TurnMarks ==
  ASSUME ParseInv, MarkInv, Next, ~Finish
  PROVE  MarkInv'
<1>1. TypeOK /\ vec \in Seq(Tuples)
  BY Zenon DEF ParseInv, Shape
<1>2. ~done /\ ~done'
  <2>1. ~done
    BY LoopRuns, ZenonT(30)
    DEF Next, NormalEscape, NormalPercent, NormalChar, StrOpen, StrClose, StrEscape, StrPercent, StrOther,
        StrLetter, FmtClose, FmtOpen, FmtChar
  <2>2. done' = done
    BY ZenonT(30)
    DEF Next, NormalEscape, NormalPercent, NormalChar, StrOpen, StrClose, StrEscape, StrPercent, StrOther,
        StrLetter, FmtClose, FmtOpen, FmtChar, Advance
  <2> QED  BY <2>1, <2>2
<1>3. ErrorShown'
  BY <1>2, Zenon DEF ErrorShown
<1>4. \/ vec' = vec /\ m_error' = m_error
      \/ vec' = Append(vec, Text(nstr)) /\ m_error' = m_error
      \/ vec' = Append(vec, Item(pstr, pfmt)) /\ m_error' = m_error
      \/ vec' = Append(vec, Error) /\ m_error' = TRUE
  BY ZenonT(30)
  DEF Next, NormalEscape, NormalPercent, NormalChar, StrOpen, StrClose, StrEscape, StrPercent, StrOther,
      StrLetter, FmtClose, FmtOpen, FmtChar, EndItem
<1>5. Clean(vec') /\ (m_error' <=> Marked(vec'))
  <2>1. Clean(vec) /\ (m_error <=> Marked(vec))
    BY <1>2, Zenon DEF MarkInv
  <2>2. Text(nstr) \in Tuples /\ Item(pstr, pfmt) \in Tuples /\ Error \in Tuples
    BY <1>1, TurnTuples, Zenon
  <2>3. CASE vec' = vec /\ m_error' = m_error
    BY <2>1, <2>3, Zenon
  <2>4. CASE vec' = Append(vec, Text(nstr)) /\ m_error' = m_error
    BY <1>1, <2>1, <2>2, <2>4, NoFalseMark, MarkAppend, Zenon
  <2>5. CASE vec' = Append(vec, Item(pstr, pfmt)) /\ m_error' = m_error
    BY <1>1, <2>1, <2>2, <2>5, NoFalseMark, MarkAppend, Zenon
  <2>6. CASE vec' = Append(vec, Error) /\ m_error' = TRUE
    BY <1>1, <2>1, <2>2, <2>6, MarkAppend, Zenon
  <2> QED  BY <1>4, <2>3, <2>4, <2>5, <2>6, Zenon
<1> QED  BY <1>2, <1>3, <1>5, Zenon DEF MarkInv, Clean, Marked

\* isError() agrees with what format() writes, whatever the pattern and the
\* table of items.
THEOREM ErrorsShown == Spec => []ErrorShown
<1>1. Init => MarkInv
  <2>1. DOMAIN <<>> = {}
    OBVIOUS
  <2> QED  BY <2>1, Zenon DEF Init, MarkInv, Clean, Marked, ErrorShown
<1>2. ASSUME ParseInv, MarkInv, [Next]_vars  PROVE MarkInv'
  <2>1. CASE Finish
    BY <1>2, <2>1, FinishMarks DEF ParseInv
  <2>2. CASE Next /\ ~Finish
    BY <1>2, <2>2, TurnMarks
  <2>3. CASE UNCHANGED vars
    BY <1>2, <2>3, Zenon DEF vars, MarkInv, Clean, Marked, ErrorShown
  <2> QED  BY <1>2, <2>1, <2>2, <2>3
<1>3. MarkInv => ErrorShown
  BY DEF MarkInv
<1> QED  BY <1>1, <1>2, <1>3, InitParse, NextParse, PTL DEF Spec

=============================================================================
