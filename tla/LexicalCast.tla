----------------------------- MODULE LexicalCast -----------------------------
(***************************************************************************)
(* The conversions of sylar/config.h between the text of a configuration   *)
(* and a value: LexicalCast for a number and for the containers, whose     *)
(* elements are converted by the LexicalCast of the element type.          *)
(*                                                                         *)
(* The text is its YAML tree: yaml-cpp (external) turns one into the other *)
(* and back.  A node has a kind and, by kind, a value, a sequence of nodes *)
(* or a sequence of pairs of key and node.  A conversion from text gives   *)
(* the set of its results: one value, or none when it throws.              *)
(***************************************************************************)
EXTENDS Integers, Sequences, FiniteSets, Functions

NullNode == [kind |-> "null"]
Number(n) == [kind |-> "number", v |-> n]
Text(s) == [kind |-> "text", v |-> s]
SeqNode(s) == IF s = <<>> THEN NullNode ELSE [kind |-> "seq", v |-> s]
MapNode(s) == IF s = <<>> THEN NullNode ELSE [kind |-> "map", v |-> s]

IsScalar(node) == node.kind \in {"number", "text"}

The(S) == CHOOSE x \in S : TRUE

\* The elements of a finite set in some order, each once.
Listing(S) == The(Injection(1..Cardinality(S), S))

-----------------------------------------------------------------------------
\* boost::lexical_cast<int>
FromNumber(node) == IF node.kind = "number" THEN {node.v} ELSE {}
ToNumber(n) == Number(n)

\* node[i] for i below node.size(): a scalar has no element; the elements of a map
\* are counted but not found, since a number is not its key.
Elements(node) ==
  CASE node.kind = "seq" -> node.v
    [] node.kind = "map" -> [i \in DOMAIN node.v |-> NullNode]
    [] OTHER -> <<>>

\* The elements converted in order, where results[i] is what the conversion of the
\* i-th gives; the first that throws ends the conversion.
FromElements(results) ==
  IF \E i \in DOMAIN results : results[i] = {} THEN {}
  ELSE {[i \in DOMAIN results |-> The(results[i])]}

\* std::vector and std::list
FromVector(results) == FromElements(results)
ToVector(texts) == SeqNode(texts)

\* insert() of s[1], s[2], ... into a set whose elements are equal if their keys are:
\* it leaves the element that is there.
Inserted(s, keys) == {s[i] : i \in {j \in DOMAIN s : \A k \in 1..j - 1 : keys[j] # keys[k]}}

\* std::set and std::unordered_set of numbers
FromSet(results) == {Inserted(s, s) : s \in FromElements(results)}

\* Faulty variant: the first element is not written.
SetText_DropsOne(text) == LET s == Listing(DOMAIN text) IN SeqNode([i \in 1..Len(s) - 1 |-> text[s[i + 1]]])

\* text[x] is the text of the element x.  The order of the elements in the whole
\* does not matter to FromSet.
SetText(text) == LET s == Listing(DOMAIN text) IN SeqNode([i \in DOMAIN s |-> text[s[i]]])

\* The pairs of key and node that the iterator over a node gives.
Pairs(node) == IF node.kind = "map" THEN node.v ELSE <<>>

\* std::map and std::unordered_map from strings, where results[i] is what the
\* conversion of the i-th pair's node gives.  The iterator over a sequence has no
\* key to give, and throws.
FromMap(node, results) ==
  LET pairs == Pairs(node)
      first(k) == CHOOSE i \in DOMAIN pairs : pairs[i][1] = k /\ \A j \in 1..i - 1 : pairs[j][1] # k
  IN  IF node.kind = "seq" THEN {}
      ELSE {[k \in {pairs[i][1] : i \in DOMAIN pairs} |-> s[first(k)]] : s \in FromElements(results)}

ToMap(text) ==
  LET s == Listing(DOMAIN text) IN MapNode([i \in DOMAIN s |-> <<s[i], text[s[i]]>>])

\* The types of variable that the configuration uses: FromStr and ToStr by type.
FromStr(type, node) ==
  LET numbers == [i \in DOMAIN Elements(node) |-> FromNumber(Elements(node)[i])]
      values  == [i \in DOMAIN Pairs(node) |-> FromNumber(Pairs(node)[i][2])]
  IN  CASE type = "int" -> FromNumber(node)
        [] type = "vector" -> FromVector(numbers)
        [] type = "set" -> FromSet(numbers)
        [] type = "map" -> FromMap(node, values)

ToStr(type, val) ==
  CASE type = "int" -> ToNumber(val)
    [] type = "vector" -> ToVector([i \in DOMAIN val |-> ToNumber(val[i])])
    [] type = "set" -> SetText([x \in val |-> ToNumber(x)])
    [] type = "map" -> ToMap([k \in DOMAIN val |-> ToNumber(val[k])])

-----------------------------------------------------------------------------
\* val is a value of the type.
ValueOf(type, val) ==
  \/ type = "int" /\ val \in Int
  \/ type = "vector" /\ val \in Seq(Int)
  \/ type = "set" /\ val \subseteq Int /\ IsFiniteSet(val)
  \/ /\ type = "map" /\ IsFiniteSet(DOMAIN val)
     /\ val = [k \in DOMAIN val |-> val[k]] /\ \A k \in DOMAIN val : val[k] \in Int

\* The node, and what it consists of, are as the parser builds them.
IntNode(node) == node.kind = "number" => node.v \in Int
IsList(s) == Len(s) \in Nat /\ DOMAIN s = 1..Len(s)

NodeOK(node) ==
  /\ IntNode(node) /\ (node.kind \in {"seq", "map"} => IsList(node.v))
  /\ node.kind = "seq" => \A i \in DOMAIN node.v : IntNode(node.v[i])
  /\ node.kind = "map" => \A i \in DOMAIN node.v : IntNode(node.v[i][2])

=============================================================================
