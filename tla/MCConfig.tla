------------------------------ MODULE MCConfig ------------------------------
(***************************************************************************)
(* Config for TLC: a name that one thread registers as a set, a member of  *)
(* a map that two threads register, as a number and as a vector, and a     *)
(* name that is refused.  The documents hold a value for each of them, one *)
(* that cannot be converted, and members below an invalid key.             *)
(***************************************************************************)
EXTENDS Config, TLC

CONSTANTS t1, t2, x1, x2, x3, x4, x5, x6

MCType == x1 :> "set" @@ x2 :> "int" @@ x3 :> "vector" @@ x4 :> "map" @@ x5 :> "int" @@ x6 :> "set"
MCDefault == x1 :> {} @@ x2 :> 1 @@ x3 :> <<>> @@ x4 :> [k \in {<<"a">>} |-> 1] @@ x5 :> 1 @@ x6 :> {}

Users == <<"users">>
Port == <<"system", "port">>
Table == <<"table">>

MCAsks == {<<t1, Users, "set">>, <<t1, Port, "int">>, <<t2, Port, "vector">>,
           <<t2, <<"Users">>, "set">>, <<t2, Table, "map">>}

MCMaxAsks == t1 :> 3 @@ t2 :> 2

MCDocs ==
  << MapNode(<< <<Users, SeqNode(<<Number(2), Number(1), Number(2)>>)>>,
                <<<<"system">>, MapNode(<< <<<<"port">>, Number(3)>> >>)>>,
                <<Table, MapNode(<< <<<<"b">>, Number(2)>>, <<<<"a">>, Number(1)>>, <<<<"b">>, Number(3)>> >>)>> >>),
     MapNode(<< <<<<"System">>, MapNode(<< <<<<"port">>, Number(5)>> >>)>>,
                <<Users, SeqNode(<<Text("one")>>)>>,
                <<Port, SeqNode(<<Number(4), Number(4)>>)>> >>) >>

=============================================================================
