------------------------------ MODULE MCLogger ------------------------------
(***************************************************************************)
(* Logger for TLC: a thread that loads the documents in any order while    *)
(* another one logs, prints, and sets up a logger of its own.  The         *)
(* documents define a logger in full, define it again with a part missing  *)
(* and a part wrong, together with the root logger, or define nothing.     *)
(***************************************************************************)
EXTENDS Logger, TLC

CONSTANTS t1, t2

MCKind == [l \in Locks |-> "Mutex"]
MCMaxCalls == t1 :> 3 @@ t2 :> 2

Define(name, rest) == MapNode(<< <<"name", Text(name)>> >> \o rest)
Appenders(s) == <<"appenders", SeqNode(s)>>

MCDocs ==
  << SeqNode(<<Define("a", << <<"level", Text("INFO")>>, <<"formatter", Text("f")>>,
       Appenders(<<MapNode(<< <<"type", Text(File)>>, <<"file", Text("a.log")>>, <<"level", Text("ERROR")>> >>),
                   MapNode(<< <<"type", Text(File)>> >>),
                   MapNode(<< <<"type", Text(Stdout)>>, <<"formatter", Text("g")>> >>)>>) >>)>>),
     SeqNode(<<Define("a", << <<"formatter", Text("f")>> >>),
               Define("root", << <<"level", Text("WARN")>>, <<"formatter", Text("bad")>>,
       Appenders(<<MapNode(<< <<"type", Text(Stdout)>> >>)>>) >>),
               Define("a", << <<"level", Text("DEBUG")>> >>)>>),
     NullNode >>

MCFresh == {[type |-> Stdout, file |-> "", level |-> DEBUG, formatter |-> NoFormatter]}

=============================================================================
