--------------------------- MODULE MCLogFormatter ---------------------------
(* Constants of LogFormatter for TLC: one letter that is a name of the     *)
(* table, one that is not, and one character that is neither.              *)
EXTENDS LogFormatter

MCLetters == {"m", "x"}
MCOthers == {" "}
MCNames == {<<"m">>}

=============================================================================
