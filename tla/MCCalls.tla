-------------------------------- MODULE MCCalls --------------------------------
(* Instances of module Calls for TLC: a call with a name ExtractTarget      *)
(* looks for, and one without, which has two strings to choose from.        *)
EXTENDS Calls

Edit  == [tool |-> "edit", args |-> [n \in {"path", "content"} |-> IF n = "path" THEN "f" ELSE "x"]]
Query == [tool |-> "ask", args |-> [n \in {"query", "lang"} |-> IF n = "query" THEN "q" ELSE "en"]]

MCCalls == {Edit, Query}
MCKeys  == {<<"edit", "f">>, <<"edit", "x">>, <<"ask", "q">>, <<"ask", "en">>}
================================================================================
