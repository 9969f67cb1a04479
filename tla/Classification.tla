---------------------------- MODULE Classification ----------------------------
(***************************************************************************)
(* What a call is about (internal/classify/target.go): the gates and the   *)
(* learned constraints know a call by its tool and by one string of its    *)
(* arguments.                                                              *)
(*                                                                         *)
(* The arguments of a call are a function from the names of those that are *)
(* strings to their values; arguments of other types are never a target.   *)
(***************************************************************************)
EXTENDS Naturals, Sequences, FiniteSets

\* The names that are looked for, in this order.
TargetKeys ==
  <<"path", "file_path", "filepath", "filename", "uri", "url", "directory", "dir", "name",
    "target", "resource", "table", "database", "collection", "bucket", "key", "id">>

\* The arguments that can be a target at all.
Texts(args) == {n \in DOMAIN args : args[n] # ""}

\* The places of the names that are among them, and the first of those.
Known(args)      == {i \in DOMAIN TargetKeys : TargetKeys[i] \in Texts(args)}
FirstKnown(args) == CHOOSE i \in Known(args) : \A j \in Known(args) : i <= j

\* Variant: the first string of the arguments, whatever its name.
ExtractTargetOfAny(args) == IF Texts(args) = {} THEN {""} ELSE {args[n] : n \in Texts(args)}

\* The targets ExtractTarget may return.  The arguments are a Go map: when
\* none of the names is among them, the string that comes first is another
\* from call to call.
ExtractTarget(args) ==
  IF Known(args) # {} THEN {args[TargetKeys[FirstKnown(args)]]}
  ELSE IF Texts(args) # {} THEN {args[n] : n \in Texts(args)}
  ELSE {""}

\* The arguments leave no choice: a name that is looked for is among them, or
\* there is one string at most.
Definite(args) == Known(args) # {} \/ Cardinality(Texts(args)) <= 1
===============================================================================
