------------------------------ MODULE MCProxy ------------------------------
(* Instances of module Proxy for TLC: an agent that uses an id again, with   *)
(* another in between or not.                                               *)
EXTENDS Proxy

MCReusedId == <<"a", "b", "a">>
=============================================================================
