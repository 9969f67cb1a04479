------------------------------ MODULE MCTokens ------------------------------
(* Instances of module Tokens for TLC.  The processes are interchangeable:  *)
(* no definition tells them apart.                                          *)
EXTENDS Tokens, TLC

Symmetry == Permutations(Proc)
=============================================================================
