---------------------------- MODULE MCGovernance ----------------------------
(* Instances of module Governance for TLC.  The processes are              *)
(* interchangeable: no definition tells them apart.                        *)
EXTENDS Governance, TLC

Symmetry == Permutations(Proc)
=============================================================================
