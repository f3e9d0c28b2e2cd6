------------------------------ MODULE MCEngine ------------------------------
(***************************************************************************)
(* Instances of Engine for TLC.  (No symmetry: the runs check liveness, or *)
(* stop at their first counterexample.)                                    *)
(***************************************************************************)
EXTENDS EngineProperties

CONSTANTS c1, c2, d1, d2
=============================================================================
