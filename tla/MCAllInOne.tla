----------------------------- MODULE MCAllInOne -----------------------------
(***************************************************************************)
(* Instances of AllInOne for TLC.                                          *)
(***************************************************************************)
EXTENDS AllInOneProperties, TLC

CONSTANTS a1, a2, r1, k1, i1, i2, i3, none

(* Alerts of one entity, reports of none. *)
EntityOf == [a \in Alerts |-> IF a \in Reports THEN none ELSE k1]

(* Alerts too vague to correlate. *)
NoEntity == [a \in Alerts |-> none]

SameIncidents == Permutations(Incidents)
=============================================================================
