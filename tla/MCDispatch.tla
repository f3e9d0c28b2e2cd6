----------------------------- MODULE MCDispatch -----------------------------
(***************************************************************************)
(* Instances of Dispatch for TLC.                                          *)
(***************************************************************************)
EXTENDS DispatchProperties, TLC

CONSTANTS a1, a2, k1, i1, i2, e1, e2, e3, none

(* Keys, routes and pools of the configurations. *)
SameKey    == [a \in Alerts |-> k1]
Vague      == [a \in Alerts |-> NoKey]
ToAws      == [a \in Alerts |-> "aws"]
ToBoth     == [a \in Alerts |-> "both"]
AwsPool    == [e \in Executors |-> "aws"]
OneEach    == [e \in Executors |-> IF e = e1 THEN "aws" ELSE "gcp"]

(* Two executors in aws's pool, one in gcp's. *)
TwoAndOne  == [e \in Executors |-> IF e = e3 THEN "gcp" ELSE "aws"]

Interchangeable == Permutations({e1, e2}) \cup Permutations(Incidents)
=============================================================================
