----------------------------- MODULE CrossCloud -----------------------------
(***************************************************************************)
(* The join of a `both'-cloud investigation (core/cross_cloud.py): each    *)
(* cloud's executor writes its finding, and one of them, chosen by an      *)
(* INSERT on the primary key of cross_cloud_synthesis, merges the two.     *)
(***************************************************************************)
EXTENDS Naturals

CONSTANT Incidents

VARIABLES
  finding,   (* <<incident, cloud>> rows of cross_cloud_findings *)
  claimed,   (* incidents with a row in cross_cloud_synthesis *)
  unified    (* per incident, unified RCAs posted *)

crossVars == <<finding, claimed, unified>>

CrossTypeOK ==
  /\ finding \subseteq Incidents \X {"aws", "gcp"}
  /\ claimed \subseteq Incidents
  /\ unified \in [Incidents -> Nat]

CrossInit ==
  /\ finding = {}
  /\ claimed = {}
  /\ unified = [i \in Incidents |-> 0]

-----------------------------------------------------------------------------

WriteFinding(j) == finding' = finding \cup {j}

BothPresent(i) == {<<i, "aws">>, <<i, "gcp">>} \subseteq finding

(* Mutant: the INSERT OR IGNORE's row count is not looked at. *)
ClaimAnyway(i) == claimed' = claimed \cup {i}

(* claim_synthesis returns TRUE: the INSERT met no row. *)
Claim(i) ==
  /\ i \notin claimed
  /\ claimed' = claimed \cup {i}

PostUnified(i) == unified' = [unified EXCEPT ![i] = @ + 1]
=============================================================================
