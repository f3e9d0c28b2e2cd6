------------------------------ MODULE Runbooks ------------------------------
(***************************************************************************)
(* Runbooks and the map from alerts to them (storage/runbooks.py), and the *)
(* hybrid retrieval that reads both (core/runbook_match.py).               *)
(***************************************************************************)
EXTENDS Naturals, FiniteSets

CONSTANTS
  AlertNames,     (* normalized keys of alert names *)
  RunbookIds

VARIABLES
  runbook,   (* per id the row: status and counters *)
  mapped     (* alert_runbook_map *)

DemoteMinMisses == 3
MaxReturned     == 3
RerankThreshold == 3

NoRunbook == [status |-> "absent", hits |-> 0, misses |-> 0]

Exists(r) == runbook[r].status # "absent"

(* Mutant: the edited text comes with the status 'active'. *)
SaveRunbookActive(r) ==
  /\ runbook' = [runbook EXCEPT ![r] = [@ EXCEPT !.status = "active"]]
  /\ UNCHANGED mapped

(* INSERT ... ON CONFLICT: an edit keeps status and counters. *)
SaveRunbook(r) ==
  /\ runbook' = IF Exists(r) THEN runbook
                ELSE [runbook EXCEPT ![r] = [NoRunbook EXCEPT !.status = "active"]]
  /\ UNCHANGED mapped

DeleteRunbook(r) ==
  /\ runbook' = [runbook EXCEPT ![r] = NoRunbook]
  /\ mapped' = {m \in mapped : m[2] # r}

MapAlert(a, r) ==
  /\ mapped' = mapped \cup {<<a, r>>}
  /\ UNCHANGED runbook

(* The map's row is added even when the runbook is gone. *)
MarkRunbookHit(r, a) ==
  /\ runbook' = IF Exists(r) THEN [runbook EXCEPT ![r] = [@ EXCEPT !.hits = runbook[r].hits + 1]]
                ELSE runbook
  /\ mapped' = mapped \cup {<<a, r>>}

Demotable(b) ==
  /\ b.misses >= DemoteMinMisses
  /\ 10 * b.misses >= 7 * (b.hits + b.misses)

MarkRunbookMiss(r) ==
  /\ runbook' =
       IF ~Exists(r) THEN runbook
       ELSE LET missed == [runbook[r] EXCEPT !.misses = runbook[r].misses + 1] IN
            [runbook EXCEPT ![r] = IF Demotable(missed)
                                   THEN [missed EXCEPT !.status = "demoted"]
                                   ELSE missed]
  /\ UNCHANGED mapped

-----------------------------------------------------------------------------
(* Retrieval.  The legs by keyword and by similarity may rank any active   *)
(* runbook; the exact leg ranks those the alert is mapped to.  The merged  *)
(* ranking is cut to the first three.                                      *)

Eligible == {r \in RunbookIds : runbook[r].status = "active"}

(* An ambiguous ranking goes to the LLM, which may drop what it likes.     *)
Reranked(S) == S # {} /\ Cardinality(Eligible) > RerankThreshold

MappedTo(a) == {r \in RunbookIds : <<a, r>> \in mapped}

Matches(a) ==
  {S \in SUBSET Eligible :
     /\ Cardinality(S) <= MaxReturned
     /\ \/ MappedTo(a) \cap Eligible \subseteq S
        \/ Cardinality(S) = MaxReturned
        \/ Reranked(S)}
=============================================================================
