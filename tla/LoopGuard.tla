----------------------------- MODULE LoopGuard -----------------------------
(***************************************************************************)
(* core/safeguards.py: what keeps the model from running the same tool     *)
(* with the same parameters over and over.  Outputs of this process's run  *)
(* are remembered until it ends, counts until the next compaction.         *)
(***************************************************************************)
EXTENDS Naturals

CONSTANTS Calls, MaxIdentical

VARIABLES counts,    (* identical calls let through or refused by count; a
                        count above MaxIdentical is kept as MaxIdentical + 1 *)
          recorded   (* calls whose output is in the run's list of outputs *)

GuardTypeOK ==
  /\ counts \in [Calls -> 0..MaxIdentical + 1]
  /\ recorded \subseteq Calls

GuardInit ==
  /\ counts = [c \in Calls |-> 0]
  /\ recorded = {}

FreshGuard ==
  /\ counts' = [c \in Calls |-> 0]
  /\ recorded' = {}

(* Mutant: off by one. *)
IsAllowedOnceMore(c) == c \notin recorded /\ counts[c] <= MaxIdentical

IsAllowed(c) == c \notin recorded /\ counts[c] < MaxIdentical

(* is_allowed counts the call unless its output is known. *)
Count(c) ==
  counts' = IF c \in recorded \/ counts[c] > MaxIdentical THEN counts
            ELSE [counts EXCEPT ![c] = @ + 1]

(* Mutant: outputs without their params, which match no later call. *)
RecordUnmatched(c) == UNCHANGED recorded

Record(c) == recorded' = recorded \cup {c}

(* After compaction. *)
Reset == counts' = [c \in Calls |-> 0]
=============================================================================
