--------------------------- MODULE Investigations ---------------------------
(***************************************************************************)
(* The durable investigations table (storage/investigations.py): one row   *)
(* per job, with the status, the attempt counter and the last checkpointed *)
(* step of its investigation.  Each operator below is what one call of the *)
(* storage API does to the table; callers (Dispatch, AllInOne) decide the  *)
(* order, which nothing in the table enforces.                             *)
(*                                                                         *)
(* claim_investigation reads the row with one statement and updates it     *)
(* with another, under a lock that only covers one process, so it is two   *)
(* operators: ClaimVerdict is the read, WriteClaim the update.             *)
(***************************************************************************)
EXTENDS Naturals

CONSTANTS
  Jobs,          (* row ids *)
  Workers,       (* worker ids: host names of the pods *)
  Nobody,        (* worker_id of a row never claimed *)
  MaxAttempts    (* claims after which a job is given up *)

VARIABLE row

(* Mutant: a row someone is running counts as settled. *)
SettledStatus == {"done", "failed", "running"}

FinalStatus == {"done", "failed"}
LiveStatus  == {"queued", "running", "awaiting_fix_review"}
Status      == FinalStatus \cup LiveStatus \cup {"absent", "aborted"}

Row == [status: Status, attempt: Nat, step: Nat, worker: Workers \cup {Nobody}]

NoRow == [status |-> "absent", attempt |-> 0, step |-> 0, worker |-> Nobody]

TableTypeOK == row \in [Jobs -> Row]

TableInit == row = [j \in Jobs |-> NoRow]

-----------------------------------------------------------------------------

(* INSERT ... ON CONFLICT(id) DO NOTHING. *)
CreateRow(j) ==
  row' = IF row[j].status = "absent"
         THEN [row EXCEPT ![j].status = "queued"]
         ELSE row

(* What a claim concludes from the row it has read. *)
Verdicts == {"refused", "spent", "granted"}

(* Mutant: attempts are counted and never compared. *)
ClaimVerdictUnbudgeted(j) ==
  IF row[j].status \in FinalStatus \cup {"absent"} THEN "refused" ELSE "granted"

ClaimVerdict(j) ==
  IF row[j].status \in FinalStatus \cup {"absent"} THEN "refused"
  ELSE IF row[j].attempt >= MaxAttempts THEN "spent"
  ELSE "granted"

Claimed(r, w) == [r EXCEPT !.status = "running", !.attempt = r.attempt + 1, !.worker = w]

(* The update that follows.  It is unconditional: the row may have changed *)
(* since it was read.                                                      *)
WriteClaim(j, w, verdict) ==
  row' = CASE verdict = "refused" -> row
           [] verdict = "spent"   -> [row EXCEPT ![j].status = "failed"]
           [] verdict = "granted" -> [row EXCEPT ![j] = Claimed(row[j], w)]

Checkpoint(j, s) ==
  row' = IF row[j].status = "absent" THEN row ELSE [row EXCEPT ![j].step = s]

(* UPDATE ... AND status != 'aborted'. *)
Finish(j, status) ==
  row' = IF row[j].status \in {"absent", "aborted"}
         THEN row
         ELSE [row EXCEPT ![j].status = status]

(* The console's abort, in two calls: only a queued or running row may be  *)
(* aborted, but the update that marks it does not look again.              *)
Abortable(j) == row[j].status \in {"queued", "running"}

(* Mutant: a status no reader of the table knows. *)
MarkCancelled(j) == row' = [row EXCEPT ![j].status = "cancelled"]

MarkAborted(j) == row' = [row EXCEPT ![j].status = "aborted"]
=============================================================================
