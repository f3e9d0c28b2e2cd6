------------------------------ MODULE Patterns ------------------------------
(***************************************************************************)
(* The store of replayable patterns (storage/patterns.py).  A pattern is   *)
(* saved when a human confirms an RCA; later alerts of the same name try   *)
(* it before they investigate.  Every operation holds the process's lock   *)
(* from its first statement to its commit, so each is one step.            *)
(***************************************************************************)
EXTENDS Naturals, Sequences, SequencesExt

CONSTANTS
  AlertNames,
  CauseTypes,    (* root_cause_type *)
  Incidents,
  Keywords       (* how many verification keywords an extraction may yield *)

VARIABLE pattern   (* the rows, in the order of their creation *)

PatternsInit == pattern = <<>>

Active(p) == pattern[p].status = "active"

Known(a, t) == {p \in DOMAIN pattern :
                  Active(p) /\ pattern[p].alert = a /\ pattern[p].cause = t}

(* What the LLM may extract from a confirmed RCA: a cause and its keywords. *)
(* An answer without all of its fields counts as none.                     *)
Extractions == CauseTypes \X Keywords

(* A row; fresh if last_seen is within the last 30 days. *)
NewRow(a, t, k, i) ==
  [alert |-> a, cause |-> t, status |-> "active", hits |-> 1, misses |-> 0,
   last |-> i, keywords |-> k, fresh |-> TRUE]

(* An incident shows what the row says. *)
Seen(row, i) == [row EXCEPT !.hits = row.hits + 1, !.last = i, !.fresh = TRUE]

(* A cause already known is overwritten and linked to the new incident.    *)
(* The SELECT takes one row, so one is updated should there be several.    *)
SavePattern(a, t, k, i) ==
  pattern' =
    IF Known(a, t) = {}
    THEN Append(pattern, NewRow(a, t, k, i))
    ELSE LET p == CHOOSE q \in Known(a, t) : TRUE IN
         [pattern EXCEPT ![p] = [Seen(@, i) EXCEPT !.keywords = k]]

(* ORDER BY hit_count DESC: the caller tries the first. *)
Candidates(a) == {p \in DOMAIN pattern :
                    Active(p) /\ pattern[p].alert = a /\ pattern[p].fresh}

Best(a) == {p \in Candidates(a) :
              \A q \in Candidates(a) : pattern[q].hits <= pattern[p].hits}

(* What a replay concludes from how many of its keywords are in the tools' *)
(* output, and whether a keyword of another cause is.                      *)
Verdict(found, total, other) ==
  IF other \/ total = 0 \/ 10 * found < 6 * total THEN "differs" ELSE "matched"

ReplayVerdicts(p) == {Verdict(n, pattern[p].keywords, other) :
                        n \in 0..pattern[p].keywords, other \in BOOLEAN}

MarkHit(p, i) == pattern' = [pattern EXCEPT ![p] = Seen(@, i)]

(* Two statements under one lock.  The second does not ask for 'active'. *)
MarkMiss(p) ==
  LET missed == [pattern[p] EXCEPT !.misses = pattern[p].misses + 1] IN
  pattern' = [pattern EXCEPT ![p] =
                IF missed.misses > 2 * missed.hits
                THEN [missed EXCEPT !.status = "expired"] ELSE missed]

(* Mutant: only among those the replay would still consider. *)
InvalidateRecent(i) ==
  pattern' = [p \in DOMAIN pattern |->
                IF Active(p) /\ pattern[p].last = i /\ pattern[p].fresh
                THEN [pattern[p] EXCEPT !.status = "wrong"] ELSE pattern[p]]

(* By the link to the last incident only. *)
Invalidate(i) ==
  pattern' = [p \in DOMAIN pattern |->
                IF Active(p) /\ pattern[p].last = i
                THEN [pattern[p] EXCEPT !.status = "wrong"] ELSE pattern[p]]

(* Thirty days pass without a sighting of p. *)
Age(p) ==
  /\ pattern[p].fresh
  /\ pattern' = [pattern EXCEPT ![p] = [@ EXCEPT !.fresh = FALSE]]
=============================================================================
