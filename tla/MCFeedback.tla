----------------------------- MODULE MCFeedback -----------------------------
(***************************************************************************)
(* Instances of Feedback for TLC.                                          *)
(***************************************************************************)
EXTENDS Feedback, TLC

CONSTANTS i1, i2, h1, h2, alarm, none, uncached

OneAlarm == [i \in Incidents |-> alarm]

(* Two people judge, teach and ask at the same time. *)
Everyone == (h1 :> {"confirm", "forget"}) @@ (h2 :> {"reject", "learn", "recall"})

(* The studio is used before anyone judges: no handler touches a runbook.  *)
StudioFirst == edits > 0 => \A h \in Handlers : thread[h].at = "idle"
=============================================================================
