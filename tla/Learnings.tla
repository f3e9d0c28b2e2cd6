----------------------------- MODULE Learnings -----------------------------
(***************************************************************************)
(* The learned facts of one category (core/learnings.py): its text in the  *)
(* database (storage/site_content.py) and the copy every thread of the     *)
(* process shares for five minutes.  Each update reads the whole text,     *)
(* changes it and writes it back.  Facts are values; a text is the set of  *)
(* its facts.                                                              *)
(***************************************************************************)
CONSTANTS
  Facts,
  NotCached

VARIABLES
  stored,   (* learnings.content_md *)
  cached    (* _learnings_cache *)

(* get: the cached text if there is one, else the stored one, which the    *)
(* thread then puts into the cache (Fill) as a step of its own.            *)
Hit == cached # NotCached

Read == IF Hit THEN cached ELSE stored

Fill(text) == cached' = text /\ UNCHANGED stored

(* Mutant: the cached copy is left to expire. *)
SetKeepingCopy(text) == stored' = text /\ UNCHANGED cached

(* set: write, then drop the cached copy. *)
Set(text) == stored' = text /\ cached' = NotCached

(* Five minutes pass. *)
ExpireCopy == Hit /\ cached' = NotCached /\ UNCHANGED stored
=============================================================================
