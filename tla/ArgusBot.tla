------------------------------ MODULE ArgusBot ------------------------------
(***************************************************************************)
(* Argus, the bot that turns Slack messages into investigations            *)
(* (bot/argus.py), and the alarms Sage forwards (bot/slack.py,             *)
(* bot/cloudwatch.py).  A message arrives as one or several events: as     *)
(* `message', as `app_mention' when Argus is tagged, and again when Slack  *)
(* delivers one twice.  Each event is handled on a thread of its own.      *)
(***************************************************************************)
EXTENDS Naturals, FiniteSets

CONSTANTS
  Messages,        (* Slack messages (ts) *)
  Twice,           (* those that come as two events *)
  SeenCapacity     (* entries of _seen that trigger its clean-up: 512 *)

ASSUME ArgusAssumption == SeenCapacity \in Nat /\ Twice \subseteq Messages

VARIABLES
  posted,      (* per message what it says *)
  seen,        (* keys of _seen *)
  aged,        (* of those, the ones older than _SEEN_TTL *)
  event,       (* per event, its handler *)
  reportLocks, (* dedup keys held: all reports here say the same, as do all alarms *)
  reportRuns   (* investigations under way *)

argusVars == <<posted, seen, aged, event, reportLocks, reportRuns>>

Events == (Messages \X {1}) \cup (Twice \X {2})

(* A debug command, a picture or Argus' own tag make sure of an issue      *)
(* unless it is small talk, which is trivial.  So is an alarm that is not  *)
(* recognized, reports that all is well, or replies in a thread more than  *)
(* half an hour old.                                                       *)
Contents == {[tag |-> "none", kind |-> "plain"], [tag |-> "mre", kind |-> "plain"]}
              \cup [tag : {"argus", "mre", "alarm"}, kind : {"sure", "trivial"}]

ReportKeys == {"report", "alarm"}

NotPosted == [tag |-> "none", kind |-> "none"]

Idle == [at |-> "none", kept |-> {}]

ArgusInit ==
  /\ posted = [m \in Messages |-> NotPosted]
  /\ seen = {} /\ aged = {}
  /\ event = [e \in Events |-> Idle]
  /\ reportLocks = {} /\ reportRuns = {}

Stays == UNCHANGED <<posted, reportLocks, reportRuns>>

Goes(e, at) == event' = [event EXCEPT ![e] = [Idle EXCEPT !.at = at]]

IsAlarm(e) == posted[e[1]].tag = "alarm"

ReportKey(e) == IF IsAlarm(e) THEN "alarm" ELSE "report"

Post(m) ==
  /\ posted[m] = NotPosted
  /\ \E c \in Contents : posted' = [posted EXCEPT ![m] = c]
  /\ UNCHANGED <<seen, aged, event, reportLocks, reportRuns>>

(* Sage, which does not look for repeated events, gets the alarms.  For    *)
(* Argus, _already_seen: the clean-up builds a new table from the old one. *)
Arrive(e) ==
  /\ posted[e[1]] # NotPosted /\ event[e].at = "none"
  /\ IF IsAlarm(e) THEN Goes(e, "relaying")
     ELSE IF Cardinality(seen) > SeenCapacity
     THEN event' = [event EXCEPT ![e] = [at |-> "pruning", kept |-> seen \ aged]]
     ELSE Goes(e, "looking")
  /\ UNCHANGED <<seen, aged>> /\ Stays

(* The new table replaces whatever the old one has become; a table that    *)
(* grew while it was read may also raise, and the event is gone.           *)
Prune(e) ==
  /\ event[e].at = "pruning"
  /\ \/ /\ seen' = event[e].kept /\ aged' = aged \cap event[e].kept
        /\ Goes(e, "looking")
     \/ /\ seen \ (event[e].kept \cup aged) # {}
        /\ Goes(e, "over") /\ UNCHANGED <<seen, aged>>
  /\ Stays

LookUp(e) ==
  /\ event[e].at = "looking"
  /\ Goes(e, IF e[1] \in seen THEN "over" ELSE "marking")
  /\ UNCHANGED <<seen, aged>> /\ Stays

MarkSeen(e) ==
  /\ event[e].at = "marking"
  /\ seen' = seen \cup {e[1]} /\ aged' = aged \ {e[1]}
  /\ Goes(e, "filtering")
  /\ Stays

(* Untagged messages and small talk are not investigated, nor what the     *)
(* classifier is sure is no issue; it is asked about `@mre' only, and a    *)
(* failure to ask counts as an issue.                                      *)
Filter(e) ==
  LET c == posted[e[1]] IN
  /\ event[e].at = "filtering"
  /\ \/ Goes(e, "over") /\ (c.tag = "none" \/ c.kind = "trivial" \/ (c.kind = "plain" /\ c.tag = "mre"))
     \/ Goes(e, "dispatching") /\ c.tag # "none" /\ c.kind # "trivial"
  /\ UNCHANGED <<seen, aged>> /\ Stays

(* An alarm in one of the two formats; what has cleared is none. *)
Firing(m) == posted[m] = [tag |-> "alarm", kind |-> "sure"]

(* Sage parses the alarm and posts it to the webhook from a thread whose   *)
(* failure is only logged.                                                 *)
RelayAlarm(e) ==
  /\ event[e].at = "relaying"
  /\ \/ Firing(e[1]) /\ Goes(e, "dispatching")
     \/ Goes(e, "over")
  /\ UNCHANGED <<posted, seen, aged, reportLocks, reportRuns>>

(* Mutant: the report is dispatched whether or not its lock is free. *)
AcquireReportAnyway(k) == reportLocks' = reportLocks \cup {k}

AcquireReport(k) == k \notin reportLocks /\ reportLocks' = reportLocks \cup {k}

(* make_dispatcher, and the webhook for alarms.  The other side is told    *)
(* "an investigation for this report is already running".                  *)
Dispatch(e) ==
  /\ event[e].at = "dispatching"
  /\ \/ AcquireReport(ReportKey(e)) /\ Goes(e, "queueing")
     \/ ReportKey(e) \in reportLocks /\ Goes(e, "over") /\ UNCHANGED reportLocks
  /\ UNCHANGED <<posted, seen, aged, reportRuns>>

(* A job that cannot be queued leaves its lock to expire. *)
QueueReport(e) ==
  /\ event[e].at = "queueing"
  /\ \/ reportRuns' = reportRuns \cup {e}
     \/ UNCHANGED reportRuns
  /\ Goes(e, "over")
  /\ UNCHANGED <<posted, seen, aged, reportLocks>>

(* The pipeline releases the lock when it is done (Dispatch, AllInOne). *)
ReportEnds(e) ==
  /\ e \in reportRuns
  /\ reportRuns' = reportRuns \ {e} /\ reportLocks' = reportLocks \ {ReportKey(e)}
  /\ UNCHANGED <<posted, seen, aged, event>>

(* The key outlives every run, as long as runs take less than its ttl. *)
ReportLockExpires ==
  \E k \in reportLocks :
    /\ \A e \in reportRuns : ReportKey(e) # k
    /\ \A e \in Events : event[e].at = "queueing" => ReportKey(e) # k
    /\ reportLocks' = reportLocks \ {k}
    /\ UNCHANGED <<posted, seen, aged, event, reportRuns>>

SeenAges(m) ==
  /\ m \in seen \ aged
  /\ aged' = aged \cup {m}
  /\ UNCHANGED <<posted, seen, event, reportLocks, reportRuns>>

ArgusNext ==
  \/ \E m \in Messages : Post(m) \/ SeenAges(m)
  \/ \E e \in Events :
       \/ Arrive(e) \/ RelayAlarm(e) \/ Prune(e) \/ LookUp(e) \/ MarkSeen(e) \/ Filter(e)
       \/ Dispatch(e) \/ QueueReport(e) \/ ReportEnds(e)
  \/ ReportLockExpires

ArgusSpec == ArgusInit /\ [][ArgusNext]_argusVars
-----------------------------------------------------------------------------
(* However many events a report or an alarm arrives as, and whatever the   *)
(* table of seen messages forgets or misses when two are looked up at once, *)
(* neither is ever investigated twice at a time.                           *)
OneRunPerReport ==
  \A e, f \in reportRuns : ReportKey(e) = ReportKey(f) => e = f
=============================================================================
