----------------------------- MODULE AlertGate -----------------------------
(***************************************************************************)
(* The two Redis keys that keep one alert, and one storm of alerts, from   *)
(* starting competing investigations: the dedup lock of an alert           *)
(* (storage/dedup.py) and the correlation window of an entity              *)
(* (core/correlation.py), with the correlated_alerts table.                *)
(*                                                                         *)
(* Neither key names the investigation that set it: whoever releases the   *)
(* lock or closes the window deletes it, whoever set it.  Time to live is  *)
(* an expiry that may strike at any moment the caller allows.              *)
(***************************************************************************)
CONSTANTS
  Alerts,        (* alert fingerprints *)
  Keys,          (* correlation keys of entities *)
  NoKey,         (* '': an alert too vague to correlate *)
  Incidents,
  NoIncident

VARIABLES
  locked,   (* fingerprints whose dedup key exists *)
  window,   (* per entity, the incident its correlation key names *)
  grouped   (* <<parent incident, alert>> recorded in correlated_alerts *)

gateVars == <<locked, window, grouped>>

GateTypeOK ==
  /\ locked \subseteq Alerts
  /\ window \in [Keys -> Incidents \cup {NoIncident}]
  /\ grouped \subseteq Incidents \X Alerts

GateInit ==
  /\ locked = {}
  /\ window = [k \in Keys |-> NoIncident]
  /\ grouped = {}

-----------------------------------------------------------------------------

(* Mutant: SET EX, without NX. *)
AcquireAnyway(a) == locked' = locked \cup {a}

(* SET NX EX succeeds only when the key does not exist. *)
Acquire(a) ==
  /\ a \notin locked
  /\ locked' = locked \cup {a}

Release(a) == locked' = locked \ {a}

Correlated(k) == IF k = NoKey THEN NoIncident ELSE window[k]

(* link: SET EX, over whatever the key held. *)
Link(k, i) == window' = IF k = NoKey THEN window ELSE [window EXCEPT ![k] = i]

Unlink(k) == Link(k, NoIncident)

(* In memory, the fallback without Redis, a new process starts with no lock  *)
(* and no window; the table of grouped alerts is kept.                      *)
Restart == locked' = {} /\ window' = [k \in Keys |-> NoIncident] /\ UNCHANGED grouped

RecordGrouped(i, a) == grouped' = grouped \cup {<<i, a>>}
=============================================================================
