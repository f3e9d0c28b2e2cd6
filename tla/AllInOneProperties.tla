------------------------- MODULE AllInOneProperties -------------------------
(***************************************************************************)
(* What the single-pod topology promises.                                  *)
(***************************************************************************)
EXTENDS AllInOne

(* As long as nobody reports from Slack, an alert beyond the limit waits   *)
(* for its turn: the semaphore never turns its task away.                  *)
NoReports == \A i \in Incidents : ~FromSlack(i)

AlertsWait == NoReports => \A i \in Incidents : pc[Own(i)] # "refused"

(* Whatever the loops do to it, no permit of the semaphore is made up or   *)
(* lost: each is free, or with a task inside, or with one that was woken   *)
(* (a parked report that is woken keeps its permit for ever).              *)
Working == {i \in Incidents : pc[Own(i)] \in Inside}

PermitsAccounted == value + Cardinality(Working) + Cardinality(woken) = Limit

(* An incident is never investigated by its own task and by the reaper at  *)
(* once, and a sweep never starts a second thread for one it is resuming,  *)
(* however late its heartbeat.                                             *)
ResumesOnlyOrphans ==
  [][\A i \in Incidents :
       pc[Resumed(i)] # "scanned" /\ pc'[Resumed(i)] = "scanned"
         => ~Alive(Own(i)) /\ ~Alive(Resumed(i))]_vars

(* A lock that is held belongs to a task that lives and will release it,   *)
(* or to one the semaphore turned away, or that died of a pattern.         *)
LocksHaveOwner ==
  \A a \in locked : \E i \in Incidents :
    /\ alertOf[i] = a
    /\ Alive(Own(i)) \/ pc[Own(i)] \in {"refused", "died"}

(* No two tasks investigate the same alert. *)
OneTaskPerAlert ==
  \A i, k \in Incidents :
    i # k /\ Alive(Own(i)) /\ Alive(Own(k)) => alertOf[i] # alertOf[k]

(* As long as a pod that dies is replaced under another name, and no write *)
(* to the table is lost, no row stays `running' for ever, whichever        *)
(* process dies at which step.                                             *)
OrphansSettle ==
  \A i \in Incidents :
    row[i].status = "running" ~> row[i].status # "running" \/ faults > 0

(* server.py says of alerts at the limit that they queue and wait, which   *)
(* the code does not keep: a report may have bound the semaphore to the    *)
(* loop of its own thread.                                                 *)
QueuesAndWaits == \A i \in Incidents : pc[Own(i)] # "refused"
=============================================================================
