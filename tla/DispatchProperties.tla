------------------------- MODULE DispatchProperties -------------------------
(***************************************************************************)
(* What the multi-pod topology promises.                                   *)
(***************************************************************************)
EXTENDS Dispatch

(* Every variable holds values of its type. *)
TypeOK ==
  /\ hook \in [at : {"idle", "locked", "grouping", "routed", "halfqueued"},
               alert : Alerts \cup {Nobody}, incident : Incidents \cup {Nobody}]
  /\ alertOf \in [Incidents -> Alerts \cup {Nobody}]
  /\ at \in [Executors -> Phases]
  /\ job \in [Executors -> Jobs \cup {Nobody}]
  /\ batch \in [Executors -> SUBSET Jobs]
  /\ step \in [Executors -> 0..MaxSteps]
  /\ verdict \in [Executors -> Table!Verdicts]
  /\ cut \in [Executors -> SUBSET Jobs]
  /\ aborting \subseteq Jobs
  /\ runs \in [Jobs -> Nat]
  /\ posts \in [Jobs -> Nat]
  /\ {crashes, faults, aborts} \subseteq Nat
  /\ Stream!StreamTypeOK
  /\ Table!TableTypeOK
  /\ Gate!GateTypeOK
  /\ Cross!CrossTypeOK

-----------------------------------------------------------------------------

Working(e) == at[e] \notin Offline

Unattended(j) == \A e \in Executors : ~(Working(e) /\ job[e] = j)

Investigating(e) == at[e] \in Early \cup {"looping", "concluding", "answered"}

(* No two executors work on the same job at once, as long as none keeps a  *)
(* job past min_idle_ms: neither redelivery nor a failed ack hands a job   *)
(* out while its holder lives.                                             *)
OneRunPerJob ==
  \A e, f \in Executors :
    e # f /\ Working(e) /\ Working(f) => job[e] # job[f]

(* The jobs of an accepted alert are each in exactly one place: in the     *)
(* stream, pending in the group, or acknowledged.  None is lost or doubled *)
(* by crashes, sweeps and late acks; only a webhook that dies half-way     *)
(* breaks it.                                                              *)
RouteClouds(i) ==
  IF Route[alertOf[i]] = "both" THEN Clouds ELSE {Route[alertOf[i]]}

Accepted(i) ==
  /\ alertOf[i] # Nobody
  /\ ~ (hook.at \in {"routed", "halfqueued"} /\ hook.incident = i)

Places(j) == {p \in {"queue", "pending", "acked"} :
                CASE p = "queue"   -> Stream!Queued(j)
                  [] p = "pending" -> Stream!Pending(j)
                  [] p = "acked"   -> j \in acked}

NoJobLost ==
  faults = 0 =>
    \A i \in Incidents : Accepted(i) =>
      \A c \in RouteClouds(i) : Cardinality(Places(<<i, c>>)) = 1

(* The streams, the groups and the executors together implement            *)
(* at-least-once delivery: a job moves from stream to pending to settled,  *)
(* one at a time and never back, whatever is reclaimed, run twice or       *)
(* acknowledged late.                                                      *)
Place(j) == IF Stream!Queued(j) THEN "waiting"
            ELSE IF Stream!Pending(j) THEN "pending"
            ELSE IF j \in acked THEN "settled"
            ELSE "absent"

Delivery == INSTANCE JobDelivery WITH place <- [j \in Jobs |-> Place(j)]

ImplementsDelivery == Delivery!Spec

(* Without crashes, lost calls and cross-cloud alerts, all investigations  *)
(* under way for an alert are of one incident: the dedup lock is held from *)
(* the webhook to the executor's release, whoever does what in between.    *)
OneIncidentPerAlert ==
  crashes + faults = 0 =>
    \A e, f \in Executors :
      Investigating(e) /\ Investigating(f) /\ Issue(e) = Issue(f) /\ ~IsHalf(job[e])
        => job[e][1] = job[f][1]

(* Without crashes and lost calls, a settled job's row agrees with what    *)
(* was posted: one RCA for a done one, none for a failed one, and nothing  *)
(* is posted twice.                                                        *)
PostsMatchOutcome ==
  crashes + faults = 0 =>
    \A j \in acked :
      /\ posts[j] <= 1
      /\ ~IsHalf(j) /\ row[j].status = "done"   => posts[j] = 1
      /\ ~IsHalf(j) /\ row[j].status = "failed" => posts[j] = 0

(* A lock with nobody left to release it keeps its alert silent until the  *)
(* TTL; each takes a crash or a lost call of its own.                      *)
Leaked == {a \in locked : hook.alert # a /\ \A j \in Jobs : Due(j) => AlertOf(j) # a}

LeaksAccounted == Cardinality(Leaked) <= crashes + faults

(* Unless a call to the table was lost, a settled job nobody works on      *)
(* never keeps a row that looks alive: crashes and redeliveries end in an  *)
(* outcome, or before a row exists.  (A replayed pattern does not touch    *)
(* the table, so it leaves the row of a run that died before it as it is.) *)
NoStrandedRow ==
  faults = 0 =>
    \A j \in acked : Unattended(j) /\ AlertOf(j) \notin Confirmed
                       => row[j].status \notin Table!LiveStatus

(* Claims are counted, so redelivery after redelivery starts the engine at *)
(* most once more than the attempt budget allows (the run that follows the *)
(* refused claim), however often executors die; a late abort that reopens  *)
(* a given-up row buys one more, and so does a lost call.                  *)
RunsBounded == \A j \in Jobs : runs[j] <= MaxAttempts + 1 + aborts + faults

(* Unless a call was lost, the engine is never started for a job whose     *)
(* outcome was on record when its executor took it, nor recorded since.    *)
NoRunAfterOutcome ==
  [][faults = 0 =>
       \A j \in Jobs : runs'[j] > runs[j] => row[j].status \notin Table!FinalStatus]_vars

(* Of all the executors that ever finish a half, reclaimed ones included,  *)
(* at most one posts the unified RCA, and it has both findings to merge.   *)
UnifiedAtMostOnce ==
  /\ \A i \in Incidents : unified[i] <= 1
  /\ \A e \in Executors : at[e] = "merging" => Cross!BothPresent(job[e][1])

(* Without crashes and lost calls, two halves that both answered have been *)
(* merged by the time both are settled: whichever looks second finds the   *)
(* other's finding.                                                        *)
SecondFinisherSynthesizes ==
  crashes + faults = 0 =>
    \A i \in Incidents :
      /\ \A c \in Clouds : <<i, c>> \in acked
      /\ Cross!BothPresent(i)
      => unified[i] = 1

(* Every job in the stream or pending is settled in the end, though        *)
(* executors die at any point while they hold it.                          *)
EveryJobSettles == \A j \in Jobs : Due(j) ~> j \in acked

=============================================================================
