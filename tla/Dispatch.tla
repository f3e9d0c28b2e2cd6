------------------------------ MODULE Dispatch ------------------------------
(***************************************************************************)
(* The multi-pod topology: one orchestrator receives alerts, passes them   *)
(* through the alert gate and adds jobs to the streams; executors, each    *)
(* bound to one cloud, take the jobs, investigate and report.  Composes    *)
(* AlertGate, JobStream, Investigations and CrossCloud, and adds the       *)
(* webhook handler (server.py), the executor loop (executor.py), the       *)
(* investigation flow (server.py _do_investigation), the part of the       *)
(* engine's loop that touches the table (core/engine.py) and the console's *)
(* abort (ui/console_api.py).                                              *)
(*                                                                         *)
(* An executor's state at[e] names the call it makes next; every call to   *)
(* Redis or to the database is a step of its own, so executors, webhook    *)
(* and console interleave, and a pod may die, between any two of them.     *)
(***************************************************************************)
EXTENDS Naturals, Sequences, FiniteSets

CONSTANTS
  Alerts, Keys, NoKey,
  KeyOf,          (* correlation key of an alert *)
  Route,          (* cloud_router's answer: "aws", "gcp" or "both" *)
  Incidents,      (* bounds how many alerts become incidents *)
  Executors,
  CloudOf,        (* the cloud an executor serves *)
  Nobody,         (* null: no executor, no incident, no job *)
  MaxAttempts,    (* investigations.MAX_ATTEMPTS *)
  MaxSteps,       (* engine.max_steps *)
  MaxCrashes,     (* bounds pod deaths *)
  MaxFaults,      (* bounds failed Redis and database calls *)
  MaxAborts,      (* bounds abort requests *)
  JobsFitIdle,    (* no live executor keeps a job longer than min_idle_ms *)
  LocksFitTtl,    (* no dedup lock expires while a job of its alert is due *)
  FixProposals,   (* the propose_fix tool is enabled *)
  Confirmed       (* alerts with a human-confirmed pattern to replay *)

Clouds == {"aws", "gcp"}

Jobs == Incidents \X Clouds

ASSUME AlertsAssumption ==
  /\ KeyOf \in [Alerts -> Keys \cup {NoKey}]
  /\ NoKey \notin Keys
  /\ Route \in [Alerts -> Clouds \cup {"both"}]
ASSUME ExecutorsAssumption ==
  /\ CloudOf \in [Executors -> Clouds]
  /\ Nobody \notin Executors \cup Incidents \cup Jobs \cup Alerts
ASSUME BoundsAssumption ==
  /\ {MaxAttempts, MaxSteps} \subseteq Nat \ {0}
  /\ {MaxCrashes, MaxFaults, MaxAborts} \subseteq Nat
  /\ {JobsFitIdle, LocksFitTtl, FixProposals} \subseteq BOOLEAN
  /\ Confirmed \subseteq Alerts

VARIABLES
  hook,       (* the webhook handler: where it is, its alert and incident *)
  alertOf,    (* the alert in an incident's job payload *)
  at,         (* per executor, the call it makes next *)
  job,        (* the job it works on *)
  batch,      (* reclaimed jobs it has yet to run *)
  step,       (* engine steps of the current run *)
  verdict,    (* what claim_investigation read *)
  cut,        (* incident ids its process remembers as aborted *)
  aborting,   (* jobs whose abort passed the status check, not yet written *)
  runs,       (* history: engine runs started per job *)
  posts,      (* history: RCAs posted and saved per job *)
  crashes, faults, aborts,
  queue, owner, stale, acked,     (* JobStream *)
  row,                            (* Investigations *)
  locked, window, grouped,        (* AlertGate *)
  finding, claimed, unified       (* CrossCloud *)

Stream == INSTANCE JobStream WITH Consumers <- Executors
Table  == INSTANCE Investigations WITH Workers <- Executors
Gate   == INSTANCE AlertGate WITH NoIncident <- Nobody
Cross  == INSTANCE CrossCloud

streamVars == <<queue, owner, stale, acked>>
gateVars   == <<locked, window, grouped>>
crossVars  == <<finding, claimed, unified>>
hookVars   == <<hook, alertOf>>
runVars    == <<step, verdict, cut>>
history    == <<runs, posts>>
others     == <<crashes, aborts, aborting>>

vars == <<hookVars, at, job, batch, runVars, history, others, faults,
          streamVars, row, gateVars, crossVars>>

-----------------------------------------------------------------------------
(* Shorthands.                                                             *)

AlertOf(j) == alertOf[j[1]]
Issue(e)   == AlertOf(job[e])
IsHalf(j)  == Route[AlertOf(j)] = "both"
KeyFor(j)  == KeyOf[AlertOf(j)]

Offline == {"idle", "down"}
Early   == {"enriching", "created", "claiming"}
Phases  == Offline \cup Early \cup
           {"taken", "looping", "concluding", "answered", "reported",
            "released", "found", "halfdone", "halfreleased", "joining",
            "merging", "failed", "acking"}

(* Jobs an executor has in memory: the current one and its batch. *)
Holds(e, j) == job[e] = j \/ j \in batch[e]

Due(j)      == Stream!Queued(j) \/ Stream!Pending(j)

(* A Redis or database call that raises, where the code swallows it. *)
Slip == faults < MaxFaults /\ faults' = faults + 1

(* A table write that lands, or is lost to an error that is only logged. *)
TryTable(write) == \/ write /\ UNCHANGED faults
                   \/ Slip /\ UNCHANGED row

Goto(e, phase) == at' = [at EXCEPT ![e] = phase]

Idle == [at |-> "idle", alert |-> Nobody, incident |-> Nobody]

Init ==
  /\ hook = Idle
  /\ alertOf = [i \in Incidents |-> Nobody]
  /\ at = [e \in Executors |-> "idle"]
  /\ job = [e \in Executors |-> Nobody]
  /\ batch = [e \in Executors |-> {}]
  /\ step = [e \in Executors |-> 0]
  /\ verdict = [e \in Executors |-> "refused"]
  /\ cut = [e \in Executors |-> {}]
  /\ aborting = {}
  /\ runs = [j \in Jobs |-> 0]
  /\ posts = [j \in Jobs |-> 0]
  /\ crashes = 0 /\ faults = 0 /\ aborts = 0
  /\ Stream!StreamInit
  /\ Table!TableInit
  /\ Gate!GateInit
  /\ Cross!CrossInit

-----------------------------------------------------------------------------
(* The webhook.  A refused alert leaves no trace, so only the alerts that  *)
(* get the lock are steps; none comes once the uuids are used up.  The     *)
(* second disjunct is try_acquire's fallback to the process's own table    *)
(* when Redis raises.                                                      *)

execUnchanged == UNCHANGED <<at, job, batch, runVars, history, others, row, crossVars>>

Fire(a) ==
  /\ hook.at = "idle"
  /\ \E i \in Incidents : alertOf[i] = Nobody
  /\ \/ Gate!Acquire(a) /\ UNCHANGED faults
     \/ Slip /\ UNCHANGED locked
  /\ hook' = [Idle EXCEPT !.at = "locked", !.alert = a]
  /\ UNCHANGED <<alertOf, window, grouped, streamVars>>
  /\ execUnchanged

(* A correlated alert is recorded under its parent... *)
FindParent ==
  LET parent == Gate!Correlated(KeyOf[hook.alert]) IN
  /\ hook.at = "locked"
  /\ parent # Nobody
  /\ \/ Gate!RecordGrouped(parent, hook.alert) /\ UNCHANGED faults
     \/ Slip /\ UNCHANGED grouped
  /\ hook' = [hook EXCEPT !.at = "grouping", !.incident = parent]
  /\ UNCHANGED <<alertOf, locked, window, streamVars>>
  /\ execUnchanged

(* ... the window is set again, for that parent, and the lock let go. *)
JoinParent ==
  /\ hook.at = "grouping"
  /\ \/ /\ Gate!Link(KeyOf[hook.alert], hook.incident)
        /\ Gate!Release(hook.alert)
        /\ UNCHANGED faults
     \/ Slip /\ UNCHANGED window /\ Gate!Release(hook.alert)
     \/ Slip /\ UNCHANGED locked /\ Gate!Link(KeyOf[hook.alert], hook.incident)
  /\ hook' = Idle
  /\ UNCHANGED <<alertOf, grouped, streamVars>>
  /\ execUnchanged

(* No parent, or the lookup raised: a new incident takes the window.  Only *)
(* this handler sets a window, so finding none and setting it is one step. *)
OpenIncident(i) ==
  LET key == KeyOf[hook.alert] IN
  /\ hook.at = "locked"
  /\ alertOf[i] = Nobody
  /\ alertOf' = [alertOf EXCEPT ![i] = hook.alert]
  /\ \/ Gate!Correlated(key) = Nobody /\ Gate!Link(key, i) /\ UNCHANGED faults
     \/ Gate!Correlated(key) = Nobody /\ Slip /\ UNCHANGED window
     \/ Slip /\ Gate!Link(key, i)
  /\ hook' = [hook EXCEPT !.at = "routed", !.incident = i]
  /\ UNCHANGED <<locked, grouped, streamVars>>
  /\ execUnchanged

(* jobstream.enqueue: one XADD, or aws's and then gcp's for `both'. *)
EnqueueJob ==
  LET route == Route[hook.alert] IN
  /\ hook.at \in {"routed", "halfqueued"}
  /\ \/ /\ hook.at = "routed"
        /\ Stream!Enqueue(hook.incident, IF route = "both" THEN "aws" ELSE route)
        /\ hook' = IF route = "both" THEN [hook EXCEPT !.at = "halfqueued"] ELSE Idle
     \/ /\ hook.at = "halfqueued"
        /\ Stream!Enqueue(hook.incident, "gcp")
        /\ hook' = Idle
  /\ UNCHANGED <<alertOf, gateVars, faults>>
  /\ execUnchanged

(* A call of the handler raises, or its pod dies: nothing is undone. *)
HookDies ==
  /\ hook.at # "idle"
  /\ Slip
  /\ hook' = Idle
  /\ UNCHANGED <<alertOf, gateVars, streamVars>>
  /\ execUnchanged

-----------------------------------------------------------------------------
(* The executor loop.                                                      *)

gateUnchanged == UNCHANGED <<hookVars, gateVars>>

(* Mutant: what the sweep returns is dropped. *)
ReapAndForget(e) ==
  /\ at[e] = "idle"
  /\ \E B \in SUBSET Stream!Reclaimable(CloudOf[e]) :
       B # {} /\ Stream!ClaimStale(B, e)
  /\ UNCHANGED <<at, job, batch, runVars, history, others, faults, row, crossVars>>
  /\ gateUnchanged

(* The sweep, every REAP_INTERVAL: what it claims is run before anything   *)
(* else is read.                                                           *)
Reap(e) ==
  /\ at[e] = "idle"
  /\ batch[e] = {}
  /\ \E B \in SUBSET Stream!Reclaimable(CloudOf[e]) :
       /\ B # {}
       /\ Stream!ClaimStale(B, e)
       /\ batch' = [batch EXCEPT ![e] = B]
  /\ UNCHANGED <<at, job, runVars, history, others, faults, row, crossVars>>
  /\ gateUnchanged

RunReclaimed(e) ==
  /\ at[e] = "idle"
  /\ \E j \in batch[e] :
       /\ batch' = [batch EXCEPT ![e] = @ \ {j}]
       /\ job' = [job EXCEPT ![e] = j]
  /\ Goto(e, "taken")
  /\ UNCHANGED <<runVars, history, others, faults, streamVars, row, crossVars>>
  /\ gateUnchanged

Take(e) ==
  /\ at[e] = "idle"
  /\ batch[e] = {}
  /\ Stream!Consume(CloudOf[e], e)
  /\ job' = [job EXCEPT ![e] = Stream!NextJob(CloudOf[e])]
  /\ Goto(e, "taken")
  /\ UNCHANGED <<batch, runVars, history, others, faults, row, crossVars>>
  /\ gateUnchanged

(* Redis has handed jobs over, but the reply is lost: they are pending for *)
(* an executor that does not know them.                                    *)
LoseReply(e) ==
  /\ at[e] = "idle"
  /\ batch[e] = {}
  /\ Slip
  /\ \/ Stream!Consume(CloudOf[e], e)
     \/ \E B \in SUBSET Stream!Reclaimable(CloudOf[e]) :
          B # {} /\ Stream!ClaimStale(B, e)
  /\ UNCHANGED <<at, job, batch, runVars, history, others, row, crossVars>>
  /\ gateUnchanged

BackToLoop(e) ==
  /\ job' = [job EXCEPT ![e] = Nobody]
  /\ Goto(e, "idle")
  /\ UNCHANGED <<batch, runVars, history, others, row, crossVars>>
  /\ gateUnchanged

SkipDuplicate(e) ==
  /\ at[e] = "taken"
  /\ row[job[e]].status \in Table!FinalStatus
  /\ Stream!Ack(job[e])
  /\ BackToLoop(e)
  /\ UNCHANGED faults

(* Mutant: no duplicate check. *)
BeginAnyway(e) ==
  /\ at[e] = "taken"
  /\ Goto(e, "enriching")
  /\ UNCHANGED <<job, batch, runVars, history, others, faults, streamVars, row, crossVars>>
  /\ gateUnchanged

(* Not a duplicate; or the lookup, or the ack of a duplicate, raised, and  *)
(* the job is run as if it were new.                                       *)
Begin(e) ==
  /\ at[e] = "taken"
  /\ \/ row[job[e]].status \notin Table!FinalStatus /\ UNCHANGED faults
     \/ Slip
  /\ Goto(e, "enriching")
  /\ UNCHANGED <<job, batch, runVars, history, others, streamVars, row, crossVars>>
  /\ gateUnchanged

(* The ack in _run_job's finally; one that raises leaves the job pending. *)
Settle(e) ==
  /\ at[e] = "acking"
  /\ \/ Stream!Ack(job[e]) /\ UNCHANGED faults
     \/ Slip /\ UNCHANGED streamVars
  /\ BackToLoop(e)

-----------------------------------------------------------------------------
(* The investigation: enrichment, the durable row, the engine's loop.      *)

flowUnchanged == UNCHANGED <<job, batch, others, streamVars, crossVars>> /\ gateUnchanged

(* A confirmed pattern whose replay matches answers at once; the table is  *)
(* not touched.  Whether it matches depends on the live data.              *)
ReplayPattern(e) ==
  /\ at[e] = "enriching"
  /\ Issue(e) \in Confirmed
  /\ Goto(e, "answered")
  /\ UNCHANGED <<runVars, history, faults, row>>
  /\ flowUnchanged

CreateRow(e) ==
  /\ at[e] = "enriching"
  /\ Table!CreateRow(job[e])
  /\ Goto(e, "created")
  /\ UNCHANGED <<runVars, history, faults>>
  /\ flowUnchanged

ReadClaim(e) ==
  /\ at[e] = "created"
  /\ verdict' = [verdict EXCEPT ![e] = Table!ClaimVerdict(job[e])]
  /\ Goto(e, "claiming")
  /\ UNCHANGED <<step, cut, history, faults, row>>
  /\ flowUnchanged

(* The engine starts with a fresh conversation, at its first step. *)
StartEngine(e) ==
  /\ Goto(e, "looping")
  /\ step' = [step EXCEPT ![e] = 0]
  /\ runs' = [runs EXCEPT ![job[e]] = @ + 1]
  /\ UNCHANGED <<cut, posts>>
  /\ flowUnchanged

(* The claim's result is not looked at. *)
ClaimAndStart(e) ==
  /\ at[e] = "claiming"
  /\ Table!WriteClaim(job[e], e, verdict[e])
  /\ verdict' = [verdict EXCEPT ![e] = "refused"]
  /\ StartEngine(e)
  /\ UNCHANGED faults

(* Creating or claiming raised: the run goes on without. *)
StartUndurable(e) ==
  /\ at[e] \in Early
  /\ Slip
  /\ verdict' = [verdict EXCEPT ![e] = "refused"]
  /\ StartEngine(e)
  /\ UNCHANGED row

(* is_aborted, asked at the top of each step. *)
SeesAbort(e) == job[e] \in cut[e] \/ row[job[e]].status = "aborted"

(* A step is checkpointed, unless it only sent the model back to run some  *)
(* tool first; when is_aborted's lookup raises, the run goes on.           *)
EngineStep(e) ==
  /\ at[e] = "looping"
  /\ step[e] < MaxSteps
  /\ \/ ~SeesAbort(e) /\ TryTable(Table!Checkpoint(job[e], step[e] + 1))
     \/ ~SeesAbort(e) /\ step[e] = 0 /\ UNCHANGED <<row, faults>>
     \/ job[e] \notin cut[e] /\ Slip /\ Table!Checkpoint(job[e], step[e] + 1)
  /\ step' = [step EXCEPT ![e] = @ + 1]
  /\ UNCHANGED <<at, verdict, cut, history>>
  /\ flowUnchanged

(* propose_fix, called as a tool within a step. *)
ProposeFix(e) ==
  /\ FixProposals
  /\ at[e] = "looping"
  /\ step[e] < MaxSteps
  /\ ~SeesAbort(e)
  /\ TryTable(Table!Finish(job[e], "awaiting_fix_review"))
  /\ UNCHANGED <<at, runVars, history>>
  /\ flowUnchanged

(* The engine returns: with an answer it has checkpointed, after the last  *)
(* step, or having lost the LLM, which it also reports as done.            *)
EngineAnswers(e) ==
  /\ at[e] = "looping"
  /\ \/ step[e] = MaxSteps /\ UNCHANGED <<row, faults>>
     \/ step[e] < MaxSteps /\ ~SeesAbort(e) /\ UNCHANGED <<row, faults>>
     \/ step[e] < MaxSteps /\ ~SeesAbort(e) /\ TryTable(Table!Checkpoint(job[e], step[e] + 1))
     \/ step[e] < MaxSteps /\ job[e] \notin cut[e] /\ Slip /\ Table!Checkpoint(job[e], step[e] + 1)
  /\ Goto(e, "concluding")
  /\ UNCHANGED <<runVars, history>>
  /\ flowUnchanged

EngineAborts(e) ==
  /\ at[e] = "looping"
  /\ step[e] < MaxSteps
  /\ SeesAbort(e)
  /\ cut' = [cut EXCEPT ![e] = @ \cup {job[e]}]
  /\ TryTable(Table!Checkpoint(job[e], step[e] + 1))
  /\ Goto(e, "concluding")
  /\ UNCHANGED <<step, verdict, history>>
  /\ flowUnchanged

FinishDone(e) ==
  /\ at[e] = "concluding"
  /\ TryTable(Table!Finish(job[e], "done"))
  /\ Goto(e, "answered")
  /\ UNCHANGED <<runVars, history>>
  /\ flowUnchanged

(* Mutant: the handler falls through to the report. *)
RunFailsAndReports(e) ==
  /\ at[e] \in Early \cup {"looping"}
  /\ TryTable(Table!Finish(job[e], "failed"))
  /\ Goto(e, "answered")
  /\ UNCHANGED <<runVars, history>>
  /\ flowUnchanged

(* Mutant: the handler's early return skips the release. *)
RunFailsKeepingLock(e) ==
  /\ at[e] \in Early \cup {"looping"}
  /\ TryTable(Table!Finish(job[e], "failed"))
  /\ Goto(e, "acking")
  /\ UNCHANGED <<runVars, history>>
  /\ flowUnchanged

(* Anything before the answer raises: the handler marks the row failed. *)
RunFails(e) ==
  /\ at[e] \in Early \cup {"looping"}
  /\ TryTable(Table!Finish(job[e], "failed"))
  /\ Goto(e, "failed")
  /\ UNCHANGED <<runVars, history>>
  /\ flowUnchanged

-----------------------------------------------------------------------------
(* What follows the answer.  One cloud: post and save, release the lock,   *)
(* close the window.                                                       *)

doneUnchanged ==
  UNCHANGED <<hookVars, job, batch, runVars, runs, others, streamVars>>

Report(e) ==
  /\ at[e] = "answered"
  /\ ~IsHalf(job[e])
  /\ posts' = [posts EXCEPT ![job[e]] = @ + 1]
  /\ Goto(e, "reported")
  /\ UNCHANGED <<row, faults, gateVars, crossVars>>
  /\ doneUnchanged

(* dedup.release, on each of the three paths that call it. *)
AfterRelease(e) ==
  CASE at[e] = "reported" -> "released"
    [] at[e] = "halfdone" -> "halfreleased"
    [] at[e] = "failed"   -> "acking"

ReleaseLock(e) ==
  /\ at[e] \in {"reported", "halfdone", "failed"}
  /\ \/ Gate!Release(Issue(e)) /\ UNCHANGED faults
     \/ Slip /\ UNCHANGED locked
  /\ Goto(e, AfterRelease(e))
  /\ UNCHANGED <<row, posts, window, grouped, crossVars>>
  /\ doneUnchanged

CloseWindow(e) ==
  /\ at[e] = "released"
  /\ \/ Gate!Unlink(KeyFor(job[e])) /\ UNCHANGED faults
     \/ Slip /\ UNCHANGED window
  /\ Goto(e, "acking")
  /\ UNCHANGED <<row, posts, locked, grouped, crossVars>>
  /\ doneUnchanged

(* Half of a `both' incident: write the finding, finish, release the lock, *)
(* and synthesize if the other half's finding is there and nobody has      *)
(* claimed to.                                                             *)
WriteFinding(e) ==
  /\ at[e] = "answered"
  /\ IsHalf(job[e])
  /\ Cross!WriteFinding(job[e])
  /\ Goto(e, "found")
  /\ UNCHANGED <<row, posts, faults, gateVars, claimed, unified>>
  /\ doneUnchanged

FinishHalf(e) ==
  /\ at[e] = "found"
  /\ TryTable(Table!Finish(job[e], "done"))
  /\ Goto(e, "halfdone")
  /\ UNCHANGED <<posts, gateVars, crossVars>>
  /\ doneUnchanged

(* Mutant: synthesizing is left to aws's executor. *)
LookIfAws(e) ==
  /\ at[e] = "halfreleased"
  /\ Goto(e, IF Cross!BothPresent(job[e][1]) /\ CloudOf[e] = "aws"
             THEN "joining" ELSE "acking")
  /\ UNCHANGED <<row, posts, faults, gateVars, crossVars>>
  /\ doneUnchanged

LookForOther(e) ==
  /\ at[e] = "halfreleased"
  /\ Goto(e, IF Cross!BothPresent(job[e][1]) THEN "joining" ELSE "acking")
  /\ UNCHANGED <<row, posts, faults, gateVars, crossVars>>
  /\ doneUnchanged

ClaimSynthesis(e) ==
  /\ at[e] = "joining"
  /\ \/ Cross!Claim(job[e][1]) /\ Goto(e, "merging")
     \/ /\ job[e][1] \in claimed
        /\ UNCHANGED claimed
        /\ Goto(e, "acking")
  /\ UNCHANGED <<row, posts, faults, gateVars, finding, unified>>
  /\ doneUnchanged

Synthesize(e) ==
  /\ at[e] = "merging"
  /\ Cross!PostUnified(job[e][1])
  /\ Goto(e, "acking")
  /\ UNCHANGED <<row, posts, faults, gateVars, finding, claimed>>
  /\ doneUnchanged

(* An error outside the flow's handler reaches _run_job, which marks the   *)
(* row failed, whatever it was, and acks: one in the calls about the two   *)
(* halves, or in counting the hit of a pattern that matched, after which   *)
(* the flow believes it has an answer and has none.                        *)
FlowRaises(e) ==
  /\ \/ at[e] \in {"answered", "halfreleased", "joining", "merging"} /\ IsHalf(job[e])
     \/ at[e] = "enriching" /\ Issue(e) \in Confirmed
  /\ Slip
  /\ Table!Finish(job[e], "failed")
  /\ Goto(e, "acking")
  /\ UNCHANGED <<posts, gateVars, crossVars>>
  /\ doneUnchanged

-----------------------------------------------------------------------------
(* Pods, the console and the clocks.                                       *)

(* A pod dies, or is stopped, and its process's memory with it. *)
Crash(e) ==
  /\ at[e] # "down"
  /\ crashes < MaxCrashes
  /\ crashes' = crashes + 1
  /\ Goto(e, "down")
  /\ job' = [job EXCEPT ![e] = Nobody]
  /\ batch' = [batch EXCEPT ![e] = {}]
  /\ step' = [step EXCEPT ![e] = 0]
  /\ verdict' = [verdict EXCEPT ![e] = "refused"]
  /\ cut' = [cut EXCEPT ![e] = {}]
  /\ UNCHANGED <<history, aborts, aborting, faults, streamVars, row, crossVars>>
  /\ gateUnchanged

Restart(e) ==
  /\ at[e] = "down"
  /\ Goto(e, "idle")
  /\ UNCHANGED <<job, batch, runVars, history, others, faults, streamVars, row, crossVars>>
  /\ gateUnchanged

memoryUnchanged == UNCHANGED <<at, job, batch, runVars, history, crashes>>

RequestAbort(j) ==
  /\ aborts < MaxAborts
  /\ Table!Abortable(j)
  /\ j \notin aborting
  /\ aborts' = aborts + 1
  /\ aborting' = aborting \cup {j}
  /\ UNCHANGED <<faults, streamVars, row, crossVars>>
  /\ memoryUnchanged /\ gateUnchanged

WriteAbort(j) ==
  /\ j \in aborting
  /\ TryTable(Table!MarkAborted(j))
  /\ aborting' = aborting \ {j}
  /\ UNCHANGED <<aborts, streamVars, crossVars>>
  /\ memoryUnchanged /\ gateUnchanged

Stale(j) ==
  /\ JobsFitIdle => \A e \in Executors : ~Holds(e, j)
  /\ Stream!GoStale(j)
  /\ UNCHANGED <<others, faults, row, crossVars>>
  /\ memoryUnchanged /\ gateUnchanged

clockUnchanged ==
  UNCHANGED <<hookVars, grouped, others, faults, streamVars, row, crossVars>> /\ memoryUnchanged

LockExpires(a) ==
  /\ a \in locked
  /\ LocksFitTtl => /\ hook.alert # a
                    /\ \A j \in Jobs : Due(j) => AlertOf(j) # a
  /\ Gate!Release(a)
  /\ UNCHANGED window
  /\ clockUnchanged

WindowExpires(k) ==
  /\ window[k] # Nobody
  /\ Gate!Unlink(k)
  /\ UNCHANGED locked
  /\ clockUnchanged

-----------------------------------------------------------------------------

Webhook == \/ \E a \in Alerts : Fire(a)
           \/ FindParent
           \/ JoinParent
           \/ \E i \in Incidents : OpenIncident(i)
           \/ EnqueueJob
           \/ HookDies

(* The calls an executor makes in the order the code makes them. *)
Work(e) == \/ RunReclaimed(e) \/ Take(e)
           \/ SkipDuplicate(e) \/ Begin(e)
           \/ ReplayPattern(e) \/ CreateRow(e) \/ ReadClaim(e) \/ ClaimAndStart(e)
           \/ StartUndurable(e) \/ EngineStep(e)
           \/ EngineAnswers(e) \/ EngineAborts(e) \/ FinishDone(e) \/ RunFails(e)
           \/ Report(e) \/ ReleaseLock(e) \/ CloseWindow(e)
           \/ WriteFinding(e) \/ FinishHalf(e) \/ LookForOther(e)
           \/ ClaimSynthesis(e) \/ Synthesize(e) \/ FlowRaises(e)
           \/ Settle(e)

Console == \E j \in Jobs : RequestAbort(j) \/ WriteAbort(j)

Clocks == \/ \E j \in Jobs : Stale(j)
          \/ \E a \in Alerts : LockExpires(a)
          \/ \E k \in Keys : WindowExpires(k)

Next == \/ Webhook
        \/ \E e \in Executors :
             \/ Work(e) \/ Reap(e) \/ LoseReply(e) \/ ProposeFix(e)
             \/ Crash(e) \/ Restart(e)
        \/ Console
        \/ Clocks

Spec == Init /\ [][Next]_vars

(* An executor that can make a call makes it, dead pods are replaced, the  *)
(* sweep runs and idle time passes.  Alerts and aborts need not come.      *)
Fairness ==
  /\ WF_vars(FindParent) /\ WF_vars(JoinParent) /\ WF_vars(EnqueueJob)
  /\ \A e \in Executors :
       WF_vars(Work(e)) /\ WF_vars(Reap(e)) /\ WF_vars(Restart(e))
  /\ \A j \in Jobs : WF_vars(Stale(j))

FairSpec == Spec /\ Fairness
=============================================================================
