------------------------------ MODULE AllInOne ------------------------------
(***************************************************************************)
(* The single-pod topology (server.py, k8s/argus/all-in-one.yaml): one     *)
(* process whose webhook starts an investigation itself, as a task of the  *)
(* server's event loop; reports from Slack start theirs in a thread with   *)
(* an event loop of its own (bot/argus.py).  A semaphore bounds how many   *)
(* run at once.  Locks, windows, tasks and semaphore are memory; only the  *)
(* investigations table outlives the process, and a reaper resumes what    *)
(* another host name left running.                                         *)
(*                                                                         *)
(* A run is an incident and how it is run: by its "own" task, or           *)
(* "resumed" in a thread of the reaper.  pc[r] names what run r does next. *)
(***************************************************************************)
EXTENDS Integers, Sequences, FiniteSets

CONSTANTS
  Alerts,         (* alerts of the webhook and reports of Slack *)
  Reports,        (* those that are reports *)
  Keys, NoKey, KeyOf,
  Incidents,      (* bounds how many become incidents *)
  Nobody,
  Limit,          (* MAX_CONCURRENT_INVESTIGATIONS *)
  MaxAttempts, MaxSteps,
  SameHost,       (* a restart keeps the host name: the container's, not the pod's *)
  LocksFitTtl,    (* no lock expires while its task lives *)
  Confirmed,      (* alerts with a confirmed pattern *)
  FixProposals,   (* propose_fix is enabled *)
  MaxCrashes, MaxFaults, MaxAborts

ASSUME AllInOneAssumption ==
  /\ Reports \subseteq Alerts /\ Confirmed \subseteq Alerts
  /\ KeyOf \in [Alerts -> Keys \cup {NoKey}]
  /\ NoKey \notin Keys
  /\ \A a \in Reports : KeyOf[a] = NoKey
  /\ Nobody \notin Incidents \cup Alerts \cup Nat
  /\ "main" \notin Incidents \cup {Nobody}
  /\ {Limit, MaxAttempts, MaxSteps} \subseteq Nat \ {0}
  /\ {MaxCrashes, MaxFaults, MaxAborts} \subseteq Nat
  /\ {SameHost, LocksFitTtl, FixProposals} \subseteq BOOLEAN

Runs  == Incidents \X {"own", "resumed"}
Hosts == 0..MaxCrashes

VARIABLES
  alertOf,    (* per incident, the alert it investigates *)
  pc, step,   (* per run *)
  host,       (* the pod's host name *)
  old,        (* rows whose heartbeat is older than stale_seconds *)
  cut,        (* incidents the process remembers as aborted *)
  aborting,   (* an abort between its status check and its write *)
  record,     (* the incident's row in incidents, saved after the RCA *)
  posts,      (* history: RCAs posted *)
  crashes, faults, aborts,
  value, waiters, woken, bound,   (* LoopSemaphore *)
  row,                            (* Investigations *)
  locked, window, grouped         (* AlertGate *)

Permits == INSTANCE LoopSemaphore WITH NoLoop <- Nobody
Table   == INSTANCE Investigations WITH Jobs <- Incidents, Workers <- Hosts
Gate    == INSTANCE AlertGate WITH NoIncident <- Nobody

semVars   == <<value, waiters, woken, bound>>
gateVars  == <<locked, window, grouped>>
abortVars == <<cut, aborting, aborts>>
podVars   == <<host, crashes>>
results   == <<record, posts>>

vars == <<alertOf, pc, step, old, faults, semVars, gateVars, abortVars, podVars, results, row>>

-----------------------------------------------------------------------------
(* Shorthands.                                                             *)

Own(i) == <<i, "own">>
Resumed(i) == <<i, "resumed">>

FromSlack(i) == alertOf[i] \in Reports

(* Mutant: each alert gets a thread and a loop of its own. *)
LoopPerTask(i) == i

LoopOf(i) == IF FromSlack(i) THEN i ELSE "main"

Queued == {"starting", "passing", "waiting", "parked"}
Inside == {"enriching", "created", "looping", "concluding", "answered"}
Phases == {"none", "scanned", "saved", "ended", "refused", "died", "lost"} \cup Queued \cup Inside

Alive(r) == pc[r] \in Queued \cup Inside \cup {"scanned", "saved"}

(* The server's loop runs one thing at a time, up to its next await; the   *)
(* rest of the program can still get in between two of its calls.          *)
MainFree == /\ aborting = {}
            /\ \A i \in Incidents : pc[Own(i)] = "passing" => FromSlack(i)

OnLoop(i) == FromSlack(i) \/ MainFree

Slip == faults < MaxFaults /\ faults' = faults + 1

TryTable(write) == \/ write /\ UNCHANGED faults
                   \/ Slip /\ UNCHANGED row

(* A write that also refreshes the heartbeat. *)
TryBeat(i, write) == \/ write /\ old' = old \ {i} /\ UNCHANGED faults
                     \/ Slip /\ UNCHANGED <<row, old>>

Goto(r, phase) == pc' = [pc EXCEPT ![r] = phase]

Init ==
  /\ alertOf = [i \in Incidents |-> Nobody]
  /\ pc = [r \in Runs |-> "none"]
  /\ step = [r \in Runs |-> 0]
  /\ host = 0 /\ old = {} /\ cut = {} /\ aborting = {}
  /\ record = [i \in Incidents |-> "none"]
  /\ posts = [i \in Incidents |-> 0]
  /\ crashes = 0 /\ faults = 0 /\ aborts = 0
  /\ Permits!SemaphoreInit
  /\ Table!TableInit
  /\ Gate!GateInit

-----------------------------------------------------------------------------
(* The webhook handles one alert between two awaits; a report has a thread *)
(* from the start.  Neither waits for the task it starts.                  *)

startUnchanged == UNCHANGED <<step, old, faults, semVars, abortVars, podVars, results, row>>

(* Mutant: the lock is not asked for. *)
FireAnyway(a, i) ==
  /\ a \in Reports \/ MainFree
  /\ alertOf[i] = Nobody
  /\ Gate!Correlated(KeyOf[a]) = Nobody
  /\ locked' = locked \cup {a}
  /\ Gate!Link(KeyOf[a], i)
  /\ alertOf' = [alertOf EXCEPT ![i] = a]
  /\ Goto(Own(i), "starting")
  /\ UNCHANGED grouped
  /\ startUnchanged

Fire(a, i) ==
  /\ a \in Reports \/ MainFree
  /\ alertOf[i] = Nobody
  /\ Gate!Correlated(KeyOf[a]) = Nobody
  /\ Gate!Acquire(a)
  /\ Gate!Link(KeyOf[a], i)
  /\ alertOf' = [alertOf EXCEPT ![i] = a]
  /\ Goto(Own(i), "starting")
  /\ UNCHANGED grouped
  /\ startUnchanged

(* Locked, found to be correlated, recorded and unlocked. *)
Join(a) ==
  LET parent == Gate!Correlated(KeyOf[a]) IN
  /\ a \notin locked \cup Reports
  /\ MainFree
  /\ parent # Nobody
  /\ Gate!RecordGrouped(parent, a)
  /\ UNCHANGED <<alertOf, pc, locked, window>>
  /\ startUnchanged

-----------------------------------------------------------------------------
(* The semaphore.  Whether it is free is read in one step and the permit   *)
(* taken in another: a thread may come between.                            *)

queueUnchanged ==
  UNCHANGED <<alertOf, step, old, faults, gateVars, abortVars, podVars, results, row>>

FindFree(i) ==
  /\ pc[Own(i)] = "starting" /\ OnLoop(i)
  /\ ~Permits!Locked
  /\ Goto(Own(i), "passing")
  /\ UNCHANGED semVars
  /\ queueUnchanged

Pass(i) ==
  /\ pc[Own(i)] = "passing"
  /\ Permits!TakePermit
  /\ Goto(Own(i), "enriching")
  /\ queueUnchanged

Wait(i) ==
  /\ pc[Own(i)] = "starting" /\ OnLoop(i)
  /\ Permits!Locked
  /\ Permits!Fits(LoopOf(i))
  /\ Permits!Enqueue(i, LoopOf(i))
  /\ Goto(Own(i), "waiting")
  /\ queueUnchanged

(* RuntimeError: the task, or the thread, ends; its lock and window stay. *)
TurnAway(i) ==
  /\ pc[Own(i)] = "starting" /\ OnLoop(i)
  /\ Permits!Locked
  /\ ~Permits!Fits(LoopOf(i))
  /\ Goto(Own(i), "refused")
  /\ UNCHANGED semVars
  /\ queueUnchanged

(* A report's loop has nothing else to run and blocks in select.  What     *)
(* wakes its future later runs in another thread and does not wake it.     *)
Park(i) ==
  /\ pc[Own(i)] = "waiting" /\ FromSlack(i)
  /\ i \notin woken
  /\ Goto(Own(i), "parked")
  /\ UNCHANGED semVars
  /\ queueUnchanged

Proceed(i) ==
  /\ pc[Own(i)] = "waiting" /\ OnLoop(i)
  /\ Permits!Leave(i)
  /\ Goto(Own(i), "enriching")
  /\ queueUnchanged

-----------------------------------------------------------------------------
(* The investigation's own task: _do_investigation.                        *)

flowUnchanged == UNCHANGED <<alertOf, abortVars, podVars>>
outside       == UNCHANGED <<semVars, gateVars, results>>

(* A confirmed pattern that matches the live data answers at once. *)
ReplayPattern(i) ==
  /\ pc[Own(i)] = "enriching"
  /\ alertOf[i] \in Confirmed
  /\ Goto(Own(i), "answered")
  /\ UNCHANGED <<step, old, faults, row>>
  /\ flowUnchanged /\ outside

(* Counting the hit raised: the flow goes on without an answer, the task   *)
(* dies of it, and only the semaphore is given back.                       *)
DieOfReplay(i) ==
  /\ pc[Own(i)] = "enriching" /\ OnLoop(i)
  /\ alertOf[i] \in Confirmed
  /\ Slip
  /\ Permits!Release
  /\ Goto(Own(i), "died")
  /\ UNCHANGED <<step, old, row, gateVars, results>>
  /\ flowUnchanged

CreateRow(i) ==
  /\ pc[Own(i)] = "enriching"
  /\ Table!CreateRow(i)
  /\ Goto(Own(i), "created")
  /\ UNCHANGED <<step, old, faults>>
  /\ flowUnchanged /\ outside

StartEngine(r) ==
  /\ Goto(r, "looping")
  /\ step' = [step EXCEPT ![r] = 0]

(* The process's lock makes a claim one step here; its verdict is ignored. *)
Claim(i) ==
  LET verdict == Table!ClaimVerdict(i) IN
  /\ Table!WriteClaim(i, host, verdict)
  /\ old' = IF verdict = "granted" THEN old \ {i} ELSE old

ClaimOwn(i) ==
  /\ pc[Own(i)] = "created"
  /\ Claim(i)
  /\ StartEngine(Own(i))
  /\ UNCHANGED faults
  /\ flowUnchanged /\ outside

StartUndurable(i) ==
  /\ pc[Own(i)] \in {"enriching", "created"}
  /\ Slip
  /\ StartEngine(Own(i))
  /\ UNCHANGED <<old, row>>
  /\ flowUnchanged /\ outside

FinishDone(i) ==
  /\ pc[Own(i)] = "concluding"
  /\ TryTable(Table!Finish(i, "done"))
  /\ Goto(Own(i), "answered")
  /\ UNCHANGED <<step, old>>
  /\ flowUnchanged /\ outside

(* Post, save, unlock, close the window and leave the semaphore: no await  *)
(* comes between them.                                                     *)
Report(i) ==
  /\ pc[Own(i)] = "answered" /\ OnLoop(i)
  /\ posts' = [posts EXCEPT ![i] = @ + 1]
  /\ \/ record' = [record EXCEPT ![i] = "full"] /\ UNCHANGED faults
     \/ Slip /\ UNCHANGED record
  /\ Gate!Release(alertOf[i])
  /\ Gate!Unlink(KeyOf[alertOf[i]])
  /\ Permits!Release
  /\ Goto(Own(i), "ended")
  /\ UNCHANGED <<step, old, grouped, row>>
  /\ flowUnchanged

(* Mutant: the handler forgets the lock. *)
RunFailsKeepingLock(i) ==
  /\ pc[Own(i)] \in {"enriching", "created", "looping"} /\ OnLoop(i)
  /\ TryTable(Table!Finish(i, "failed"))
  /\ Permits!Release
  /\ Goto(Own(i), "ended")
  /\ UNCHANGED <<step, old, gateVars, results>>
  /\ flowUnchanged

(* Mutant: acquired and released by hand, not in this path. *)
RunFailsKeepingPermit(i) ==
  /\ pc[Own(i)] \in {"enriching", "created", "looping"} /\ OnLoop(i)
  /\ TryTable(Table!Finish(i, "failed"))
  /\ Gate!Release(alertOf[i])
  /\ Goto(Own(i), "ended")
  /\ UNCHANGED <<step, old, window, grouped, semVars, results>>
  /\ flowUnchanged

RunFails(i) ==
  /\ pc[Own(i)] \in {"enriching", "created", "looping"} /\ OnLoop(i)
  /\ TryTable(Table!Finish(i, "failed"))
  /\ Gate!Release(alertOf[i])
  /\ Permits!Release
  /\ Goto(Own(i), "ended")
  /\ UNCHANGED <<step, old, window, grouped, results>>
  /\ flowUnchanged

-----------------------------------------------------------------------------
(* The engine, of either kind of run, in a thread.                         *)

engineUnchanged == UNCHANGED <<alertOf, podVars, aborting, aborts>> /\ outside

SeesAbort(i) == i \in cut \/ row[i].status = "aborted"

(* A step with tools is checkpointed; the first may end without. *)
EngineStep(r) ==
  LET i == r[1] IN
  /\ pc[r] = "looping"
  /\ step[r] < MaxSteps
  /\ ~SeesAbort(i)
  /\ \/ TryBeat(i, Table!Checkpoint(i, step[r] + 1))
     \/ step[r] = 0 /\ UNCHANGED <<row, old, faults>>
  /\ step' = [step EXCEPT ![r] = @ + 1]
  /\ UNCHANGED <<pc, cut>>
  /\ engineUnchanged

ProposeFix(r) ==
  /\ FixProposals
  /\ pc[r] = "looping"
  /\ step[r] < MaxSteps
  /\ ~SeesAbort(r[1])
  /\ TryTable(Table!Finish(r[1], "awaiting_fix_review"))
  /\ UNCHANGED <<pc, step, old, cut>>
  /\ engineUnchanged

EngineAnswers(r) ==
  LET i == r[1] IN
  /\ pc[r] = "looping"
  /\ \/ step[r] = MaxSteps /\ UNCHANGED <<row, old, faults>>
     \/ step[r] < MaxSteps /\ ~SeesAbort(i) /\ UNCHANGED <<row, old, faults>>
     \/ /\ step[r] < MaxSteps /\ ~SeesAbort(i)
        /\ TryBeat(i, Table!Checkpoint(i, step[r] + 1))
  /\ Goto(r, "concluding")
  /\ UNCHANGED <<step, cut>>
  /\ engineUnchanged

EngineAborts(r) ==
  LET i == r[1] IN
  /\ pc[r] = "looping"
  /\ step[r] < MaxSteps
  /\ SeesAbort(i)
  /\ cut' = cut \cup {i}
  /\ TryBeat(i, Table!Checkpoint(i, step[r] + 1))
  /\ Goto(r, "concluding")
  /\ UNCHANGED step
  /\ engineUnchanged

-----------------------------------------------------------------------------
(* The reaper.                                                             *)

threadUnchanged == UNCHANGED <<alertOf, abortVars, podVars, semVars, gateVars>>

(* Mutant: what the pod runs itself is not told apart. *)
OrphansOfAll == {i \in old : row[i].status = "running"}

(* Running, silent for stale_seconds, and of another host name. *)
Orphans == {i \in old : row[i].status = "running" /\ row[i].worker # host}

(* A sweep starts a thread for each; the next one comes two minutes later, *)
(* when those threads have claimed.                                        *)
Sweep ==
  /\ MainFree
  /\ Orphans # {}
  /\ \A i \in Incidents : pc[Resumed(i)] # "scanned"
  /\ pc' = [r \in Runs |-> IF r[2] = "resumed" /\ r[1] \in Orphans THEN "scanned" ELSE pc[r]]
  /\ UNCHANGED <<step, old, faults, row, results>>
  /\ threadUnchanged

(* Mutant: without a checkpoint there is nothing to resume, and nothing is *)
(* written.                                                                *)
LeaveAlone(i) ==
  /\ pc[Resumed(i)] = "scanned"
  /\ row[i].step = 0
  /\ Goto(Resumed(i), "none")
  /\ UNCHANGED <<step, old, faults, row, results>>
  /\ threadUnchanged

(* No conversation was ever checkpointed. *)
GiveUp(i) ==
  /\ pc[Resumed(i)] = "scanned"
  /\ row[i].step = 0
  /\ TryTable(Table!Finish(i, "failed"))
  /\ Goto(Resumed(i), "none")
  /\ UNCHANGED <<step, old, results>>
  /\ threadUnchanged

ClaimOrphan(i) ==
  /\ pc[Resumed(i)] = "scanned"
  /\ row[i].step > 0
  /\ Claim(i)
  /\ StartEngine(Resumed(i))
  /\ UNCHANGED <<faults, results>>
  /\ threadUnchanged

(* A read or the claim raises, and the thread ends. *)
ResumeDies(i) ==
  /\ pc[Resumed(i)] = "scanned"
  /\ Slip
  /\ Goto(Resumed(i), "none")
  /\ UNCHANGED <<step, old, row, results>>
  /\ threadUnchanged

(* The engine raised. *)
ResumeFails(i) ==
  /\ pc[Resumed(i)] = "looping"
  /\ TryTable(Table!Finish(i, "failed"))
  /\ Goto(Resumed(i), "none")
  /\ UNCHANGED <<step, old, results>>
  /\ threadUnchanged

(* What there is to save is saved, and posted where the incident's record  *)
(* names a Slack channel, as only a report's does.                         *)
SaveResumed(i) ==
  /\ pc[Resumed(i)] = "concluding"
  /\ \/ UNCHANGED <<results, faults>>
     \/ /\ \/ /\ record' = [record EXCEPT ![i] = IF @ = "none" THEN "bare" ELSE @]
              /\ UNCHANGED faults
           \/ Slip /\ UNCHANGED record
        /\ posts' = IF record[i] = "full" /\ FromSlack(i)
                    THEN [posts EXCEPT ![i] = @ + 1] ELSE posts
  /\ Goto(Resumed(i), "saved")
  /\ UNCHANGED <<step, old, row>>
  /\ threadUnchanged

FinishResumed(i) ==
  /\ pc[Resumed(i)] = "saved"
  /\ TryTable(Table!Finish(i, "done"))
  /\ Goto(Resumed(i), "none")
  /\ UNCHANGED <<step, old, results>>
  /\ threadUnchanged

-----------------------------------------------------------------------------
(* The console, the pod and the clocks.                                    *)

calm == UNCHANGED <<alertOf, step, faults, semVars, results>>

(* The console is served by the same loop. *)
RequestAbort(i) ==
  /\ MainFree
  /\ aborts < MaxAborts
  /\ Table!Abortable(i)
  /\ aborts' = aborts + 1
  /\ aborting' = {i}
  /\ cut' = cut \cup {i}
  /\ UNCHANGED <<alertOf, pc, step, old, faults, semVars, gateVars, podVars, results, row>>

WriteAbort(i) ==
  /\ i \in aborting
  /\ TryTable(Table!MarkAborted(i))
  /\ aborting' = {}
  /\ UNCHANGED <<alertOf, pc, step, old, cut, aborts, semVars, gateVars, podVars, results>>

(* The process dies and a new one starts, which knows nothing. *)
Crash ==
  /\ crashes < MaxCrashes
  /\ crashes' = crashes + 1
  /\ host' = IF SameHost THEN host ELSE host + 1
  /\ pc' = [r \in Runs |-> IF ~Alive(r) THEN pc[r]
                          ELSE IF r[2] = "own" THEN "lost" ELSE "none"]
  /\ cut' = {} /\ aborting' = {}
  /\ Permits!Renew
  /\ Gate!Restart
  /\ UNCHANGED <<alertOf, step, old, faults, aborts, results, row>>

GoStale(i) ==
  /\ row[i].status = "running"
  /\ i \notin old
  /\ old' = old \cup {i}
  /\ UNCHANGED <<pc, row, abortVars, podVars, gateVars>>
  /\ calm

LockExpires(a) ==
  /\ a \in locked
  /\ LocksFitTtl => \A i \in Incidents : Alive(Own(i)) => alertOf[i] # a
  /\ Gate!Release(a)
  /\ UNCHANGED <<pc, old, row, abortVars, podVars, window, grouped>>
  /\ calm

WindowExpires(k) ==
  /\ window[k] # Nobody
  /\ Gate!Unlink(k)
  /\ UNCHANGED <<pc, old, row, abortVars, podVars, locked, grouped>>
  /\ calm

-----------------------------------------------------------------------------

Task(i) == \/ FindFree(i) \/ Pass(i) \/ Wait(i) \/ TurnAway(i) \/ Park(i) \/ Proceed(i)
           \/ ReplayPattern(i) \/ DieOfReplay(i) \/ CreateRow(i) \/ ClaimOwn(i)
           \/ StartUndurable(i) \/ FinishDone(i) \/ Report(i) \/ RunFails(i)

Engine(r) == EngineStep(r) \/ EngineAnswers(r) \/ EngineAborts(r)

Thread(i) == \/ GiveUp(i) \/ ClaimOrphan(i) \/ ResumeDies(i) \/ ResumeFails(i)
             \/ SaveResumed(i) \/ FinishResumed(i)

Next == \/ \E a \in Alerts : \/ \E i \in Incidents : Fire(a, i)
                             \/ Join(a)
                             \/ LockExpires(a)
        \/ \E i \in Incidents : \/ Task(i) \/ Thread(i) \/ GoStale(i)
                                \/ RequestAbort(i) \/ WriteAbort(i)
        \/ \E r \in Runs : Engine(r) \/ ProposeFix(r)
        \/ \E k \in Keys : WindowExpires(k)
        \/ Sweep
        \/ Crash

Spec == Init /\ [][Next]_vars

(* Tasks and threads go on, time passes, sweeps come.  Alerts, aborts and  *)
(* crashes need not.                                                       *)
Fairness ==
  /\ \A i \in Incidents : WF_vars(Task(i)) /\ WF_vars(Thread(i)) /\ WF_vars(GoStale(i))
                          /\ WF_vars(WriteAbort(i))
  /\ \A r \in Runs : WF_vars(Engine(r))
  /\ WF_vars(Sweep)

FairSpec == Spec /\ Fairness
=============================================================================
