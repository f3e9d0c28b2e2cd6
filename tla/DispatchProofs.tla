--------------------------- MODULE DispatchProofs ---------------------------
(***************************************************************************)
(* Theorems about Dispatch, for every value of its constants.              *)
(***************************************************************************)
EXTENDS DispatchProperties, FiniteSetTheorems, TLAPS

(* What the types leave open: a busy webhook has an alert and, once it has *)
(* minted or found one, an incident; a working executor has a job.         *)
Busy ==
  /\ hook.at # "idle" => hook.alert \in Alerts
  /\ hook.at \in {"grouping", "routed", "halfqueued"} => hook.incident \in Incidents
  /\ \A e \in Executors : Working(e) => job[e] \in Jobs

TypeInv == TypeOK /\ Busy

-----------------------------------------------------------------------------
(* The calls of the table keep its rows well-formed. *)

LEMMA CreateRowType ==
  ASSUME Table!TableTypeOK, NEW j \in Jobs, Table!CreateRow(j)
  PROVE  Table!TableTypeOK'
BY DEF Table!TableTypeOK, Table!CreateRow, Table!Row, Table!Status,
       Table!LiveStatus, Table!FinalStatus

LEMMA WriteClaimType ==
  ASSUME Table!TableTypeOK, NEW j \in Jobs, NEW e \in Executors,
         NEW v \in Table!Verdicts, Table!WriteClaim(j, e, v)
  PROVE  Table!TableTypeOK'
<1>1. Table!Claimed(row[j], e) \in Table!Row
  <2>1. row[j] \in Table!Row /\ row[j].attempt + 1 \in Nat
    BY DEF Table!TableTypeOK, Table!Row
  <2>. QED BY <2>1 DEF Table!Claimed, Table!Row, Table!Status, Table!LiveStatus
<1>2. CASE v = "granted"
  BY <1>1, <1>2 DEF Table!TableTypeOK, Table!WriteClaim
<1>3. CASE v # "granted"
  BY <1>3 DEF Table!TableTypeOK, Table!WriteClaim, Table!Verdicts, Table!Row, Table!Status,
              Table!FinalStatus
<1>. QED BY <1>2, <1>3

LEMMA CheckpointType ==
  ASSUME Table!TableTypeOK, NEW j \in Jobs, NEW s \in Nat, Table!Checkpoint(j, s)
  PROVE  Table!TableTypeOK'
BY DEF Table!TableTypeOK, Table!Checkpoint, Table!Row

LEMMA FinishType ==
  ASSUME Table!TableTypeOK, NEW j \in Jobs, NEW s \in Table!Status, Table!Finish(j, s)
  PROVE  Table!TableTypeOK'
BY DEF Table!TableTypeOK, Table!Finish, Table!Row

LEMMA MarkAbortedType ==
  ASSUME Table!TableTypeOK, NEW j \in Jobs, Table!MarkAborted(j)
  PROVE  Table!TableTypeOK'
BY DEF Table!TableTypeOK, Table!MarkAborted, Table!Row, Table!Status

(* The calls of the stream keep it well-formed. *)

LEMMA EnqueueType ==
  ASSUME Stream!StreamTypeOK, NEW i \in Incidents, NEW c \in Clouds, Stream!Enqueue(i, c)
  PROVE  Stream!StreamTypeOK'
BY DEF Stream!StreamTypeOK, Stream!Enqueue, Stream!Clouds, Clouds

LEMMA ConsumeType ==
  ASSUME Stream!StreamTypeOK, NEW c \in Clouds, NEW e \in Executors, Stream!Consume(c, e)
  PROVE  Stream!StreamTypeOK' /\ Stream!NextJob(c) \in Jobs
BY DEF Stream!StreamTypeOK, Stream!Consume, Stream!Clouds, Clouds, Stream!NextJob,
       Jobs, Stream!Jobs

LEMMA AckType ==
  ASSUME Stream!StreamTypeOK, NEW j \in Jobs, Stream!Ack(j)
  PROVE  Stream!StreamTypeOK'
BY DEF Stream!StreamTypeOK, Stream!Ack, Jobs, Stream!Jobs, Clouds, Stream!Clouds

LEMMA ClaimStaleType ==
  ASSUME Stream!StreamTypeOK, NEW B, NEW e \in Executors, Stream!ClaimStale(B, e)
  PROVE  Stream!StreamTypeOK'
BY DEF Stream!StreamTypeOK, Stream!ClaimStale


-----------------------------------------------------------------------------
(* Type correctness. *)

LEMMA InitType == Init => TypeInv
BY AlertsAssumption, ExecutorsAssumption, BoundsAssumption
DEF Init, TypeInv, TypeOK, Busy, Idle, Working, Offline, Phases, Early, Table!TableInit,
    Table!TableTypeOK, Table!NoRow, Table!Row, Table!Status, Table!FinalStatus,
    Table!LiveStatus, Table!Verdicts, Stream!StreamInit, Stream!StreamTypeOK,
    Gate!GateInit, Gate!GateTypeOK, Cross!CrossInit, Cross!CrossTypeOK, Clouds,
    Stream!Clouds

LEMMA WebhookType == TypeInv /\ Webhook => TypeInv'
<1> SUFFICES ASSUME TypeInv, Webhook PROVE TypeInv'
  OBVIOUS
<1> USE DEF TypeInv, TypeOK, Busy, Working, execUnchanged, runVars, history, others,
            crossVars, Gate!GateTypeOK, Idle
<1>1. Table!TableTypeOK' /\ Cross!CrossTypeOK'
  BY DEF Webhook, Fire, FindParent, JoinParent, OpenIncident, EnqueueJob, HookDies,
         Table!TableTypeOK, Cross!CrossTypeOK
<1>2. ASSUME NEW a \in Alerts, Fire(a) PROVE TypeInv'
  <2>1. hook' = [at |-> "locked", alert |-> a, incident |-> Nobody]
    BY <1>2 DEF Fire
  <2>2. locked' \subseteq Alerts /\ faults' \in Nat
    BY <1>2 DEF Fire, Gate!Acquire, Slip
  <2>. QED BY <1>1, <1>2, <2>1, <2>2 DEF Fire, streamVars, Stream!StreamTypeOK
<1>3. ASSUME FindParent PROVE TypeInv'
  <2> DEFINE parent == Gate!Correlated(KeyOf[hook.alert])
  <2>1. parent \in Incidents /\ hook.alert \in Alerts
    BY <1>3, AlertsAssumption DEF FindParent, Gate!Correlated
  <2>2. /\ hook' = [at |-> "grouping", alert |-> hook.alert, incident |-> parent]
        /\ grouped' \in {grouped, grouped \cup {<<parent, hook.alert>>}}
        /\ faults' \in {faults, faults + 1}
        /\ UNCHANGED <<alertOf, locked, window, streamVars>>
        /\ execUnchanged
    BY <1>3 DEF FindParent, Gate!RecordGrouped, Slip
  <2> HIDE DEF parent
  <2>. QED BY <1>1, <2>1, <2>2 DEF streamVars, Stream!StreamTypeOK
<1>4. ASSUME JoinParent PROVE TypeInv'
  <2>1. hook.incident \in Incidents
    BY <1>4 DEF JoinParent
  <2>2. /\ window' \in [Keys -> Incidents \cup {Nobody}]
        /\ locked' \subseteq Alerts
        /\ faults' \in {faults, faults + 1}
    BY <1>4, <2>1 DEF JoinParent, Gate!Link, Gate!Release, Slip
  <2>. QED BY <1>1, <1>4, <2>2 DEF JoinParent, streamVars, Stream!StreamTypeOK
<1>5. ASSUME NEW i \in Incidents, OpenIncident(i) PROVE TypeInv'
  <2>1. hook' = [at |-> "routed", alert |-> hook.alert, incident |-> i]
    BY <1>5 DEF OpenIncident
  <2>2. /\ window' \in [Keys -> Incidents \cup {Nobody}]
        /\ faults' \in {faults, faults + 1}
    BY <1>5 DEF OpenIncident, Gate!Link, Slip
  <2>. QED BY <1>1, <1>5, <2>1, <2>2 DEF OpenIncident, streamVars, Stream!StreamTypeOK
<1>6. ASSUME EnqueueJob PROVE TypeInv'
  <2>1. \E c \in Clouds : Stream!Enqueue(hook.incident, c)
    BY <1>6, AlertsAssumption DEF EnqueueJob, Clouds
  <2>2. Stream!StreamTypeOK'
    BY <1>6, <2>1, EnqueueType DEF EnqueueJob
  <2>. QED BY <1>1, <1>6, <2>2 DEF EnqueueJob, gateVars
<1>7. ASSUME HookDies PROVE TypeInv'
  BY <1>1, <1>7 DEF HookDies, Slip, gateVars, streamVars, Stream!StreamTypeOK
<1>. QED BY <1>2, <1>3, <1>4, <1>5, <1>6, <1>7 DEF Webhook

(* An executor's step changes only what it is given, and its own entries.  *)

LEMMA LoopType ==
  ASSUME TypeInv, NEW e \in Executors,
         \/ Reap(e) \/ RunReclaimed(e) \/ Take(e) \/ LoseReply(e) \/ SkipDuplicate(e)
         \/ Begin(e) \/ Settle(e)
  PROVE  TypeInv'
<1> USE DEF TypeInv, TypeOK, Busy, Working, Offline, Phases, Early, runVars, history,
            others, hookVars, gateVars, crossVars, Gate!GateTypeOK, gateUnchanged, Goto
<1>1. Table!TableTypeOK' /\ Cross!CrossTypeOK'
  BY DEF Reap, RunReclaimed, Take, LoseReply, SkipDuplicate, Begin, Settle, BackToLoop,
         Table!TableTypeOK, Cross!CrossTypeOK
<1>2. CASE Reap(e)
  <2>1. PICK B \in SUBSET Stream!Reclaimable(CloudOf[e]) :
          Stream!ClaimStale(B, e) /\ batch' = [batch EXCEPT ![e] = B]
    BY <1>2 DEF Reap
  <2>2. B \subseteq Jobs
    BY <2>1 DEF Stream!Reclaimable, Stream!StreamTypeOK, Jobs, Stream!Jobs, Clouds, Stream!Clouds
  <2>3. Stream!StreamTypeOK'
    BY <2>1, ClaimStaleType
  <2>. QED BY <1>1, <1>2, <2>1, <2>2, <2>3 DEF Reap
<1>3. CASE RunReclaimed(e)
  BY <1>1, <1>3 DEF RunReclaimed, streamVars, Stream!StreamTypeOK
<1>4. CASE Take(e)
  <2>1. CloudOf[e] \in Clouds
    BY ExecutorsAssumption
  <2>2. Stream!StreamTypeOK' /\ Stream!NextJob(CloudOf[e]) \in Jobs
    BY <1>4, <2>1, ConsumeType DEF Take
  <2>. QED BY <1>1, <1>4, <2>2 DEF Take
<1>5. CASE SkipDuplicate(e)
  <2>1. Stream!StreamTypeOK'
    BY <1>5, AckType DEF SkipDuplicate
  <2>. QED BY <1>1, <1>5, <2>1 DEF SkipDuplicate, BackToLoop
<1>6. CASE Begin(e)
  BY <1>1, <1>6 DEF Begin, Slip, streamVars, Stream!StreamTypeOK
<1>7. CASE Settle(e)
  <2>1. Stream!StreamTypeOK'
    BY <1>7, AckType DEF Settle, streamVars, Stream!StreamTypeOK
  <2>. QED BY <1>1, <1>7, <2>1 DEF Settle, BackToLoop, Slip
<1>8. CASE LoseReply(e)
  <2>1. Stream!StreamTypeOK'
    BY <1>8, ConsumeType, ClaimStaleType, ExecutorsAssumption DEF LoseReply
  <2>. QED BY <1>1, <1>8, <2>1 DEF LoseReply, Slip
<1>. QED BY <1>2, <1>3, <1>4, <1>5, <1>6, <1>7, <1>8

LEMMA FlowType ==
  ASSUME TypeInv, NEW e \in Executors,
         \/ ReplayPattern(e) \/ CreateRow(e) \/ ReadClaim(e) \/ ClaimAndStart(e)
         \/ StartUndurable(e) \/ EngineStep(e) \/ ProposeFix(e) \/ EngineAnswers(e)
         \/ EngineAborts(e) \/ FinishDone(e) \/ RunFails(e)
  PROVE  TypeInv'
<1> USE DEF TypeInv, TypeOK, Busy, Working, Offline, Phases, Early, runVars, history,
            others, hookVars, gateVars, streamVars, crossVars, Gate!GateTypeOK,
            Stream!StreamTypeOK, Cross!CrossTypeOK, flowUnchanged, gateUnchanged, Goto
<1> DEFINE s == step[e] + 1
<1>1. job[e] \in Jobs /\ s \in Nat
  <2>1. at[e] \notin Offline
    BY DEF ReplayPattern, CreateRow, ReadClaim, ClaimAndStart, StartUndurable,
      EngineStep, ProposeFix, EngineAnswers, EngineAborts, FinishDone, RunFails
  <2>2. step[e] \in 0..MaxSteps
    OBVIOUS
  <2>. QED BY <2>1, <2>2, BoundsAssumption
<1>2. {"done", "failed", "awaiting_fix_review"} \subseteq Table!Status
  BY DEF Table!Status, Table!FinalStatus, Table!LiveStatus
<1>3. (row' = row \/ Table!Checkpoint(job[e], s) \/ \E v \in Table!Status : Table!Finish(job[e], v))
        => Table!TableTypeOK'
  BY <1>1, CheckpointType, FinishType DEF Table!TableTypeOK
<1> HIDE DEF s
<1>4. CASE ReplayPattern(e)
  BY <1>1, <1>3, <1>4 DEF ReplayPattern
<1>5. CASE CreateRow(e)
  <2>1. Table!TableTypeOK'
    BY <1>1, <1>5, CreateRowType DEF CreateRow
  <2>. QED BY <1>1, <1>5, <2>1 DEF CreateRow
<1>6. CASE ReadClaim(e)
  <2>1. Table!ClaimVerdict(job[e]) \in Table!Verdicts
    BY DEF Table!ClaimVerdict, Table!Verdicts
  <2>. QED BY <1>1, <1>3, <1>6, <2>1 DEF ReadClaim
<1>7. CASE ClaimAndStart(e)
  <2>1. Table!TableTypeOK'
    BY <1>1, <1>7, WriteClaimType DEF ClaimAndStart
  <2>. QED BY <1>1, <1>7, <2>1, BoundsAssumption DEF ClaimAndStart, StartEngine, Table!Verdicts
<1>8. CASE StartUndurable(e)
  <2>1. Table!TableTypeOK'
    BY <1>3, <1>8 DEF StartUndurable
  <2>2. verdict' \in [Executors -> Table!Verdicts] /\ faults' \in Nat
    BY <1>8 DEF StartUndurable, Slip, Table!Verdicts
  <2>3. step' \in [Executors -> 0..MaxSteps] /\ runs' \in [Jobs -> Nat]
    BY <1>1, <1>8, BoundsAssumption DEF StartUndurable, StartEngine
  <2>. QED BY <1>1, <1>8, <2>1, <2>2, <2>3 DEF StartUndurable, StartEngine
<1>9. CASE EngineStep(e)
  <2>1. Table!TableTypeOK'
    BY <1>3, <1>9 DEF EngineStep, TryTable, s
  <2>2. step' \in [Executors -> 0..MaxSteps]
    BY <1>9, BoundsAssumption DEF EngineStep
  <2>. QED BY <1>1, <1>9, <2>1, <2>2 DEF EngineStep, TryTable, Slip
<1>10. CASE ProposeFix(e)
  <2>1. Table!TableTypeOK'
    BY <1>2, <1>3, <1>10 DEF ProposeFix, TryTable
  <2>. QED BY <1>1, <1>10, <2>1 DEF ProposeFix, TryTable, Slip
<1>11. CASE EngineAnswers(e)
  <2>1. Table!TableTypeOK'
    BY <1>3, <1>11 DEF EngineAnswers, TryTable, s
  <2>. QED BY <1>1, <1>11, <2>1 DEF EngineAnswers, TryTable, Slip
<1>12. CASE EngineAborts(e)
  <2>1. Table!TableTypeOK'
    BY <1>3, <1>12 DEF EngineAborts, TryTable, s
  <2>. QED BY <1>1, <1>12, <2>1 DEF EngineAborts, TryTable, Slip
<1>13. CASE FinishDone(e)
  <2>1. Table!TableTypeOK'
    BY <1>2, <1>3, <1>13 DEF FinishDone, TryTable
  <2>. QED BY <1>1, <1>13, <2>1 DEF FinishDone, TryTable, Slip
<1>14. CASE RunFails(e)
  <2>1. Table!TableTypeOK'
    BY <1>2, <1>3, <1>14 DEF RunFails, TryTable
  <2>. QED BY <1>1, <1>14, <2>1 DEF RunFails, TryTable, Slip
<1>. QED BY <1>4, <1>5, <1>6, <1>7, <1>8, <1>9, <1>10, <1>11, <1>12, <1>13, <1>14

LEMMA ReportType ==
  ASSUME TypeInv, NEW e \in Executors,
         \/ Report(e) \/ ReleaseLock(e) \/ CloseWindow(e) \/ WriteFinding(e)
         \/ FinishHalf(e) \/ LookForOther(e) \/ ClaimSynthesis(e) \/ Synthesize(e)
         \/ FlowRaises(e)
  PROVE  TypeInv'
<1> USE DEF TypeInv, TypeOK, Busy, Working, Offline, Phases, Early, runVars,
            others, hookVars, streamVars, Stream!StreamTypeOK, doneUnchanged, Goto
<1>1. job[e] \in Jobs /\ job[e][1] \in Incidents
  <2>1. at[e] \notin Offline
    BY DEF Report, ReleaseLock, CloseWindow, WriteFinding, FinishHalf, LookForOther,
           ClaimSynthesis, Synthesize, FlowRaises
  <2>. QED BY <2>1 DEF Jobs
<1>2. {"done", "failed"} \subseteq Table!Status
  BY DEF Table!Status, Table!FinalStatus
<1>3. (row' = row \/ \E v \in {"done", "failed"} : Table!Finish(job[e], v))
        => Table!TableTypeOK'
  BY <1>1, <1>2, FinishType DEF Table!TableTypeOK
<1>4. CASE Report(e)
  <2>1. posts' \in [Jobs -> Nat]
    BY <1>1, <1>4 DEF Report
  <2>2. Gate!GateTypeOK' /\ Cross!CrossTypeOK'
    BY <1>4 DEF Report, gateVars, crossVars, Gate!GateTypeOK, Cross!CrossTypeOK
  <2>. QED BY <1>3, <1>4, <2>1, <2>2 DEF Report
<1>5. CASE ReleaseLock(e)
  <2>1. AfterRelease(e) \in Phases \ Offline
    BY <1>5 DEF ReleaseLock, AfterRelease
  <2>2. Gate!GateTypeOK' /\ Cross!CrossTypeOK' /\ {crashes, faults, aborts}' \subseteq Nat
    BY <1>5 DEF ReleaseLock, Gate!Release, Slip, crossVars, Gate!GateTypeOK, Cross!CrossTypeOK
  <2>. QED BY <1>3, <1>5, <2>1, <2>2 DEF ReleaseLock
<1>6. CASE CloseWindow(e)
  <2>1. window' = window \/ window' = [window EXCEPT ![KeyFor(job[e])] = Nobody]
    BY <1>6 DEF CloseWindow, Gate!Unlink, Gate!Link
  <2>2. Gate!GateTypeOK' /\ Cross!CrossTypeOK'
    BY <1>6, <2>1 DEF CloseWindow, crossVars, Gate!GateTypeOK, Cross!CrossTypeOK
  <2>3. faults' \in Nat
    BY <1>6 DEF CloseWindow, Slip
  <2>. QED BY <1>3, <1>6, <2>2, <2>3 DEF CloseWindow
<1>7. CASE WriteFinding(e)
  <2>1. Cross!CrossTypeOK'
    BY <1>1, <1>7 DEF WriteFinding, Cross!WriteFinding, Cross!CrossTypeOK, Jobs, Clouds
  <2>. QED BY <1>3, <1>7, <2>1 DEF WriteFinding, gateVars, Gate!GateTypeOK
<1>8. CASE FinishHalf(e)
  <2>1. Table!TableTypeOK'
    BY <1>3, <1>8 DEF FinishHalf, TryTable
  <2>. QED BY <1>8, <2>1 DEF FinishHalf, TryTable, Slip, gateVars, crossVars,
                             Gate!GateTypeOK, Cross!CrossTypeOK
<1>9. CASE LookForOther(e)
  BY <1>3, <1>9 DEF LookForOther, gateVars, crossVars, Gate!GateTypeOK, Cross!CrossTypeOK
<1>10. CASE ClaimSynthesis(e)
  <2>1. Cross!CrossTypeOK'
    BY <1>1, <1>10 DEF ClaimSynthesis, Cross!Claim, Cross!CrossTypeOK
  <2>. QED BY <1>3, <1>10, <2>1 DEF ClaimSynthesis, gateVars, Gate!GateTypeOK
<1>11. CASE Synthesize(e)
  <2>1. Cross!CrossTypeOK'
    BY <1>1, <1>11 DEF Synthesize, Cross!PostUnified, Cross!CrossTypeOK
  <2>. QED BY <1>3, <1>11, <2>1 DEF Synthesize, gateVars, Gate!GateTypeOK
<1>12. CASE FlowRaises(e)
  <2>1. Table!TableTypeOK'
    BY <1>3, <1>12 DEF FlowRaises
  <2>. QED BY <1>12, <2>1 DEF FlowRaises, Slip, gateVars, crossVars, Gate!GateTypeOK,
                              Cross!CrossTypeOK
<1>. QED BY <1>4, <1>5, <1>6, <1>7, <1>8, <1>9, <1>10, <1>11, <1>12

LEMMA PodType ==
  ASSUME TypeInv, NEW e \in Executors, Crash(e) \/ Restart(e)
  PROVE  TypeInv'
<1>1. /\ Table!TableTypeOK' /\ Stream!StreamTypeOK' /\ Gate!GateTypeOK' /\ Cross!CrossTypeOK'
      /\ UNCHANGED <<hookVars, history, aborting>>
  BY DEF TypeInv, TypeOK, Crash, Restart, others, streamVars, hookVars, gateVars, crossVars,
         gateUnchanged, Table!TableTypeOK, Gate!GateTypeOK, Stream!StreamTypeOK,
         Cross!CrossTypeOK
<1>2. CASE Crash(e)
  BY <1>1, <1>2, BoundsAssumption
  DEF TypeInv, TypeOK, Busy, Working, Offline, Phases, Crash, history, hookVars, Goto,
      Table!Verdicts
<1>3. CASE Restart(e)
  BY <1>1, <1>3
  DEF TypeInv, TypeOK, Busy, Working, Offline, Phases, Restart, runVars, history, others,
      hookVars, Goto
<1>. QED BY <1>2, <1>3

LEMMA ConsoleType ==
  ASSUME TypeInv, Console
  PROVE  TypeInv'
<1>1. PICK j \in Jobs : RequestAbort(j) \/ WriteAbort(j)
  BY DEF Console
<1>2. Table!TableTypeOK' /\ faults' \in Nat
  BY <1>1, MarkAbortedType
  DEF RequestAbort, WriteAbort, TryTable, Slip, TypeInv, TypeOK, Table!TableTypeOK
<1>. QED BY <1>1, <1>2
  DEF RequestAbort, WriteAbort, TypeInv, TypeOK, Busy, Working, runVars, history,
      hookVars, gateVars, streamVars, crossVars, gateUnchanged, memoryUnchanged,
      Gate!GateTypeOK, Stream!StreamTypeOK, Cross!CrossTypeOK

LEMMA ClocksType ==
  ASSUME TypeInv, Clocks
  PROVE  TypeInv'
<1> USE DEF TypeInv, TypeOK, Busy, Working, runVars, history, others, hookVars, gateVars,
            streamVars, crossVars, gateUnchanged, memoryUnchanged, clockUnchanged,
            Table!TableTypeOK, Gate!GateTypeOK, Stream!StreamTypeOK, Cross!CrossTypeOK
<1>1. ASSUME NEW j \in Jobs, Stale(j) PROVE TypeInv'
  <2>1. Stream!StreamTypeOK'
    BY <1>1 DEF Stale, Stream!GoStale, Jobs, Stream!Jobs, Clouds, Stream!Clouds
  <2>. QED BY <1>1, <2>1 DEF Stale
<1>2. ASSUME NEW a \in Alerts, LockExpires(a) PROVE TypeInv'
  BY <1>2 DEF LockExpires, Gate!Release
<1>3. ASSUME NEW k \in Keys, WindowExpires(k) PROVE TypeInv'
  BY <1>3 DEF WindowExpires, Gate!Unlink, Gate!Link
<1>. QED BY <1>1, <1>2, <1>3 DEF Clocks

LEMMA NextType == TypeInv /\ [Next]_vars => TypeInv'
<1> SUFFICES ASSUME TypeInv, [Next]_vars PROVE TypeInv'
  OBVIOUS
<1>1. CASE Webhook
  BY <1>1, WebhookType
<1>2. ASSUME NEW e \in Executors,
             \/ Work(e) \/ Reap(e) \/ LoseReply(e) \/ ProposeFix(e) \/ Crash(e)
             \/ Restart(e)
      PROVE TypeInv'
  BY <1>2, LoopType, FlowType, ReportType, PodType DEF Work
<1>3. CASE UNCHANGED vars
  BY <1>3 DEF TypeInv, TypeOK, Busy, Working, vars, runVars, history, others, hookVars,
      gateVars, streamVars, crossVars, Table!TableTypeOK, Gate!GateTypeOK,
      Stream!StreamTypeOK, Cross!CrossTypeOK
<1>. QED BY <1>1, <1>2, <1>3, ConsoleType, ClocksType DEF Next

(* Every reachable state is well-typed, and a busy actor has what it works *)
(* on, whatever the pods, the alerts and the bounds.                       *)
THEOREM TypeCorrect == Spec => []TypeOK
<1>1. Spec => []TypeInv
  BY InitType, NextType, PTL DEF Spec
<1>2. TypeInv => TypeOK
  BY DEF TypeInv
<1>. QED BY <1>1, <1>2, PTL

-----------------------------------------------------------------------------
(* One unified RCA per cross-cloud incident.  The claim is taken once and  *)
(* never given back, so whoever holds it is the only one to post, and only *)
(* after both findings were seen; findings are never deleted.              *)

Joining(e) == at[e] \in {"joining", "merging"}

MergerInv(e) ==
  /\ Joining(e) => Cross!BothPresent(job[e][1])
  /\ at[e] = "merging" => job[e][1] \in claimed /\ unified[job[e][1]] = 0

OneMerger ==
  \A e, f \in Executors :
    at[e] = "merging" /\ at[f] = "merging" /\ job[e][1] = job[f][1] => e = f

PostedByClaim ==
  \A i \in Incidents : unified[i] <= 1 /\ (unified[i] = 1 => i \in claimed)

SynthesisInv == (\A e \in Executors : MergerInv(e)) /\ OneMerger /\ PostedByClaim

(* Nothing but the four steps of the join moves an executor into it.       *)
NotJoining ==
  /\ UNCHANGED <<claimed, unified, finding>>
  /\ \A e \in Executors : Joining(e)' => at'[e] = at[e] /\ job'[e] = job[e]

LEMMA OthersDoNotJoin ==
  ASSUME TypeInv, [Next]_vars,
         \A e \in Executors : ~ (\/ WriteFinding(e) \/ LookForOther(e)
                                 \/ ClaimSynthesis(e) \/ Synthesize(e))
  PROVE  NotJoining
<1> USE DEF NotJoining, Joining, TypeInv, TypeOK, Goto, crossVars
<1>1. CASE Webhook
  BY <1>1 DEF Webhook, Fire, FindParent, JoinParent, OpenIncident, EnqueueJob, HookDies,
              execUnchanged
<1>2. ASSUME NEW e \in Executors,
             \/ Reap(e) \/ RunReclaimed(e) \/ Take(e) \/ LoseReply(e) \/ SkipDuplicate(e)
             \/ Begin(e) \/ Settle(e) \/ Crash(e) \/ Restart(e)
      PROVE NotJoining
  BY <1>2 DEF Reap, RunReclaimed, Take, LoseReply, SkipDuplicate, Begin, Settle, BackToLoop,
              Crash, Restart, gateUnchanged
<1>3. ASSUME NEW e \in Executors,
             \/ ReplayPattern(e) \/ CreateRow(e) \/ ReadClaim(e) \/ ClaimAndStart(e)
             \/ StartUndurable(e) \/ EngineStep(e) \/ ProposeFix(e)
             \/ EngineAnswers(e) \/ EngineAborts(e) \/ FinishDone(e) \/ RunFails(e)
      PROVE NotJoining
  BY <1>3 DEF ReplayPattern, CreateRow, ReadClaim, ClaimAndStart, StartUndurable, StartEngine,
              EngineStep, ProposeFix, EngineAnswers, EngineAborts, FinishDone, RunFails,
              flowUnchanged, gateUnchanged
<1>4. ASSUME NEW e \in Executors,
             Report(e) \/ ReleaseLock(e) \/ CloseWindow(e) \/ FinishHalf(e) \/ FlowRaises(e)
      PROVE NotJoining
  BY <1>4 DEF Report, ReleaseLock, AfterRelease, CloseWindow, FinishHalf, FlowRaises,
              doneUnchanged
<1>5. CASE Console \/ Clocks \/ UNCHANGED vars
  BY <1>5 DEF Console, Clocks, RequestAbort, WriteAbort, Stale, LockExpires, WindowExpires,
              clockUnchanged, memoryUnchanged, vars
<1>. QED BY <1>1, <1>2, <1>3, <1>4, <1>5 DEF Next, Work

LEMMA SynthesisStep ==
  ASSUME TypeInv, SynthesisInv, [Next]_vars
  PROVE  SynthesisInv'
<1> USE DEF SynthesisInv, MergerInv, OneMerger, PostedByClaim, Joining, Cross!BothPresent
<1>1. CASE NotJoining
  BY <1>1 DEF NotJoining
<1>2. ASSUME NEW e \in Executors, WriteFinding(e) PROVE SynthesisInv'
  BY <1>2 DEF WriteFinding, Cross!WriteFinding, doneUnchanged, TypeInv, TypeOK, Goto
<1>3. ASSUME NEW e \in Executors, LookForOther(e) PROVE SynthesisInv'
  BY <1>3 DEF LookForOther, crossVars, doneUnchanged, TypeInv, TypeOK, Goto
<1>4. ASSUME NEW e \in Executors, ClaimSynthesis(e) PROVE SynthesisInv'
  <2>1. job[e][1] \in Incidents
    BY <1>4 DEF ClaimSynthesis, TypeInv, Busy, Working, Offline, Jobs
  <2>2. CASE job[e][1] \in claimed
    BY <1>4, <2>2 DEF ClaimSynthesis, Cross!Claim, doneUnchanged, TypeInv, TypeOK, Goto
  <2>3. CASE job[e][1] \notin claimed
    <3>1. /\ at' = [at EXCEPT ![e] = "merging"]
          /\ claimed' = claimed \cup {job[e][1]}
          /\ UNCHANGED <<job, finding, unified>>
      BY <1>4, <2>3 DEF ClaimSynthesis, Cross!Claim, doneUnchanged, Goto
    <3>2. unified[job[e][1]] = 0
      <4>1. unified[job[e][1]] \in Nat
        BY <2>1 DEF TypeInv, TypeOK, Cross!CrossTypeOK
      <4>2. unified[job[e][1]] <= 1 /\ unified[job[e][1]] # 1
        BY <2>1, <2>3
      <4>. QED BY <4>1, <4>2
    <3>3. at[e] = "joining"
      BY <1>4 DEF ClaimSynthesis
    <3>4. ASSUME NEW f \in Executors PROVE MergerInv(f)'
      <4>1. at'[f] = IF f = e THEN "merging" ELSE at[f]
        BY <3>1 DEF TypeInv, TypeOK
      <4>. QED BY <3>1, <3>2, <3>3, <4>1
    <3>5. OneMerger'
      BY <2>3, <3>1 DEF TypeInv, TypeOK
    <3>6. PostedByClaim'
      BY <3>1
    <3>. QED BY <3>4, <3>5, <3>6
  <2>. QED BY <2>2, <2>3
<1>5. ASSUME NEW e \in Executors, Synthesize(e) PROVE SynthesisInv'
  <2>1. /\ at[e] = "merging"
        /\ at' = [at EXCEPT ![e] = "acking"]
        /\ unified' = [unified EXCEPT ![job[e][1]] = @ + 1]
        /\ UNCHANGED <<job, finding, claimed>>
    BY <1>5 DEF Synthesize, Cross!PostUnified, doneUnchanged, Goto
  <2>2. \A f \in Executors : MergerInv(f)'
    BY <2>1 DEF TypeInv, TypeOK, Cross!CrossTypeOK
  <2>3. OneMerger'
    BY <2>1 DEF TypeInv, TypeOK
  <2>4. PostedByClaim'
    <3>1. job[e][1] \in claimed /\ unified[job[e][1]] = 0
      BY <2>1
    <3>2. ASSUME NEW i \in Incidents
          PROVE  unified'[i] = IF i = job[e][1] THEN unified[i] + 1 ELSE unified[i]
      BY <2>1 DEF TypeInv, TypeOK, Cross!CrossTypeOK
    <3>. QED BY <2>1, <3>1, <3>2
  <2>. QED BY <2>2, <2>3, <2>4
<1>. QED BY <1>1, <1>2, <1>3, <1>4, <1>5, OthersDoNotJoin

(* However many executors run the halves of an incident, and however often *)
(* they are killed and their jobs handed out again, at most one unified    *)
(* RCA is posted, by an executor that saw both findings.                   *)
THEOREM OneUnifiedRca == Spec => []UnifiedAtMostOnce
<1>1. Init => SynthesisInv
  BY DEF Init, SynthesisInv, MergerInv, OneMerger, PostedByClaim, Joining, Cross!CrossInit
<1>2. SynthesisInv => UnifiedAtMostOnce
  BY DEF SynthesisInv, MergerInv, PostedByClaim, Joining, UnifiedAtMostOnce
<1>3. TypeInv /\ SynthesisInv /\ [Next]_vars => TypeInv' /\ SynthesisInv'
  BY NextType, SynthesisStep
<1>. QED BY <1>1, <1>2, <1>3, InitType, PTL DEF Spec

-----------------------------------------------------------------------------
(***************************************************************************)
(* How jobs are handed out: none is lost or doubled, delivery is           *)
(* at-least-once, and no two executors work on the same job.               *)
(***************************************************************************)
Fresh(j) == ~Stream!Queued(j) /\ ~Stream!Pending(j) /\ j \notin acked

(* A stream carries each incident once. *)
NoDoubles ==
  \A c \in Clouds : \A m, n \in 1..Len(queue[c]) : queue[c][m] = queue[c][n] => m = n

(* A job is in one place at a time, and only a pending one grows stale. *)
OnePlace ==
  \A j \in Jobs :
    /\ Stream!Queued(j) => ~Stream!Pending(j) /\ j \notin acked
    /\ j \in acked => ~Stream!Pending(j)
    /\ j \in stale => Stream!Pending(j)

(* What an executor remembers was delivered, and so is not in the stream.  *)
HeldDelivered ==
  \A e \in Executors, j \in Jobs : Holds(e, j) => Stream!Pending(j) \/ j \in acked

(* Jobs are added once: by the webhook that minted their incident. *)
AddedOnce ==
  /\ \A i \in Incidents : alertOf[i] = Nobody => \A c \in Clouds : Fresh(<<i, c>>)
  /\ hook.at \in {"routed", "halfqueued"} =>
       /\ alertOf[hook.incident] = hook.alert
       /\ Fresh(<<hook.incident, "gcp">>)
  /\ hook.at = "routed" => Fresh(<<hook.incident, "aws">>)

(* Unless the webhook died, what it accepted it has added. *)
AllAdded ==
  faults = 0 =>
    /\ \A i \in Incidents : Accepted(i) => \A c \in RouteClouds(i) : ~Fresh(<<i, c>>)
    /\ hook.at = "halfqueued" =>
         Route[hook.alert] = "both" /\ ~Fresh(<<hook.incident, "aws">>)

DeliveryInv == NoDoubles /\ OnePlace /\ HeldDelivered /\ AddedOnce /\ AllAdded

(* With no job kept past min_idle_ms, what an executor has in memory is    *)
(* what the group says it owns.                                            *)
HolderOwns ==
  /\ \A e \in Executors, j \in Jobs : Holds(e, j) => owner[j] = e /\ j \notin stale
  /\ \A e \in Executors : job[e] \notin batch[e] /\ (~Working(e) => job[e] = Nobody)

-----------------------------------------------------------------------------
(* What XADD and XREADGROUP do to the set of jobs in a stream. *)

LEMMA EnqueueAdds ==
  ASSUME Stream!StreamTypeOK, NoDoubles, NEW i \in Incidents, NEW c \in Clouds,
         ~Stream!Queued(<<i, c>>), Stream!Enqueue(i, c)
  PROVE  /\ NoDoubles'
         /\ \A j \in Jobs : Stream!Queued(j)' <=> Stream!Queued(j) \/ j = <<i, c>>
<1> DEFINE q == queue[c]  r == Append(q, i)
<1>1. /\ queue \in [Clouds -> Seq(Incidents)]
      /\ queue' = [queue EXCEPT ![c] = r]
  BY DEF Stream!StreamTypeOK, Stream!Enqueue, Stream!Clouds, Clouds
<1>2. /\ q \in Seq(Incidents) /\ Len(q) \in Nat
      /\ Len(r) = Len(q) + 1 /\ r[Len(q) + 1] = i
      /\ \A n \in 1..Len(q) : r[n] = q[n]
  BY <1>1
<1>3. \A d \in Clouds : queue'[d] = IF d = c THEN r ELSE queue[d]
  BY <1>1
<1>4. \A n \in 1..Len(q) : q[n] # i
  BY DEF Stream!Queued
<1> HIDE DEF q, r
<1>5. NoDoubles'
  <2>1. \A m, n \in 1..Len(r) : r[m] = r[n] => m = n
    BY <1>2, <1>4 DEF NoDoubles, q
  <2>. QED BY <1>3, <2>1 DEF NoDoubles
<1>6. ASSUME NEW j \in Jobs
      PROVE  Stream!Queued(j)' <=> Stream!Queued(j) \/ j = <<i, c>>
  <2>1. j[2] \in Clouds /\ j = <<j[1], j[2]>>
    BY DEF Jobs
  <2>2. CASE j[2] # c
    BY <1>3, <2>1, <2>2 DEF Stream!Queued
  <2>3. CASE j[2] = c
    <3>1. Stream!Queued(j) <=> \E n \in 1..Len(q) : q[n] = j[1]
      BY <2>3 DEF Stream!Queued, q
    <3>2. Stream!Queued(j)' <=> \E n \in 1..Len(r) : r[n] = j[1]
      BY <1>3, <2>1, <2>3 DEF Stream!Queued
    <3>3. (\E n \in 1..Len(r) : r[n] = j[1]) <=> (\E n \in 1..Len(q) : q[n] = j[1]) \/ j[1] = i
      BY <1>2
    <3>. QED BY <2>1, <2>3, <3>1, <3>2, <3>3
  <2>. QED BY <2>2, <2>3
<1>. QED BY <1>5, <1>6

LEMMA ConsumeTakes ==
  ASSUME Stream!StreamTypeOK, NoDoubles, NEW c \in Clouds, NEW e, Stream!Consume(c, e)
  PROVE  /\ NoDoubles'
         /\ Stream!Queued(Stream!NextJob(c))
         /\ \A j \in Jobs :
              Stream!Queued(j)' <=> Stream!Queued(j) /\ j # Stream!NextJob(c)
<1> DEFINE q == queue[c]  r == Tail(q)  i == Head(q)
<1>1. /\ queue \in [Clouds -> Seq(Incidents)]
      /\ queue' = [queue EXCEPT ![c] = r]
      /\ q # <<>>
      /\ Stream!NextJob(c) = <<i, c>>
  BY DEF Stream!StreamTypeOK, Stream!Consume, Stream!Clouds, Clouds, Stream!NextJob
<1>2. /\ q \in Seq(Incidents) /\ Len(q) \in Nat \ {0}
      /\ Len(r) = Len(q) - 1 /\ q[1] = i
      /\ \A n \in 1..Len(r) : r[n] = q[n + 1]
  BY <1>1
<1>3. \A d \in Clouds : queue'[d] = IF d = c THEN r ELSE queue[d]
  BY <1>1
<1>4. \A m, n \in 1..Len(q) : q[m] = q[n] => m = n
  BY DEF NoDoubles
<1> HIDE DEF q, r, i
<1>5. NoDoubles'
  <2>1. \A m, n \in 1..Len(r) : r[m] = r[n] => m = n
    BY <1>2, <1>4
  <2>. QED BY <1>3, <2>1 DEF NoDoubles
<1>6. Stream!Queued(Stream!NextJob(c))
  BY <1>1, <1>2 DEF Stream!Queued, q
<1>7. ASSUME NEW j \in Jobs
      PROVE  Stream!Queued(j)' <=> Stream!Queued(j) /\ j # <<i, c>>
  <2>1. j[2] \in Clouds /\ j = <<j[1], j[2]>>
    BY DEF Jobs
  <2>2. CASE j[2] # c
    BY <1>3, <2>1, <2>2 DEF Stream!Queued
  <2>3. CASE j[2] = c
    <3>1. Stream!Queued(j) <=> \E n \in 1..Len(q) : q[n] = j[1]
      BY <2>3 DEF Stream!Queued, q
    <3>2. Stream!Queued(j)' <=> \E n \in 1..Len(r) : r[n] = j[1]
      BY <1>3, <2>1, <2>3 DEF Stream!Queued
    <3>3. (\E n \in 1..Len(r) : r[n] = j[1]) => (\E n \in 1..Len(q) : q[n] = j[1]) /\ j[1] # i
      BY <1>2, <1>4
    <3>4. ASSUME NEW n \in 1..Len(q), q[n] = j[1], j[1] # i
          PROVE  \E m \in 1..Len(r) : r[m] = j[1]
      <4>1. n - 1 \in 1..Len(r) /\ r[n - 1] = q[n]
        BY <1>2, <3>4
      <4>. QED BY <3>4, <4>1
    <3>. QED BY <2>1, <2>3, <3>1, <3>2, <3>3, <3>4
  <2>. QED BY <2>2, <2>3
<1>. QED BY <1>1, <1>5, <1>6, <1>7

-----------------------------------------------------------------------------
(* DeliveryInv is inductive.  Most steps leave everything it speaks of     *)
(* alone, up to another lost call.                                         *)

Quiet ==
  /\ UNCHANGED <<streamVars, alertOf, hook, job, batch>>
  /\ faults' = faults \/ faults' = faults + 1

LEMMA OthersAreQuiet ==
  ASSUME TypeInv, Next, ~Webhook,
         \A e \in Executors : ~ (\/ Reap(e) \/ RunReclaimed(e) \/ Take(e) \/ LoseReply(e)
                                 \/ SkipDuplicate(e) \/ Settle(e) \/ Crash(e)),
         \A j \in Jobs : ~Stale(j)
  PROVE  Quiet
<1> USE DEF Quiet, Slip, TryTable, hookVars, streamVars
<1>1. ASSUME NEW e \in Executors,
             \/ Begin(e) \/ ReplayPattern(e) \/ CreateRow(e) \/ ReadClaim(e)
             \/ ClaimAndStart(e) \/ StartUndurable(e) \/ EngineStep(e) \/ ProposeFix(e)
             \/ EngineAnswers(e) \/ EngineAborts(e) \/ FinishDone(e) \/ RunFails(e)
      PROVE Quiet
  BY <1>1 DEF Begin, ReplayPattern, CreateRow, ReadClaim, ClaimAndStart, StartUndurable,
              StartEngine, EngineStep, ProposeFix, EngineAnswers, EngineAborts, FinishDone,
              RunFails, flowUnchanged, gateUnchanged
<1>2. ASSUME NEW e \in Executors,
             \/ Report(e) \/ ReleaseLock(e) \/ CloseWindow(e) \/ WriteFinding(e)
             \/ FinishHalf(e) \/ LookForOther(e) \/ ClaimSynthesis(e) \/ Synthesize(e)
             \/ FlowRaises(e) \/ Restart(e)
      PROVE Quiet
  BY <1>2 DEF Report, ReleaseLock, CloseWindow, WriteFinding, FinishHalf, LookForOther,
              ClaimSynthesis, Synthesize, FlowRaises, Restart, doneUnchanged, gateUnchanged
<1>3. CASE Console
  BY <1>3 DEF Console, RequestAbort, WriteAbort, TryTable, memoryUnchanged, gateUnchanged
<1>4. ASSUME NEW x, LockExpires(x) \/ WindowExpires(x) PROVE Quiet
  BY <1>4 DEF LockExpires, WindowExpires, clockUnchanged, memoryUnchanged
<1>. QED BY <1>1, <1>2, <1>3, <1>4 DEF Next, Work, Clocks

LEMMA QuietDelivers ==
  ASSUME TypeInv, DeliveryInv, Quiet
  PROVE  DeliveryInv'
<1>1. faults' = 0 => faults = 0
  BY DEF Quiet, TypeInv, TypeOK
<1>. QED
  BY <1>1 DEF DeliveryInv, NoDoubles, OnePlace, HeldDelivered, AddedOnce, AllAdded, Fresh,
              Quiet, streamVars, Holds, Accepted, RouteClouds, Stream!Queued, Stream!Pending

LEMMA WebhookDelivers ==
  ASSUME TypeInv, DeliveryInv, Webhook
  PROVE  DeliveryInv'
<1> USE DEF DeliveryInv, OnePlace, HeldDelivered, AddedOnce, AllAdded, Fresh, Accepted,
            RouteClouds, Holds, execUnchanged
<1>1. job' = job /\ batch' = batch
  BY DEF Webhook, Fire, FindParent, JoinParent, OpenIncident, EnqueueJob, HookDies
<1>2. CASE UNCHANGED <<streamVars, alertOf>> /\ hook'.at \notin {"routed", "halfqueued"}
           /\ (faults' = 0 => faults = 0 /\ hook.at \notin {"routed", "halfqueued"})
  BY <1>1, <1>2 DEF NoDoubles, streamVars, Stream!Queued, Stream!Pending
<1>3. ASSUME NEW a \in Alerts, Fire(a) PROVE DeliveryInv'
  <2>1. hook' = [at |-> "locked", alert |-> a, incident |-> Nobody]
    BY <1>3 DEF Fire, Idle
  <2>. QED BY <1>2, <1>3, <2>1 DEF Fire, Slip, TypeInv, TypeOK
<1>4. CASE FindParent
  <2>1. hook'.at = "grouping"
    BY <1>4 DEF FindParent, TypeInv, TypeOK
  <2>. QED BY <1>2, <1>4, <2>1 DEF FindParent, Slip, TypeInv, TypeOK
<1>5. CASE JoinParent \/ HookDies
  BY <1>2, <1>5 DEF JoinParent, HookDies, Idle, Slip, TypeInv, TypeOK
<1>6. ASSUME NEW i \in Incidents, OpenIncident(i) PROVE DeliveryInv'
  <2>1. /\ hook.at = "locked" /\ alertOf[i] = Nobody
        /\ alertOf' = [alertOf EXCEPT ![i] = hook.alert]
        /\ hook' = [at |-> "routed", alert |-> hook.alert, incident |-> i]
        /\ hook.alert \in Alerts /\ hook.alert # Nobody
        /\ UNCHANGED streamVars
        /\ faults' = 0 => faults = 0
    <3>1. hook.alert \in Alerts /\ hook.alert # Nobody
      BY <1>6, ExecutorsAssumption DEF OpenIncident, TypeInv, Busy
    <3>2. hook' = [at |-> "routed", alert |-> hook.alert, incident |-> i]
      BY <1>6 DEF OpenIncident, TypeInv, TypeOK
    <3>3. faults' = 0 => faults = 0
      BY <1>6 DEF OpenIncident, Slip, TypeInv, TypeOK
    <3>. QED BY <1>6, <3>1, <3>2, <3>3 DEF OpenIncident
  <2>2. /\ \A x \in Incidents : alertOf'[x] = IF x = i THEN hook.alert ELSE alertOf[x]
        /\ \A c \in Clouds : Fresh(<<i, c>>)
    BY <2>1 DEF TypeInv, TypeOK
  <2>3. \A j \in Jobs : Fresh(j)' <=> Fresh(j)
    BY <2>1 DEF streamVars, Stream!Queued, Stream!Pending
  <2>4. NoDoubles' /\ OnePlace' /\ HeldDelivered'
    BY <1>1, <2>1 DEF NoDoubles, streamVars, Stream!Queued, Stream!Pending
  <2>5. AddedOnce'
    BY <2>1, <2>2, <2>3 DEF Jobs, Clouds
  <2>6. AllAdded'
    <3>1. ASSUME NEW x \in Incidents, Accepted(x)', faults' = 0, NEW d \in RouteClouds(x)'
          PROVE  ~Fresh(<<x, d>>)'
      <4>1. x # i /\ alertOf'[x] = alertOf[x]
        BY <2>1, <2>2, <3>1
      <4>2. d \in Clouds /\ d \in RouteClouds(x)
        BY <2>1, <3>1, <4>1, AlertsAssumption DEF Clouds, TypeInv, TypeOK
      <4>. QED BY <2>1, <2>3, <3>1, <4>1, <4>2 DEF Jobs
    <3>. QED BY <2>1, <3>1
  <2>. QED BY <2>4, <2>5, <2>6
<1>7. CASE EnqueueJob
  <2> DEFINE i == hook.incident
  <2>1. /\ hook.at \in {"routed", "halfqueued"} /\ i \in Incidents
        /\ hook.alert \in Alerts /\ alertOf[i] = hook.alert
        /\ UNCHANGED <<alertOf, faults>>
    BY <1>7 DEF EnqueueJob, TypeInv, Busy
  <2>2. PICK c \in Clouds :
          /\ Stream!Enqueue(i, c)
          /\ Fresh(<<i, c>>)
          /\ \/ /\ hook.at = "routed" /\ Route[hook.alert] = "both" /\ c = "aws"
                /\ hook' = [at |-> "halfqueued", alert |-> hook.alert, incident |-> i]
             \/ /\ hook.at = "routed" /\ Route[hook.alert] = c
                /\ hook' = Idle
             \/ /\ hook.at = "halfqueued" /\ c = "gcp"
                /\ hook' = Idle
    BY <1>7, <2>1, AlertsAssumption DEF EnqueueJob, Clouds, TypeInv, TypeOK
  <2>3. /\ NoDoubles'
        /\ \A j \in Jobs : Stream!Queued(j)' <=> Stream!Queued(j) \/ j = <<i, c>>
    BY <2>1, <2>2, EnqueueAdds DEF TypeInv, TypeOK
  <2>4. UNCHANGED <<owner, stale, acked>>
    BY <2>2 DEF Stream!Enqueue
  <2>5. /\ \A j \in Jobs : Stream!Pending(j)' <=> Stream!Pending(j)
        /\ <<i, c>> \in Jobs
    BY <2>1, <2>4 DEF Stream!Pending, Jobs
  <2> HIDE DEF i
  <2>6. OnePlace' /\ HeldDelivered'
    BY <1>1, <2>2, <2>3, <2>4, <2>5
  <2>7. \A j \in Jobs : Fresh(j)' <=> Fresh(j) /\ j # <<i, c>>
    BY <2>2, <2>3, <2>4, <2>5
  <2>8. AddedOnce'
    <3>1. hook'.at # "routed" /\ (hook'.at = "halfqueued" => c = "aws" /\ hook'.incident = i)
      BY <2>2 DEF Idle
    <3>2. \A x \in Incidents : alertOf'[x] = Nobody => x # i
      BY <2>1, ExecutorsAssumption DEF i
    <3>3. hook'.at = "halfqueued" => hook.at = "routed" /\ hook'.alert = hook.alert
      BY <2>2 DEF Idle
    <3>. QED BY <2>1, <2>7, <3>1, <3>2, <3>3 DEF Jobs, Clouds, i
  <2>9. AllAdded'
    <3>1. CASE hook' = Idle
      <4>1. ASSUME NEW x \in Incidents, Accepted(x)', faults' = 0, NEW d \in RouteClouds(x)'
            PROVE  ~Fresh(<<x, d>>)'
        <5>1. d \in Clouds /\ d \in RouteClouds(x)
          BY <2>1, <4>1, AlertsAssumption DEF Clouds, TypeInv, TypeOK
        <5>2. CASE x # i
          BY <2>1, <2>7, <4>1, <5>1, <5>2 DEF Jobs, i
        <5>3. CASE x = i
          BY <2>1, <2>2, <2>7, <3>1, <4>1, <5>1, <5>3 DEF Jobs, i, Clouds, Idle
        <5>. QED BY <5>2, <5>3
      <4>. QED BY <3>1, <4>1 DEF Idle
    <3>2. CASE hook' # Idle
      <4>1. ASSUME NEW x \in Incidents, Accepted(x)', faults' = 0, NEW d \in RouteClouds(x)'
            PROVE  ~Fresh(<<x, d>>)'
        <5>1. d \in Clouds /\ d \in RouteClouds(x) /\ x # i
          BY <2>1, <2>2, <3>2, <4>1, AlertsAssumption DEF Clouds, TypeInv, TypeOK
        <5>. QED BY <2>1, <2>7, <4>1, <5>1 DEF Jobs, i
      <4>. QED BY <2>2, <2>5, <2>7, <3>2, <4>1
    <3>. QED BY <3>1, <3>2
  <2>. QED BY <2>3, <2>6, <2>8, <2>9
<1>. QED BY <1>3, <1>4, <1>5, <1>6, <1>7 DEF Webhook

(* The steps that hand jobs out and take them back. *)

LEMMA HandingDelivers ==
  ASSUME TypeInv, DeliveryInv, NEW e \in Executors,
         \/ Reap(e) \/ RunReclaimed(e) \/ Take(e) \/ LoseReply(e) \/ SkipDuplicate(e)
         \/ Settle(e) \/ Crash(e)
  PROVE  DeliveryInv'
<1> USE DEF DeliveryInv, OnePlace, HeldDelivered, Holds
<1>1. UNCHANGED <<hook, alertOf>> /\ (faults' = 0 => faults = 0)
  BY DEF Reap, RunReclaimed, Take, LoseReply, SkipDuplicate, Settle, Crash, BackToLoop,
         gateUnchanged,
         hookVars, Slip, TypeInv, TypeOK
<1>2. ASSUME \A j \in Jobs : Fresh(j)' <=> Fresh(j)
      PROVE  AddedOnce' /\ AllAdded'
  <2>1. \A i \in Incidents, c \in Clouds : Fresh(<<i, c>>)' <=> Fresh(<<i, c>>)
    BY <1>2 DEF Jobs
  <2>2. hook.at \in {"routed", "halfqueued"} => hook.incident \in Incidents
    BY DEF TypeInv, Busy
  <2>3. AddedOnce'
    BY <1>1, <2>1, <2>2 DEF AddedOnce, Clouds
  <2>4. \A i \in Incidents :
          /\ Accepted(i)' <=> Accepted(i)
          /\ RouteClouds(i)' = RouteClouds(i)
          /\ Accepted(i) => RouteClouds(i) \subseteq Clouds
    BY <1>1, AlertsAssumption DEF Accepted, RouteClouds, Clouds, TypeInv, TypeOK
  <2>5. AllAdded'
    BY <1>1, <2>1, <2>2, <2>4 DEF AllAdded, Clouds
  <2>. QED BY <2>3, <2>5
<1>3. CASE UNCHANGED streamVars /\ \A f \in Executors, j \in Jobs : Holds(f, j)' => Holds(f, j)
  <2>1. \A j \in Jobs : Fresh(j)' <=> Fresh(j)
    BY <1>3 DEF streamVars, Fresh, Stream!Queued, Stream!Pending
  <2>. QED BY <1>2, <1>3, <2>1 DEF streamVars, NoDoubles, Stream!Queued, Stream!Pending
<1>4. ASSUME NEW B \in SUBSET Stream!Reclaimable(CloudOf[e]), Stream!ClaimStale(B, e),
             batch' \in {batch, [batch EXCEPT ![e] = B]}, job' = job
      PROVE  DeliveryInv'
  <2>1. Stream!ClaimStale(B, e) /\ batch' \in {batch, [batch EXCEPT ![e] = B]} /\ job' = job
    BY <1>4
  <2>2. \A j \in B : j \in Jobs /\ Stream!Pending(j)
    BY <2>1 DEF Stream!Reclaimable, TypeInv, TypeOK, Stream!StreamTypeOK, Jobs, Stream!Jobs,
                Clouds, Stream!Clouds
  <2>3. \A j \in Jobs : owner'[j] = IF j \in B THEN e ELSE owner[j]
    BY <2>1 DEF Stream!ClaimStale, Jobs, Stream!Jobs, Clouds, Stream!Clouds
  <2>4. stale' = stale \ B /\ UNCHANGED <<queue, acked>>
    BY <2>1 DEF Stream!ClaimStale
  <2>5. \A j \in Jobs : /\ Stream!Pending(j)' <=> Stream!Pending(j)
                        /\ Stream!Queued(j)' <=> Stream!Queued(j)
    BY <2>2, <2>3, <2>4, ExecutorsAssumption DEF Stream!Pending, Stream!Queued
  <2>6. AddedOnce' /\ AllAdded'
    BY <1>2, <2>4, <2>5 DEF Fresh
  <2>7. NoDoubles' /\ OnePlace'
    BY <2>4, <2>5 DEF NoDoubles
  <2>8. HeldDelivered'
    BY <2>1, <2>2, <2>4, <2>5 DEF TypeInv, TypeOK
  <2>. QED BY <2>6, <2>7, <2>8
<1>5. CASE RunReclaimed(e)
  BY <1>3, <1>5 DEF RunReclaimed, TypeInv, TypeOK
<1>6. ASSUME Stream!Consume(CloudOf[e], e), batch' = batch,
             job' \in {job, [job EXCEPT ![e] = Stream!NextJob(CloudOf[e])]}
      PROVE  DeliveryInv'
  <2> DEFINE c == CloudOf[e]  n == Stream!NextJob(c)
  <2>1. /\ c \in Clouds
        /\ Stream!Consume(c, e)
        /\ job' \in {job, [job EXCEPT ![e] = n]} /\ batch' = batch
    BY <1>6, ExecutorsAssumption
  <2>2. n \in Jobs
    BY <2>1, ConsumeType DEF TypeInv, TypeOK
  <2>3. /\ NoDoubles' /\ Stream!Queued(n)
        /\ \A j \in Jobs : Stream!Queued(j)' <=> Stream!Queued(j) /\ j # n
    BY <2>1, ConsumeTakes DEF TypeInv, TypeOK
  <2>4. /\ \A j \in Jobs : owner'[j] = IF j = n THEN e ELSE owner[j]
        /\ UNCHANGED <<stale, acked>>
    BY <2>1 DEF Stream!Consume, TypeInv, TypeOK, Stream!StreamTypeOK, Jobs, Stream!Jobs,
                Clouds, Stream!Clouds
  <2> HIDE DEF n
  <2>5. \A j \in Jobs : Stream!Pending(j)' <=> Stream!Pending(j) \/ j = n
    BY <2>4, ExecutorsAssumption DEF Stream!Pending
  <2>6. AddedOnce' /\ AllAdded'
    BY <1>2, <2>2, <2>3, <2>4, <2>5 DEF Fresh
  <2>7. OnePlace'
    BY <2>2, <2>3, <2>4, <2>5
  <2>8. HeldDelivered'
    BY <2>1, <2>2, <2>4, <2>5 DEF TypeInv, TypeOK
  <2>. QED BY <2>3, <2>6, <2>7, <2>8
<1>7. CASE (SkipDuplicate(e) \/ Settle(e)) /\ Stream!Ack(job[e])
  <2>1. job[e] \in Jobs /\ batch' = batch /\ job' = [job EXCEPT ![e] = Nobody]
    BY <1>7 DEF SkipDuplicate, Settle, BackToLoop, TypeInv, Busy, Working, Offline
  <2>2. /\ \A j \in Jobs : owner'[j] = IF j = job[e] THEN Nobody ELSE owner[j]
        /\ stale' = stale \ {job[e]} /\ acked' = acked \cup {job[e]} /\ queue' = queue
    BY <1>7 DEF Stream!Ack, TypeInv, TypeOK, Stream!StreamTypeOK, Jobs, Stream!Jobs,
                Clouds, Stream!Clouds
  <2>3. \A j \in Jobs : /\ Stream!Pending(j)' <=> Stream!Pending(j) /\ j # job[e]
                        /\ Stream!Queued(j)' <=> Stream!Queued(j)
    BY <2>2 DEF Stream!Pending, Stream!Queued
  <2>4. ~Stream!Queued(job[e]) /\ (Stream!Pending(job[e]) \/ job[e] \in acked)
    BY <2>1
  <2>5. AddedOnce' /\ AllAdded'
    BY <1>2, <2>1, <2>2, <2>3, <2>4 DEF Fresh
  <2>6. NoDoubles' /\ OnePlace'
    BY <2>1, <2>2, <2>3, <2>4 DEF NoDoubles
  <2>7. HeldDelivered'
    BY <2>1, <2>2, <2>3, ExecutorsAssumption DEF TypeInv, TypeOK
  <2>. QED BY <2>5, <2>6, <2>7
<1>8. CASE Settle(e) /\ ~Stream!Ack(job[e])
  BY <1>3, <1>8, ExecutorsAssumption DEF Settle, BackToLoop, TypeInv, TypeOK
<1>9. CASE Crash(e)
  BY <1>3, <1>9, ExecutorsAssumption DEF Crash, TypeInv, TypeOK
<1>. QED BY <1>4, <1>5, <1>6, <1>7, <1>8, <1>9
         DEF Reap, Take, LoseReply, SkipDuplicate

LEMMA StaleDelivers ==
  ASSUME TypeInv, DeliveryInv, NEW j \in Jobs, Stale(j)
  PROVE  DeliveryInv'
<1>1. /\ UNCHANGED <<queue, owner, acked, job, batch, hook, alertOf, faults>>
      /\ stale' = stale \cup {j} /\ Stream!Pending(j)
  BY DEF Stale, Stream!GoStale, memoryUnchanged, gateUnchanged, hookVars
<1>. QED
  BY <1>1 DEF DeliveryInv, NoDoubles, OnePlace, HeldDelivered, AddedOnce, AllAdded, Fresh,
              Holds, Accepted, RouteClouds, Stream!Queued, Stream!Pending

LEMMA NextDelivers == TypeInv /\ DeliveryInv /\ [Next]_vars => DeliveryInv'
<1> SUFFICES ASSUME TypeInv, DeliveryInv, [Next]_vars PROVE DeliveryInv'
  OBVIOUS
<1>1. CASE UNCHANGED vars
  <2>1. Quiet
    BY <1>1 DEF Quiet, vars, hookVars
  <2>. QED BY <2>1, QuietDelivers
<1>2. CASE Next
  BY <1>2, OthersAreQuiet, QuietDelivers, WebhookDelivers, HandingDelivers, StaleDelivers
<1>. QED BY <1>1, <1>2

LEMMA InitDelivers == Init => DeliveryInv
BY ExecutorsAssumption
DEF Init, Idle, DeliveryInv, NoDoubles, OnePlace, HeldDelivered, AddedOnce, AllAdded, Fresh,
    Holds, Accepted, RouteClouds, Stream!StreamInit, Stream!Queued, Stream!Pending, Jobs,
    Stream!Jobs, Clouds, Stream!Clouds

-----------------------------------------------------------------------------

LEMMA OneOfThree ==
  ASSUME TypeInv, DeliveryInv, NEW j \in Jobs, ~Fresh(j)
  PROVE  Cardinality(Places(j)) = 1
<1>1. PICK p \in {"queue", "pending", "acked"} : Places(j) = {p}
  <2>1. \/ Stream!Queued(j) /\ ~Stream!Pending(j) /\ j \notin acked
        \/ ~Stream!Queued(j) /\ Stream!Pending(j) /\ j \notin acked
        \/ ~Stream!Queued(j) /\ ~Stream!Pending(j) /\ j \in acked
    BY DEF DeliveryInv, OnePlace, Fresh
  <2>2. CASE Stream!Queued(j) /\ ~Stream!Pending(j) /\ j \notin acked
    <3>. Places(j) = {"queue"}
      BY <2>2 DEF Places
    <3>. QED OBVIOUS
  <2>3. CASE ~Stream!Queued(j) /\ Stream!Pending(j) /\ j \notin acked
    <3>. Places(j) = {"pending"}
      BY <2>3 DEF Places
    <3>. QED OBVIOUS
  <2>4. CASE ~Stream!Queued(j) /\ ~Stream!Pending(j) /\ j \in acked
    <3>. Places(j) = {"acked"}
      BY <2>4 DEF Places
    <3>. QED OBVIOUS
  <2>. QED BY <2>1, <2>2, <2>3, <2>4
<1>. QED BY <1>1, FS_Singleton

(* Whatever dies and however often jobs are handed out again, the jobs of  *)
(* an accepted alert are neither lost nor doubled: each is in the stream,  *)
(* pending or settled, and in one of these only.                           *)
THEOREM JobsKept == Spec => []NoJobLost
<1>1. TypeInv /\ DeliveryInv => NoJobLost
  <2>1. ASSUME TypeInv, DeliveryInv, faults = 0, NEW i \in Incidents, Accepted(i),
               NEW c \in RouteClouds(i)
        PROVE  Cardinality(Places(<<i, c>>)) = 1
    <3>1. <<i, c>> \in Jobs
      BY <2>1, AlertsAssumption DEF Accepted, RouteClouds, Jobs, Clouds, TypeInv, TypeOK
    <3>2. ~Fresh(<<i, c>>)
      BY <2>1 DEF DeliveryInv, AllAdded
    <3>. QED BY <2>1, <3>1, <3>2, OneOfThree
  <2>. QED BY <2>1 DEF NoJobLost
<1>2. Init => TypeInv /\ DeliveryInv
  BY InitType, InitDelivers
<1>3. TypeInv /\ DeliveryInv /\ [Next]_vars => TypeInv' /\ DeliveryInv'
  BY NextType, NextDelivers
<1>. QED BY <1>1, <1>2, <1>3, PTL DEF Spec

-----------------------------------------------------------------------------
(* The steps of Dispatch are steps of JobDelivery, or leave every job      *)
(* where it is.                                                            *)

places == [j \in Jobs |-> Place(j)]

LEMMA OneJobMoves ==
  ASSUME NEW k \in Jobs, \A j \in Jobs : j # k => Place(j)' = Place(j)
  PROVE  places' = [places EXCEPT ![k] = Place(k)']
BY DEF places

LEMMA NobodyMoves ==
  ASSUME acked' = acked,
         \A j \in Jobs : /\ Stream!Queued(j)' <=> Stream!Queued(j)
                         /\ Stream!Pending(j)' <=> Stream!Pending(j)
  PROVE  UNCHANGED places
BY DEF places, Place

LEMMA EnqueueMaps ==
  ASSUME TypeInv, DeliveryInv, EnqueueJob
  PROVE  Delivery!Next
<1>1. PICK i \in Incidents, c \in Clouds : Stream!Enqueue(i, c) /\ Fresh(<<i, c>>)
  BY AlertsAssumption DEF EnqueueJob, TypeInv, Busy, TypeOK, DeliveryInv, AddedOnce, Clouds
<1>2. PICK k \in Jobs : k = <<i, c>>
  BY DEF Jobs
<1>3. \A j \in Jobs : Stream!Queued(j)' <=> Stream!Queued(j) \/ j = k
  BY <1>1, <1>2, EnqueueAdds DEF Fresh, DeliveryInv, TypeInv, TypeOK
<1>4. acked' = acked /\ \A j \in Jobs : Stream!Pending(j)' <=> Stream!Pending(j)
  BY <1>1 DEF Stream!Enqueue, Stream!Pending
<1>5. Place(k) = "absent" /\ Place(k)' = "waiting"
  BY <1>1, <1>2, <1>3 DEF Fresh, Place
<1>6. places' = [places EXCEPT ![k] = "waiting"]
  BY <1>3, <1>4, <1>5, OneJobMoves DEF Place
<1>7. Delivery!Add(k)
  BY <1>5, <1>6 DEF places, Delivery!Add, Delivery!Move
<1>. QED BY <1>7 DEF Delivery!Next

LEMMA ConsumeMaps ==
  ASSUME TypeInv, DeliveryInv, NEW e \in Executors, Stream!Consume(CloudOf[e], e)
  PROVE  Delivery!Next
<1>1. CloudOf[e] \in Clouds
  BY ExecutorsAssumption
<1>2. PICK k \in Jobs : k = Stream!NextJob(CloudOf[e])
  BY <1>1, ConsumeType DEF TypeInv, TypeOK
<1>3. Stream!Queued(k) /\ \A j \in Jobs : Stream!Queued(j)' <=> Stream!Queued(j) /\ j # k
  BY <1>1, <1>2, ConsumeTakes DEF TypeInv, TypeOK, DeliveryInv
<1>4. acked' = acked /\ \A j \in Jobs : Stream!Pending(j)' <=> Stream!Pending(j) \/ j = k
  BY <1>2, ExecutorsAssumption DEF Stream!Consume, Stream!Pending, TypeInv, TypeOK,
     Stream!StreamTypeOK, Jobs, Stream!Jobs, Clouds, Stream!Clouds
<1>5. Place(k) = "waiting" /\ Place(k)' = "pending"
  BY <1>3, <1>4 DEF Place
<1>6. places' = [places EXCEPT ![k] = "pending"]
  BY <1>3, <1>4, <1>5, OneJobMoves DEF Place
<1>7. Delivery!Deliver(k)
  BY <1>5, <1>6 DEF places, Delivery!Deliver, Delivery!Move
<1>. QED BY <1>7 DEF Delivery!Next

LEMMA AckMaps ==
  ASSUME TypeInv, DeliveryInv, NEW k \in Jobs, Stream!Ack(k),
         Stream!Pending(k) \/ k \in acked
  PROVE  Delivery!Next \/ UNCHANGED places
<1>1. /\ \A j \in Jobs : Stream!Pending(j)' <=> Stream!Pending(j) /\ j # k
      /\ \A j \in Jobs : Stream!Queued(j)' <=> Stream!Queued(j)
      /\ acked' = acked \cup {k}
  BY DEF Stream!Ack, Stream!Pending, Stream!Queued, TypeInv, TypeOK, Stream!StreamTypeOK,
         Jobs, Stream!Jobs, Clouds, Stream!Clouds
<1>2. ~Stream!Queued(k) /\ (k \in acked => ~Stream!Pending(k))
  BY DEF DeliveryInv, OnePlace
<1>3. CASE k \in acked
  BY <1>1, <1>2, <1>3, NobodyMoves
<1>4. CASE k \notin acked
  <2>1. Place(k) = "pending" /\ Place(k)' = "settled"
    BY <1>1, <1>2, <1>4 DEF Place
  <2>2. places' = [places EXCEPT ![k] = "settled"]
    BY <1>1, <2>1, OneJobMoves DEF Place
  <2>3. Delivery!Settle(k)
    BY <2>1, <2>2 DEF places, Delivery!Settle, Delivery!Move
  <2>. QED BY <2>3 DEF Delivery!Next
<1>. QED BY <1>3, <1>4

LEMMA NextMaps ==
  ASSUME TypeInv, DeliveryInv, [Next]_vars
  PROVE  Delivery!Next \/ UNCHANGED places
<1>1. CASE UNCHANGED streamVars
  BY <1>1, NobodyMoves DEF streamVars, Stream!Queued, Stream!Pending
<1>2. CASE UNCHANGED vars
  BY <1>1, <1>2 DEF vars
<1>3. CASE Webhook
  BY <1>1, <1>3, EnqueueMaps
     DEF Webhook, Fire, FindParent, JoinParent, OpenIncident, HookDies, streamVars
<1>4. ASSUME NEW e \in Executors, NEW B \in SUBSET Stream!Reclaimable(CloudOf[e]),
             Stream!ClaimStale(B, e)
      PROVE  UNCHANGED places
  <2>1. B \subseteq stale /\ stale \subseteq Jobs
    BY DEF Stream!Reclaimable, TypeInv, TypeOK, Stream!StreamTypeOK, Jobs, Stream!Jobs,
           Clouds, Stream!Clouds
  <2>2. UNCHANGED <<queue, acked>> /\ \A j \in Jobs : owner'[j] = IF j \in B THEN e ELSE owner[j]
    BY <1>4 DEF Stream!ClaimStale, Jobs, Stream!Jobs, Clouds, Stream!Clouds
  <2>3. \A j \in Jobs : Stream!Pending(j)' <=> Stream!Pending(j)
    BY <2>1, <2>2, ExecutorsAssumption DEF Stream!Pending, DeliveryInv, OnePlace
  <2>. QED BY <2>2, <2>3, NobodyMoves DEF Stream!Queued
<1>5. ASSUME NEW e \in Executors,
             \/ Reap(e) \/ RunReclaimed(e) \/ Take(e) \/ LoseReply(e) \/ SkipDuplicate(e)
             \/ Settle(e) \/ Crash(e)
      PROVE  Delivery!Next \/ UNCHANGED places
  <2>1. CASE RunReclaimed(e) \/ Crash(e)
    BY <1>1, <2>1 DEF RunReclaimed, Crash
  <2>2. CASE Reap(e) \/ Take(e) \/ LoseReply(e)
    BY <1>4, <2>2, ConsumeMaps DEF Reap, Take, LoseReply
  <2>3. CASE (SkipDuplicate(e) \/ Settle(e)) /\ Stream!Ack(job[e])
    <3>1. PICK k \in Jobs : k = job[e]
      BY <2>3 DEF SkipDuplicate, Settle, TypeInv, Busy, Working, Offline
    <3>2. Stream!Pending(k) \/ k \in acked
      BY <3>1 DEF DeliveryInv, HeldDelivered, Holds
    <3>. QED BY <2>3, <3>1, <3>2, AckMaps
  <2>4. CASE Settle(e) /\ ~Stream!Ack(job[e])
    BY <1>1, <2>4 DEF Settle
  <2>. QED BY <1>5, <2>1, <2>2, <2>3, <2>4 DEF SkipDuplicate
<1>6. ASSUME NEW j \in Jobs, Stale(j) PROVE UNCHANGED places
  BY <1>6, NobodyMoves DEF Stale, Stream!GoStale, Stream!Queued, Stream!Pending
<1>. QED BY <1>1, <1>2, <1>3, <1>5, <1>6, OthersAreQuiet DEF Quiet

(* The streams, their groups and the executors implement at-least-once     *)
(* delivery, for any number of jobs, executors, crashes and sweeps.        *)
THEOREM Refinement == Spec => ImplementsDelivery
<1>1. Init => Delivery!Init
  BY ExecutorsAssumption
  DEF Init, Delivery!Init, Place, Stream!StreamInit, Stream!Queued, Stream!Pending, Jobs,
      Stream!Jobs, Clouds, Stream!Clouds
<1>2. TypeInv /\ DeliveryInv /\ [Next]_vars => [Delivery!Next]_[j \in Jobs |-> Place(j)]
  BY NextMaps DEF places
<1>3. Init => TypeInv /\ DeliveryInv
  BY InitType, InitDelivers
<1>4. TypeInv /\ DeliveryInv /\ [Next]_vars => TypeInv' /\ DeliveryInv'
  BY NextType, NextDelivers
<1>. QED BY <1>1, <1>2, <1>3, <1>4, PTL DEF Spec, ImplementsDelivery, Delivery!Spec

-----------------------------------------------------------------------------
(* HolderOwns is inductive when no executor keeps a job past min_idle_ms:  *)
(* then no job in anyone's memory is ever stale, so XAUTOCLAIM finds only  *)
(* the jobs of the dead and those whose ack was lost.                      *)

LEMMA HandingHolds ==
  ASSUME TypeInv, DeliveryInv, HolderOwns, NEW e \in Executors,
         \/ Reap(e) \/ RunReclaimed(e) \/ Take(e) \/ LoseReply(e) \/ SkipDuplicate(e)
         \/ Settle(e) \/ Crash(e)
  PROVE  HolderOwns'
<1> USE DEF HolderOwns, Holds, Working, Offline
<1>1. Nobody \notin Jobs
  BY ExecutorsAssumption
<1>2. ASSUME NEW B \in SUBSET Stream!Reclaimable(CloudOf[e]), Stream!ClaimStale(B, e),
             batch' \in {batch, [batch EXCEPT ![e] = B]},
             at' = at /\ job' = job /\ job[e] = Nobody
      PROVE  HolderOwns'
  <2>1. Stream!ClaimStale(B, e) /\ batch' \in {batch, [batch EXCEPT ![e] = B]}
    BY <1>2
  <2>2. B \subseteq stale /\ B \subseteq Jobs
    BY <2>1 DEF Stream!Reclaimable, TypeInv, TypeOK, Stream!StreamTypeOK, Jobs, Stream!Jobs,
                Clouds, Stream!Clouds
  <2>3. /\ \A j \in Jobs : owner'[j] = IF j \in B THEN e ELSE owner[j]
        /\ stale' = stale \ B
    BY <2>1 DEF Stream!ClaimStale, Jobs, Stream!Jobs, Clouds, Stream!Clouds
  <2>4. at' = at /\ job' = job /\ job[e] = Nobody
    BY <1>2
  <2>. QED BY <1>1, <2>1, <2>2, <2>3, <2>4 DEF TypeInv, TypeOK
<1>3. CASE RunReclaimed(e)
  <2>1. PICK j \in batch[e] : /\ batch' = [batch EXCEPT ![e] = @ \ {j}]
                              /\ job' = [job EXCEPT ![e] = j]
    BY <1>3 DEF RunReclaimed
  <2>2. at' = [at EXCEPT ![e] = "taken"] /\ UNCHANGED streamVars
    BY <1>3 DEF RunReclaimed, Goto
  <2>. QED BY <2>1, <2>2 DEF TypeInv, TypeOK, streamVars
<1>4. CASE Take(e) \/ (LoseReply(e) /\ Stream!Consume(CloudOf[e], e))
  <2> DEFINE n == Stream!NextJob(CloudOf[e])
  <2>1. /\ CloudOf[e] \in Clouds /\ Stream!Consume(CloudOf[e], e)
        /\ batch' = batch /\ batch[e] = {}
        /\ \/ job' = [job EXCEPT ![e] = n] /\ at' = [at EXCEPT ![e] = "taken"]
           \/ job' = job /\ at' = at
    BY <1>4, ExecutorsAssumption DEF Take, LoseReply, Goto
  <2>2. n \in Jobs
    BY <2>1, ConsumeType DEF TypeInv, TypeOK
  <2>3. ~Stream!Pending(n) /\ n \notin stale
    <3>1. Stream!Queued(n)
      BY <2>1, ConsumeTakes DEF DeliveryInv, TypeInv, TypeOK
    <3>. QED BY <2>2, <3>1 DEF DeliveryInv, OnePlace
  <2>4. /\ \A j \in Jobs : owner'[j] = IF j = n THEN e ELSE owner[j]
        /\ stale' = stale
    BY <2>1 DEF Stream!Consume, TypeInv, TypeOK, Stream!StreamTypeOK, Jobs, Stream!Jobs,
                Clouds, Stream!Clouds
  <2> HIDE DEF n
  <2>5. \A f \in Executors : ~Holds(f, n)
    BY <2>2, <2>3, ExecutorsAssumption DEF Stream!Pending
  <2>. QED BY <2>1, <2>2, <2>3, <2>4, <2>5 DEF TypeInv, TypeOK
<1>5. CASE (SkipDuplicate(e) \/ Settle(e)) /\ Stream!Ack(job[e])
  <2>1. /\ job[e] \in Jobs /\ batch' = batch /\ job' = [job EXCEPT ![e] = Nobody]
        /\ at' = [at EXCEPT ![e] = "idle"]
    BY <1>5 DEF SkipDuplicate, Settle, BackToLoop, Goto, TypeInv, Busy
  <2>2. /\ \A j \in Jobs : owner'[j] = IF j = job[e] THEN Nobody ELSE owner[j]
        /\ stale' = stale \ {job[e]}
    BY <1>5 DEF Stream!Ack, TypeInv, TypeOK, Stream!StreamTypeOK, Jobs, Stream!Jobs,
                Clouds, Stream!Clouds
  <2>3. \A f \in Executors : Holds(f, job[e]) => f = e
    BY <2>1
  <2>4. \A f \in Executors, j \in Jobs : Holds(f, j)' => Holds(f, j) /\ j # job[e]
    BY <1>1, <2>1, <2>3 DEF TypeInv, TypeOK
  <2>. QED BY <1>1, <2>1, <2>2, <2>4 DEF TypeInv, TypeOK
<1>6. CASE Settle(e) /\ ~Stream!Ack(job[e])
  <2>1. /\ UNCHANGED <<streamVars, batch>> /\ job' = [job EXCEPT ![e] = Nobody]
        /\ at' = [at EXCEPT ![e] = "idle"]
    BY <1>6 DEF Settle, BackToLoop, Goto
  <2>. QED BY <1>1, <2>1 DEF TypeInv, TypeOK, streamVars
<1>7. CASE Crash(e)
  <2>1. /\ UNCHANGED streamVars /\ job' = [job EXCEPT ![e] = Nobody]
        /\ batch' = [batch EXCEPT ![e] = {}] /\ at' = [at EXCEPT ![e] = "down"]
    BY <1>7 DEF Crash, Goto
  <2>. QED BY <1>1, <2>1 DEF TypeInv, TypeOK, streamVars
<1>8. CASE Reap(e) \/ (LoseReply(e) /\ ~Stream!Consume(CloudOf[e], e))
  <2>1. PICK B \in SUBSET Stream!Reclaimable(CloudOf[e]) :
          Stream!ClaimStale(B, e) /\ batch' \in {batch, [batch EXCEPT ![e] = B]}
    BY <1>8 DEF Reap, LoseReply
  <2>2. at' = at /\ job' = job /\ job[e] = Nobody
    BY <1>8 DEF Reap, LoseReply
  <2>. QED BY <1>2, <2>1, <2>2
<1>9. SkipDuplicate(e) => Stream!Ack(job[e])
  BY DEF SkipDuplicate
<1>. QED BY <1>3, <1>4, <1>5, <1>6, <1>7, <1>8, <1>9

(* The other steps keep an executor's job, and its being at work.          *)
LEMMA OthersKeepWorking ==
  ASSUME TypeInv, Next,
         \A e \in Executors : ~ (\/ Reap(e) \/ RunReclaimed(e) \/ Take(e) \/ LoseReply(e)
                                 \/ SkipDuplicate(e) \/ Settle(e) \/ Crash(e))
  PROVE  /\ UNCHANGED <<job, batch>>
         /\ \A e \in Executors : Working(e) => Working(e)'
<1> DEFINE Kept == /\ UNCHANGED <<job, batch>>
                   /\ \A e \in Executors : Working(e) => Working(e)'
<1> USE DEF Working, Offline, TypeInv, TypeOK, Goto
<1>1. ASSUME NEW e \in Executors,
             \/ Begin(e) \/ ReplayPattern(e) \/ CreateRow(e) \/ ReadClaim(e)
             \/ ClaimAndStart(e) \/ StartUndurable(e) \/ EngineStep(e) \/ ProposeFix(e)
             \/ EngineAnswers(e) \/ EngineAborts(e) \/ FinishDone(e) \/ RunFails(e)
      PROVE Kept
  BY <1>1 DEF Begin, ReplayPattern, CreateRow, ReadClaim, ClaimAndStart, StartUndurable,
              StartEngine, EngineStep, ProposeFix, EngineAnswers, EngineAborts, FinishDone,
              RunFails, flowUnchanged
<1>2. ASSUME NEW e \in Executors,
             \/ Report(e) \/ ReleaseLock(e) \/ CloseWindow(e) \/ WriteFinding(e)
             \/ FinishHalf(e) \/ LookForOther(e) \/ ClaimSynthesis(e) \/ Synthesize(e)
             \/ FlowRaises(e) \/ Restart(e)
      PROVE Kept
  BY <1>2 DEF Report, ReleaseLock, AfterRelease, CloseWindow, WriteFinding, FinishHalf,
              LookForOther, ClaimSynthesis, Synthesize, FlowRaises, Restart, doneUnchanged
<1>3. CASE Webhook
  BY <1>3 DEF Webhook, Fire, FindParent, JoinParent, OpenIncident, EnqueueJob, HookDies,
              execUnchanged
<1>4. CASE Console \/ Clocks
  BY <1>4 DEF Console, Clocks, RequestAbort, WriteAbort, Stale, LockExpires, WindowExpires,
              clockUnchanged, memoryUnchanged
<1>. QED BY <1>1, <1>2, <1>3, <1>4 DEF Next, Work

LEMMA NextHolds ==
  ASSUME JobsFitIdle, TypeInv, DeliveryInv, HolderOwns, [Next]_vars
  PROVE  HolderOwns'
<1>1. CASE UNCHANGED <<job, batch, owner, stale>>
           /\ \A e \in Executors : Working(e) => Working(e)'
  BY <1>1 DEF HolderOwns, Holds
<1>2. CASE UNCHANGED vars
  BY <1>1, <1>2 DEF vars, streamVars, Working
<1>3. ASSUME Next, \A j \in Jobs : ~Stale(j),
             \A e \in Executors : ~ (\/ Reap(e) \/ RunReclaimed(e) \/ Take(e) \/ LoseReply(e)
                                     \/ SkipDuplicate(e) \/ Settle(e) \/ Crash(e))
      PROVE HolderOwns'
  <2>1. CASE ~Webhook
    BY <1>1, <1>3, <2>1, OthersAreQuiet, OthersKeepWorking DEF Quiet, streamVars
  <2>2. CASE Webhook
    <3>1. UNCHANGED <<owner, stale>>
      BY <2>2 DEF Webhook, Fire, FindParent, JoinParent, OpenIncident, EnqueueJob, HookDies,
                  Stream!Enqueue, streamVars
    <3>. QED BY <1>1, <1>3, <3>1, OthersKeepWorking
  <2>. QED BY <2>1, <2>2
<1>4. ASSUME NEW j \in Jobs, Stale(j) PROVE HolderOwns'
  <2>1. /\ UNCHANGED <<at, job, batch, owner>> /\ stale' = stale \cup {j}
        /\ \A e \in Executors : ~Holds(e, j)
    BY <1>4 DEF Stale, Stream!GoStale, memoryUnchanged
  <2>. QED BY <2>1 DEF HolderOwns, Holds, Working
<1>. QED BY <1>2, <1>3, <1>4, HandingHolds

(* As long as no executor keeps a job past min_idle_ms, no two of them     *)
(* ever work on the same job, whatever crashes, sweeps and lost acks do.   *)
THEOREM OneExecutorPerJob ==
  ASSUME JobsFitIdle
  PROVE  Spec => []OneRunPerJob
<1>1. TypeInv /\ HolderOwns => OneRunPerJob
  BY DEF HolderOwns, Holds, OneRunPerJob, TypeInv, Busy
<1>2. Init => TypeInv /\ DeliveryInv /\ HolderOwns
  <2>1. Init => HolderOwns
    BY ExecutorsAssumption DEF Init, HolderOwns, Holds, Working, Offline
  <2>. QED BY <2>1, InitType, InitDelivers
<1>3. TypeInv /\ DeliveryInv /\ HolderOwns /\ [Next]_vars
        => TypeInv' /\ DeliveryInv' /\ HolderOwns'
  BY NextType, NextDelivers, NextHolds
<1>. QED BY <1>1, <1>2, <1>3, PTL DEF Spec

=============================================================================
