--------------------------- MODULE AllInOneProofs ---------------------------
(***************************************************************************)
(* Theorems about the single-pod topology: alerts wait for their turn as   *)
(* long as nobody reports from Slack, no alert has two tasks, a held lock  *)
(* has an owner, and the reaper resumes only what nobody runs.             *)
(***************************************************************************)
EXTENDS AllInOneProperties, FiniteSetTheorems, TLAPS

(* The types the arguments below need. *)
Typed ==
  /\ alertOf \in [Incidents -> Alerts \cup {Nobody}]
  /\ pc \in [Runs -> Phases]
  /\ step \in [Runs -> Nat]
  /\ crashes \in Hosts /\ host \in 0..crashes
  /\ Table!TableTypeOK

(* What took an incident's own task from its lock. *)
Dropped == {"refused", "died"}

(* A step of the task of i that keeps it alive, or drops it. *)
Carries(i) ==
  \/ pc'[Own(i)] = pc[Own(i)]
  \/ Alive(Own(i)) /\ pc'[Own(i)] \in Queued \cup Inside \cup Dropped

Ends(i) ==
  /\ Alive(Own(i)) /\ pc'[Own(i)] = "ended"
  /\ \A k \in Incidents \ {i} : pc'[Own(k)] = pc[Own(k)]
  /\ alertOf' = alertOf
  /\ locked' = locked \ {alertOf[i]}

(* A step that neither takes nor gives back a lock. *)
Silent == UNCHANGED <<alertOf, locked>> /\ \A i \in Incidents : Carries(i)

(* The reaper's threads, and the pod, stay where they are. *)
ResumedStay == host' = host /\ \A i \in Incidents : pc'[Resumed(i)] = pc[Resumed(i)]

USE AllInOneAssumption

LEMMA RunsAre ==
  ASSUME NEW i \in Incidents
  PROVE  /\ Own(i) \in Runs /\ Resumed(i) \in Runs
         /\ \A k \in Incidents : Own(i) # Resumed(k)
         /\ \A k \in Incidents \ {i} : Own(k) # Own(i) /\ Resumed(k) # Resumed(i)
BY DEF Own, Resumed, Runs

LEMMA RunIs ==
  ASSUME NEW r \in Runs
  PROVE  r[1] \in Incidents /\ (r = Own(r[1]) \/ r = Resumed(r[1]))
BY DEF Own, Resumed, Runs

-----------------------------------------------------------------------------
(* The table's operations keep its type.                                   *)

LEMMA CreateRowTyped ==
  ASSUME Table!TableTypeOK, NEW i \in Incidents, Table!CreateRow(i)
  PROVE  Table!TableTypeOK'
BY DEF Table!TableTypeOK, Table!CreateRow, Table!Row, Table!Status, Table!LiveStatus

LEMMA ClaimTyped ==
  ASSUME Table!TableTypeOK, NEW i \in Incidents, host \in Hosts, Claim(i)
  PROVE  Table!TableTypeOK'
<1>1. Table!Claimed(row[i], host) \in Table!Row
  <2>1. row[i] \in Table!Row /\ row[i].attempt + 1 \in Nat
    BY DEF Table!TableTypeOK, Table!Row
  <2>. QED BY <2>1 DEF Table!Claimed, Table!Row, Table!Status, Table!LiveStatus
<1>2. CASE Table!ClaimVerdict(i) = "granted"
  BY <1>1, <1>2 DEF Claim, Table!TableTypeOK, Table!WriteClaim
<1>3. CASE Table!ClaimVerdict(i) # "granted"
  BY <1>3 DEF Claim, Table!ClaimVerdict, Table!TableTypeOK, Table!WriteClaim, Table!Row,
              Table!Status, Table!FinalStatus
<1>. QED BY <1>2, <1>3

LEMMA CheckpointTyped ==
  ASSUME Table!TableTypeOK, NEW i \in Incidents, NEW s \in Nat, Table!Checkpoint(i, s)
  PROVE  Table!TableTypeOK'
BY DEF Table!TableTypeOK, Table!Checkpoint, Table!Row

LEMMA FinishTyped ==
  ASSUME Table!TableTypeOK, NEW i \in Incidents, NEW s \in Table!Status, Table!Finish(i, s)
  PROVE  Table!TableTypeOK'
BY DEF Table!TableTypeOK, Table!Finish, Table!Row

LEMMA MarkAbortedTyped ==
  ASSUME Table!TableTypeOK, NEW i \in Incidents, Table!MarkAborted(i)
  PROVE  Table!TableTypeOK'
BY DEF Table!TableTypeOK, Table!MarkAborted, Table!Row, Table!Status

LEMMA TryTableTyped ==
  ASSUME Table!TableTypeOK, NEW A, TryTable(A), A => Table!TableTypeOK'
  PROVE  Table!TableTypeOK'
BY DEF TryTable, Table!TableTypeOK

LEMMA TryBeatTyped ==
  ASSUME Table!TableTypeOK, NEW A, NEW i, TryBeat(i, A), A => Table!TableTypeOK'
  PROVE  Table!TableTypeOK'
BY DEF TryBeat, Table!TableTypeOK

-----------------------------------------------------------------------------
(* What each step does to tasks and locks.                                 *)

LEMMA InitTyped == Init => Typed
BY DEF Init, Typed, Table!TableInit, Table!TableTypeOK, Table!NoRow, Table!Row, Table!Status,
       Table!LiveStatus, Phases, Hosts

LEMMA GotoTyped ==
  ASSUME Typed, NEW r \in Runs, NEW p \in Phases, Goto(r, p)
  PROVE  pc' \in [Runs -> Phases] /\ pc'[r] = p /\ \A q \in Runs \ {r} : pc'[q] = pc[q]
BY DEF Typed, Goto

LEMMA ResumedCarries ==
  ASSUME Typed, NEW i \in Incidents, NEW p \in Phases, Goto(Resumed(i), p)
  PROVE  \A k \in Incidents : pc'[Own(k)] = pc[Own(k)]
BY RunsAre, GotoTyped

LEMMA OwnCarries ==
  ASSUME Typed, NEW i \in Incidents, Alive(Own(i)),
         NEW p \in Queued \cup Inside \cup Dropped, Goto(Own(i), p)
  PROVE  /\ \A k \in Incidents : Carries(k)
         /\ \A k \in Incidents : pc'[Resumed(k)] = pc[Resumed(k)]
         /\ \A k \in Incidents \ {i} : pc'[Own(k)] = pc[Own(k)]
         /\ pc'[Own(i)] = p
<1>1. p \in Phases
  BY DEF Phases, Dropped
<1>. QED BY <1>1, RunsAre, GotoTyped DEF Carries

LEMMA QueueSteps ==
  ASSUME Typed, NEW i \in Incidents,
         FindFree(i) \/ Pass(i) \/ Wait(i) \/ TurnAway(i) \/ Park(i) \/ Proceed(i)
  PROVE  Typed' /\ Silent /\ ResumedStay
<1>1. /\ UNCHANGED <<alertOf, step, locked, host, crashes, row>>
      /\ pc[Own(i)] \in Queued
      /\ \E p \in Queued \cup Inside \cup Dropped : Goto(Own(i), p)
  BY DEF FindFree, Pass, Wait, TurnAway, Park, Proceed, queueUnchanged, gateVars, podVars, Queued,
         Inside, Dropped
<1>2. Alive(Own(i))
  BY <1>1 DEF Alive
<1>3. PICK p \in Queued \cup Inside \cup Dropped : Goto(Own(i), p)
  BY <1>1
<1>4. pc' \in [Runs -> Phases]
  BY <1>3, RunsAre, GotoTyped DEF Phases, Dropped
<1>. QED BY <1>1, <1>2, <1>3, <1>4, OwnCarries DEF Typed, Silent, ResumedStay, Table!TableTypeOK

LEMMA FlowSteps ==
  ASSUME Typed, NEW i \in Incidents,
         \/ ReplayPattern(i) \/ DieOfReplay(i) \/ CreateRow(i) \/ ClaimOwn(i)
         \/ StartUndurable(i) \/ FinishDone(i)
  PROVE  Typed' /\ Silent /\ ResumedStay
<1>1. UNCHANGED <<alertOf, locked, host, crashes>>
  BY DEF ReplayPattern, DieOfReplay, CreateRow, ClaimOwn, StartUndurable, FinishDone, flowUnchanged,
         outside, gateVars, podVars
<1>2. Alive(Own(i))
  BY DEF ReplayPattern, DieOfReplay, CreateRow, ClaimOwn, StartUndurable, FinishDone, Alive, Inside
<1>3. PICK p \in Queued \cup Inside \cup Dropped : Goto(Own(i), p)
  BY DEF ReplayPattern, DieOfReplay, CreateRow, ClaimOwn, StartUndurable, FinishDone, StartEngine,
         Inside, Dropped
<1>4. pc' \in [Runs -> Phases]
  BY <1>3, RunsAre, GotoTyped DEF Phases, Dropped
<1>5. step' \in [Runs -> Nat]
  BY DEF Typed, ReplayPattern, DieOfReplay, CreateRow, ClaimOwn, StartUndurable, FinishDone,
         StartEngine
<1>6. Table!TableTypeOK'
  <2>1. CASE CreateRow(i)
    BY <2>1, CreateRowTyped DEF CreateRow, Typed
  <2>2. CASE ClaimOwn(i)
    BY <2>2, ClaimTyped DEF ClaimOwn, Typed, Hosts
  <2>3. CASE FinishDone(i)
    BY <2>3, FinishTyped, TryTableTyped
       DEF FinishDone, Typed, Table!Status, Table!FinalStatus
  <2>4. CASE ReplayPattern(i) \/ DieOfReplay(i) \/ StartUndurable(i)
    BY <2>4 DEF ReplayPattern, DieOfReplay, StartUndurable, Typed, Table!TableTypeOK
  <2>. QED BY <2>1, <2>2, <2>3, <2>4
<1>. QED BY <1>1, <1>2, <1>3, <1>4, <1>5, <1>6, OwnCarries DEF Typed, Silent, ResumedStay

LEMMA EndSteps ==
  ASSUME Typed, NEW i \in Incidents, Report(i) \/ RunFails(i)
  PROVE  Typed' /\ Ends(i) /\ ResumedStay
<1>1. /\ UNCHANGED <<alertOf, step, host, crashes>>
      /\ locked' = locked \ {alertOf[i]}
      /\ Goto(Own(i), "ended")
      /\ Alive(Own(i))
  BY DEF Report, RunFails, flowUnchanged, podVars, Gate!Release, Alive, Inside
<1>2. /\ pc' \in [Runs -> Phases] /\ pc'[Own(i)] = "ended"
      /\ \A r \in Runs \ {Own(i)} : pc'[r] = pc[r]
  BY <1>1, RunsAre, GotoTyped DEF Phases
<1>3. Table!TableTypeOK'
  <2>1. CASE Report(i)
    BY <2>1 DEF Report, Typed, Table!TableTypeOK
  <2>2. CASE RunFails(i)
    BY <2>2, FinishTyped, TryTableTyped DEF RunFails, Typed, Table!Status, Table!FinalStatus
  <2>. QED BY <2>1, <2>2
<1>. QED BY <1>1, <1>2, <1>3, RunsAre DEF Typed, Ends, ResumedStay

LEMMA EngineSteps ==
  ASSUME Typed, NEW r \in Runs, Engine(r) \/ ProposeFix(r)
  PROVE  /\ Typed' /\ Silent
         /\ \/ pc' = pc
            \/ (pc[r] = "looping" /\ Goto(r, "concluding"))
<1>1. UNCHANGED <<alertOf, locked, host, crashes>>
  BY DEF Engine, EngineStep, EngineAnswers, EngineAborts, ProposeFix, engineUnchanged, outside,
         gateVars, podVars
<1>2. pc' = pc \/ (pc[r] = "looping" /\ Goto(r, "concluding"))
  <2>1. CASE EngineStep(r) \/ ProposeFix(r)
    BY <2>1 DEF EngineStep, ProposeFix
  <2>2. CASE EngineAnswers(r) \/ EngineAborts(r)
    BY <2>2 DEF EngineAnswers, EngineAborts
  <2>. QED BY <2>1, <2>2 DEF Engine
<1>3. pc' \in [Runs -> Phases] /\ \A i \in Incidents : Carries(i)
  <2>1. CASE pc' = pc
    BY <2>1, RunsAre DEF Carries, Typed
  <2>2. CASE pc[r] = "looping" /\ Goto(r, "concluding")
    <3>1. pc' \in [Runs -> Phases]
      BY <2>2, GotoTyped DEF Phases, Inside
    <3>2. PICK k \in Incidents : r = Own(k) \/ r = Resumed(k)
      BY RunIs
    <3>3. CASE r = Own(k)
      BY <2>2, <3>1, <3>3, OwnCarries DEF Alive, Inside
    <3>4. CASE r = Resumed(k)
      BY <2>2, <3>1, <3>4, ResumedCarries DEF Carries, Phases, Inside
    <3>. QED BY <3>2, <3>3, <3>4
  <2>. QED BY <1>2, <2>1, <2>2
<1>4. step' \in [Runs -> Nat]
  BY DEF Typed, Engine, EngineStep, EngineAnswers, EngineAborts, ProposeFix
<1>5. Table!TableTypeOK'
  <2>1. r[1] \in Incidents /\ step[r] + 1 \in Nat
    BY RunIs DEF Typed
  <2>2. CASE ProposeFix(r)
    BY <2>1, <2>2, FinishTyped, TryTableTyped DEF ProposeFix, Typed, Table!Status, Table!LiveStatus
  <2>3. CASE Engine(r)
    <3>1. \/ TryBeat(r[1], Table!Checkpoint(r[1], step[r] + 1))
          \/ row' = row
      BY <2>3 DEF Engine, EngineStep, EngineAnswers, EngineAborts
    <3>. QED BY <2>1, <3>1, CheckpointTyped, TryBeatTyped DEF Typed, Table!TableTypeOK
  <2>. QED BY <2>2, <2>3
<1>. QED BY <1>1, <1>2, <1>3, <1>4, <1>5 DEF Typed, Silent

LEMMA ReaperSteps ==
  ASSUME Typed, NEW i \in Incidents, Thread(i)
  PROVE  /\ Typed' /\ Silent /\ host' = host
         /\ \A k \in Incidents : pc'[Own(k)] = pc[Own(k)]
<1>1. UNCHANGED <<alertOf, locked, host, crashes>>
  BY DEF Thread, GiveUp, ClaimOrphan, ResumeDies, ResumeFails, SaveResumed, FinishResumed,
         threadUnchanged, gateVars, podVars
<1>2. PICK p \in Phases : Goto(Resumed(i), p)
  <2>1. {"none", "looping", "saved"} \subseteq Phases
    BY DEF Phases, Inside
  <2>. QED BY <2>1 DEF Thread, GiveUp, ClaimOrphan, ResumeDies, ResumeFails, SaveResumed,
                       FinishResumed, StartEngine
<1>3. step' \in [Runs -> Nat]
  BY DEF Typed, Thread, GiveUp, ClaimOrphan, ResumeDies, ResumeFails, SaveResumed, FinishResumed,
         StartEngine
<1>4. Table!TableTypeOK'
  <2>1. CASE GiveUp(i) \/ ResumeFails(i) \/ FinishResumed(i)
    <3>1. TryTable(Table!Finish(i, "failed")) \/ TryTable(Table!Finish(i, "done"))
      BY <2>1 DEF GiveUp, ResumeFails, FinishResumed
    <3>. QED BY <3>1, FinishTyped, TryTableTyped DEF Typed, Table!Status, Table!FinalStatus
  <2>2. CASE ClaimOrphan(i)
    BY <2>2, ClaimTyped DEF ClaimOrphan, Typed, Hosts
  <2>3. CASE ResumeDies(i) \/ SaveResumed(i)
    BY <2>3 DEF ResumeDies, SaveResumed, Typed, Table!TableTypeOK
  <2>. QED BY <2>1, <2>2, <2>3 DEF Thread
<1>5. pc' \in [Runs -> Phases]
  BY <1>2, RunsAre, GotoTyped
<1>6. \A k \in Incidents : pc'[Own(k)] = pc[Own(k)]
  BY <1>2, ResumedCarries
<1>. QED BY <1>1, <1>3, <1>4, <1>5, <1>6 DEF Typed, Silent, Carries

LEMMA SweepStep ==
  ASSUME Typed, Sweep
  PROVE  Typed' /\ Silent
<1>1. UNCHANGED <<alertOf, locked, host, crashes, step, row>>
  BY DEF Sweep, threadUnchanged, gateVars, podVars
<1>2. pc' \in [Runs -> Phases] /\ \A k \in Incidents : pc'[Own(k)] = pc[Own(k)]
  BY RunsAre DEF Sweep, Typed, Phases, Own
<1>. QED BY <1>1, <1>2 DEF Typed, Silent, Carries, Table!TableTypeOK

LEMMA FireStep ==
  ASSUME Typed, NEW a \in Alerts, NEW i \in Incidents, Fire(a, i)
  PROVE  Typed'
<1>1. /\ UNCHANGED <<step, host, crashes, row>>
      /\ alertOf' \in [Incidents -> Alerts \cup {Nobody}]
      /\ Goto(Own(i), "starting")
  BY DEF Fire, startUnchanged, podVars, Typed
<1>2. pc' \in [Runs -> Phases]
  BY <1>1, RunsAre, GotoTyped DEF Phases, Queued
<1>. QED BY <1>1, <1>2 DEF Typed, Table!TableTypeOK

LEMMA CrashStep ==
  ASSUME Typed, Crash
  PROVE  /\ Typed' /\ alertOf' = alertOf /\ locked' = {}
         /\ \A r \in Runs : pc'[r] = IF ~Alive(r) THEN pc[r]
                                     ELSE IF r[2] = "own" THEN "lost" ELSE "none"
         /\ \A r \in Runs : ~Alive(r)'
<1>1. /\ UNCHANGED <<alertOf, step, row>>
      /\ locked' = {}
      /\ crashes' \in Hosts /\ host' \in 0..crashes'
  BY DEF Crash, Gate!Restart, Typed, Hosts
<1>2. /\ pc' \in [Runs -> Phases]
      /\ \A r \in Runs : pc'[r] = IF ~Alive(r) THEN pc[r]
                                  ELSE IF r[2] = "own" THEN "lost" ELSE "none"
  BY DEF Crash, Typed, Phases
<1>3. \A r \in Runs : ~Alive(r)'
  BY <1>2 DEF Alive, Queued, Inside
<1>. QED BY <1>1, <1>2, <1>3 DEF Typed, Table!TableTypeOK

LEMMA NextTyped ==
  ASSUME Typed, [Next]_vars
  PROVE  /\ Typed'
         /\ \/ Silent
            \/ \E i \in Incidents : Ends(i)
            \/ \E a \in Alerts, i \in Incidents : Fire(a, i)
            \/ \E a \in Alerts : LockExpires(a)
            \/ Crash
<1>1. CASE \E i \in Incidents : Task(i)
  BY <1>1, QueueSteps, FlowSteps, EndSteps DEF Task
<1>2. CASE \E i \in Incidents : Thread(i)
  BY <1>2, ReaperSteps
<1>3. CASE \E i \in Incidents : RequestAbort(i) \/ WriteAbort(i) \/ GoStale(i)
  <2>1. UNCHANGED <<alertOf, pc, step, locked, host, crashes>>
    BY <1>3 DEF RequestAbort, WriteAbort, GoStale, calm, gateVars, podVars
  <2>2. Table!TableTypeOK'
    BY <1>3, MarkAbortedTyped, TryTableTyped
       DEF RequestAbort, WriteAbort, GoStale, Typed, Table!TableTypeOK
  <2>. QED BY <2>1, <2>2 DEF Typed, Silent, Carries
<1>4. CASE \E r \in Runs : Engine(r) \/ ProposeFix(r)
  BY <1>4, EngineSteps
<1>5. CASE \E a \in Alerts, i \in Incidents : Fire(a, i)
  BY <1>5, FireStep
<1>6. CASE \/ \E a \in Alerts : Join(a) \/ LockExpires(a)
           \/ \E k \in Keys : WindowExpires(k)
           \/ UNCHANGED vars
  <2>1. UNCHANGED <<alertOf, pc, step, host, crashes, row>>
    BY <1>6 DEF Join, LockExpires, WindowExpires, startUnchanged, calm, podVars, vars
  <2>2. locked' = locked \/ \E a \in Alerts : LockExpires(a)
    BY <1>6 DEF Join, WindowExpires, gateVars, vars
  <2>. QED BY <2>1, <2>2 DEF Typed, Silent, Carries, Table!TableTypeOK
<1>7. CASE Sweep
  BY <1>7, SweepStep
<1>8. CASE Crash
  BY <1>8, CrashStep
<1>. QED BY <1>1, <1>2, <1>3, <1>4, <1>5, <1>6, <1>7, <1>8 DEF Next

-----------------------------------------------------------------------------
(* Locks and tasks.                                                        *)

(* As long as no lock expires under its task, a task holds its own.        *)
LivingLocked == \A i \in Incidents : Alive(Own(i)) => alertOf[i] \in locked

Unfired == \A i \in Incidents : alertOf[i] = Nobody => pc[Own(i)] = "none"

LockInv ==
  /\ Unfired
  /\ LocksHaveOwner
  /\ LocksFitTtl => LivingLocked /\ OneTaskPerAlert

LEMMA InitLocks == Init => LockInv
BY RunsAre DEF Init, LockInv, Unfired, LocksHaveOwner, LivingLocked, OneTaskPerAlert, Alive, Queued,
               Inside, Gate!GateInit

LEMMA NextLocks ==
  ASSUME Typed, LockInv, [Next]_vars
  PROVE  LockInv'
<1>1. CASE Silent
  <2>1. alertOf' = alertOf /\ locked' = locked
    BY <1>1 DEF Silent
  <2>2. \A i \in Incidents : Alive(Own(i))' => Alive(Own(i))
    BY <1>1 DEF Silent, Carries, Alive, Queued, Inside, Dropped
  <2>3. \A i \in Incidents :
          Alive(Own(i)) \/ pc[Own(i)] \in Dropped => Alive(Own(i))' \/ pc'[Own(i)] \in Dropped
    BY <1>1 DEF Silent, Carries, Alive, Queued, Inside, Dropped
  <2>4. Unfired'
    BY <1>1, <2>1 DEF Silent, Carries, LockInv, Unfired, Alive, Queued, Inside
  <2>5. LocksHaveOwner'
    BY <2>1, <2>3 DEF LockInv, LocksHaveOwner, Dropped
  <2>6. LivingLocked => LivingLocked'
    BY <2>1, <2>2 DEF LivingLocked
  <2>7. OneTaskPerAlert => OneTaskPerAlert'
    BY <2>1, <2>2 DEF OneTaskPerAlert
  <2>. QED BY <2>4, <2>5, <2>6, <2>7 DEF LockInv
<1>2. ASSUME NEW i \in Incidents, Ends(i)
      PROVE  LockInv'
  <2>1. /\ ~Alive(Own(i))'
        /\ \A k \in Incidents \ {i} : (Alive(Own(k))' <=> Alive(Own(k)))
    BY <1>2 DEF Ends, Alive, Queued, Inside
  <2>2. Unfired'
    BY <1>2 DEF Ends, LockInv, Unfired, Alive, Queued, Inside
  <2>3. LocksHaveOwner'
    BY <1>2, <2>1 DEF Ends, LockInv, LocksHaveOwner
  <2>4. LocksFitTtl => (LivingLocked /\ OneTaskPerAlert)'
    BY <1>2, <2>1 DEF Ends, LockInv, LivingLocked, OneTaskPerAlert
  <2>. QED BY <2>2, <2>3, <2>4 DEF LockInv
<1>3. ASSUME NEW a \in Alerts, NEW i \in Incidents, Fire(a, i)
      PROVE  LockInv'
  <2>1. /\ alertOf[i] = Nobody /\ a \notin locked /\ locked' = locked \cup {a}
        /\ alertOf'[i] = a /\ \A k \in Incidents \ {i} : alertOf'[k] = alertOf[k]
        /\ pc'[Own(i)] = "starting" /\ \A k \in Incidents \ {i} : pc'[Own(k)] = pc[Own(k)]
    BY <1>3, RunsAre DEF Fire, Gate!Acquire, Goto, Typed
  <2>2. /\ Alive(Own(i))' /\ ~Alive(Own(i)) /\ pc[Own(i)] \notin Dropped
        /\ \A k \in Incidents \ {i} : (Alive(Own(k))' <=> Alive(Own(k)))
    BY <2>1 DEF LockInv, Unfired, Alive, Queued, Inside, Dropped
  <2>3. Unfired' /\ LocksHaveOwner'
    BY <2>1, <2>2 DEF LockInv, Unfired, LocksHaveOwner, Dropped
  <2>4. LocksFitTtl => (LivingLocked /\ OneTaskPerAlert)'
    BY <2>1, <2>2 DEF LockInv, LivingLocked, OneTaskPerAlert
  <2>. QED BY <2>3, <2>4 DEF LockInv
<1>4. ASSUME NEW a \in Alerts, LockExpires(a)
      PROVE  LockInv'
  <2>1. /\ UNCHANGED <<alertOf, pc>> /\ locked' = locked \ {a}
        /\ LocksFitTtl => \A i \in Incidents : Alive(Own(i)) => alertOf[i] # a
    BY <1>4 DEF LockExpires, calm, Gate!Release
  <2>. QED BY <2>1 DEF LockInv, Unfired, LocksHaveOwner, LivingLocked, OneTaskPerAlert, Alive
<1>5. CASE Crash
  <2>1. /\ alertOf' = alertOf /\ locked' = {}
        /\ \A i \in Incidents : ~Alive(Own(i))' /\ (pc[Own(i)] = "none" => pc'[Own(i)] = "none")
    BY <1>5, CrashStep, RunsAre DEF Alive, Queued, Inside
  <2>. QED BY <2>1 DEF LockInv, Unfired, LocksHaveOwner, LivingLocked, OneTaskPerAlert
<1>. QED BY <1>1, <1>2, <1>3, <1>4, <1>5, NextTyped

(* A lock that is held belongs to a task that lives, or to one that was    *)
(* turned away or died of a pattern (server.py _run_alert_investigation):  *)
(* for any number of alerts, permits, loops and deaths.                    *)
THEOREM LocksOwned == Spec => []LocksHaveOwner
<1>1. Init => Typed /\ LockInv
  BY InitTyped, InitLocks
<1>2. Typed /\ LockInv /\ [Next]_vars => (Typed /\ LockInv)'
  BY NextTyped, NextLocks
<1>3. LockInv => LocksHaveOwner
  BY DEF LockInv
<1>. QED BY <1>1, <1>2, <1>3, PTL DEF Spec

(* As long as no lock expires under its task, no two tasks investigate the *)
(* same alert (server.py's webhook, storage/dedup.py).                     *)
THEOREM OneTask ==
  ASSUME LocksFitTtl
  PROVE  Spec => []OneTaskPerAlert
<1>1. Init => Typed /\ LockInv
  BY InitTyped, InitLocks
<1>2. Typed /\ LockInv /\ [Next]_vars => (Typed /\ LockInv)'
  BY NextTyped, NextLocks
<1>3. LockInv => OneTaskPerAlert
  BY DEF LockInv
<1>. QED BY <1>1, <1>2, <1>3, PTL DEF Spec

-----------------------------------------------------------------------------
(* The loop of the semaphore.                                              *)

(* Only a report binds it to another loop than the server's.               *)
BoundByReport ==
  bound \in {Nobody, "main"} \/ (bound \in Incidents /\ FromSlack(bound))

LoopInv == BoundByReport /\ AlertsWait

(* What a step may do to the loop. *)
LEMMA LoopMoves ==
  ASSUME [Next]_vars
  PROVE  \/ bound' = bound
         \/ bound' = Nobody
         \/ \E i \in Incidents : Wait(i) /\ bound' = LoopOf(i) /\ alertOf' = alertOf
<1>1. CASE \E i \in Incidents : Task(i)
  <2>1. PICK i \in Incidents : Task(i)
    BY <1>1
  <2>2. CASE Wait(i)
    BY <2>2 DEF Wait, Permits!Enqueue, queueUnchanged
  <2>3. CASE FindFree(i) \/ Pass(i) \/ TurnAway(i) \/ Park(i) \/ Proceed(i)
    BY <2>3 DEF FindFree, Pass, TurnAway, Park, Proceed, semVars, Permits!TakePermit, Permits!Leave
  <2>4. CASE \/ ReplayPattern(i) \/ DieOfReplay(i) \/ CreateRow(i) \/ ClaimOwn(i)
             \/ StartUndurable(i) \/ FinishDone(i) \/ Report(i) \/ RunFails(i)
    BY <2>4 DEF ReplayPattern, DieOfReplay, CreateRow, ClaimOwn, StartUndurable, FinishDone, Report,
                RunFails, outside, semVars, Permits!Release
  <2>. QED BY <2>1, <2>2, <2>3, <2>4 DEF Task
<1>2. CASE \E i \in Incidents : Thread(i)
  BY <1>2 DEF Thread, GiveUp, ClaimOrphan, ResumeDies, ResumeFails, SaveResumed, FinishResumed,
              threadUnchanged, semVars
<1>3. CASE \E i \in Incidents : RequestAbort(i) \/ WriteAbort(i) \/ GoStale(i)
  BY <1>3 DEF RequestAbort, WriteAbort, GoStale, calm, semVars
<1>4. CASE \E r \in Runs : Engine(r) \/ ProposeFix(r)
  BY <1>4 DEF Engine, EngineStep, EngineAnswers, EngineAborts, ProposeFix, engineUnchanged, outside,
              semVars
<1>5. CASE \/ \E a \in Alerts : Join(a) \/ LockExpires(a) \/ \E i \in Incidents : Fire(a, i)
           \/ \E k \in Keys : WindowExpires(k)
  BY <1>5 DEF Join, LockExpires, Fire, WindowExpires, startUnchanged, calm, semVars
<1>6. CASE Sweep \/ UNCHANGED vars
  BY <1>6 DEF Sweep, threadUnchanged, semVars, vars
<1>7. CASE Crash
  BY <1>7 DEF Crash, Permits!Renew
<1>. QED BY <1>1, <1>2, <1>3, <1>4, <1>5, <1>6, <1>7 DEF Next

(* An incident's alert, once it has one, stays. *)
LEMMA AlertStays ==
  ASSUME Typed, [Next]_vars, NEW i \in Incidents, alertOf[i] # Nobody
  PROVE  alertOf'[i] = alertOf[i]
<1>1. CASE \E a \in Alerts, k \in Incidents : Fire(a, k)
  BY <1>1 DEF Fire, Typed
<1>2. CASE \E a \in Alerts : LockExpires(a)
  BY <1>2 DEF LockExpires, calm
<1>. QED BY <1>1, <1>2, NextTyped, CrashStep DEF Silent, Ends

(* Only the semaphore turns a task away. *)
LEMMA TurnedAway ==
  ASSUME Typed, [Next]_vars, NEW i \in Incidents,
         pc'[Own(i)] = "refused", pc[Own(i)] # "refused"
  PROVE  TurnAway(i) /\ UNCHANGED <<alertOf, bound>>
<1>1. CASE \E k \in Incidents : Task(k)
  <2>1. PICK k \in Incidents : Task(k)
    BY <1>1
  <2>2. \E p \in Phases : Goto(Own(k), p) /\ (p = "refused" => TurnAway(k))
    <3>1. Queued \cup Inside \cup Dropped \cup {"ended"} \subseteq Phases
      BY DEF Phases, Dropped
    <3>2. CASE TurnAway(k)
      BY <3>1, <3>2 DEF TurnAway, Dropped
    <3>3. CASE FindFree(k) \/ Pass(k) \/ Wait(k) \/ Park(k) \/ Proceed(k)
      BY <3>1, <3>3 DEF FindFree, Pass, Wait, Park, Proceed, Queued, Inside
    <3>4. CASE \/ ReplayPattern(k) \/ DieOfReplay(k) \/ CreateRow(k) \/ ClaimOwn(k)
               \/ StartUndurable(k) \/ FinishDone(k) \/ Report(k) \/ RunFails(k)
      BY <3>1, <3>4 DEF ReplayPattern, DieOfReplay, CreateRow, ClaimOwn, StartUndurable, FinishDone,
                        Report, RunFails, StartEngine, Inside, Dropped
    <3>. QED BY <2>1, <3>2, <3>3, <3>4 DEF Task
  <2>3. k = i /\ TurnAway(i)
    BY <2>2, RunsAre, GotoTyped
  <2>. QED BY <2>3 DEF TurnAway, queueUnchanged, semVars
<1>2. CASE \E k \in Incidents : Thread(k)
  BY <1>2, ReaperSteps
<1>3. CASE \E r \in Runs : Engine(r) \/ ProposeFix(r)
  <2>1. PICK r \in Runs : pc' = pc \/ Goto(r, "concluding")
    BY <1>3, EngineSteps
  <2>. QED BY <2>1, RunsAre, GotoTyped DEF Phases, Inside
<1>4. CASE \E a \in Alerts, k \in Incidents : Fire(a, k)
  <2>1. PICK k \in Incidents : Goto(Own(k), "starting")
    BY <1>4 DEF Fire
  <2>. QED BY <2>1, RunsAre, GotoTyped DEF Phases, Queued
<1>5. CASE Sweep
  BY <1>5, RunsAre DEF Sweep, Typed
<1>6. CASE Crash
  BY <1>6, RunsAre, CrashStep
<1>7. CASE \/ \E k \in Incidents : RequestAbort(k) \/ WriteAbort(k) \/ GoStale(k)
           \/ \E a \in Alerts : Join(a) \/ LockExpires(a)
           \/ \E k \in Keys : WindowExpires(k)
           \/ UNCHANGED vars
  BY <1>7 DEF RequestAbort, WriteAbort, GoStale, Join, LockExpires, WindowExpires, startUnchanged,
              calm, vars
<1>. QED BY <1>1, <1>2, <1>3, <1>4, <1>5, <1>6, <1>7 DEF Next

LEMMA InitLoop == Init => LoopInv
BY RunsAre DEF Init, LoopInv, BoundByReport, AlertsWait, Permits!SemaphoreInit

LEMMA NextLoop ==
  ASSUME Typed, LoopInv, [Next]_vars
  PROVE  LoopInv'
<1>1. \A i \in Incidents : FromSlack(i) => FromSlack(i)'
  BY AlertStays DEF FromSlack
<1>2. BoundByReport'
  <2>1. CASE bound' = bound \/ bound' = Nobody
    BY <1>1, <2>1 DEF LoopInv, BoundByReport
  <2>2. ASSUME NEW i \in Incidents, bound' = LoopOf(i), alertOf' = alertOf
        PROVE  BoundByReport'
    BY <2>2 DEF BoundByReport, LoopOf, FromSlack
  <2>. QED BY <2>1, <2>2, LoopMoves
<1>3. AlertsWait'
  <2>1. SUFFICES ASSUME NoReports', NEW i \in Incidents, pc'[Own(i)] = "refused"
                 PROVE  FALSE
    BY DEF AlertsWait
  <2>2. NoReports
    BY <1>1, <2>1 DEF NoReports
  <2>3. TurnAway(i)
    BY <2>1, <2>2, TurnedAway DEF LoopInv, AlertsWait
  <2>4. bound \notin {Nobody, "main"}
    BY <2>2, <2>3 DEF TurnAway, Permits!Fits, LoopOf, NoReports
  <2>. QED BY <2>2, <2>4 DEF LoopInv, BoundByReport, NoReports
<1>. QED BY <1>2, <1>3 DEF LoopInv

(* As long as nobody reports from Slack, no alert beyond the limit is      *)
(* turned away (server.py _get_semaphore, _run_alert_investigation):       *)
(* whatever the limit and however many alerts.                             *)
THEOREM AlertsQueue == Spec => []AlertsWait
<1>1. Init => Typed /\ LoopInv
  BY InitTyped, InitLoop
<1>2. Typed /\ LoopInv /\ [Next]_vars => (Typed /\ LoopInv)'
  BY NextTyped, NextLoop
<1>3. LoopInv => AlertsWait
  BY DEF LoopInv
<1>. QED BY <1>1, <1>2, <1>3, PTL DEF Spec

-----------------------------------------------------------------------------
(* Rows and their runs.                                                    *)

(* Whoever runs i has passed the claim, or needs none to have been. *)
Busy(i) == Alive(Own(i)) \/ (Alive(Resumed(i)) /\ pc[Resumed(i)] # "scanned")

(* A running row whose incident is being run bears this pod's name. *)
Owned == \A i \in Incidents : row[i].status = "running" /\ Busy(i) => row[i].worker = host

(* An incident that has no alert has no row and no run. *)
Unused ==
  \A i \in Incidents :
    alertOf[i] = Nobody =>
      row[i].status # "running" /\ pc[Own(i)] = "none" /\ pc[Resumed(i)] = "none"

RowInv == Owned /\ Unused

(* No row becomes running, or changes its owner while it is. *)
RowsStay ==
  \A i \in Incidents :
    row'[i].status = "running" => row[i].status = "running" /\ row'[i].worker = row[i].worker

(* Nothing starts to be run. *)
Quiet(i) ==
  /\ Busy(i)' => Busy(i)
  /\ pc[Own(i)] = "none" => pc'[Own(i)] = "none"
  /\ pc[Resumed(i)] = "none" /\ row[i].status # "running" => pc'[Resumed(i)] = "none"

NoStart == UNCHANGED <<alertOf, host>> /\ \A i \in Incidents : Quiet(i)

LEMMA QuietRows ==
  ASSUME RowInv, RowsStay, NoStart
  PROVE  RowInv'
<1>1. Owned'
  BY DEF RowInv, Owned, RowsStay, NoStart, Quiet
<1>2. Unused'
  BY DEF RowInv, Unused, RowsStay, NoStart, Quiet
<1>. QED BY <1>1, <1>2 DEF RowInv

LEMMA CarriedIsQuiet ==
  ASSUME alertOf' = alertOf, ResumedStay, \A i \in Incidents : Carries(i)
  PROVE  NoStart
BY DEF ResumedStay, Carries, NoStart, Quiet, Busy, Alive, Queued, Inside, Dropped

LEMMA EndIsQuiet ==
  ASSUME ResumedStay, NEW i \in Incidents, Ends(i)
  PROVE  NoStart
BY DEF ResumedStay, Ends, NoStart, Quiet, Busy, Alive, Queued, Inside

LEMMA OpsStay ==
  ASSUME Typed, NEW i \in Incidents,
         \/ row' = row
         \/ Table!CreateRow(i) \/ Table!MarkAborted(i)
         \/ \E s \in Table!Status \ {"running"} : Table!Finish(i, s)
         \/ \E s \in Nat : Table!Checkpoint(i, s)
  PROVE  RowsStay
<1>1. CASE row' = row
  BY <1>1 DEF RowsStay
<1>2. CASE Table!CreateRow(i)
  BY <1>2 DEF RowsStay, Typed, Table!CreateRow, Table!TableTypeOK, Table!Row
<1>3. CASE Table!MarkAborted(i)
  BY <1>3 DEF RowsStay, Typed, Table!MarkAborted, Table!TableTypeOK, Table!Row
<1>4. ASSUME NEW s \in Table!Status \ {"running"}, Table!Finish(i, s)
      PROVE  RowsStay
  BY <1>4 DEF RowsStay, Typed, Table!Finish, Table!TableTypeOK, Table!Row
<1>5. ASSUME NEW s \in Nat, Table!Checkpoint(i, s)
      PROVE  RowsStay
  BY <1>5 DEF RowsStay, Typed, Table!Checkpoint, Table!TableTypeOK, Table!Row
<1>. QED BY <1>1, <1>2, <1>3, <1>4, <1>5

(* A claim that leaves the row running leaves it with this pod's name. *)
LEMMA ClaimOwns ==
  ASSUME Typed, NEW i \in Incidents, Claim(i)
  PROVE  /\ row'[i].status = "running" => row'[i].worker = host
         /\ \A k \in Incidents \ {i} : row'[k] = row[k]
BY DEF Typed, Claim, Table!ClaimVerdict, Table!WriteClaim, Table!Claimed, Table!TableTypeOK, Table!Row,
       Table!FinalStatus

LEMMA ClaimRows ==
  ASSUME Typed, RowInv, NEW i \in Incidents, Claim(i), UNCHANGED <<alertOf, host>>,
         alertOf[i] # Nobody, \A k \in Incidents \ {i} : Quiet(k)
  PROVE  RowInv'
<1>1. Owned'
  BY ClaimOwns DEF RowInv, Owned, Quiet
<1>2. Unused'
  BY ClaimOwns DEF RowInv, Unused, Quiet
<1>. QED BY <1>1, <1>2 DEF RowInv

LEMMA TaskRows ==
  ASSUME Typed, RowInv, NEW i \in Incidents, Task(i)
  PROVE  RowInv'
<1>1. CASE FindFree(i) \/ Pass(i) \/ Wait(i) \/ TurnAway(i) \/ Park(i) \/ Proceed(i)
  <2>1. row' = row
    BY <1>1 DEF FindFree, Pass, Wait, TurnAway, Park, Proceed, queueUnchanged
  <2>2. NoStart
    BY <1>1, QueueSteps, CarriedIsQuiet DEF Silent
  <2>. QED BY <2>1, <2>2, OpsStay, QuietRows
<1>2. CASE \/ ReplayPattern(i) \/ DieOfReplay(i) \/ CreateRow(i)
           \/ StartUndurable(i) \/ FinishDone(i)
  <2>1. \/ row' = row \/ Table!CreateRow(i)
        \/ \E s \in Table!Status \ {"running"} : Table!Finish(i, s)
    BY <1>2 DEF ReplayPattern, DieOfReplay, CreateRow, StartUndurable, FinishDone, TryTable,
                Table!Status, Table!FinalStatus
  <2>2. NoStart
    BY <1>2, FlowSteps, CarriedIsQuiet DEF Silent
  <2>. QED BY <2>1, <2>2, OpsStay, QuietRows
<1>3. CASE ClaimOwn(i)
  <2>1. NoStart
    BY <1>3, FlowSteps, CarriedIsQuiet DEF Silent
  <2>2. alertOf[i] # Nobody
    BY <1>3 DEF ClaimOwn, RowInv, Unused
  <2>. QED BY <1>3, <2>1, <2>2, ClaimRows DEF ClaimOwn, NoStart
<1>4. CASE Report(i) \/ RunFails(i)
  <2>1. row' = row \/ \E s \in Table!Status \ {"running"} : Table!Finish(i, s)
    BY <1>4 DEF Report, RunFails, TryTable, Table!Status, Table!FinalStatus
  <2>2. NoStart
    BY <1>4, EndSteps, EndIsQuiet
  <2>. QED BY <2>1, <2>2, OpsStay, QuietRows
<1>. QED BY <1>1, <1>2, <1>3, <1>4 DEF Task

LEMMA EngineRows ==
  ASSUME Typed, RowInv, NEW r \in Runs, Engine(r) \/ ProposeFix(r)
  PROVE  RowInv'
<1>1. r[1] \in Incidents /\ step[r] + 1 \in Nat
  BY RunIs DEF Typed
<1>2. RowsStay
  <2>1. CASE ProposeFix(r)
    BY <1>1, <2>1, OpsStay DEF ProposeFix, TryTable, Table!Status, Table!LiveStatus
  <2>2. CASE Engine(r)
    <3>1. row' = row \/ Table!Checkpoint(r[1], step[r] + 1)
      BY <2>2 DEF Engine, EngineStep, EngineAnswers, EngineAborts, TryBeat
    <3>. QED BY <1>1, <3>1, OpsStay
  <2>. QED BY <2>1, <2>2
<1>3. NoStart
  <2>1. UNCHANGED <<alertOf, host>>
    BY DEF Engine, EngineStep, EngineAnswers, EngineAborts, ProposeFix, engineUnchanged, podVars
  <2>2. CASE pc' = pc
    BY <2>1, <2>2 DEF NoStart, Quiet, Busy, Alive
  <2>3. CASE pc[r] = "looping" /\ Goto(r, "concluding")
    <3>1. pc'[r] = "concluding" /\ \A q \in Runs \ {r} : pc'[q] = pc[q]
      BY <2>3, GotoTyped DEF Phases, Inside
    <3>. QED BY <2>1, <2>3, <3>1, RunsAre DEF NoStart, Quiet, Busy, Alive, Inside
  <2>. QED BY <2>2, <2>3, EngineSteps
<1>. QED BY <1>2, <1>3, QuietRows

LEMMA ThreadRows ==
  ASSUME Typed, RowInv, NEW i \in Incidents, Thread(i)
  PROVE  RowInv'
<1>1. /\ UNCHANGED <<alertOf, host>>
      /\ \A k \in Incidents : pc'[Own(k)] = pc[Own(k)]
  BY ReaperSteps DEF Silent
<1>2. PICK p \in {"none", "looping", "saved"} : Goto(Resumed(i), p)
  BY DEF Thread, GiveUp, ClaimOrphan, ResumeDies, ResumeFails, SaveResumed, FinishResumed, StartEngine
<1>3. pc'[Resumed(i)] = p /\ \A k \in Incidents \ {i} : pc'[Resumed(k)] = pc[Resumed(k)]
  BY <1>2, RunsAre, GotoTyped DEF Phases, Inside
<1>4. \A k \in Incidents \ {i} : Quiet(k)
  BY <1>1, <1>3 DEF Quiet, Busy, Alive
<1>5. CASE ClaimOrphan(i)
  <2>1. alertOf[i] # Nobody
    BY <1>5 DEF ClaimOrphan, RowInv, Unused
  <2>. QED BY <1>1, <1>4, <1>5, <2>1, ClaimRows DEF ClaimOrphan
<1>6. CASE GiveUp(i) \/ ResumeDies(i) \/ ResumeFails(i) \/ SaveResumed(i) \/ FinishResumed(i)
  <2>1. row' = row \/ \E s \in Table!Status \ {"running"} : Table!Finish(i, s)
    BY <1>6 DEF GiveUp, ResumeDies, ResumeFails, SaveResumed, FinishResumed, TryTable,
                Table!Status, Table!FinalStatus
  <2>2. /\ pc[Resumed(i)] # "none"
        /\ pc'[Resumed(i)] = "none" \/ (pc[Resumed(i)] = "concluding" /\ pc'[Resumed(i)] = "saved")
    BY <1>6, RunsAre DEF GiveUp, ResumeDies, ResumeFails, SaveResumed, FinishResumed, Goto, Typed
  <2>3. Quiet(i)
    BY <1>1, <2>2 DEF Quiet, Busy, Alive, Queued, Inside
  <2>. QED BY <1>1, <1>4, <2>1, <2>3, OpsStay, QuietRows DEF NoStart
<1>. QED BY <1>5, <1>6 DEF Thread

LEMMA SweepRows ==
  ASSUME Typed, RowInv, Sweep
  PROVE  RowInv'
<1>1. UNCHANGED <<alertOf, host, row>>
  BY DEF Sweep, threadUnchanged, podVars
<1>2. /\ \A k \in Incidents : pc'[Own(k)] = pc[Own(k)]
      /\ \A k \in Incidents : pc'[Resumed(k)] = pc[Resumed(k)]
           \/ (row[k].status = "running" /\ pc'[Resumed(k)] = "scanned")
  BY RunsAre DEF Sweep, Typed, Orphans, Own, Resumed
<1>3. NoStart
  BY <1>1, <1>2 DEF NoStart, Quiet, Busy, Alive
<1>. QED BY <1>1, <1>3, QuietRows DEF RowsStay

LEMMA FireRows ==
  ASSUME Typed, RowInv, NEW a \in Alerts, NEW i \in Incidents, Fire(a, i)
  PROVE  RowInv'
<1>1. /\ UNCHANGED <<host, row>>
      /\ alertOf[i] = Nobody /\ alertOf'[i] = a /\ a # Nobody
      /\ \A k \in Incidents \ {i} : alertOf'[k] = alertOf[k]
      /\ Goto(Own(i), "starting")
  BY DEF Fire, startUnchanged, podVars, Typed
<1>2. /\ \A k \in Incidents \ {i} : pc'[Own(k)] = pc[Own(k)]
      /\ \A k \in Incidents : pc'[Resumed(k)] = pc[Resumed(k)]
  BY <1>1, RunsAre, GotoTyped DEF Phases, Queued
<1>3. Owned'
  BY <1>1, <1>2 DEF RowInv, Owned, Unused, Busy, Alive
<1>4. Unused'
  BY <1>1, <1>2 DEF RowInv, Unused
<1>. QED BY <1>3, <1>4 DEF RowInv

LEMMA CrashRows ==
  ASSUME Typed, RowInv, Crash
  PROVE  RowInv'
<1>1. row' = row /\ alertOf' = alertOf
  BY DEF Crash
<1>2. \A i \in Incidents :
        /\ ~Busy(i)'
        /\ pc[Own(i)] = "none" => pc'[Own(i)] = "none"
        /\ pc[Resumed(i)] = "none" => pc'[Resumed(i)] = "none"
  BY CrashStep, RunsAre DEF Busy, Alive, Queued, Inside
<1>. QED BY <1>1, <1>2 DEF RowInv, Owned, Unused

LEMMA NextRows ==
  ASSUME Typed, RowInv, [Next]_vars
  PROVE  RowInv'
<1>1. CASE \E i \in Incidents : RequestAbort(i) \/ WriteAbort(i) \/ GoStale(i)
  <2>1. PICK i \in Incidents : RequestAbort(i) \/ WriteAbort(i) \/ GoStale(i)
    BY <1>1
  <2>2. row' = row \/ Table!MarkAborted(i)
    BY <2>1 DEF RequestAbort, WriteAbort, GoStale, TryTable
  <2>3. UNCHANGED <<alertOf, host, pc>>
    BY <2>1 DEF RequestAbort, WriteAbort, GoStale, calm, podVars
  <2>4. NoStart
    BY <2>3 DEF NoStart, Quiet, Busy, Alive
  <2>. QED BY <2>2, <2>4, OpsStay, QuietRows
<1>2. CASE \/ \E a \in Alerts : Join(a) \/ LockExpires(a)
           \/ \E k \in Keys : WindowExpires(k)
           \/ UNCHANGED vars
  <2>1. UNCHANGED <<alertOf, host, pc, row>>
    BY <1>2 DEF Join, LockExpires, WindowExpires, startUnchanged, calm, podVars, vars
  <2>. QED BY <2>1 DEF RowInv, Owned, Unused, Busy, Alive
<1>. QED BY <1>1, <1>2, TaskRows, EngineRows, ThreadRows, SweepRows, FireRows, CrashRows DEF Next

LEMMA InitRows == Init => RowInv
BY RunsAre DEF Init, RowInv, Owned, Unused, Busy, Alive, Queued, Inside, Table!TableInit, Table!NoRow

(* Only a sweep scans. *)
LEMMA OnlySweepScans ==
  ASSUME Typed, [Next]_vars, NEW i \in Incidents,
         pc[Resumed(i)] # "scanned", pc'[Resumed(i)] = "scanned"
  PROVE  Sweep
<1>1. CASE \E k \in Incidents : Task(k)
  BY <1>1, QueueSteps, FlowSteps, EndSteps DEF Task, ResumedStay
<1>2. CASE \E k \in Incidents : Thread(k)
  <2>1. PICK k \in Incidents, p \in {"none", "looping", "saved"} : Goto(Resumed(k), p)
    BY <1>2 DEF Thread, GiveUp, ClaimOrphan, ResumeDies, ResumeFails, SaveResumed, FinishResumed,
                StartEngine
  <2>. QED BY <2>1, RunsAre, GotoTyped DEF Phases, Inside
<1>3. CASE \E r \in Runs : Engine(r) \/ ProposeFix(r)
  <2>1. PICK r \in Runs : pc' = pc \/ Goto(r, "concluding")
    BY <1>3, EngineSteps
  <2>. QED BY <2>1, RunsAre, GotoTyped DEF Phases, Inside
<1>4. CASE \E a \in Alerts, k \in Incidents : Fire(a, k)
  <2>1. PICK k \in Incidents : Goto(Own(k), "starting")
    BY <1>4 DEF Fire
  <2>. QED BY <2>1, RunsAre, GotoTyped DEF Phases, Queued
<1>5. CASE Crash
  BY <1>5, RunsAre, CrashStep
<1>6. CASE \/ \E k \in Incidents : RequestAbort(k) \/ WriteAbort(k) \/ GoStale(k)
           \/ \E a \in Alerts : Join(a) \/ LockExpires(a)
           \/ \E k \in Keys : WindowExpires(k)
           \/ UNCHANGED vars
  BY <1>6 DEF RequestAbort, WriteAbort, GoStale, Join, LockExpires, WindowExpires, startUnchanged,
              calm, vars
<1>. QED BY <1>1, <1>2, <1>3, <1>4, <1>5, <1>6 DEF Next

(* The reaper starts a thread only for an incident that nobody runs        *)
(* (server.py _reap_orphans): for any number of incidents and deaths, and  *)
(* whether or not a restart keeps the host name.                           *)
THEOREM OnlyOrphans == Spec => ResumesOnlyOrphans
<1>1. Typed /\ RowInv /\ [Next]_vars
        => [\A i \in Incidents :
              pc[Resumed(i)] # "scanned" /\ pc'[Resumed(i)] = "scanned"
                => ~Alive(Own(i)) /\ ~Alive(Resumed(i))]_vars
  <2>1. SUFFICES ASSUME Typed, RowInv, [Next]_vars, NEW i \in Incidents,
                        pc[Resumed(i)] # "scanned", pc'[Resumed(i)] = "scanned"
                 PROVE  ~Alive(Own(i)) /\ ~Alive(Resumed(i))
    OBVIOUS
  <2>2. Sweep
    BY <2>1, OnlySweepScans
  <2>3. i \in Orphans
    BY <2>1, <2>2, RunsAre DEF Sweep, Typed, Resumed
  <2>4. ~Busy(i)
    BY <2>1, <2>3 DEF Orphans, RowInv, Owned
  <2>. QED BY <2>1, <2>2, <2>4 DEF Busy, Sweep
<1>2. Init => Typed /\ RowInv
  BY InitTyped, InitRows
<1>3. Typed /\ RowInv /\ [Next]_vars => (Typed /\ RowInv)'
  BY NextTyped, NextRows
<1>. QED BY <1>1, <1>2, <1>3, PTL DEF Spec, ResumesOnlyOrphans

-----------------------------------------------------------------------------
(* Permits.  A permit is handed from one to another, and each change of    *)
(* hands is one task or one waiter: the first asleep is never two.         *)

PermitInv ==
  /\ value \in Int /\ waiters \in Seq(Incidents)
  /\ IsFiniteSet(Working) /\ IsFiniteSet(woken)
  /\ PermitsAccounted

LEMMA FirstIsOne ==
  ASSUME NEW queue \in Seq(Incidents), NEW awake
  PROVE  \/ Permits!FirstAsleep(queue, awake) = {}
         \/ \E w : w \notin awake /\ Permits!FirstAsleep(queue, awake) = {w}
<1> DEFINE First(k) == /\ k \in DOMAIN queue /\ queue[k] \notin awake
                       /\ \A l \in 1 .. k - 1 : queue[l] \in awake
<1>1. Permits!FirstAsleep(queue, awake) = {queue[k] : k \in {k \in DOMAIN queue : First(k)}}
  BY DEF Permits!FirstAsleep
<1>2. DOMAIN queue = 1 .. Len(queue) /\ Len(queue) \in Nat
  OBVIOUS
<1>3. ASSUME NEW k \in DOMAIN queue, NEW l \in DOMAIN queue, First(k), First(l)
      PROVE  k = l
  <2>1. k \in Nat \ {0} /\ l \in Nat \ {0}
    BY <1>2
  <2>2. ~(k < l) /\ ~(l < k)
    BY <1>3, <2>1
  <2>. QED BY <2>1, <2>2
<1>. HIDE DEF First
<1>4. CASE \E k \in DOMAIN queue : First(k)
  <2>1. PICK k \in DOMAIN queue : First(k)
    BY <1>4
  <2>2. Permits!FirstAsleep(queue, awake) = {queue[k]}
    BY <1>1, <1>3, <2>1
  <2>3. queue[k] \notin awake
    BY <2>1 DEF First
  <2>. QED BY <2>2, <2>3
<1>. QED BY <1>1, <1>4

LEMMA OneMoves ==
  ASSUME Typed, NEW i \in Incidents, NEW p \in Phases, Goto(Own(i), p)
  PROVE  Working' = IF p \in Inside THEN Working \cup {i} ELSE Working \ {i}
BY RunsAre, GotoTyped DEF Working

LEMMA NobodyMoves ==
  ASSUME \A i \in Incidents : pc'[Own(i)] = pc[Own(i)]
  PROVE  Working' = Working
BY DEF Working

LEMMA Removing ==
  ASSUME NEW queue \in Seq(Incidents), NEW k \in DOMAIN queue
  PROVE  Permits!RemoveAt(queue, k) \in Seq(Incidents)
BY DEF Permits!RemoveAt

(* What a step may do to the permits. *)
LEMMA PermitMoves ==
  ASSUME Typed, Unfired, [Next]_vars
  PROVE  \/ UNCHANGED <<value, woken, waiters>> /\ Working' = Working
         \/ \E i \in Incidents : Wait(i) /\ Working' = Working
         \/ \E i \in Incidents : Pass(i) \/ Proceed(i)
         \/ \E i \in Working : Permits!Release /\ Working' = Working \ {i}
         \/ Crash
<1>1. CASE \E i \in Incidents : Task(i)
  <2>1. PICK i \in Incidents : Task(i)
    BY <1>1
  <2>2. CASE FindFree(i) \/ TurnAway(i) \/ Park(i) \/ Wait(i)
    <3>1. PICK p \in {"passing", "refused", "parked", "waiting"} : Goto(Own(i), p)
      BY <2>2 DEF FindFree, TurnAway, Park, Wait
    <3>2. i \notin Working
      BY <2>2 DEF FindFree, TurnAway, Park, Wait, Working, Inside
    <3>3. Working' = Working
      BY <3>1, <3>2, OneMoves DEF Phases, Queued, Inside
    <3>. QED BY <2>2, <3>3 DEF FindFree, TurnAway, Park, semVars
  <2>3. CASE ReplayPattern(i) \/ CreateRow(i) \/ ClaimOwn(i) \/ StartUndurable(i) \/ FinishDone(i)
    <3>1. PICK p \in Inside : Goto(Own(i), p)
      BY <2>3 DEF ReplayPattern, CreateRow, ClaimOwn, StartUndurable, FinishDone, StartEngine, Inside
    <3>2. i \in Working
      BY <2>3 DEF ReplayPattern, CreateRow, ClaimOwn, StartUndurable, FinishDone, Working, Inside
    <3>3. Working' = Working
      BY <3>1, <3>2, OneMoves DEF Phases
    <3>. QED BY <2>3, <3>3 DEF ReplayPattern, CreateRow, ClaimOwn, StartUndurable, FinishDone,
                               outside, semVars
  <2>4. CASE DieOfReplay(i) \/ Report(i) \/ RunFails(i)
    <3>1. PICK p \in {"died", "ended"} : Goto(Own(i), p)
      BY <2>4 DEF DieOfReplay, Report, RunFails
    <3>2. i \in Working
      BY <2>4 DEF DieOfReplay, Report, RunFails, Working, Inside
    <3>3. Working' = Working \ {i}
      BY <3>1, OneMoves DEF Phases, Queued, Inside
    <3>. QED BY <2>4, <3>2, <3>3 DEF DieOfReplay, Report, RunFails
  <2>. QED BY <2>1, <2>2, <2>3, <2>4 DEF Task
<1>2. CASE \E i \in Incidents : Thread(i)
  <2>1. UNCHANGED <<value, woken, waiters>>
    BY <1>2 DEF Thread, GiveUp, ClaimOrphan, ResumeDies, ResumeFails, SaveResumed, FinishResumed,
                threadUnchanged, semVars
  <2>. QED BY <1>2, <2>1, ReaperSteps, NobodyMoves
<1>3. CASE \E i \in Incidents : RequestAbort(i) \/ WriteAbort(i) \/ GoStale(i)
  BY <1>3, NobodyMoves DEF RequestAbort, WriteAbort, GoStale, calm, semVars
<1>4. CASE \E r \in Runs : Engine(r) \/ ProposeFix(r)
  <2>1. PICK r \in Runs : Engine(r) \/ ProposeFix(r)
    BY <1>4
  <2>2. UNCHANGED <<value, woken, waiters>>
    BY <2>1 DEF Engine, EngineStep, EngineAnswers, EngineAborts, ProposeFix, engineUnchanged, outside,
                semVars
  <2>3. pc' = pc \/ (pc[r] = "looping" /\ Goto(r, "concluding"))
    BY <2>1, EngineSteps
  <2>4. PICK i \in Incidents : r = Own(i) \/ r = Resumed(i)
    BY RunIs
  <2>5. CASE pc' = pc
    BY <2>2, <2>5, NobodyMoves
  <2>6. CASE r = Own(i) /\ pc[r] = "looping" /\ Goto(r, "concluding")
    <3>1. Working' = Working
      BY <2>6, OneMoves DEF Working, Inside, Phases
    <3>. QED BY <2>2, <3>1
  <2>7. CASE r = Resumed(i) /\ Goto(r, "concluding")
    <3>1. "concluding" \in Phases
      BY DEF Phases, Inside
    <3>. QED BY <2>2, <2>7, <3>1, ResumedCarries, NobodyMoves
  <2>. QED BY <2>3, <2>4, <2>5, <2>6, <2>7
<1>5. CASE \/ \E a \in Alerts : Join(a) \/ LockExpires(a)
           \/ \E k \in Keys : WindowExpires(k)
           \/ UNCHANGED vars
  BY <1>5, NobodyMoves DEF Join, LockExpires, WindowExpires, startUnchanged, calm, semVars, vars
<1>6. CASE \E a \in Alerts, i \in Incidents : Fire(a, i)
  <2>1. PICK a \in Alerts, i \in Incidents : Fire(a, i)
    BY <1>6
  <2>2. Goto(Own(i), "starting") /\ UNCHANGED <<value, woken, waiters>> /\ pc[Own(i)] = "none"
    BY <2>1 DEF Fire, startUnchanged, semVars, Unfired
  <2>3. Working' = Working
    BY <2>2, OneMoves DEF Working, Inside, Phases, Queued
  <2>. QED BY <2>2, <2>3
<1>7. CASE Sweep
  <2>1. \A i \in Incidents : pc'[Own(i)] = pc[Own(i)]
    BY <1>7, RunsAre DEF Sweep, Own
  <2>. QED BY <1>7, <2>1, NobodyMoves DEF Sweep, threadUnchanged, semVars
<1>. QED BY <1>1, <1>2, <1>3, <1>4, <1>5, <1>6, <1>7 DEF Next

LEMMA QueueTyped ==
  ASSUME Typed, Unfired, waiters \in Seq(Incidents), [Next]_vars
  PROVE  waiters' \in Seq(Incidents)
<1>1. CASE \E i \in Incidents : Wait(i)
  BY <1>1 DEF Wait, Permits!Enqueue
<1>2. CASE \E i \in Incidents : Pass(i) \/ Proceed(i)
  BY <1>2, Removing DEF Pass, Proceed, Permits!TakePermit, Permits!Leave
<1>3. CASE Permits!Release
  BY <1>3 DEF Permits!Release
<1>4. CASE Crash
  BY <1>4 DEF Crash, Permits!Renew
<1>. QED BY <1>1, <1>2, <1>3, <1>4, PermitMoves

LEMMA NextPermits ==
  ASSUME Typed, Unfired, PermitInv, [Next]_vars
  PROVE  PermitInv'
<1>0. Cardinality(Working) \in Nat /\ Cardinality(woken) \in Nat
  BY FS_CardinalityType DEF PermitInv
<1>1. CASE UNCHANGED <<value, woken>> /\ Working' = Working
  BY <1>1, QueueTyped DEF PermitInv, PermitsAccounted
<1>2. ASSUME NEW i \in Incidents, Pass(i) \/ Proceed(i)
      PROVE  PermitInv'
  <2>1. Working' = Working \cup {i} /\ i \notin Working
    BY <1>2, OneMoves DEF Pass, Proceed, Working, Inside, Phases
  <2>2. IsFiniteSet(Working') /\ Cardinality(Working') = Cardinality(Working) + 1
    BY <2>1, FS_AddElement DEF PermitInv
  <2>3. CASE Pass(i)
    BY <1>0, <2>2, <2>3, QueueTyped DEF Pass, Permits!TakePermit, PermitInv, PermitsAccounted
  <2>4. CASE Proceed(i)
    <3>1. PICK k \in DOMAIN waiters :
            LET next == IF value > 0 THEN Permits!FirstAsleep(Permits!RemoveAt(waiters, k), woken)
                        ELSE {}
            IN /\ i \in woken
               /\ value' = IF next = {} THEN value ELSE value - 1
               /\ woken' = (woken \ {i}) \cup next
      BY <2>4 DEF Proceed, Permits!Leave
    <3>2. \/ value' = value /\ woken' = woken \ {i}
          \/ \E w : w \notin woken /\ value' = value - 1 /\ woken' = (woken \ {i}) \cup {w}
      BY <3>1, Removing, FirstIsOne DEF PermitInv
    <3>3. /\ IsFiniteSet(woken \ {i})
          /\ Cardinality(woken \ {i}) = Cardinality(woken) - 1
      BY <3>1, FS_RemoveElement DEF PermitInv
    <3>4. \A w : w \notin woken => /\ IsFiniteSet((woken \ {i}) \cup {w})
                                   /\ Cardinality((woken \ {i}) \cup {w}) = Cardinality(woken)
      <4>1. ASSUME NEW w, w \notin woken
            PROVE  /\ IsFiniteSet((woken \ {i}) \cup {w})
                   /\ Cardinality((woken \ {i}) \cup {w}) = Cardinality(woken)
        <5>1. /\ IsFiniteSet((woken \ {i}) \cup {w})
              /\ Cardinality((woken \ {i}) \cup {w}) = Cardinality(woken \ {i}) + 1
          BY <3>3, <4>1, FS_AddElement
        <5>. QED BY <1>0, <3>3, <5>1
      <4>. QED BY <4>1
    <3>5. CASE value' = value /\ woken' = woken \ {i}
      BY <1>0, <2>2, <3>3, <3>5, QueueTyped DEF PermitInv, PermitsAccounted
    <3>6. ASSUME NEW w, w \notin woken, value' = value - 1, woken' = (woken \ {i}) \cup {w}
          PROVE  PermitInv'
      <4>1. IsFiniteSet(woken') /\ Cardinality(woken') = Cardinality(woken)
        BY <3>4, <3>6
      <4>. QED BY <1>0, <2>2, <3>6, <4>1, QueueTyped DEF PermitInv, PermitsAccounted
    <3>. QED BY <3>2, <3>5, <3>6
  <2>. QED BY <1>2, <2>3, <2>4
<1>3. ASSUME NEW i \in Working, Permits!Release, Working' = Working \ {i}
      PROVE  PermitInv'
  <2>1. IsFiniteSet(Working') /\ Cardinality(Working') = Cardinality(Working) - 1
    BY <1>3, FS_RemoveElement DEF PermitInv
  <2>2. \/ value' = value + 1 /\ woken' = woken
        \/ \E w : w \notin woken /\ value' = value /\ woken' = woken \cup {w}
    BY <1>3, FirstIsOne DEF Permits!Release, PermitInv
  <2>3. \A w : w \notin woken => /\ IsFiniteSet(woken \cup {w})
                                 /\ Cardinality(woken \cup {w}) = Cardinality(woken) + 1
    BY FS_AddElement DEF PermitInv
  <2>4. CASE value' = value + 1 /\ woken' = woken
    BY <1>0, <2>1, <2>4, QueueTyped DEF PermitInv, PermitsAccounted
  <2>5. ASSUME NEW w, w \notin woken, value' = value, woken' = woken \cup {w}
        PROVE  PermitInv'
    <3>1. IsFiniteSet(woken') /\ Cardinality(woken') = Cardinality(woken) + 1
      BY <2>3, <2>5
    <3>. QED BY <1>0, <2>1, <2>5, <3>1, QueueTyped DEF PermitInv, PermitsAccounted
  <2>. QED BY <2>2, <2>4, <2>5
<1>4. CASE Crash
  <2>1. Working' = {} /\ woken' = {} /\ value' = Limit
    BY <1>4, CrashStep, RunsAre DEF Crash, Permits!Renew, Working, Alive
  <2>. QED BY <2>1, FS_EmptySet, QueueTyped DEF PermitInv, PermitsAccounted
<1>. QED BY <1>1, <1>2, <1>3, <1>4, PermitMoves DEF Wait, Permits!Enqueue

(* Whatever loops, threads, parked reports and deaths do to it, each permit *)
(* of the semaphore (server.py:35) is free, with a task inside, or with    *)
(* one that was woken, for any limit and any number of tasks.              *)
THEOREM PermitsKept == Spec => []PermitsAccounted
<1>1. Init => PermitInv
  <2>1. ASSUME Init PROVE PermitInv
    <3>1. Working = {} /\ woken = {} /\ value = Limit /\ waiters = <<>>
      BY <2>1, RunsAre DEF Init, Permits!SemaphoreInit, Working, Inside
    <3>. QED BY <3>1, FS_EmptySet DEF PermitInv, PermitsAccounted
  <2>. QED BY <2>1
<1>2. PermitInv => PermitsAccounted
  BY DEF PermitInv
<1>3. Typed /\ LockInv /\ PermitInv /\ [Next]_vars => (Typed /\ LockInv /\ PermitInv)'
  BY NextTyped, NextLocks, NextPermits DEF LockInv
<1>. QED BY <1>1, <1>2, <1>3, InitTyped, InitLocks, PTL DEF Spec
=============================================================================
