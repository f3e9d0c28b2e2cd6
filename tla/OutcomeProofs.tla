---------------------------- MODULE OutcomeProofs ----------------------------
(***************************************************************************)
(* Theorems about what Dispatch's runs lead to: the rows they leave, how   *)
(* often the engine is started, what is posted, and the locks.             *)
(*                                                                         *)
(* Every invariant here speaks of an executor's place in the handler, its  *)
(* job's row and a few counters.  So the steps of an executor are first    *)
(* brought into one table (Turns, Hands): from where to where it goes and  *)
(* what that does to its job, everything else staying as it is.            *)
(***************************************************************************)
EXTENDS DispatchProofs

Status(j) == row[j].status
Final     == Table!FinalStatus
Calm      == crashes + faults = 0

Free == faults' = faults
Paid == faults' = faults + 1

(* What a step may do to the row of its job. *)
Kept(k) == Status(k)' = Status(k) /\ row'[k].attempt = row[k].attempt

Closed(k, s) ==
  /\ row'[k].attempt = row[k].attempt
  /\ Status(k)' = IF Status(k) \in {"absent", "aborted"} THEN Status(k) ELSE s

(* A write that lands, or is lost. *)
Tried(k, s) == (Closed(k, s) /\ Free) \/ (Kept(k) /\ Paid)

Halfway  == {"found", "halfdone", "halfreleased", "joining", "merging"}
Released == {"released", "acking", "halfreleased", "joining", "merging"}

(* Steps within a job... *)
Moves(e, here, there) == at[e] \in here /\ at'[e] = there

Silent == UNCHANGED <<runs, posts, locked>>

Prepares(e) ==
  LET k == job[e] IN
  /\ Silent
  /\ \/ /\ Moves(e, {"taken"}, "enriching")
        /\ Kept(k)
        /\ (Free /\ Status(k) \notin Final) \/ Paid
     \/ Moves(e, {"enriching"}, "answered") /\ Issue(e) \in Confirmed /\ Kept(k) /\ Free
     \/ /\ Moves(e, {"enriching"}, "created")
        /\ Status(k)' = IF Status(k) = "absent" THEN "queued" ELSE Status(k)
        /\ row'[k].attempt = row[k].attempt
        /\ Free
     \/ /\ Moves(e, {"created"}, "claiming")
        /\ verdict'[e] = Table!ClaimVerdict(k)
        /\ Kept(k) /\ Free

Starts(e) ==
  LET k == job[e] IN
  /\ runs'[k] = runs[k] + 1
  /\ UNCHANGED <<posts, locked>>
  /\ \/ Moves(e, Early, "looping") /\ Kept(k) /\ Paid
     \/ /\ Moves(e, {"claiming"}, "looping") /\ Free
        /\ \/ verdict[e] = "refused" /\ Kept(k)
           \/ verdict[e] = "spent" /\ Status(k)' = "failed" /\ row'[k].attempt = row[k].attempt
           \/ /\ verdict[e] = "granted"
              /\ Status(k)' = "running" /\ row'[k].attempt = row[k].attempt + 1

Concludes(e) ==
  LET k == job[e] IN
  /\ Silent
  /\ \/ Moves(e, {"looping"}, "looping") /\ Kept(k)
     \/ Moves(e, {"looping"}, "looping") /\ FixProposals /\ Closed(k, "awaiting_fix_review")
     \/ Moves(e, {"looping"}, "concluding") /\ Kept(k)
     \/ Moves(e, {"concluding"}, "answered") /\ Tried(k, "done")
     \/ Moves(e, Early \cup {"looping"}, "failed") /\ Tried(k, "failed")

Reports(e) ==
  LET k == job[e] IN
  \/ /\ Moves(e, {"answered"}, "reported") /\ ~IsHalf(k) /\ Kept(k) /\ Free
     /\ posts'[k] = posts[k] + 1
     /\ UNCHANGED <<runs, locked>>
  \/ /\ \/ Moves(e, {"reported"}, "released") \/ Moves(e, {"halfdone"}, "halfreleased")
        \/ Moves(e, {"failed"}, "acking")
     /\ Kept(k)
     /\ (locked' = locked \ {Issue(e)} /\ Free) \/ (locked' = locked /\ Paid)
     /\ UNCHANGED <<runs, posts>>
  \/ Moves(e, {"released"}, "acking") /\ Kept(k) /\ Silent
  \/ Moves(e, {"answered"}, "found") /\ IsHalf(k) /\ Kept(k) /\ Silent
  \/ Moves(e, {"found"}, "halfdone") /\ Tried(k, "done") /\ Silent
  \/ /\ Moves(e, {"halfreleased", "joining"}, "joining") \/ Moves(e, {"joining"}, "merging")
        \/ Moves(e, {"halfreleased", "joining", "merging"}, "acking")
     /\ Kept(k) /\ Free /\ Silent
  \/ /\ Moves(e, {"enriching", "answered", "halfreleased", "joining", "merging"}, "acking")
     /\ Closed(k, "failed") /\ Paid /\ Silent

Elsewhere(e) ==
  /\ \A f \in Executors : f # e => at'[f] = at[f] /\ verdict'[f] = verdict[f]
  /\ \A j \in Jobs : j # job[e] => /\ row'[j] = row[j]
                                   /\ runs'[j] = runs[j]
                                   /\ posts'[j] = posts[j]
  /\ UNCHANGED <<hookVars, job, batch, streamVars, others>>
  /\ Free \/ Paid

Turns(e) ==
  /\ job[e] \in Jobs
  /\ Elsewhere(e)
  /\ Prepares(e) \/ Starts(e) \/ Concludes(e) \/ Reports(e)

(* ... and steps that take a job up or let it go. *)
Delivered(j) == Stream!Pending(j) \/ j \in acked

NothingSettles ==
  acked' = acked /\ \A j \in Jobs : /\ Due(j)' <=> Due(j)
                                    /\ Delivered(j) => Delivered(j)'

Sweeps(e) ==
  /\ at'[e] = at[e] /\ job'[e] = job[e] /\ verdict'[e] = verdict[e]
  /\ NothingSettles
  /\ Free \/ Paid

Picks(e) ==
  /\ Moves(e, {"idle"}, "taken")
  /\ job'[e] \in Jobs /\ (job'[e] \in batch[e] \/ Stream!Queued(job'[e]))
  /\ NothingSettles /\ Free

Settles(e) ==
  LET k == job[e] IN
  /\ \/ Moves(e, {"taken"}, "idle") /\ Status(k) \in Final
     \/ Moves(e, {"acking"}, "idle")
  /\ k \in Jobs /\ job'[e] = Nobody
  /\ acked' = acked \cup {k}
  /\ \A j \in Jobs : /\ Due(j)' <=> Due(j) /\ j # k
                     /\ Delivered(j) => Delivered(j)'
  /\ Free

Drops(e) == Moves(e, {"acking"}, "idle") /\ job'[e] = Nobody /\ NothingSettles /\ Paid

Dies(e) == at'[e] = "down" /\ job'[e] = Nobody /\ NothingSettles /\ Free

Revives(e) == Moves(e, {"down"}, "idle") /\ job'[e] = job[e] /\ NothingSettles /\ Free

Hands(e) ==
  /\ \A f \in Executors : f # e =>
       at'[f] = at[f] /\ job'[f] = job[f] /\ verdict'[f] = verdict[f]
  /\ UNCHANGED <<hookVars, aborting, aborts, row, history, gateVars, crossVars>>
  /\ \/ crashes' = crashes + 1 /\ Dies(e)
     \/ crashes' = crashes /\ (\/ Sweeps(e) \/ Picks(e) \/ Settles(e) \/ Drops(e)
                               \/ Revives(e))

-----------------------------------------------------------------------------
(* The rows after a call of the table. *)

RowOnly(k) == \A j \in Jobs : j # k => row'[j] = row[j]

LEMMA FinishRow ==
  ASSUME TypeInv, NEW k \in Jobs, NEW s, Table!Finish(k, s)
  PROVE  RowOnly(k) /\ Closed(k, s)
<1>1. row[k] \in Table!Row /\ row \in [Jobs -> Table!Row]
  BY DEF TypeInv, TypeOK, Table!TableTypeOK
<1>. QED BY <1>1 DEF Table!Finish, RowOnly, Closed, Status, Table!Row

LEMMA CheckpointRow ==
  ASSUME TypeInv, NEW k \in Jobs, NEW s, Table!Checkpoint(k, s)
  PROVE  RowOnly(k) /\ Kept(k)
<1>1. row[k] \in Table!Row /\ row \in [Jobs -> Table!Row]
  BY DEF TypeInv, TypeOK, Table!TableTypeOK
<1>. QED BY <1>1 DEF Table!Checkpoint, RowOnly, Kept, Status, Table!Row

LEMMA CreatedRow ==
  ASSUME TypeInv, NEW k \in Jobs, Table!CreateRow(k)
  PROVE  /\ RowOnly(k)
         /\ Status(k)' = IF Status(k) = "absent" THEN "queued" ELSE Status(k)
         /\ row'[k].attempt = row[k].attempt
<1>1. row[k] \in Table!Row /\ row \in [Jobs -> Table!Row]
  BY DEF TypeInv, TypeOK, Table!TableTypeOK
<1>. QED BY <1>1 DEF Table!CreateRow, RowOnly, Status, Table!Row

LEMMA ClaimRow ==
  ASSUME TypeInv, NEW k \in Jobs, NEW e \in Executors, NEW v \in Table!Verdicts,
         Table!WriteClaim(k, e, v)
  PROVE  /\ RowOnly(k)
         /\ \/ v = "refused" /\ Kept(k)
            \/ v = "spent" /\ Status(k)' = "failed" /\ row'[k].attempt = row[k].attempt
            \/ /\ v = "granted"
               /\ Status(k)' = "running" /\ row'[k].attempt = row[k].attempt + 1
<1>1. row[k] \in Table!Row /\ row \in [Jobs -> Table!Row]
  BY DEF TypeInv, TypeOK, Table!TableTypeOK
<1>2. CASE v = "refused"
  BY <1>1, <1>2 DEF Table!WriteClaim, RowOnly, Kept, Status
<1>3. CASE v = "spent"
  BY <1>1, <1>3 DEF Table!WriteClaim, RowOnly, Status, Table!Row
<1>4. CASE v = "granted"
  <2>1. /\ Table!Claimed(row[k], e).status = "running"
        /\ Table!Claimed(row[k], e).attempt = row[k].attempt + 1
    BY <1>1 DEF Table!Claimed, Table!Row
  <2>2. row' = [row EXCEPT ![k] = Table!Claimed(row[k], e)]
    BY <1>4 DEF Table!WriteClaim
  <2>. QED BY <1>1, <1>4, <2>1, <2>2 DEF RowOnly, Status
<1>. QED BY <1>2, <1>3, <1>4 DEF Table!Verdicts

LEMMA AbortedRow ==
  ASSUME TypeInv, NEW k \in Jobs, Table!MarkAborted(k)
  PROVE  RowOnly(k) /\ Status(k)' = "aborted" /\ row'[k].attempt = row[k].attempt
<1>1. row[k] \in Table!Row /\ row \in [Jobs -> Table!Row]
  BY DEF TypeInv, TypeOK, Table!TableTypeOK
<1>. QED BY <1>1 DEF Table!MarkAborted, RowOnly, Status, Table!Row

LEMMA SameRow == ASSUME row' = row, NEW k PROVE RowOnly(k) /\ Kept(k)
BY DEF RowOnly, Kept, Status

-----------------------------------------------------------------------------
(* The steps of Dispatch are those of the table. *)

LEMMA AtAndJob ==
  ASSUME TypeInv, NEW e \in Executors
  PROVE  /\ Working(e) => job[e] \in Jobs
         /\ \A p : Goto(e, p) =>
              at'[e] = p /\ \A f \in Executors : f # e => at'[f] = at[f]
BY DEF TypeInv, TypeOK, Busy, Goto

LEMMA PreparesStep ==
  ASSUME TypeInv, NEW e \in Executors,
         Begin(e) \/ ReplayPattern(e) \/ CreateRow(e) \/ ReadClaim(e)
  PROVE  Turns(e)
<1> USE AtAndJob, SameRow
    DEF Turns, Elsewhere, Prepares, Moves, Silent, Free, Paid, flowUnchanged,
        gateUnchanged, gateVars, history, runVars, RowOnly, Working, Offline
<1>1. CASE Begin(e)
  <2>1. at[e] = "taken" /\ job[e] \in Jobs /\ at'[e] = "enriching"
    BY <1>1 DEF Begin
  <2>2. (Free /\ Status(job[e]) \notin Final) \/ Paid
    BY <1>1 DEF Begin, Slip, Status, Final
  <2>3. Silent /\ row' = row /\ UNCHANGED <<verdict, hookVars, job, batch, streamVars, others>>
    BY <1>1 DEF Begin
  <2>. QED BY <1>1, <2>1, <2>2, <2>3 DEF Begin
<1>2. CASE ReplayPattern(e)
  BY <1>2 DEF ReplayPattern
<1>3. CASE CreateRow(e)
  <2>1. job[e] \in Jobs
    BY <1>3 DEF CreateRow
  <2>. QED BY <1>3, <2>1, CreatedRow DEF CreateRow
<1>4. CASE ReadClaim(e)
  <2>1. verdict'[e] = Table!ClaimVerdict(job[e])
        /\ \A f \in Executors : f # e => verdict'[f] = verdict[f]
    BY <1>4 DEF ReadClaim, TypeInv, TypeOK
  <2>. QED BY <1>4, <2>1 DEF ReadClaim
<1>. QED BY <1>1, <1>2, <1>3, <1>4

LEMMA StartsStep ==
  ASSUME TypeInv, NEW e \in Executors, ClaimAndStart(e) \/ StartUndurable(e)
  PROVE  Turns(e)
<1>1. /\ job[e] \in Jobs
      /\ \A f \in Executors : f # e => verdict'[f] = verdict[f]
      /\ runs'[job[e]] = runs[job[e]] + 1
      /\ \A j \in Jobs : j # job[e] => runs'[j] = runs[j]
  BY DEF ClaimAndStart, StartUndurable, StartEngine, Early, TypeInv, TypeOK, Busy,
         Working, Offline
<1>2. /\ posts' = posts /\ locked' = locked
      /\ UNCHANGED <<hookVars, job, batch, streamVars, others>>
      /\ at'[e] = "looping" /\ \A f \in Executors : f # e => at'[f] = at[f]
  BY AtAndJob DEF ClaimAndStart, StartUndurable, StartEngine, flowUnchanged, gateUnchanged,
                  gateVars
<1>3. CASE ClaimAndStart(e)
  <2>1. verdict[e] \in Table!Verdicts
    BY DEF TypeInv, TypeOK
  <2>. QED BY <1>1, <1>2, <1>3, <2>1, ClaimRow
       DEF ClaimAndStart, Turns, Elsewhere, Starts, Moves, Free, Paid, RowOnly
<1>4. CASE StartUndurable(e)
  BY <1>1, <1>2, <1>4, SameRow
  DEF StartUndurable, Slip, Turns, Elsewhere, Starts, Moves, Free, Paid, RowOnly
<1>. QED BY <1>3, <1>4

LEMMA ConcludesStep ==
  ASSUME TypeInv, NEW e \in Executors,
         \/ EngineStep(e) \/ ProposeFix(e) \/ EngineAnswers(e) \/ EngineAborts(e)
         \/ FinishDone(e) \/ RunFails(e)
  PROVE  Turns(e)
<1> USE AtAndJob, SameRow, FinishRow, CheckpointRow
    DEF Turns, Elsewhere, Concludes, Moves, Silent, Free, Paid, Tried, TryTable, Slip,
        flowUnchanged, gateUnchanged, gateVars, history, runVars, RowOnly, Working,
        Offline, Early
<1>1. CASE EngineStep(e)
  BY <1>1 DEF EngineStep
<1>2. CASE ProposeFix(e)
  BY <1>2 DEF ProposeFix
<1>3. CASE EngineAnswers(e)
  BY <1>3 DEF EngineAnswers
<1>4. CASE EngineAborts(e)
  BY <1>4 DEF EngineAborts
<1>5. CASE FinishDone(e)
  BY <1>5 DEF FinishDone
<1>6. CASE RunFails(e)
  BY <1>6 DEF RunFails
<1>. QED BY <1>1, <1>2, <1>3, <1>4, <1>5, <1>6

LEMMA ReportsStep ==
  ASSUME TypeInv, NEW e \in Executors,
         \/ Report(e) \/ ReleaseLock(e) \/ CloseWindow(e) \/ WriteFinding(e)
         \/ FinishHalf(e) \/ LookForOther(e) \/ ClaimSynthesis(e) \/ Synthesize(e)
         \/ FlowRaises(e)
  PROVE  Turns(e)
<1> USE AtAndJob, SameRow, FinishRow
    DEF Turns, Elsewhere, Reports, Moves, Silent, Free, Paid, Tried, TryTable, Slip,
        doneUnchanged, gateVars, runVars, RowOnly, Working, Offline
<1>1. CASE Report(e)
  <2>1. job[e] \in Jobs
    BY <1>1 DEF Report
  <2>2. posts'[job[e]] = posts[job[e]] + 1 /\ \A j \in Jobs : j # job[e] => posts'[j] = posts[j]
    BY <1>1, <2>1 DEF Report, TypeInv, TypeOK
  <2>. QED BY <1>1, <2>1, <2>2 DEF Report
<1>2. CASE ReleaseLock(e)
  BY <1>2 DEF ReleaseLock, AfterRelease, Gate!Release
<1>3. CASE CloseWindow(e)
  BY <1>3 DEF CloseWindow
<1>4. CASE WriteFinding(e)
  BY <1>4 DEF WriteFinding
<1>5. CASE FinishHalf(e)
  BY <1>5 DEF FinishHalf
<1>6. CASE LookForOther(e)
  BY <1>6 DEF LookForOther
<1>7. CASE ClaimSynthesis(e)
  BY <1>7 DEF ClaimSynthesis
<1>8. CASE Synthesize(e)
  BY <1>8 DEF Synthesize
<1>9. CASE FlowRaises(e)
  BY <1>9 DEF FlowRaises
<1>. QED BY <1>1, <1>2, <1>3, <1>4, <1>5, <1>6, <1>7, <1>8, <1>9

LEMMA StreamStays ==
  ASSUME UNCHANGED streamVars
  PROVE  NothingSettles
BY DEF streamVars, NothingSettles, Due, Delivered, Stream!Queued, Stream!Pending

LEMMA ReclaimSettles ==
  ASSUME TypeInv, DeliveryInv, NEW e \in Executors,
         NEW B \in SUBSET Stream!Reclaimable(CloudOf[e]), Stream!ClaimStale(B, e)
  PROVE  NothingSettles
<1>1. \A j \in B : j \in Jobs /\ Stream!Pending(j)
  BY DEF Stream!Reclaimable, TypeInv, TypeOK, Stream!StreamTypeOK, DeliveryInv, OnePlace,
         Jobs, Stream!Jobs, Clouds, Stream!Clouds
<1>2. \A j \in Jobs : owner'[j] = IF j \in B THEN e ELSE owner[j]
  BY DEF Stream!ClaimStale, Jobs, Stream!Jobs, Clouds, Stream!Clouds
<1>3. UNCHANGED <<queue, acked>>
  BY DEF Stream!ClaimStale
<1>. QED BY <1>1, <1>2, <1>3, ExecutorsAssumption
         DEF NothingSettles, Due, Delivered, Stream!Pending, Stream!Queued

LEMMA ConsumeSettles ==
  ASSUME TypeInv, DeliveryInv, NEW e \in Executors, Stream!Consume(CloudOf[e], e)
  PROVE  /\ NothingSettles
         /\ Stream!NextJob(CloudOf[e]) \in Jobs
         /\ Stream!Queued(Stream!NextJob(CloudOf[e]))
<1> DEFINE c == CloudOf[e]  n == Stream!NextJob(c)
<1>1. /\ c \in Clouds
      /\ Stream!Consume(c, e)
  BY ExecutorsAssumption
<1>2. n \in Jobs
  BY <1>1, ConsumeType DEF TypeInv, TypeOK
<1>3. /\ Stream!Queued(n)
      /\ \A j \in Jobs : Stream!Queued(j)' <=> Stream!Queued(j) /\ j # n
  BY <1>1, ConsumeTakes DEF TypeInv, TypeOK, DeliveryInv
<1>4. /\ \A j \in Jobs : owner'[j] = IF j = n THEN e ELSE owner[j]
      /\ acked' = acked
  BY <1>1 DEF Stream!Consume, TypeInv, TypeOK, Stream!StreamTypeOK, Jobs, Stream!Jobs,
              Clouds, Stream!Clouds
<1> HIDE DEF n
<1>5. NothingSettles
  BY <1>2, <1>3, <1>4, ExecutorsAssumption DEF NothingSettles, Due, Delivered, Stream!Pending
<1>. QED BY <1>2, <1>3, <1>5 DEF n

LEMMA AckSettles ==
  ASSUME TypeInv, DeliveryInv, NEW e \in Executors, job[e] \in Jobs, Stream!Ack(job[e])
  PROVE  /\ acked' = acked \cup {job[e]}
         /\ \A j \in Jobs : /\ Due(j)' <=> Due(j) /\ j # job[e]
                            /\ Delivered(j) => Delivered(j)'
<1>1. /\ \A j \in Jobs : owner'[j] = IF j = job[e] THEN Nobody ELSE owner[j]
      /\ acked' = acked \cup {job[e]} /\ queue' = queue
  BY DEF Stream!Ack, TypeInv, TypeOK, Stream!StreamTypeOK, Jobs, Stream!Jobs, Clouds,
         Stream!Clouds
<1>2. ~Stream!Queued(job[e])
  BY DEF DeliveryInv, OnePlace, HeldDelivered, Holds
<1>. QED BY <1>1, <1>2 DEF Due, Delivered, Stream!Pending, Stream!Queued

LEMMA HandsStep ==
  ASSUME TypeInv, DeliveryInv, NEW e \in Executors,
         \/ Reap(e) \/ RunReclaimed(e) \/ Take(e) \/ LoseReply(e) \/ SkipDuplicate(e)
         \/ Settle(e) \/ Crash(e) \/ Restart(e)
  PROVE  Hands(e)
<1> USE DEF Hands, Moves, Free, Paid, gateUnchanged, history, runVars, others
<1>1. at \in [Executors -> Phases] /\ job \in [Executors -> Jobs \cup {Nobody}]
      /\ batch[e] \subseteq Jobs /\ verdict \in [Executors -> Table!Verdicts]
  BY DEF TypeInv, TypeOK
<1>2. CASE Reap(e) \/ LoseReply(e)
  <2>1. NothingSettles
    BY <1>2, ReclaimSettles, ConsumeSettles DEF Reap, LoseReply
  <2>2. UNCHANGED <<at, job>> /\ (Free \/ Paid)
    BY <1>2 DEF Reap, LoseReply, Slip
  <2>. QED BY <1>2, <2>1, <2>2 DEF Sweeps, Reap, LoseReply
<1>3. CASE RunReclaimed(e)
  <2>1. NothingSettles
    BY <1>3, StreamStays DEF RunReclaimed
  <2>. QED BY <1>1, <1>3, <2>1 DEF Picks, RunReclaimed, Goto
<1>4. CASE Take(e)
  <2>1. /\ NothingSettles /\ Stream!NextJob(CloudOf[e]) \in Jobs
        /\ Stream!Queued(Stream!NextJob(CloudOf[e]))
    BY <1>4, ConsumeSettles DEF Take
  <2>. QED BY <1>1, <1>4, <2>1 DEF Picks, Take, Goto
<1>5. CASE (SkipDuplicate(e) \/ Settle(e)) /\ Stream!Ack(job[e]) /\ faults' = faults
  <2>1. job[e] \in Jobs
    BY <1>5 DEF SkipDuplicate, Settle, TypeInv, Busy, Working, Offline
  <2>. QED BY <1>1, <1>5, <2>1, AckSettles
       DEF Settles, SkipDuplicate, Settle, BackToLoop, Goto, Status, Final
<1>6. CASE Settle(e) /\ Slip /\ UNCHANGED streamVars
  <2>1. NothingSettles /\ Paid
    BY <1>6, StreamStays DEF Slip
  <2>. QED BY <1>1, <1>6, <2>1 DEF Drops, Settle, BackToLoop, Goto
<1>7. CASE Crash(e)
  <2>1. NothingSettles
    BY <1>7, StreamStays DEF Crash
  <2>. QED BY <1>1, <1>7, <2>1 DEF Dies, Crash, Goto
<1>8. CASE Restart(e)
  <2>1. NothingSettles
    BY <1>8, StreamStays DEF Restart
  <2>. QED BY <1>1, <1>8, <2>1 DEF Revives, Restart, Goto
<1>. QED BY <1>2, <1>3, <1>4, <1>5, <1>6, <1>7, <1>8 DEF SkipDuplicate, Settle

(* Steps of the webhook and the clocks do not reach the executors' work... *)
Outside ==
  /\ UNCHANGED <<at, job, batch, verdict, history, others, row, owner, acked, crossVars>>
  /\ \A i \in Incidents : alertOf[i] # Nobody => alertOf'[i] = alertOf[i]
  /\ Free \/ Paid

(* ... and the console's only mark a row. *)
Aborts(j) ==
  /\ UNCHANGED <<at, job, batch, verdict, history, crashes, crossVars, hookVars, gateVars,
                 streamVars>>
  /\ RowOnly(j)
  /\ \/ /\ j \notin aborting /\ aborting' = aborting \cup {j} /\ aborts' = aborts + 1
        /\ Status(j) \in {"queued", "running"}
        /\ Kept(j) /\ Free
     \/ /\ j \in aborting /\ aborting' = aborting \ {j} /\ aborts' = aborts
        /\ row'[j].attempt = row[j].attempt
        /\ (Status(j)' = "aborted" /\ Free) \/ (Kept(j) /\ Paid)

LEMMA OutsideStep ==
  ASSUME TypeInv, Webhook \/ Clocks \/ UNCHANGED vars
  PROVE  Outside
<1> USE DEF Outside, Free, Paid, history, others, execUnchanged, runVars, Slip, streamVars
<1>1. CASE Webhook
  <2>1. \A i \in Incidents : alertOf[i] # Nobody => alertOf'[i] = alertOf[i]
    BY <1>1 DEF Webhook, Fire, FindParent, JoinParent, OpenIncident, EnqueueJob, HookDies,
                TypeInv, TypeOK
  <2>2. UNCHANGED <<owner, acked>>
    BY <1>1 DEF Webhook, Fire, FindParent, JoinParent, OpenIncident, EnqueueJob, HookDies,
                Stream!Enqueue
  <2>. QED BY <1>1, <2>1, <2>2
       DEF Webhook, Fire, FindParent, JoinParent, OpenIncident, EnqueueJob, HookDies
<1>2. CASE Clocks
  BY <1>2 DEF Clocks, Stale, Stream!GoStale, LockExpires, WindowExpires, clockUnchanged,
              memoryUnchanged, gateUnchanged, hookVars
<1>3. CASE UNCHANGED vars
  BY <1>3 DEF vars, hookVars
<1>. QED BY <1>1, <1>2, <1>3

LEMMA ConsoleStep ==
  ASSUME TypeInv, NEW j \in Jobs, RequestAbort(j) \/ WriteAbort(j)
  PROVE  Aborts(j)
<1> USE DEF Aborts, memoryUnchanged, gateUnchanged, runVars, history, hookVars, gateVars
<1>1. CASE RequestAbort(j)
  BY <1>1, SameRow DEF RequestAbort, Table!Abortable, Free, Status
<1>2. CASE WriteAbort(j)
  <2>1. CASE Table!MarkAborted(j) /\ UNCHANGED faults
    BY <1>2, <2>1, AbortedRow DEF WriteAbort, Free
  <2>2. CASE Slip /\ UNCHANGED row
    BY <1>2, <2>2, SameRow DEF WriteAbort, Slip, Paid, Kept
  <2>. QED BY <1>2, <2>1, <2>2 DEF WriteAbort, TryTable
<1>. QED BY <1>1, <1>2

(* Every step is one of the table, of the console, or outside. *)
LEMMA StepKinds ==
  ASSUME TypeInv, DeliveryInv, [Next]_vars
  PROVE  \/ Outside
         \/ \E j \in Jobs : Aborts(j)
         \/ \E e \in Executors : Turns(e) \/ Hands(e)
<1>1. CASE Webhook \/ Clocks \/ UNCHANGED vars
  BY <1>1, OutsideStep
<1>2. CASE Console
  BY <1>2, ConsoleStep DEF Console
<1>3. ASSUME NEW e \in Executors,
             \/ Work(e) \/ Reap(e) \/ LoseReply(e) \/ ProposeFix(e) \/ Crash(e)
             \/ Restart(e)
      PROVE  Turns(e) \/ Hands(e)
  BY <1>3, HandsStep, PreparesStep, StartsStep, ConcludesStep, ReportsStep DEF Work
<1>. QED BY <1>1, <1>2, <1>3 DEF Next

(* Only one executor has a given job. *)
LEMMA NobodyElse ==
  ASSUME HolderOwns, NEW e \in Executors, NEW f \in Executors, job[e] \in Jobs,
         job[f] = job[e]
  PROVE  f = e
BY DEF HolderOwns, Holds

(* What the types say of one executor and one job. *)
LEMMA Typed ==
  ASSUME TypeInv
  PROVE  /\ \A j \in Jobs : /\ Status(j) \in Table!Status
                            /\ row[j].attempt \in Nat /\ runs[j] \in Nat /\ posts[j] \in Nat
         /\ crashes \in Nat /\ faults \in Nat /\ aborts \in Nat
         /\ \A e \in Executors : Working(e) => job[e] \in Jobs
         /\ \A e \in Executors : at[e] \in Phases /\ verdict[e] \in Table!Verdicts
         /\ \A e \in Executors : job[e] \in Jobs \cup {Nobody}
         /\ aborting \subseteq Jobs /\ acked \subseteq Jobs /\ locked \subseteq Alerts
         /\ alertOf \in [Incidents -> Alerts \cup {Nobody}]
BY DEF TypeInv, TypeOK, Busy, Status, Table!TableTypeOK, Table!Row, Stream!StreamTypeOK,
       Gate!GateTypeOK, Jobs, Stream!Jobs, Clouds, Stream!Clouds

-----------------------------------------------------------------------------
(* The engine is started at most once per claim, and otherwise only on     *)
(* account of a refused claim, a late abort or a lost call.  Every start   *)
(* not covered by a claim is paid for in advance: by the outcome the row   *)
(* then still lacks, by the call that let a settled job through, or by the *)
(* abort under way that may reopen it.                                     *)

Open(j)  == IF Status(j) \in Final THEN 0 ELSE 1
Asked(j) == IF j \in aborting THEN 1 ELSE 0

OwedBy(e, j) ==
  /\ job[e] = j
  /\ \/ at[e] = "claiming" /\ verdict[e] = "refused"
     \/ at[e] \in {"enriching", "created"} /\ Status(j) \in Final

Owed(j) == IF \E e \in Executors : OwedBy(e, j) THEN 1 ELSE 0

Budget(j) ==
  /\ runs[j] + Open(j) + Owed(j) + Asked(j) <= row[j].attempt + 1 + aborts + faults
  /\ row[j].attempt <= MaxAttempts

ClaimInv(e) ==
  /\ at[e] \in {"created", "claiming"} => Status(job[e]) # "absent"
  /\ at[e] = "claiming" /\ verdict[e] # "refused" => Status(job[e]) \notin Final
  /\ at[e] = "claiming" /\ verdict[e] = "granted" => row[job[e]].attempt < MaxAttempts

RunsInv == (\A j \in Jobs : Budget(j)) /\ \A e \in Executors : ClaimInv(e)

LEMMA TurnsClaims ==
  ASSUME TypeInv, HolderOwns, RunsInv, NEW e \in Executors, Turns(e), NEW f \in Executors
  PROVE  ClaimInv(f)'
<1>1. job' = job
  BY DEF Turns, Elsewhere
<1>2. CASE f # e
  <2>1. CASE at[f] \in {"created", "claiming"}
    <3>1. job[f] \in Jobs /\ job[f] # job[e]
      BY <1>2, <2>1, Typed, NobodyElse DEF Working, Offline, Turns
    <3>. QED BY <1>1, <1>2, <3>1 DEF Turns, Elsewhere, RunsInv, ClaimInv, Status
  <2>2. CASE at[f] \notin {"created", "claiming"}
    BY <1>2, <2>2 DEF Turns, Elsewhere, ClaimInv
  <2>. QED BY <2>1, <2>2
<1>3. CASE f = e
  <2> DEFINE k == job[e]
  <2>1. k \in Jobs /\ Status(k) \in Table!Status /\ row[k].attempt \in Nat /\ ClaimInv(e)
    BY Typed DEF Turns, RunsInv
  <2>2. CASE Prepares(e)
    BY <1>1, <1>3, <2>1, <2>2, BoundsAssumption
    DEF Prepares, Moves, ClaimInv, Kept, Table!ClaimVerdict, Status, Final, Table!FinalStatus
  <2>3. CASE Starts(e) \/ Concludes(e) \/ Reports(e)
    BY <1>3, <2>3 DEF Starts, Concludes, Reports, Moves, ClaimInv
  <2>. QED BY <2>2, <2>3 DEF Turns
<1>. QED BY <1>2, <1>3

LEMMA TurnsBudget ==
  ASSUME TypeInv, HolderOwns, RunsInv, ~FixProposals, NEW e \in Executors, Turns(e),
         NEW j \in Jobs
  PROVE  Budget(j)'
<1>1. /\ job' = job /\ UNCHANGED <<aborting, aborts>> /\ (Free \/ Paid)
      /\ Status(j) \in Table!Status /\ row[j].attempt \in Nat /\ runs[j] \in Nat
      /\ aborts \in Nat /\ faults \in Nat /\ MaxAttempts \in Nat
      /\ Budget(j) /\ ClaimInv(e) /\ verdict[e] \in Table!Verdicts
  BY Typed, BoundsAssumption DEF Turns, Elsewhere, RunsInv, others
<1>2. CASE j # job[e]
  <2>1. \A f \in Executors : OwedBy(f, j)' <=> OwedBy(f, j)
    BY <1>1, <1>2 DEF OwedBy, Status, Turns, Elsewhere
  <2>2. row'[j] = row[j] /\ runs'[j] = runs[j]
    BY <1>2 DEF Turns, Elsewhere
  <2>. QED BY <1>1, <2>1, <2>2 DEF Budget, Open, Asked, Owed, Status, Free, Paid
<1>3. CASE j = job[e]
  <2>1. Owed(j) = IF OwedBy(e, j) THEN 1 ELSE 0
    BY <1>3, NobodyElse DEF Owed, OwedBy
  <2>2. Owed(j)' = IF OwedBy(e, j)' THEN 1 ELSE 0
    <3>1. \A f \in Executors : OwedBy(f, j)' => f = e
      BY <1>1, <1>3, NobodyElse DEF OwedBy
    <3>. QED BY <3>1 DEF Owed
  <2>3. CASE Prepares(e)
    BY <1>1, <1>3, <2>1, <2>2, <2>3
    DEF Prepares, Moves, Budget, Open, Asked, OwedBy, Kept, Free, Paid, Silent,
        Table!ClaimVerdict, Status, Final, Table!FinalStatus, ClaimInv
  <2>4. CASE Starts(e)
    BY <1>1, <1>3, <2>1, <2>2, <2>4
    DEF Starts, Moves, Budget, Open, Asked, OwedBy, Kept, Free, Paid, Status, Final,
        Table!FinalStatus, ClaimInv, Early
  <2>5. CASE Concludes(e)
    BY <1>1, <1>3, <2>1, <2>2, <2>5
    DEF Concludes, Moves, Budget, Open, Asked, OwedBy, Kept, Closed, Tried, Free, Paid,
        Silent, Status, Final, Table!FinalStatus, Early
  <2>6. CASE Reports(e)
    BY <1>1, <1>3, <2>1, <2>2, <2>6
    DEF Reports, Moves, Budget, Open, Asked, OwedBy, Kept, Closed, Tried, Free, Paid,
        Silent, Status, Final, Table!FinalStatus
  <2>. QED BY <2>3, <2>4, <2>5, <2>6 DEF Turns
<1>. QED BY <1>2, <1>3

LEMMA HandsRuns ==
  ASSUME TypeInv, RunsInv, NEW e \in Executors, Hands(e)
  PROVE  RunsInv'
<1>1. UNCHANGED <<row, runs, aborting, aborts>> /\ (Free \/ Paid)
  BY DEF Hands, history, Sweeps, Picks, Settles, Drops, Dies, Revives
<1>2. /\ \A f \in Executors : f # e => at'[f] = at[f] /\ job'[f] = job[f] /\ verdict'[f] = verdict[f]
      /\ \/ at'[e] \in {"idle", "taken", "down"}
         \/ at'[e] = at[e] /\ job'[e] = job[e] /\ verdict'[e] = verdict[e]
  BY DEF Hands, Sweeps, Picks, Settles, Drops, Dies, Revives, Moves
<1>3. ASSUME NEW j \in Jobs PROVE Budget(j)'
  <2>1. \A f \in Executors : OwedBy(f, j)' => OwedBy(f, j)
    BY <1>1, <1>2 DEF OwedBy, Status
  <2>2. Owed(j)' <= Owed(j)
    BY <2>1 DEF Owed
  <2>3. Open(j) \in Nat /\ Asked(j) \in Nat /\ Owed(j) \in Nat /\ Owed(j)' \in Nat
    BY DEF Open, Asked, Owed
  <2>. QED BY <1>1, <2>2, <2>3, Typed
       DEF RunsInv, Budget, Open, Asked, Status, Free, Paid
<1>4. ASSUME NEW f \in Executors PROVE ClaimInv(f)'
  BY <1>1, <1>2 DEF RunsInv, ClaimInv, Status
<1>. QED BY <1>3, <1>4 DEF RunsInv

LEMMA AbortsRuns ==
  ASSUME TypeInv, RunsInv, NEW k \in Jobs, Aborts(k)
  PROVE  RunsInv'
<1>1. /\ UNCHANGED <<at, job, verdict, runs>> /\ (Free \/ Paid)
      /\ \A j \in Jobs : j # k => row'[j] = row[j]
      /\ \A j \in Jobs : j # k => (j \in aborting' <=> j \in aborting)
      /\ aborts' = aborts \/ aborts' = aborts + 1
  BY DEF Aborts, history, RowOnly
<1>2. Status(k)' = Status(k) \/ Status(k)' = "aborted"
  BY DEF Aborts, Kept
<1>3. ASSUME NEW j \in Jobs, NEW f \in Executors, OwedBy(f, j)' PROVE OwedBy(f, j)
  BY <1>1, <1>2, <1>3 DEF OwedBy, Status, Final, Table!FinalStatus
<1>4. ASSUME NEW j \in Jobs PROVE Owed(j)' <= Owed(j) /\ Owed(j) \in Nat /\ Owed(j)' \in Nat
  BY <1>3 DEF Owed
<1>5. ASSUME NEW j \in Jobs PROVE Budget(j)'
  <2>1. Budget(j) /\ aborts \in Nat /\ faults \in Nat /\ runs[j] \in Nat /\ row[j].attempt \in Nat
    BY Typed DEF RunsInv
  <2>2. CASE j # k
    BY <1>1, <1>4, <2>1, <2>2 DEF Budget, Open, Asked, Status, Free, Paid
  <2>3. CASE j = k
    BY <1>1, <1>4, <2>1, <2>3
    DEF Aborts, Kept, Budget, Open, Asked, Free, Paid, Final, Table!FinalStatus
  <2>. QED BY <2>2, <2>3
<1>6. ASSUME NEW f \in Executors PROVE ClaimInv(f)'
  <2>1. CASE at[f] \in {"created", "claiming"}
    <3>1. job[f] \in Jobs
      BY <2>1, Typed DEF Working, Offline
    <3>2. row'[job[f]].attempt = row[job[f]].attempt
      BY <1>1, <3>1 DEF Aborts, Kept
    <3>3. Status(job[f])' = Status(job[f]) \/ Status(job[f])' = "aborted"
      BY <1>1, <1>2, <3>1 DEF Status
    <3>. QED BY <1>1, <3>1, <3>2, <3>3
         DEF RunsInv, ClaimInv, Status, Final, Table!FinalStatus
  <2>2. CASE at[f] \notin {"created", "claiming"}
    BY <1>1, <2>2 DEF ClaimInv
  <2>. QED BY <2>1, <2>2
<1>. QED BY <1>5, <1>6 DEF RunsInv

LEMMA OutsideRuns ==
  ASSUME TypeInv, RunsInv, Outside
  PROVE  RunsInv'
<1>1. \A j \in Jobs : /\ Open(j)' = Open(j) /\ Owed(j)' = Owed(j) /\ Asked(j)' = Asked(j)
                      /\ Open(j) \in Nat /\ Owed(j) \in Nat /\ Asked(j) \in Nat
  BY DEF Outside, Open, Owed, OwedBy, Asked, Status, others
<1>. QED BY <1>1, Typed
     DEF RunsInv, Budget, ClaimInv, Outside, Status, others, history, Free, Paid

LEMMA RunsStep ==
  ASSUME ~FixProposals, TypeInv, DeliveryInv, HolderOwns, RunsInv, [Next]_vars
  PROVE  RunsInv'
BY StepKinds, TurnsClaims, TurnsBudget, HandsRuns, AbortsRuns, OutsideRuns DEF RunsInv

(* What every theorem of this module rests on. *)
LEMMA OwnersKept ==
  ASSUME JobsFitIdle
  PROVE  Spec => [](TypeInv /\ DeliveryInv /\ HolderOwns)
<1>1. Init => TypeInv /\ DeliveryInv /\ HolderOwns
  <2>1. Init => HolderOwns
    BY ExecutorsAssumption DEF Init, HolderOwns, Holds, Working, Offline
  <2>. QED BY <2>1, InitType, InitDelivers
<1>2. TypeInv /\ DeliveryInv /\ HolderOwns /\ [Next]_vars
        => (TypeInv /\ DeliveryInv /\ HolderOwns)'
  BY NextType, NextDelivers, NextHolds
<1>. QED BY <1>1, <1>2, PTL DEF Spec

(* The attempt budget holds across any number of crashes, sweeps and       *)
(* redeliveries: the engine is started for a job at most once more than    *)
(* MaxAttempts, plus once per late abort and once per lost call.           *)
THEOREM BudgetKept ==
  ASSUME JobsFitIdle, ~FixProposals
  PROVE  Spec => []RunsBounded
<1>1. Init => RunsInv
  <2>1. ASSUME Init, NEW j \in Jobs PROVE Budget(j)
    BY <2>1, BoundsAssumption
    DEF Init, Budget, Open, Owed, OwedBy, Asked, Status, Table!TableInit, Table!NoRow, Final,
        Table!FinalStatus
  <2>2. ASSUME Init, NEW e \in Executors PROVE ClaimInv(e)
    BY <2>2 DEF Init, ClaimInv
  <2>. QED BY <2>1, <2>2 DEF RunsInv
<1>2. TypeInv /\ RunsInv => RunsBounded
  BY Typed, BoundsAssumption DEF RunsInv, Budget, Open, Owed, Asked, RunsBounded
<1>3. (TypeInv /\ DeliveryInv /\ HolderOwns) /\ RunsInv /\ [Next]_vars => RunsInv'
  BY RunsStep
<1>. QED BY <1>1, <1>2, <1>3, OwnersKept, PTL DEF Spec

-----------------------------------------------------------------------------
(* With no call lost, an executor before its first engine step has a job   *)
(* without an outcome: it looked, and nobody else can have written one.    *)

EarlyInv ==
  faults = 0 =>
    \A e \in Executors : at[e] \in Early => Status(job[e]) \notin Final

LEMMA EarlyStep ==
  ASSUME TypeInv, DeliveryInv, HolderOwns, EarlyInv, [Next]_vars
  PROVE  EarlyInv'
<1>1. CASE Outside
  BY <1>1, Typed DEF Outside, EarlyInv, Status, Free, Paid
<1>2. ASSUME NEW j \in Jobs, Aborts(j) PROVE EarlyInv'
  <2>1. \A k \in Jobs : Status(k)' = Status(k) \/ Status(k)' = "aborted"
    BY <1>2 DEF Aborts, RowOnly, Kept, Status
  <2>2. UNCHANGED <<at, job>> /\ (Free \/ Paid)
    BY <1>2 DEF Aborts
  <2>. QED BY <2>1, <2>2, Typed
       DEF EarlyInv, Free, Paid, Final, Table!FinalStatus, Early, Working, Offline
<1>3. ASSUME NEW e \in Executors, Hands(e) PROVE EarlyInv'
  <2>1. row' = row /\ (Free \/ Paid)
    BY <1>3 DEF Hands, Sweeps, Picks, Settles, Drops, Dies, Revives
  <2>2. \A f \in Executors : at'[f] \in Early => at'[f] = at[f] /\ job'[f] = job[f]
    BY <1>3 DEF Hands, Sweeps, Picks, Settles, Drops, Dies, Revives, Moves, Early
  <2>. QED BY <2>1, <2>2, Typed DEF EarlyInv, Free, Paid, Status
<1>4. ASSUME NEW e \in Executors, Turns(e), NEW f \in Executors, faults' = 0, at'[f] \in Early
      PROVE  Status(job[f])' \notin Final
  <2>1. Free /\ faults = 0 /\ job' = job
    BY <1>4, Typed DEF Turns, Elsewhere, Free, Paid
  <2>2. CASE f # e
    <3>1. at'[f] = at[f] /\ job[f] \in Jobs /\ job[f] # job[e]
      BY <1>4, <2>2, Typed, NobodyElse DEF Turns, Elsewhere, Early, Working, Offline
    <3>. QED BY <1>4, <2>1, <3>1 DEF Turns, Elsewhere, EarlyInv, Status
  <2>3. CASE f = e
    <3>1. Prepares(e)
      BY <1>4, <2>3 DEF Turns, Starts, Concludes, Reports, Moves, Early
    <3>. QED BY <1>4, <2>1, <2>3, <3>1, Typed
         DEF Prepares, Moves, EarlyInv, Kept, Free, Paid, Early, Final, Table!FinalStatus
  <2>. QED BY <2>2, <2>3
<1>. QED BY <1>1, <1>2, <1>3, <1>4, StepKinds DEF EarlyInv

(* Unless a call was lost, the engine is never started for a job whose     *)
(* outcome is on record, whoever ran it before and wherever that run died. *)
THEOREM NoRerun ==
  ASSUME JobsFitIdle
  PROVE  Spec => NoRunAfterOutcome
<1>1. Init => EarlyInv
  BY DEF Init, EarlyInv, Early
<1>2. (TypeInv /\ DeliveryInv /\ HolderOwns) /\ EarlyInv /\ [Next]_vars => EarlyInv'
  BY EarlyStep
<1>3. ASSUME TypeInv, DeliveryInv, HolderOwns, EarlyInv, [Next]_vars, faults = 0, NEW j \in Jobs,
             runs'[j] > runs[j]
      PROVE  row[j].status \notin Table!FinalStatus
  <2>1. ~ (runs' = runs) /\ ~ (runs'[j] = runs[j])
    BY <1>3, Typed
  <2>2. PICK e \in Executors : Turns(e)
    BY <1>3, <2>1, StepKinds DEF Outside, Aborts, Hands, history
  <2>3. j = job[e] /\ Starts(e)
    BY <2>1, <2>2 DEF Turns, Elsewhere, Prepares, Concludes, Reports, Silent
  <2>4. at[e] \in Early
    BY <2>3 DEF Starts, Moves, Early
  <2>. QED BY <1>3, <2>3, <2>4 DEF EarlyInv, Status, Final
<1>4. (TypeInv /\ DeliveryInv /\ HolderOwns) /\ EarlyInv /\ [Next]_vars
        => [faults = 0 => \A j \in Jobs :
              runs'[j] > runs[j] => row[j].status \notin Table!FinalStatus]_vars
  BY <1>3
<1>. QED BY <1>1, <1>2, <1>4, OwnersKept, PTL DEF Spec, NoRunAfterOutcome

-----------------------------------------------------------------------------
(* With no call lost, a run that has come to its end has closed its row,   *)
(* and so has whatever run settled the job.                                *)

Ended == {"answered", "reported", "failed"} \cup Halfway \cup Released

Stranded(j) == AlertOf(j) \notin Confirmed /\ Status(j) \in Table!LiveStatus

StrandInv ==
  faults = 0 =>
    /\ \A e \in Executors : at[e] \in Ended => ~Stranded(job[e])
    /\ \A j \in acked : ~Stranded(j)

(* A job that has been delivered has an alert, and keeps it. *)
LEMMA AlertKept ==
  ASSUME DeliveryInv, NEW j \in Jobs, Delivered(j)
  PROVE  alertOf[j[1]] # Nobody
<1>1. j[1] \in Incidents /\ j[2] \in Clouds /\ j = <<j[1], j[2]>>
  BY DEF Jobs
<1>. QED BY <1>1 DEF DeliveryInv, AddedOnce, Fresh, Delivered

LEMMA HeldKept ==
  ASSUME DeliveryInv, NEW e \in Executors, job[e] \in Jobs
  PROVE  Delivered(job[e]) /\ alertOf[job[e][1]] # Nobody
BY AlertKept DEF DeliveryInv, HeldDelivered, Holds, Delivered

LEMMA StrandStep ==
  ASSUME TypeInv, DeliveryInv, HolderOwns, StrandInv, [Next]_vars
  PROVE  StrandInv'
<1>0. /\ Ended \cap Offline = {} /\ faults \in Nat
      /\ \A j \in Jobs : Status(j) \in Table!Status /\ j[1] \in Incidents
  BY Typed DEF Ended, Halfway, Released, Offline, Jobs
<1>1. CASE Outside
  <2>1. \A j \in Jobs : Delivered(j) => AlertOf(j)' = AlertOf(j)
    BY <1>0, <1>1, AlertKept DEF Outside, AlertOf
  <2>2. ASSUME NEW e \in Executors, at'[e] \in Ended PROVE Stranded(job[e])' <=> Stranded(job[e])
    <3>1. job'[e] = job[e] /\ job[e] \in Jobs
      BY <1>0, <1>1, <2>2, Typed DEF Outside, Working
    <3>. QED BY <1>1, <2>1, <3>1, HeldKept DEF Outside, Stranded, Status
  <2>3. \A j \in acked : j \in Jobs /\ (Stranded(j)' <=> Stranded(j))
    BY <1>1, <2>1, Typed DEF Outside, Stranded, Status, Delivered
  <2>4. acked' = acked /\ at' = at /\ (Free \/ Paid)
    BY <1>1 DEF Outside
  <2>. QED BY <1>0, <2>2, <2>3, <2>4 DEF StrandInv, Free, Paid
<1>2. ASSUME NEW k \in Jobs, Aborts(k) PROVE StrandInv'
  <2>1. /\ \A j \in Jobs : Status(j)' = Status(j) \/ Status(j)' = "aborted"
        /\ \A j : AlertOf(j)' = AlertOf(j)
        /\ UNCHANGED <<at, job, acked>> /\ (Free \/ Paid)
    BY <1>2 DEF Aborts, RowOnly, Kept, Status, AlertOf, hookVars, streamVars
  <2>2. \A j \in Jobs : Stranded(j)' => Stranded(j)
    BY <2>1 DEF Stranded, Table!LiveStatus
  <2>. QED BY <1>0, <2>1, <2>2, Typed DEF StrandInv, Working, Free, Paid
<1>3. ASSUME NEW e \in Executors, Hands(e) PROVE StrandInv'
  <2>1. /\ \A j : Stranded(j)' <=> Stranded(j)
        /\ Free \/ Paid
    BY <1>3 DEF Hands, Stranded, Status, AlertOf, hookVars, Sweeps, Picks, Settles, Drops,
                Dies, Revives
  <2>2. \A f \in Executors : at'[f] \in Ended => at[f] = at'[f] /\ job'[f] = job[f]
    BY <1>3 DEF Hands, Sweeps, Picks, Settles, Drops, Dies, Revives, Moves, Ended, Halfway,
                Released
  <2>3. acked' = acked \/ (acked' = acked \cup {job[e]}
                            /\ (at[e] \in Ended \/ Status(job[e]) \in Final))
    BY <1>3 DEF Hands, Sweeps, Picks, Settles, Drops, Dies, Revives, NothingSettles, Moves,
                Ended, Released
  <2>4. \A j : Status(j) \in Final => ~Stranded(j)
    BY DEF Final, Table!FinalStatus, Stranded, Table!LiveStatus
  <2>. QED BY <1>0, <2>1, <2>2, <2>3, <2>4 DEF StrandInv, Free, Paid
<1>4. ASSUME NEW e \in Executors, Turns(e) PROVE StrandInv'
  <2>1. /\ \A j : AlertOf(j)' = AlertOf(j)
        /\ job' = job /\ acked' = acked /\ (Free \/ Paid) /\ job[e] \in Jobs
        /\ \A j \in Jobs : j # job[e] => row'[j] = row[j]
        /\ \A f \in Executors : f # e => at'[f] = at[f]
    BY <1>4 DEF Turns, Elsewhere, AlertOf, hookVars, streamVars
  <2>2. \A j \in Jobs : j # job[e] => (Stranded(j)' <=> Stranded(j))
    BY <2>1 DEF Stranded, Status
  <2>3. job[e] \notin acked
    BY <2>1, Typed, ExecutorsAssumption
    DEF HolderOwns, Holds, DeliveryInv, OnePlace, Stream!Pending
  <2>4. ASSUME faults = 0, Free, at'[e] \in Ended PROVE ~Stranded(job[e])'
    <3>1. Status(job[e]) \in Table!Status /\ (at[e] \in Ended => ~Stranded(job[e]))
      BY <1>0, <2>1, <2>4 DEF StrandInv
    <3>2. ~Prepares(e) \/ (at[e] = "enriching" /\ Issue(e) \in Confirmed)
      BY <2>4 DEF Prepares, Moves, Ended, Halfway, Released
    <3>3. ~Starts(e)
      BY <2>4 DEF Starts, Moves, Ended, Halfway, Released
    <3>4. CASE Issue(e) \in Confirmed
      BY <2>1, <3>4 DEF Issue, Stranded, AlertOf
    <3>5. CASE Concludes(e)
      BY <2>4, <2>1, <3>5, <3>1
      DEF Concludes, Moves, Ended, Halfway, Released, Tried, Closed, Stranded, Free, Paid,
          Table!LiveStatus
    <3>6. CASE Reports(e)
      <4>1. Kept(job[e]) \/ Closed(job[e], "done")
        BY <2>4, <3>6 DEF Reports, Tried, Free, Paid
      <4>2. at[e] \in Ended
        BY <2>4, <3>6 DEF Reports, Moves, Ended, Halfway, Released, Free, Paid
      <4>. QED BY <2>1, <3>1, <4>1, <4>2 DEF Kept, Closed, Stranded, Table!LiveStatus
    <3>. QED BY <1>4, <3>2, <3>3, <3>4, <3>5, <3>6 DEF Turns
  <2>5. ASSUME NEW f \in Executors, faults = 0, Free, at'[f] \in Ended PROVE ~Stranded(job[f])'
    <3>1. CASE f # e
      <4>1. at[f] \in Ended /\ job[f] \in Jobs /\ job[f] # job[e]
        BY <1>0, <2>1, <2>5, <3>1, Typed, NobodyElse DEF Working
      <4>. QED BY <2>1, <2>5, <4>1 DEF StrandInv, Stranded, Status
    <3>. QED BY <2>4, <2>5, <3>1
  <2>. QED BY <1>0, <2>1, <2>2, <2>3, <2>5, Typed DEF StrandInv, Free, Paid
<1>. QED BY <1>1, <1>2, <1>3, <1>4, StepKinds

(* Unless a call was lost, whatever crashed on the way and whoever took    *)
(* the job next, a settled job's row is closed.                            *)
THEOREM RowsClosed ==
  ASSUME JobsFitIdle
  PROVE  Spec => []NoStrandedRow
<1>1. Init => StrandInv
  BY DEF Init, StrandInv, Ended, Halfway, Released, Stream!StreamInit
<1>2. (TypeInv /\ DeliveryInv /\ HolderOwns) /\ StrandInv /\ [Next]_vars => StrandInv'
  BY StrandStep
<1>3. StrandInv => NoStrandedRow
  BY DEF StrandInv, Stranded, NoStrandedRow, Status
<1>. QED BY <1>1, <1>2, <1>3, OwnersKept, PTL DEF Spec

-----------------------------------------------------------------------------
(* Without crashes and lost calls a job stays with the executor that took  *)
(* it from the stream until it is settled: nothing is ever reclaimed.      *)

InHand(j) == \E e \in Executors : job[e] = j

InHandInv ==
  Calm =>
    /\ stale = {} /\ \A e \in Executors : batch[e] = {}
    /\ \A j \in Jobs : Stream!Pending(j) => InHand(j)

LEMMA Calmer ==
  ASSUME TypeInv, DeliveryInv, [Next]_vars, Calm'
  PROVE  Calm /\ crashes' = crashes /\ Free
<1>1. crashes' = crashes \/ crashes' = crashes + 1
  BY StepKinds DEF Outside, Aborts, Turns, Elsewhere, Hands, others
<1>2. Free \/ Paid
  BY StepKinds DEF Outside, Aborts, Turns, Elsewhere, Hands, Sweeps, Picks, Settles, Drops, Dies,
                   Revives
<1>. QED BY <1>1, <1>2, Typed DEF Calm, Free, Paid

LEMMA InHandStep ==
  ASSUME JobsFitIdle, TypeInv, DeliveryInv, HolderOwns, InHandInv, [Next]_vars
  PROVE  InHandInv'
<1> SUFFICES ASSUME Calm'
             PROVE  /\ stale' = {} /\ \A e \in Executors : batch'[e] = {}
                    /\ \A j \in Jobs : Stream!Pending(j)' => InHand(j)'
  BY DEF InHandInv
<1>0. /\ stale = {} /\ \A e \in Executors : batch[e] = {}
      /\ \A j \in Jobs : Stream!Pending(j) => InHand(j)
      /\ crashes' = crashes /\ faults' = faults
      /\ crashes' # crashes + 1 /\ faults' # faults + 1
  BY Calmer, Typed DEF InHandInv, Free
<1>1. CASE UNCHANGED <<job, batch, owner, stale>>
  BY <1>0, <1>1 DEF InHand, Stream!Pending
<1>2. CASE UNCHANGED vars
  BY <1>1, <1>2 DEF vars, streamVars
<1>3. CASE Webhook
  BY <1>1, <1>3 DEF Webhook, Fire, FindParent, JoinParent, OpenIncident, EnqueueJob, HookDies,
                    Stream!Enqueue, streamVars, execUnchanged
<1>4. ASSUME NEW e \in Executors,
             \/ Reap(e) \/ RunReclaimed(e) \/ LoseReply(e) \/ Crash(e)
             \/ (Settle(e) /\ Slip)
      PROVE  FALSE
  BY <1>0, <1>4 DEF Reap, RunReclaimed, LoseReply, Crash, Slip, Stream!Reclaimable
<1>5. ASSUME NEW e \in Executors, Take(e)
      PROVE  /\ stale' = {} /\ \A f \in Executors : batch'[f] = {}
             /\ \A j \in Jobs : Stream!Pending(j)' => InHand(j)'
  <2> DEFINE n == Stream!NextJob(CloudOf[e])
  <2>1. /\ stale' = stale /\ batch' = batch /\ owner' = [owner EXCEPT ![n] = e]
        /\ job' = [job EXCEPT ![e] = n] /\ job[e] = Nobody
    BY <1>5 DEF Take, Stream!Consume, HolderOwns, Working, Offline
  <2>2. owner \in [Jobs -> Executors \cup {Nobody}] /\ job \in [Executors -> Jobs \cup {Nobody}]
    BY DEF TypeInv, TypeOK, Stream!StreamTypeOK, Jobs, Stream!Jobs, Clouds, Stream!Clouds
  <2> HIDE DEF n
  <2>3. ASSUME NEW j \in Jobs, Stream!Pending(j)' PROVE InHand(j)'
    <3>1. CASE j = n
      BY <2>1, <2>2, <3>1 DEF InHand
    <3>2. CASE j # n
      <4>1. PICK f \in Executors : job[f] = j
        BY <1>0, <2>1, <2>2, <2>3, <3>2 DEF Stream!Pending, InHand
      <4>2. f # e
        BY <2>1, <4>1, ExecutorsAssumption
      <4>. QED BY <2>1, <2>2, <4>1, <4>2 DEF InHand
    <3>. QED BY <3>1, <3>2
  <2>. QED BY <1>0, <2>1, <2>3
<1>6. ASSUME NEW e \in Executors, SkipDuplicate(e) \/ Settle(e), Stream!Ack(job[e])
      PROVE  /\ stale' = {} /\ \A f \in Executors : batch'[f] = {}
             /\ \A j \in Jobs : Stream!Pending(j)' => InHand(j)'
  <2>1. /\ stale' = stale \ {job[e]} /\ batch' = batch /\ owner' = [owner EXCEPT ![job[e]] = Nobody]
        /\ job' = [job EXCEPT ![e] = Nobody] /\ job[e] \in Jobs
    BY <1>6 DEF SkipDuplicate, Settle, BackToLoop, Stream!Ack, TypeInv, Busy, Working, Offline
  <2>2. owner \in [Jobs -> Executors \cup {Nobody}] /\ job \in [Executors -> Jobs \cup {Nobody}]
    BY DEF TypeInv, TypeOK, Stream!StreamTypeOK, Jobs, Stream!Jobs, Clouds, Stream!Clouds
  <2>3. ASSUME NEW j \in Jobs, Stream!Pending(j)' PROVE InHand(j)'
    <3>1. j # job[e] /\ Stream!Pending(j)
      BY <2>1, <2>2, <2>3 DEF Stream!Pending
    <3>2. PICK f \in Executors : job[f] = j
      BY <1>0, <3>1 DEF InHand
    <3>. QED BY <2>1, <2>2, <3>1, <3>2 DEF InHand
  <2>. QED BY <1>0, <2>1, <2>3
<1>7. ASSUME NEW j \in Jobs, Stale(j) PROVE FALSE
  BY <1>0, <1>7 DEF Stale, Stream!GoStale, InHand, Holds
<1>8. CASE Next /\ ~Webhook /\ (\A j \in Jobs : ~Stale(j))
           /\ \A e \in Executors : ~ (\/ Reap(e) \/ RunReclaimed(e) \/ Take(e) \/ LoseReply(e)
                                       \/ SkipDuplicate(e) \/ Settle(e) \/ Crash(e))
  BY <1>1, <1>8, OthersAreQuiet DEF Quiet, streamVars
<1>9. \A e \in Executors : Settle(e) => Stream!Ack(job[e]) \/ Slip
  BY DEF Settle
<1>10. \A e \in Executors : SkipDuplicate(e) => Stream!Ack(job[e])
  BY DEF SkipDuplicate
<1>. QED BY <1>2, <1>3, <1>4, <1>5, <1>6, <1>7, <1>8, <1>9, <1>10

-----------------------------------------------------------------------------
(* The two paths after the answer do not mix. *)

HalfInv == \A e \in Executors : at[e] \in Halfway => IsHalf(job[e])

LEMMA HalfStep ==
  ASSUME TypeInv, DeliveryInv, HalfInv, [Next]_vars
  PROVE  HalfInv'
<1>1. ASSUME NEW e \in Executors, at'[e] \in Halfway PROVE IsHalf(job[e])'
  <2>1. CASE at'[e] = at[e] /\ job'[e] = job[e]
    <3>1. job[e] \in Jobs /\ IsHalf(job[e])
      BY <1>1, <2>1, Typed DEF HalfInv, Halfway, Working, Offline
    <3>2. alertOf'[job[e][1]] = alertOf[job[e][1]]
      <4>1. job[e][1] \in Incidents /\ alertOf[job[e][1]] # Nobody
        BY <3>1, HeldKept DEF Jobs
      <4>. QED BY <4>1, StepKinds DEF Outside, Aborts, Turns, Elsewhere, Hands, hookVars
    <3>. QED BY <2>1, <3>1, <3>2 DEF IsHalf, AlertOf
  <2>2. CASE ~ (at'[e] = at[e] /\ job'[e] = job[e])
    <3>1. Turns(e) /\ job' = job
      BY <1>1, <2>2, StepKinds
      DEF Outside, Aborts, Turns, Elsewhere, Hands, Sweeps, Picks, Settles, Drops, Dies, Revives,
          Moves, Halfway
    <3>2. IsHalf(job[e])' <=> IsHalf(job[e])
      BY <3>1 DEF Turns, Elsewhere, hookVars, IsHalf, AlertOf
    <3>3. Reports(e)
      BY <1>1, <3>1 DEF Turns, Prepares, Starts, Concludes, Moves, Halfway
    <3>. QED BY <1>1, <3>2, <3>3 DEF Reports, Moves, Halfway, HalfInv
  <2>. QED BY <2>1, <2>2
<1>. QED BY <1>1 DEF HalfInv

-----------------------------------------------------------------------------
(* Without crashes and lost calls, a job nobody has taken has left no      *)
(* trace, and whoever takes it posts its RCA on the way to "reported", and *)
(* only there.                                                             *)

Matches(j) ==
  /\ posts[j] <= 1
  /\ ~IsHalf(j) /\ Status(j) = "done"   => posts[j] = 1
  /\ ~IsHalf(j) /\ Status(j) = "failed" => posts[j] = 0

Untouched(j) == posts[j] = 0 /\ Status(j) = "absent" /\ j \notin aborting

BeforeReport == Early \cup {"looping", "concluding", "answered", "failed"} \cup Halfway

PostedAt(e) ==
  LET k == job[e] IN
  /\ at[e] = "taken" => Untouched(k)
  /\ at[e] \in BeforeReport => posts[k] = 0
  /\ at[e] \in {"reported", "released"} => posts[k] = 1
  /\ at[e] = "enriching" => Status(k) \notin Final
  /\ at[e] \in {"answered", "reported", "released"} => Status(k) # "failed"
  /\ at[e] = "failed" => Status(k) # "done"
  /\ at[e] = "acking" => Matches(k)

PostingInv ==
  Calm =>
    /\ \A j \in Jobs : j \notin acked /\ ~InHand(j) => Untouched(j)
    /\ \A j \in acked : Matches(j)
    /\ \A e \in Executors : PostedAt(e)

LEMMA TurnsPost ==
  ASSUME TypeInv, DeliveryInv, HolderOwns, HalfInv, PostingInv, Calm', Calm, Free,
         NEW e \in Executors, Turns(e)
  PROVE  PostingInv'
<1>1. /\ \A j : IsHalf(j)' <=> IsHalf(j)
      /\ UNCHANGED <<job, acked, aborting>> /\ job[e] \in Jobs
      /\ \A j \in Jobs : j # job[e] => row'[j] = row[j] /\ posts'[j] = posts[j]
      /\ \A f \in Executors : f # e => at'[f] = at[f]
  BY DEF Turns, Elsewhere, AlertOf, IsHalf, hookVars, streamVars, others
<1>2. \A j \in Jobs : j # job[e] => /\ Untouched(j)' <=> Untouched(j)
                                    /\ Matches(j)' <=> Matches(j)
                                    /\ Status(j)' = Status(j)
  BY <1>1 DEF Untouched, Matches, Status
<1>3. job[e] \notin acked
  BY <1>1, ExecutorsAssumption DEF HolderOwns, Holds, DeliveryInv, OnePlace, Stream!Pending
<1>4. \A j \in Jobs : j \notin acked' /\ ~InHand(j)' => Untouched(j)'
  BY <1>1, <1>2 DEF PostingInv, InHand
<1>5. \A j \in acked' : Matches(j)'
  BY <1>1, <1>2, <1>3, Typed DEF PostingInv
<1>6. PostedAt(e)'
  <2> DEFINE k == job[e]
  <2>1. /\ k \in Jobs /\ Status(k) \in Table!Status /\ posts[k] \in Nat /\ job'[e] = k
        /\ PostedAt(e) /\ (IsHalf(k)' <=> IsHalf(k)) /\ aborting' = aborting
        /\ at[e] \in Halfway => IsHalf(k)
        /\ faults' # faults + 1
    BY <1>1, Typed DEF PostingInv, HalfInv, Free
  <2> USE DEF Moves, PostedAt, BeforeReport, Early, Halfway, Kept, Closed, Tried, Paid, Silent
  <2>2. CASE Prepares(e)
    BY <2>1, <2>2 DEF Prepares, Untouched, Final, Table!FinalStatus
  <2>3. CASE Starts(e)
    BY <2>1, <2>3 DEF Starts
  <2>4. CASE Concludes(e)
    BY <2>1, <2>4 DEF Concludes, Final, Table!FinalStatus
  <2>5. CASE Reports(e)
    <3>1. CASE Moves(e, {"answered"}, "reported")
      BY <2>1, <2>5, <3>1 DEF Reports
    <3>2. CASE Moves(e, {"reported"}, "released") \/ Moves(e, {"released"}, "acking")
      BY <2>1, <2>5, <3>2 DEF Reports, Matches
    <3>3. CASE Moves(e, {"failed"}, "acking")
      BY <2>1, <2>5, <3>3 DEF Reports, Matches
    <3>4. CASE at[e] \in {"found", "halfdone", "halfreleased", "joining", "merging"}
               \/ at'[e] = "found"
      BY <2>1, <2>5, <3>4 DEF Reports, Matches
    <3>. QED BY <2>1, <2>5, <3>1, <3>2, <3>3, <3>4 DEF Reports
  <2>. QED BY <2>2, <2>3, <2>4, <2>5 DEF Turns
<1>7. ASSUME NEW f \in Executors, f # e PROVE PostedAt(f)'
  <2>1. CASE Working(f)
    <3>1. job[f] \in Jobs /\ job[f] # job[e]
      BY <1>1, <1>7, <2>1, Typed, NobodyElse
    <3>. QED BY <1>1, <1>2, <1>7, <3>1 DEF PostingInv, PostedAt, Untouched, Matches, Status
  <2>2. CASE ~Working(f)
    BY <1>1, <1>7, <2>2 DEF PostedAt, Working, Offline, BeforeReport, Early, Halfway
  <2>. QED BY <2>1, <2>2
<1>. QED BY <1>4, <1>5, <1>6, <1>7 DEF PostingInv

LEMMA HandsPost ==
  ASSUME TypeInv, DeliveryInv, HolderOwns, InHandInv, PostingInv, Calm', Calm, Free,
         crashes' = crashes, NEW e \in Executors, Hands(e)
  PROVE  PostingInv'
<1>1. /\ \A j : /\ IsHalf(j)' <=> IsHalf(j)
                /\ Status(j)' = Status(j)
                /\ Untouched(j)' <=> Untouched(j)
                /\ Matches(j)' <=> Matches(j)
      /\ posts' = posts
      /\ \A f \in Executors : f # e => at'[f] = at[f] /\ job'[f] = job[f]
  BY DEF Hands, AlertOf, IsHalf, Status, Untouched, Matches, hookVars, history
<1>2. ASSUME NEW f \in Executors, at'[f] = at[f], job'[f] = job[f] PROVE PostedAt(f)'
  BY <1>1, <1>2 DEF PostingInv, PostedAt
<1>3. crashes' # crashes + 1 /\ faults' # faults + 1
  BY Typed DEF Free
<1>4. CASE Sweeps(e) \/ Revives(e)
  <2>1. acked' = acked /\ \A f \in Executors : job'[f] = job[f]
    BY <1>1, <1>4 DEF Sweeps, Revives, NothingSettles
  <2>2. \A f \in Executors : PostedAt(f)'
    BY <1>1, <1>2, <1>4
    DEF Sweeps, Revives, Moves, PostedAt, BeforeReport, Early, Halfway
  <2>. QED BY <1>1, <2>1, <2>2 DEF PostingInv, InHand
<1>5. CASE Picks(e)
  <2> DEFINE n == job'[e]
  <2>1. /\ n \in Jobs /\ Stream!Queued(n) /\ acked' = acked /\ job[e] = Nobody
        /\ at'[e] = "taken"
    BY <1>5 DEF Picks, InHandInv, NothingSettles, Moves, HolderOwns, Working, Offline
  <2>2. n \notin acked /\ ~InHand(n)
    BY <2>1, ExecutorsAssumption
    DEF DeliveryInv, OnePlace, InHand, HolderOwns, Holds, Stream!Pending
  <2>3. Untouched(n)
    BY <2>1, <2>2 DEF PostingInv
  <2>4. PostedAt(e)'
    BY <1>1, <2>1, <2>3 DEF PostedAt, BeforeReport, Early, Halfway, Untouched
  <2>5. \A j \in Jobs : InHand(j) => InHand(j)'
    BY <1>1, <2>1, ExecutorsAssumption DEF InHand
  <2>. QED BY <1>1, <1>2, <2>1, <2>4, <2>5 DEF PostingInv
<1>6. CASE Settles(e)
  <2>1. /\ job[e] \in Jobs /\ acked' = acked \cup {job[e]} /\ at'[e] = "idle"
        /\ at[e] \in {"taken", "acking"} /\ (at[e] = "taken" => Status(job[e]) \in Final)
    BY <1>6 DEF Settles, Moves
  <2>2. PostedAt(e)
    BY DEF PostingInv
  <2>3. Matches(job[e])
    BY <2>1, <2>2 DEF PostedAt, Untouched, Final, Table!FinalStatus
  <2>4. PostedAt(e)'
    BY <2>1 DEF PostedAt, BeforeReport, Early, Halfway
  <2>5. \A j \in Jobs : InHand(j) /\ j # job[e] => InHand(j)'
    BY <1>1 DEF InHand
  <2>. QED BY <1>1, <1>2, <2>1, <2>3, <2>4, <2>5 DEF PostingInv
<1>. QED BY <1>3, <1>4, <1>5, <1>6 DEF Hands, Drops, Paid

LEMMA AbortsPost ==
  ASSUME TypeInv, DeliveryInv, HolderOwns, PostingInv, Calm', Calm, Free,
         NEW k \in Jobs, Aborts(k)
  PROVE  PostingInv'
<1>1. /\ UNCHANGED <<at, job, acked, posts>>
      /\ \A j : IsHalf(j)' <=> IsHalf(j)
      /\ \A j \in Jobs : j # k => row'[j] = row[j] /\ (j \in aborting' <=> j \in aborting)
      /\ Status(k)' = Status(k) \/ Status(k)' = "aborted"
      /\ ~Untouched(k)
  BY DEF Aborts, RowOnly, Kept, AlertOf, IsHalf, hookVars, streamVars, history, Untouched
<1>2. \A j \in Jobs : /\ Untouched(j) => Untouched(j)'
                      /\ Matches(j) => Matches(j)'
                      /\ Status(j)' = Status(j) \/ Status(j)' = "aborted"
  BY <1>1 DEF Untouched, Matches, Status
<1>3. ASSUME NEW e \in Executors PROVE PostedAt(e)'
  <2>1. CASE Working(e)
    <3>1. job[e] \in Jobs /\ PostedAt(e)
      BY <2>1, Typed DEF PostingInv
    <3>. QED BY <1>1, <1>2, <3>1 DEF PostedAt, Final, Table!FinalStatus, Untouched, Matches, Status
  <2>2. CASE ~Working(e)
    BY <1>1, <2>2 DEF PostedAt, Working, Offline, BeforeReport, Early, Halfway
  <2>. QED BY <2>1, <2>2
<1>. QED BY <1>1, <1>2, <1>3, Typed DEF PostingInv, InHand

LEMMA PostingStep ==
  ASSUME TypeInv, DeliveryInv, HolderOwns, HalfInv, InHandInv, PostingInv, [Next]_vars
  PROVE  PostingInv'
<1>1. CASE Outside
  <2>1. \A j \in Jobs : Delivered(j) => (IsHalf(j)' <=> IsHalf(j))
    BY <1>1, AlertKept DEF Outside, IsHalf, AlertOf, Jobs
  <2>2. /\ UNCHANGED <<at, job, acked, row, posts, aborting>>
        /\ \A j : Untouched(j)' <=> Untouched(j)
    BY <1>1 DEF Outside, history, others, Untouched, Status
  <2>3. \A j \in Jobs : Delivered(j) => (Matches(j)' <=> Matches(j))
    BY <2>1, <2>2 DEF Matches, Status
  <2>4. \A e \in Executors : job[e] \in Jobs => Delivered(job[e])
    BY HeldKept
  <2>5. ASSUME NEW e \in Executors, PostedAt(e) PROVE PostedAt(e)'
    BY <2>2, <2>3, <2>4, <2>5, Typed DEF PostedAt, Status, Working, Offline, Untouched, Matches
  <2>. QED BY <2>2, <2>3, <2>5, Typed, Calmer DEF PostingInv, InHand, Delivered
<1>2. CASE ~Calm'
  BY <1>2 DEF PostingInv
<1>. QED BY <1>1, <1>2, TurnsPost, HandsPost, AbortsPost, StepKinds, Calmer

(* Without crashes and lost calls a settled job's row says what was posted.*)
THEOREM PostsAgree ==
  ASSUME JobsFitIdle
  PROVE  Spec => []PostsMatchOutcome
<1>1. Init => HalfInv /\ InHandInv /\ PostingInv
  BY DEF Init, HalfInv, Halfway, InHandInv, InHand, PostingInv, PostedAt, BeforeReport, Early,
         Untouched, Status, Stream!StreamInit, Stream!Pending, Table!TableInit, Table!NoRow,
         Jobs, Stream!Jobs, Clouds, Stream!Clouds
<1>2. (TypeInv /\ DeliveryInv /\ HolderOwns) /\ (HalfInv /\ InHandInv /\ PostingInv) /\ [Next]_vars
        => (HalfInv /\ InHandInv /\ PostingInv)'
  BY HalfStep, InHandStep, PostingStep
<1>3. PostingInv => PostsMatchOutcome
  BY DEF PostingInv, Calm, Matches, PostsMatchOutcome, Status
<1>. QED BY <1>1, <1>2, <1>3, OwnersKept, PTL DEF Spec

-----------------------------------------------------------------------------
(* The locks: who may set and release them besides the executors.          *)

Hooks ==
  /\ Outside
  /\ UNCHANGED <<crashes, aborting>>
  /\ \/ /\ hook.alert \notin Alerts /\ hook'.alert \in Alerts          (* Fire *)
        /\ \/ hook'.alert \notin locked /\ locked' = locked \cup {hook'.alert} /\ Free
           \/ locked' = locked /\ Paid
        /\ alertOf' = alertOf /\ NothingSettles
     \/ hook'.alert = hook.alert /\ locked' = locked /\ NothingSettles
     \/ /\ hook'.alert \notin Alerts                                    (* JoinParent, HookDies *)
        /\ \/ locked' = locked \ {hook.alert} /\ (Free \/ Paid)
           \/ locked' = locked /\ Paid
        /\ alertOf' = alertOf /\ NothingSettles
     \/ \E j \in Jobs :                                                (* EnqueueJob *)
          /\ hook.alert \in Alerts /\ AlertOf(j) = hook.alert
          /\ Fresh(j) /\ acked' = acked
          /\ \A k \in Jobs : Due(k)' <=> Due(k) \/ k = j
          /\ \/ hook'.alert = hook.alert /\ IsHalf(j)
             \/ hook'.alert \notin Alerts /\ (faults = 0 /\ hook.at = "halfqueued" => IsHalf(j))
          /\ alertOf' = alertOf /\ locked' = locked /\ Free

Ticks ==
  /\ Outside /\ NothingSettles /\ Free
  /\ UNCHANGED <<hookVars, crashes, aborting>>
  /\ \/ locked' = locked
     \/ \E a \in Alerts : /\ locked' = locked \ {a}
                          /\ LocksFitTtl => /\ hook.alert # a
                                            /\ \A j \in Jobs : Due(j) => AlertOf(j) # a

IdleHook == hook.at = "idle" => hook.alert = Nobody

LEMMA IdleHookStep ==
  ASSUME TypeInv, IdleHook, [Next]_vars
  PROVE  IdleHook'
<1> USE DEF IdleHook, Idle
<1>1. CASE Webhook
  <2>1. CASE \E a \in Alerts : Fire(a)
    <3>1. hook'.at = "locked"
      BY <2>1 DEF Fire
    <3>. QED BY <3>1
  <2>2. CASE FindParent \/ \E i \in Incidents : OpenIncident(i)
    <3>1. hook'.at \in {"grouping", "routed"}
      BY <2>2 DEF FindParent, OpenIncident, TypeInv, TypeOK
    <3>. QED BY <3>1
  <2>3. CASE JoinParent \/ HookDies
    BY <2>3 DEF JoinParent, HookDies
  <2>4. CASE EnqueueJob
    <3>1. hook'.at = "halfqueued" \/ hook' = Idle
      BY <2>4 DEF EnqueueJob, TypeInv, TypeOK
    <3>. QED BY <3>1
  <2>. QED BY <1>1, <2>1, <2>2, <2>3, <2>4 DEF Webhook
<1>2. CASE hook' = hook
  BY <1>2
<1>3. CASE Clocks \/ UNCHANGED vars
  BY <1>2, <1>3 DEF Clocks, Stale, LockExpires, WindowExpires, clockUnchanged, gateUnchanged,
                    hookVars, vars
<1>4. CASE Console
  BY <1>2, <1>4, ConsoleStep DEF Console, Aborts, hookVars
<1>5. ASSUME NEW e \in Executors,
             \/ Work(e) \/ ProposeFix(e) \/ Reap(e) \/ LoseReply(e) \/ Crash(e) \/ Restart(e)
      PROVE  hook' = hook
  <2>1. CASE Turns(e)
    BY <2>1 DEF Turns, Elsewhere, hookVars
  <2>2. CASE \/ Reap(e) \/ RunReclaimed(e) \/ Take(e) \/ LoseReply(e) \/ SkipDuplicate(e)
             \/ Settle(e) \/ Crash(e) \/ Restart(e)
    BY <2>2 DEF Reap, RunReclaimed, Take, LoseReply, SkipDuplicate, Settle, Crash, Restart,
                BackToLoop, gateUnchanged, hookVars
  <2>. QED BY <1>5, <2>1, <2>2, PreparesStep, StartsStep, ConcludesStep, ReportsStep DEF Work
<1>. QED BY <1>1, <1>2, <1>3, <1>4, <1>5 DEF Next

LEMMA HooksStep ==
  ASSUME TypeInv, DeliveryInv, IdleHook, Webhook
  PROVE  Hooks
<1> USE DEF Hooks, Free, Paid, Slip, Idle
<1>1. Outside /\ UNCHANGED <<crashes, aborting>>
  BY OutsideStep DEF Webhook, Fire, FindParent, JoinParent, OpenIncident, EnqueueJob, HookDies,
                     execUnchanged, others
<1>2. /\ Nobody \notin Alerts
      /\ hook.at = "idle" => hook.alert = Nobody
      /\ hook.at # "idle" => hook.alert \in Alerts
  BY ExecutorsAssumption DEF TypeInv, Busy, IdleHook
<1>3. ASSUME NEW a \in Alerts, Fire(a) PROVE Hooks
  <2>1. hook'.alert = a /\ hook.alert \notin Alerts /\ NothingSettles /\ alertOf' = alertOf
    BY <1>2, <1>3, StreamStays DEF Fire
  <2>. QED BY <1>1, <1>3, <2>1 DEF Fire, Gate!Acquire
<1>4. CASE FindParent \/ \E i \in Incidents : OpenIncident(i)
  <2>1. hook'.alert = hook.alert /\ NothingSettles /\ locked' = locked
    BY <1>4, StreamStays DEF FindParent, OpenIncident, TypeInv, TypeOK
  <2>. QED BY <1>1, <2>1
<1>5. CASE JoinParent \/ HookDies
  <2>1. hook'.alert \notin Alerts /\ NothingSettles /\ alertOf' = alertOf
    BY <1>2, <1>5, StreamStays DEF JoinParent, HookDies
  <2>. QED BY <1>1, <1>5, <2>1 DEF JoinParent, HookDies, Gate!Release, gateVars
<1>6. CASE EnqueueJob
  <2> DEFINE i == hook.incident
  <2>1. /\ hook.at \in {"routed", "halfqueued"} /\ i \in Incidents
        /\ hook.alert \in Alerts /\ alertOf[i] = hook.alert
        /\ UNCHANGED <<alertOf, faults, locked>>
    BY <1>6 DEF EnqueueJob, TypeInv, Busy, DeliveryInv, AddedOnce, gateVars
  <2>2. PICK c \in Clouds :
          /\ Stream!Enqueue(i, c)
          /\ Fresh(<<i, c>>)
          /\ \/ hook.at = "routed" /\ Route[hook.alert] = "both" /\ hook'.alert = hook.alert
             \/ hook.at = "routed" /\ hook' = Idle
             \/ hook.at = "halfqueued" /\ hook' = Idle
    BY <1>6, <2>1, AlertsAssumption
    DEF EnqueueJob, Clouds, TypeInv, TypeOK, DeliveryInv, AddedOnce
  <2>3. PICK j \in Jobs : j = <<i, c>>
    BY <2>1 DEF Jobs
  <2>4. \A k \in Jobs : Stream!Queued(k)' <=> Stream!Queued(k) \/ k = j
    BY <2>1, <2>2, <2>3, EnqueueAdds DEF Fresh, TypeInv, TypeOK, DeliveryInv
  <2>5. UNCHANGED <<owner, acked>>
    BY <2>2 DEF Stream!Enqueue
  <2>6. \A k \in Jobs : Due(k)' <=> Due(k) \/ k = j
    BY <2>4, <2>5 DEF Due, Stream!Pending
  <2>7. AlertOf(j) = hook.alert
    BY <2>1, <2>3 DEF AlertOf
  <2>8. faults = 0 /\ hook.at = "halfqueued" => IsHalf(j)
    BY <2>7 DEF IsHalf, DeliveryInv, AllAdded
  <2>9. \/ hook'.alert = hook.alert /\ IsHalf(j)
        \/ hook'.alert \notin Alerts
    BY <1>2, <2>2, <2>7 DEF IsHalf
  <2> HIDE DEF i
  <2>. QED BY <1>1, <2>1, <2>2, <2>3, <2>5, <2>6, <2>7, <2>8, <2>9
<1>. QED BY <1>3, <1>4, <1>5, <1>6 DEF Webhook

LEMMA TicksStep ==
  ASSUME TypeInv, DeliveryInv, Clocks \/ UNCHANGED vars
  PROVE  Ticks
<1> USE DEF Ticks, Free, memoryUnchanged, clockUnchanged, gateUnchanged, others, gateVars
<1>1. Outside
  BY OutsideStep
<1>2. ASSUME NEW j \in Jobs, Stale(j) PROVE Ticks
  <2>1. NothingSettles
    BY <1>2 DEF Stale, Stream!GoStale, NothingSettles, Due, Delivered, Stream!Queued,
                Stream!Pending
  <2>. QED BY <1>1, <1>2, <2>1 DEF Stale
<1>3. ASSUME NEW a \in Alerts, LockExpires(a) PROVE Ticks
  BY <1>1, <1>3, StreamStays DEF LockExpires, Gate!Release
<1>4. ASSUME NEW k \in Keys, WindowExpires(k) PROVE Ticks
  BY <1>1, <1>4, StreamStays DEF WindowExpires
<1>5. CASE UNCHANGED vars
  BY <1>1, <1>5, StreamStays DEF vars
<1>. QED BY <1>2, <1>3, <1>4, <1>5 DEF Clocks

LEMMA LockSteps ==
  ASSUME TypeInv, DeliveryInv, IdleHook, [Next]_vars
  PROVE  \/ Hooks \/ Ticks
         \/ \E j \in Jobs : Aborts(j)
         \/ \E e \in Executors : Turns(e) \/ Hands(e)
<1>1. CASE Console
  BY <1>1, ConsoleStep DEF Console
<1>2. ASSUME NEW e \in Executors,
             \/ Work(e) \/ Reap(e) \/ LoseReply(e) \/ ProposeFix(e) \/ Crash(e)
             \/ Restart(e)
      PROVE  Turns(e) \/ Hands(e)
  BY <1>2, HandsStep, PreparesStep, StartsStep, ConcludesStep, ReportsStep DEF Work
<1>. QED BY <1>1, <1>2, HooksStep, TicksStep DEF Next

-----------------------------------------------------------------------------
(* A job carries its alert's lock from the moment it is added until its    *)
(* executor has released it.  Without crashes and lost calls every alert   *)
(* of one cloud is either with the webhook or carried by a single job, or  *)
(* by nobody, and whoever has it also has the lock.                        *)

Carrier(j) ==
  Due(j) /\ \A e \in Executors : job[e] = j => at[e] \notin {"released", "acking"}

LockKept(a) ==
  /\ hook.alert = a => a \in locked /\ \A j \in Jobs : Carrier(j) => AlertOf(j) # a
  /\ \A j \in Jobs : Carrier(j) /\ AlertOf(j) = a =>
       a \in locked /\ \A k \in Jobs : Carrier(k) /\ AlertOf(k) = a => k = j

CarrierInv == Calm => \A a \in Alerts : Route[a] # "both" => LockKept(a)

LEMMA DueKept ==
  ASSUME TypeInv, DeliveryInv, NEW j \in Jobs, Due(j), [Next]_vars
  PROVE  AlertOf(j)' = AlertOf(j)
<1>1. j[1] \in Incidents /\ j[2] \in Clouds /\ j = <<j[1], j[2]>>
  BY DEF Jobs
<1>2. alertOf[j[1]] # Nobody
  BY <1>1 DEF DeliveryInv, AddedOnce, Fresh, Due
<1>. QED BY <1>1, <1>2, StepKinds DEF Outside, Aborts, Turns, Elsewhere, Hands, hookVars, AlertOf

(* Carriers that stop carrying, and locks nobody has, do no harm. *)
LEMMA FewerCarriers ==
  ASSUME CarrierInv, Calm,
         hook'.alert = hook.alert \/ hook'.alert \notin Alerts,
         \A j \in Jobs : Carrier(j)' => Carrier(j) /\ AlertOf(j)' = AlertOf(j),
         \A a \in Alerts :
           Route[a] # "both" /\ a \in locked /\ a \notin locked'
             => hook'.alert # a /\ \A j \in Jobs : Carrier(j)' => AlertOf(j) # a
  PROVE  CarrierInv'
BY DEF CarrierInv, LockKept

LEMMA TurnsCarry ==
  ASSUME TypeInv, DeliveryInv, HolderOwns, HalfInv, CarrierInv, Calm, Free,
         NEW e \in Executors, Turns(e)
  PROVE  CarrierInv'
<1>1. /\ hook' = hook /\ job' = job /\ job[e] \in Jobs
      /\ \A j : AlertOf(j)' = AlertOf(j)
      /\ \A j \in Jobs : Due(j)' <=> Due(j)
      /\ \A f \in Executors : f # e => at'[f] = at[f]
  BY StreamStays DEF Turns, Elsewhere, hookVars, AlertOf, NothingSettles
<1>2. at[e] \in {"released", "acking"} => at'[e] \in {"released", "acking"}
  BY DEF Turns, Prepares, Starts, Concludes, Reports, Moves, Early
<1>3. \A j \in Jobs : Carrier(j)' => Carrier(j)
  BY <1>1, <1>2 DEF Carrier
<1>4. ASSUME NEW a \in Alerts, Route[a] # "both", a \in locked, a \notin locked'
      PROVE  hook'.alert # a /\ \A j \in Jobs : Carrier(j)' => AlertOf(j) # a
  <2>1. Reports(e) /\ locked' = locked \ {Issue(e)}
    BY <1>4 DEF Turns, Prepares, Starts, Concludes, Reports, Silent
  <2>2. a = AlertOf(job[e])
    BY <1>4, <2>1 DEF Issue
  <2>3. at[e] \in {"reported", "failed"} /\ at'[e] \in {"released", "acking"}
    BY <1>4, <2>1, <2>2 DEF Reports, Moves, Silent, HalfInv, Halfway, IsHalf
  <2>4. Carrier(job[e])
    <3>1. Stream!Pending(job[e])
      BY <1>1, ExecutorsAssumption DEF HolderOwns, Holds, Stream!Pending
    <3>. QED BY <1>1, <2>3, <3>1, NobodyElse DEF Carrier, Due
  <2>5. LockKept(a)
    BY <1>4 DEF CarrierInv
  <2>. QED BY <1>1, <1>3, <2>2, <2>3, <2>4, <2>5 DEF LockKept, Carrier
<1>. QED BY <1>1, <1>3, <1>4, FewerCarriers

LEMMA HandsCarry ==
  ASSUME TypeInv, CarrierInv, Calm, Free, crashes' = crashes, NEW e \in Executors, Hands(e)
  PROVE  CarrierInv'
<1>0. crashes' # crashes + 1 /\ faults' # faults + 1
  BY Typed DEF Free
<1>1. /\ hook' = hook /\ locked' = locked
      /\ \A j : AlertOf(j)' = AlertOf(j)
      /\ \A f \in Executors : f # e => at'[f] = at[f] /\ job'[f] = job[f]
  BY DEF Hands, hookVars, gateVars, AlertOf
<1>2. \A j \in Jobs : Due(j)' => Due(j)
  BY <1>0 DEF Hands, Sweeps, Picks, Settles, Drops, Dies, Revives, NothingSettles
<1>3. ASSUME NEW j \in Jobs, job[e] = j, at[e] \in {"released", "acking"}
      PROVE  (at'[e] = at[e] /\ job'[e] = job[e]) \/ ~Due(j)'
  BY <1>0, <1>3 DEF Hands, Sweeps, Picks, Settles, Drops, Dies, Revives, Moves, Paid
<1>4. \A j \in Jobs : Carrier(j)' => Carrier(j)
  BY <1>1, <1>2, <1>3 DEF Carrier
<1>. QED BY <1>1, <1>4, FewerCarriers

LEMMA HooksCarry ==
  ASSUME TypeInv, DeliveryInv, CarrierInv, Calm, Free, [Next]_vars, Hooks
  PROVE  CarrierInv'
<1>0. faults' # faults + 1
  BY Typed DEF Free
<1>1. /\ UNCHANGED <<at, job>>
      /\ \A j \in Jobs : Due(j) => AlertOf(j)' = AlertOf(j)
  BY DueKept DEF Hooks, Outside
<1>2. CASE NothingSettles
  <2>1. \A j \in Jobs : /\ Carrier(j)' <=> Carrier(j)
                        /\ Carrier(j) => AlertOf(j)' = AlertOf(j)
    BY <1>1, <1>2 DEF NothingSettles, Carrier
  <2>2. CASE hook'.alert \notin locked /\ locked' = locked \cup {hook'.alert}
    BY <2>1, <2>2 DEF CarrierInv, LockKept
  <2>3. CASE hook.alert = hook'.alert /\ locked' = locked
    BY <2>1, <2>3, FewerCarriers
  <2>4. CASE hook'.alert \notin Alerts /\ locked' = locked \ {hook.alert}
    <3>1. \A a \in Alerts :
            Route[a] # "both" /\ a \in locked /\ a \notin locked'
              => hook'.alert # a /\ \A j \in Jobs : Carrier(j)' => AlertOf(j) # a
      BY <2>1, <2>4 DEF CarrierInv, LockKept
    <3>. QED BY <2>1, <2>4, <3>1, FewerCarriers
  <2>5. ASSUME NEW j \in Jobs, Fresh(j) PROVE ~ (Due(j)' <=> Due(j) \/ j = j)
    BY <1>2, <2>5 DEF NothingSettles, Due, Fresh
  <2>. QED BY <1>0, <1>2, <2>2, <2>3, <2>4, <2>5 DEF Hooks, Paid
<1>3. ASSUME NEW j \in Jobs, AlertOf(j) = hook.alert, Fresh(j),
             \A k \in Jobs : Due(k)' <=> Due(k) \/ k = j,
             (hook'.alert = hook.alert /\ IsHalf(j)) \/ hook'.alert \notin Alerts,
             alertOf' = alertOf, locked' = locked
      PROVE  CarrierInv'
  <2>1. \A k \in Jobs : Carrier(k)' => Carrier(k) \/ k = j
    BY <1>1, <1>3 DEF Carrier
  <2>2. \A k : AlertOf(k)' = AlertOf(k)
    BY <1>3 DEF AlertOf
  <2>3. ASSUME NEW a \in Alerts, Route[a] # "both" PROVE LockKept(a)'
    <3>1. LockKept(a)
      BY <2>3 DEF CarrierInv
    <3>2. CASE a = hook.alert
      <4>1. a \in locked /\ hook'.alert # a /\ \A k \in Jobs : Carrier(k) => AlertOf(k) # a
        BY <1>3, <2>3, <3>1, <3>2 DEF LockKept, IsHalf
      <4>. QED BY <1>3, <2>1, <2>2, <4>1 DEF LockKept
    <3>3. CASE a # hook.alert
      BY <1>3, <2>1, <2>2, <3>1, <3>3 DEF LockKept
    <3>. QED BY <3>2, <3>3
  <2>. QED BY <2>3 DEF CarrierInv
<1>. QED BY <1>2, <1>3 DEF Hooks

LEMMA CarrierStep ==
  ASSUME LocksFitTtl, TypeInv, DeliveryInv, HolderOwns, IdleHook, HalfInv, CarrierInv,
         [Next]_vars
  PROVE  CarrierInv'
<1> SUFFICES ASSUME Calm' PROVE CarrierInv'
  BY DEF CarrierInv
<1>1. Calm /\ Free /\ crashes' = crashes
  BY Calmer
<1>2. CASE Ticks
  <2>1. /\ hook' = hook
        /\ \A j \in Jobs : Carrier(j)' => Carrier(j) /\ Due(j) /\ AlertOf(j)' = AlertOf(j)
    BY <1>2, DueKept DEF Ticks, hookVars, Outside, NothingSettles, Carrier
  <2>. QED BY <1>1, <1>2, <2>1, FewerCarriers DEF Ticks
<1>3. ASSUME NEW j \in Jobs, Aborts(j) PROVE CarrierInv'
  <2>1. /\ hook' = hook /\ locked' = locked
        /\ \A k \in Jobs : Carrier(k)' => Carrier(k) /\ AlertOf(k)' = AlertOf(k)
    BY <1>3, StreamStays DEF Aborts, hookVars, gateVars, Carrier, AlertOf, NothingSettles
  <2>. QED BY <1>1, <2>1, FewerCarriers
<1>. QED BY <1>1, <1>2, <1>3, LockSteps, HooksCarry, HandsCarry, TurnsCarry

(* Without crashes and lost calls, and if neither jobs nor locks outlast   *)
(* their time, no alert of one cloud has two incidents investigated.       *)
THEOREM OneAtATime ==
  ASSUME JobsFitIdle, LocksFitTtl
  PROVE  Spec => []OneIncidentPerAlert
<1>1. Init => IdleHook /\ HalfInv /\ CarrierInv
  BY ExecutorsAssumption
  DEF Init, Idle, IdleHook, HalfInv, Halfway, CarrierInv, LockKept, Carrier, Due,
      Stream!StreamInit, Stream!Queued, Stream!Pending, Jobs, Stream!Jobs, Clouds, Stream!Clouds
<1>2. (TypeInv /\ DeliveryInv /\ HolderOwns) /\ (IdleHook /\ HalfInv /\ CarrierInv) /\ [Next]_vars
        => (IdleHook /\ HalfInv /\ CarrierInv)'
  BY IdleHookStep, HalfStep, CarrierStep
<1>3. TypeInv /\ DeliveryInv /\ HolderOwns /\ CarrierInv => OneIncidentPerAlert
  <2>1. ASSUME TypeInv, DeliveryInv, HolderOwns, NEW e \in Executors, Investigating(e)
        PROVE  job[e] \in Jobs /\ Issue(e) \in Alerts /\ Carrier(job[e])
    <3>1. job[e] \in Jobs /\ at[e] \notin {"released", "acking"}
      BY <2>1, Typed DEF Investigating, Working, Offline, Early
    <3>2. Stream!Pending(job[e])
      BY <2>1, <3>1, ExecutorsAssumption DEF HolderOwns, Holds, Stream!Pending
    <3>3. alertOf[job[e][1]] \in Alerts
      BY <2>1, <3>1, HeldKept, Typed DEF Jobs
    <3>. QED BY <2>1, <3>1, <3>2, <3>3, NobodyElse DEF Carrier, Due, Issue, AlertOf
  <2>. QED BY <2>1 DEF CarrierInv, LockKept, OneIncidentPerAlert, Calm, IsHalf, Issue
<1>. QED BY <1>1, <1>2, <1>3, OwnersKept, PTL DEF Spec

-----------------------------------------------------------------------------
(* Without crashes and lost calls, two findings always have somebody to    *)
(* merge them: whoever wrote the second has yet to look, or to claim, or   *)
(* somebody has claimed; and a claim always has its holder, or its post.   *)

Half(e, i) == job[e] \in Jobs /\ job[e][1] = i /\ at[e] \in Halfway

Merger(e, i) == Half(e, i) /\ at[e] = "merging"

Merged(i) ==
  /\ Cross!BothPresent(i) => unified[i] = 1 \/ \E e \in Executors : Half(e, i)
  /\ i \in claimed => unified[i] = 1 \/ \E e \in Executors : Merger(e, i)

JoinInv == Calm => \A i \in Incidents : Merged(i)

LEMMA HalfwayStays ==
  ASSUME TypeInv, DeliveryInv, [Next]_vars, Free, crashes' = crashes,
         NEW e \in Executors, at[e] \in Halfway,
         ~ (LookForOther(e) \/ ClaimSynthesis(e) \/ Synthesize(e))
  PROVE  /\ at'[e] \in Halfway /\ job'[e] = job[e]
         /\ at[e] = "merging" => at'[e] = "merging"
<1>0. crashes' # crashes + 1 /\ faults' # faults + 1
  BY Typed DEF Free
<1>1. CASE Webhook \/ Clocks \/ UNCHANGED vars
  BY <1>1, OutsideStep DEF Outside
<1>2. CASE Console
  BY <1>2, ConsoleStep DEF Console, Aborts
<1>3. ASSUME NEW f \in Executors, f # e,
             \/ Work(f) \/ Reap(f) \/ LoseReply(f) \/ ProposeFix(f) \/ Crash(f)
             \/ Restart(f)
      PROVE  at'[e] = at[e] /\ job'[e] = job[e]
  <2>1. Turns(f) \/ Hands(f)
    BY <1>3, HandsStep, PreparesStep, StartsStep, ConcludesStep, ReportsStep DEF Work
  <2>. QED BY <1>3, <2>1 DEF Turns, Elsewhere, Hands
<1>4. CASE FinishHalf(e) \/ ReleaseLock(e)
  BY <1>4, AtAndJob DEF FinishHalf, ReleaseLock, AfterRelease, doneUnchanged, Halfway
<1>5. ~ (FlowRaises(e) \/ Crash(e))
  BY <1>0 DEF FlowRaises, Crash, Slip
<1>6. ~ (\/ RunReclaimed(e) \/ Take(e) \/ SkipDuplicate(e) \/ Begin(e) \/ Settle(e)
         \/ Reap(e) \/ LoseReply(e) \/ Restart(e))
  BY DEF RunReclaimed, Take, SkipDuplicate, Begin, Settle, Reap, LoseReply, Restart, Halfway
<1>7. ~ (\/ ReplayPattern(e) \/ CreateRow(e) \/ ReadClaim(e) \/ ClaimAndStart(e)
         \/ StartUndurable(e) \/ EngineStep(e) \/ ProposeFix(e) \/ EngineAnswers(e)
         \/ EngineAborts(e))
  BY DEF ReplayPattern, CreateRow, ReadClaim, ClaimAndStart, StartUndurable, EngineStep,
         ProposeFix, EngineAnswers, EngineAborts, Halfway, Early
<1>8. ~ (FinishDone(e) \/ RunFails(e) \/ Report(e) \/ CloseWindow(e) \/ WriteFinding(e))
  BY DEF FinishDone, RunFails, Report, CloseWindow, WriteFinding, Halfway, Early
<1>. QED BY <1>1, <1>2, <1>3, <1>4, <1>5, <1>6, <1>7, <1>8 DEF Next, Work

LEMMA JoinStep ==
  ASSUME TypeInv, DeliveryInv, SynthesisInv, JoinInv, [Next]_vars
  PROVE  JoinInv'
<1> SUFFICES ASSUME Calm' PROVE \A i \in Incidents : Merged(i)'
  BY DEF JoinInv
<1>0. Calm /\ Free /\ crashes' = crashes /\ \A i \in Incidents : Merged(i)
  BY Calmer DEF JoinInv
<1>1. CASE \A e \in Executors : ~ (\/ WriteFinding(e) \/ LookForOther(e)
                                  \/ ClaimSynthesis(e) \/ Synthesize(e))
  <2>1. UNCHANGED <<claimed, unified, finding>>
    BY <1>1, OthersDoNotJoin DEF NotJoining
  <2>2. \A e \in Executors, i \in Incidents :
          /\ Half(e, i) => Half(e, i)'
          /\ Merger(e, i) => Merger(e, i)'
    BY <1>0, <1>1, HalfwayStays DEF Half, Merger
  <2>. QED BY <1>0, <2>1, <2>2 DEF Merged, Cross!BothPresent
<1>2. ASSUME NEW e \in Executors,
             WriteFinding(e) \/ LookForOther(e) \/ ClaimSynthesis(e) \/ Synthesize(e),
             NEW i \in Incidents
      PROVE  Merged(i)'
  <2>1. /\ job' = job /\ job[e] \in Jobs
        /\ \A f \in Executors : f # e => at'[f] = at[f]
    BY <1>2, AtAndJob DEF WriteFinding, LookForOther, ClaimSynthesis, Synthesize,
                          doneUnchanged, Working, Offline
  <2>2. \A f \in Executors : f # e => /\ Half(f, i)' <=> Half(f, i)
                                      /\ Merger(f, i)' <=> Merger(f, i)
    BY <2>1 DEF Half, Merger
  <2>3. CASE WriteFinding(e)
    <3>1. /\ at[e] = "answered" /\ at'[e] = "found"
          /\ finding' = finding \cup {job[e]} /\ UNCHANGED <<claimed, unified>>
      BY <2>3, AtAndJob DEF WriteFinding, Cross!WriteFinding
    <3>2. ~Merger(e, i) /\ (job[e][1] = i => Half(e, i)')
      BY <2>1, <3>1 DEF Merger, Half, Halfway
    <3>3. job[e][1] # i => (Cross!BothPresent(i)' <=> Cross!BothPresent(i))
      BY <3>1 DEF Cross!BothPresent
    <3>4. ~Half(e, i)
      BY <3>1 DEF Half, Halfway
    <3>. QED BY <1>0, <2>2, <3>1, <3>2, <3>3, <3>4 DEF Merged
  <2>4. CASE LookForOther(e)
    <3>1. /\ at[e] = "halfreleased" /\ UNCHANGED <<finding, claimed, unified>>
          /\ at'[e] = "joining" \/ ~Cross!BothPresent(job[e][1])
      BY <2>4, AtAndJob DEF LookForOther, crossVars
    <3>2. ~Merger(e, i) /\ (Half(e, i) => Half(e, i)' \/ ~Cross!BothPresent(i))
      BY <2>1, <3>1 DEF Merger, Half, Halfway
    <3>. QED BY <1>0, <2>2, <3>1, <3>2 DEF Merged, Cross!BothPresent
  <2>5. CASE ClaimSynthesis(e)
    <3>1. /\ at[e] = "joining" /\ UNCHANGED <<finding, unified>>
          /\ \/ at'[e] = "merging" /\ claimed' = claimed \cup {job[e][1]}
             \/ job[e][1] \in claimed /\ claimed' = claimed
      BY <2>5, AtAndJob DEF ClaimSynthesis, Cross!Claim
    <3>2. ~Merger(e, i)
      BY <3>1 DEF Merger
    <3>3. CASE at'[e] = "merging" /\ claimed' = claimed \cup {job[e][1]}
      <4>1. /\ Half(e, i)' <=> Half(e, i)
            /\ Merger(e, i)' <=> Half(e, i)
            /\ Half(e, i) <=> job[e][1] = i
        BY <2>1, <3>1, <3>3 DEF Half, Merger, Halfway
      <4>. QED BY <1>0, <2>2, <3>1, <3>2, <3>3, <4>1 DEF Merged, Cross!BothPresent
    <3>4. CASE job[e][1] \in claimed /\ claimed' = claimed
      <4>1. Half(e, i) => i \in claimed
        BY <3>4 DEF Half
      <4>2. \A f \in Executors : Merger(f, i) => f # e /\ Half(f, i)
        BY <3>2 DEF Merger
      <4>. QED BY <1>0, <2>2, <3>1, <3>2, <3>4, <4>1, <4>2 DEF Merged, Cross!BothPresent
    <3>. QED BY <3>1, <3>3, <3>4
  <2>6. CASE Synthesize(e)
    <3>1. /\ at[e] = "merging" /\ UNCHANGED <<finding, claimed>>
          /\ unified' = [unified EXCEPT ![job[e][1]] = @ + 1]
      BY <2>6 DEF Synthesize, Cross!PostUnified
    <3>2. unified[job[e][1]] = 0 /\ unified \in [Incidents -> Nat]
      BY <3>1 DEF SynthesisInv, MergerInv, TypeInv, TypeOK, Cross!CrossTypeOK
    <3>3. CASE i = job[e][1]
      BY <3>1, <3>2, <3>3 DEF Merged
    <3>4. CASE i # job[e][1]
      <4>1. ~Half(e, i) /\ ~Merger(e, i) /\ unified'[i] = unified[i]
        BY <3>1, <3>2, <3>4 DEF Half, Merger
      <4>. QED BY <1>0, <2>2, <3>1, <4>1 DEF Merged, Cross!BothPresent
    <3>. QED BY <3>3, <3>4
  <2>. QED BY <1>2, <2>3, <2>4, <2>5, <2>6
<1>. QED BY <1>1, <1>2

(* Without crashes and lost calls no pair of findings is left unmerged:    *)
(* whichever half settles second, somebody has posted the unified RCA.     *)
THEOREM HalvesAreMerged ==
  ASSUME JobsFitIdle
  PROVE  Spec => []SecondFinisherSynthesizes
<1>1. Init => SynthesisInv /\ JoinInv
  BY DEF Init, SynthesisInv, MergerInv, OneMerger, PostedByClaim, Joining, JoinInv, Merged,
         Cross!CrossInit, Cross!BothPresent
<1>2. (TypeInv /\ DeliveryInv /\ HolderOwns) /\ (SynthesisInv /\ JoinInv) /\ [Next]_vars
        => (SynthesisInv /\ JoinInv)'
  BY SynthesisStep, JoinStep
<1>3. TypeInv /\ DeliveryInv /\ HolderOwns /\ JoinInv => SecondFinisherSynthesizes
  <2>1. ASSUME TypeInv, DeliveryInv, HolderOwns, NEW i \in Incidents, NEW e \in Executors,
               Half(e, i), \A c \in Clouds : <<i, c>> \in acked
        PROVE  FALSE
    <3>1. job[e] \in acked
      BY <2>1 DEF Half, Jobs
    <3>2. owner[job[e]] = e
      BY <2>1 DEF Half, HolderOwns, Holds
    <3>. QED BY <2>1, <3>1, <3>2, ExecutorsAssumption
             DEF Half, DeliveryInv, OnePlace, Stream!Pending
  <2>. QED BY <2>1 DEF JoinInv, Merged, SecondFinisherSynthesizes, Calm
<1>. QED BY <1>1, <1>2, <1>3, OwnersKept, PTL DEF Spec

-----------------------------------------------------------------------------
(* The price of a leaked lock.  A lock is abandoned once every job that    *)
(* might still release it is doomed not to: its executor is past the       *)
(* release, or the next one to take it will find its outcome on record and *)
(* skip it.  Each step abandons at most one lock, and none for free.       *)

RowsRecorded ==
  \A j \in Jobs : Status(j) # "absent" \/ j \in aborting => Delivered(j)

LEMMA RecordedStep ==
  ASSUME TypeInv, DeliveryInv, RowsRecorded, [Next]_vars
  PROVE  RowsRecorded'
<1>1. CASE Outside
  BY <1>1 DEF Outside, others, RowsRecorded, Status, Delivered, Stream!Pending
<1>2. ASSUME NEW k \in Jobs, Aborts(k) PROVE RowsRecorded'
  <2>1. Delivered(k)
    BY <1>2 DEF Aborts, RowsRecorded
  <2>. QED BY <1>2, <2>1
           DEF Aborts, RowOnly, RowsRecorded, Status, Delivered, Stream!Pending, streamVars
<1>3. ASSUME NEW e \in Executors, Turns(e) PROVE RowsRecorded'
  <2>1. Delivered(job[e])
    BY <1>3, HeldKept DEF Turns
  <2>2. UNCHANGED <<aborting, owner, acked>> /\ \A j \in Jobs : j # job[e] => row'[j] = row[j]
    BY <1>3 DEF Turns, Elsewhere, streamVars, others
  <2>3. ASSUME NEW j \in Jobs, Status(j)' # "absent" \/ j \in aborting' PROVE Delivered(j)'
    BY <2>1, <2>2, <2>3 DEF RowsRecorded, Status, Delivered, Stream!Pending
  <2>. QED BY <2>3 DEF RowsRecorded
<1>4. ASSUME NEW e \in Executors, Hands(e) PROVE RowsRecorded'
  <2>1. UNCHANGED <<row, aborting>> /\ \A j \in Jobs : Delivered(j) => Delivered(j)'
    BY <1>4 DEF Hands, Sweeps, Picks, Settles, Drops, Dies, Revives, NothingSettles
  <2>. QED BY <2>1 DEF RowsRecorded, Status
<1>. QED BY <1>1, <1>2, <1>3, <1>4, StepKinds

Doomed(j) ==
  \/ \E e \in Executors : job[e] = j /\ at[e] \in Released
  \/ Status(j) \in Final /\ \A e \in Executors : job[e] = j => at[e] = "taken"

Abandoned ==
  {a \in locked : hook.alert # a /\ \A j \in Jobs : Due(j) /\ AlertOf(j) = a => Doomed(j)}

LeakInv == IsFiniteSet(Abandoned) /\ Cardinality(Abandoned) <= crashes + faults

(* A step abandons nothing more, or it costs a crash or a lost call. *)
Costs ==
  \/ Abandoned' \subseteq Abandoned /\ crashes' + faults' >= crashes + faults
  \/ /\ \E x : Abandoned' \subseteq Abandoned \cup {x}
     /\ crashes' + faults' >= crashes + faults + 1

LEMMA CostsCover ==
  ASSUME TypeInv, TypeInv', LeakInv, Costs
  PROVE  LeakInv'
<1> DEFINE A == Abandoned  B == Abandoned'
<1>1. /\ crashes + faults \in Nat /\ crashes' + faults' \in Nat
      /\ IsFiniteSet(A) /\ Cardinality(A) <= crashes + faults
  BY DEF TypeInv, TypeOK, LeakInv
<1>2. CASE B \subseteq A /\ crashes' + faults' >= crashes + faults
  <2>1. IsFiniteSet(B) /\ Cardinality(B) <= Cardinality(A)
    BY <1>1, <1>2, FS_Subset
  <2>. QED BY <1>1, <1>2, <2>1, FS_CardinalityType DEF LeakInv
<1>3. CASE (\E x : B \subseteq A \cup {x}) /\ crashes' + faults' >= crashes + faults + 1
  <2>1. PICK x : B \subseteq A \cup {x}
    BY <1>3
  <2>2. /\ IsFiniteSet(A \cup {x})
        /\ Cardinality(A \cup {x}) = IF x \in A THEN Cardinality(A) ELSE Cardinality(A) + 1
    BY <1>1, FS_AddElement
  <2>3. IsFiniteSet(B) /\ Cardinality(B) <= Cardinality(A \cup {x})
    BY <2>1, <2>2, FS_Subset
  <2>4. {Cardinality(A), Cardinality(B), Cardinality(A \cup {x})} \subseteq Nat
    BY <1>1, <2>2, <2>3, FS_CardinalityType
  <2> HIDE DEF A, B
  <2>5. Cardinality(B) <= crashes' + faults'
    BY <1>1, <1>3, <2>2, <2>3, <2>4
  <2>. QED BY <2>3, <2>5 DEF LeakInv, B
<1>. QED BY <1>2, <1>3 DEF Costs

LEMMA TurnsCost ==
  ASSUME TypeInv, NEW e \in Executors, Turns(e)
  PROVE  Costs
<1> DEFINE x == Issue(e)
<1>1. /\ hook' = hook /\ job' = job /\ crashes' = crashes /\ job[e] \in Jobs
      /\ \A j : AlertOf(j)' = AlertOf(j)
      /\ \A j \in Jobs : Due(j)' <=> Due(j)
      /\ \A j \in Jobs : j # job[e] => Status(j)' = Status(j)
      /\ \A f \in Executors : f # e => at'[f] = at[f]
      /\ x = AlertOf(job[e])
  BY StreamStays DEF Turns, Elsewhere, hookVars, AlertOf, NothingSettles, others, Status, Issue
<1>2. locked' \subseteq locked
  BY DEF Turns, Prepares, Starts, Concludes, Reports, Silent
<1>3. at'[e] # "taken"
  BY DEF Turns, Prepares, Starts, Concludes, Reports, Moves
<1>4. \A j \in Jobs : Doomed(j)' => Doomed(j) \/ (j = job[e] /\ at'[e] \in Released
                                                           /\ at[e] \notin Released)
  BY <1>1, <1>3 DEF Doomed
<1>5. Abandoned' \subseteq Abandoned \cup {x}
  BY <1>1, <1>2, <1>4 DEF Abandoned
<1>6. CASE Paid
  <2>1. crashes' + faults' >= crashes + faults + 1
    BY <1>1, <1>6, Typed DEF Paid
  <2>. QED BY <1>5, <2>1 DEF Costs
<1>7. CASE Free
  <2>1. faults' # faults + 1 /\ crashes' + faults' >= crashes + faults
    BY <1>1, <1>7, Typed DEF Free
  <2>2. at'[e] \in Released /\ at[e] \notin Released => x \notin locked'
    <3>1. ~ (Prepares(e) \/ Starts(e) \/ Concludes(e)) \/ at'[e] \notin Released
      BY DEF Prepares, Starts, Concludes, Moves, Released
    <3>2. Reports(e) /\ at'[e] \in Released /\ at[e] \notin Released => x \notin locked'
      BY <2>1 DEF Reports, Moves, Released, Paid
    <3>. QED BY <3>1, <3>2 DEF Turns
  <2>3. Abandoned' \subseteq Abandoned
    BY <1>1, <1>2, <1>4, <2>2 DEF Abandoned
  <2>. QED BY <2>1, <2>3 DEF Costs
<1>. QED BY <1>6, <1>7 DEF Turns, Elsewhere

LEMMA HandsCost ==
  ASSUME TypeInv, HolderOwns, NEW e \in Executors, Hands(e)
  PROVE  Costs
<1> DEFINE x == Issue(e)
<1>1. /\ hook' = hook /\ locked' = locked /\ row' = row
      /\ \A j : AlertOf(j)' = AlertOf(j)
      /\ \A j : Status(j)' = Status(j)
      /\ \A f \in Executors : f # e => at'[f] = at[f] /\ job'[f] = job[f]
  BY DEF Hands, hookVars, gateVars, AlertOf, Status
<1>2. Nobody \notin Jobs /\ (~Working(e) => job[e] = Nobody)
  BY ExecutorsAssumption DEF HolderOwns
<1>3. CASE Dies(e) /\ crashes' = crashes + 1
  <2>1. \A j \in Jobs : /\ Due(j)' <=> Due(j)
                        /\ Doomed(j)' => Doomed(j) \/ j = job[e]
    BY <1>1, <1>2, <1>3 DEF Dies, NothingSettles, Doomed, Released
  <2>2. Abandoned' \subseteq Abandoned \cup {x}
    BY <1>1, <2>1 DEF Abandoned, Issue
  <2>3. crashes' + faults' >= crashes + faults + 1
    BY <1>3, Typed DEF Dies, Free
  <2>. QED BY <2>2, <2>3 DEF Costs
<1>4. CASE crashes' = crashes /\ (Sweeps(e) \/ Picks(e) \/ Settles(e) \/ Drops(e) \/ Revives(e))
  <2>1. crashes' + faults' >= crashes + faults
    BY <1>4, Typed DEF Sweeps, Picks, Settles, Drops, Revives, Free, Paid
  <2>2. CASE Sweeps(e)
    BY <1>1, <2>1, <2>2 DEF Sweeps, NothingSettles, Doomed, Abandoned, Costs
  <2>3. CASE Picks(e) \/ Revives(e)
    <3>1. job[e] = Nobody /\ at'[e] \notin Released
      BY <1>2, <2>3 DEF Picks, Revives, Moves, Working, Offline, Released
    <3>2. \A j \in Jobs : (Due(j)' <=> Due(j)) /\ (Doomed(j)' => Doomed(j))
      BY <1>1, <1>2, <2>3, <3>1 DEF Picks, Revives, NothingSettles, Doomed
    <3>. QED BY <1>1, <2>1, <3>2 DEF Abandoned, Costs
  <2>4. CASE Settles(e) \/ Drops(e)
    <3>1. job'[e] = Nobody /\ \A j \in Jobs : Due(j) => Due(j)' \/ j = job[e]
      BY <2>4 DEF Settles, Drops, NothingSettles
    <3>2. job[e] \in Jobs => Doomed(job[e])
      BY <2>4, NobodyElse DEF Settles, Drops, Moves, Doomed, Released
    <3>3. \A j \in Jobs : j # job[e] => (Doomed(j)' => Doomed(j))
      BY <1>1, <1>2, <3>1 DEF Doomed
    <3>. QED BY <1>1, <2>1, <3>1, <3>2, <3>3 DEF Abandoned, Costs
  <2>. QED BY <1>4, <2>2, <2>3, <2>4
<1>. QED BY <1>3, <1>4 DEF Hands

LEMMA HooksCost ==
  ASSUME TypeInv, DeliveryInv, RowsRecorded, [Next]_vars, Hooks
  PROVE  Costs
<1>1. /\ UNCHANGED <<at, job, row, crashes>>
      /\ \A j \in Jobs : Due(j) => AlertOf(j)' = AlertOf(j)
      /\ \A j \in Jobs : Doomed(j)' <=> Doomed(j)
  BY DueKept DEF Hooks, Outside, Doomed, Status
<1>2. CASE NothingSettles
  <2>1. \A j \in Jobs : Due(j)' <=> Due(j)
    BY <1>2 DEF NothingSettles
  <2>2. CASE \A a \in locked' : hook'.alert # a => a \in locked /\ hook.alert # a
    <3>1. Abandoned' \subseteq Abandoned
      BY <1>1, <2>1, <2>2 DEF Abandoned
    <3>. QED BY <1>1, <3>1, Typed DEF Costs, Hooks, Outside, Free, Paid
  <2>3. CASE Paid /\ locked' \subseteq locked
    <3>1. Abandoned' \subseteq Abandoned \cup {hook.alert}
      BY <1>1, <2>1, <2>3 DEF Abandoned
    <3>. QED BY <1>1, <2>3, <3>1, Typed DEF Costs, Paid
  <2>4. ASSUME NEW j \in Jobs, Fresh(j) PROVE ~ (Due(j)' <=> Due(j) \/ j = j)
    BY <1>2, <2>4 DEF NothingSettles, Due, Fresh
  <2>. QED BY <1>2, <2>2, <2>3, <2>4, Typed DEF Hooks
<1>3. ASSUME NEW j \in Jobs, AlertOf(j) = hook.alert, Fresh(j),
             \A k \in Jobs : Due(k)' <=> Due(k) \/ k = j,
             alertOf' = alertOf, locked' = locked, Free
      PROVE  Costs
  <2>1. ~Delivered(j) /\ Status(j) = "absent"
    BY <1>3 DEF Fresh, Delivered, RowsRecorded
  <2>2. ~Doomed(j)
    BY <2>1, HeldKept DEF Doomed, Final, Table!FinalStatus
  <2>3. \A k : AlertOf(k)' = AlertOf(k)
    BY <1>3 DEF AlertOf
  <2>4. Abandoned' \subseteq Abandoned
    BY <1>1, <1>3, <2>2, <2>3 DEF Abandoned
  <2>. QED BY <1>1, <1>3, <2>4, Typed DEF Costs, Free
<1>. QED BY <1>2, <1>3 DEF Hooks

LEMMA TicksCost ==
  ASSUME TypeInv, DeliveryInv, [Next]_vars, Ticks
  PROVE  Costs
<1>1. /\ UNCHANGED <<hook, at, job, row, crashes, faults>> /\ locked' \subseteq locked
      /\ \A j \in Jobs : (Due(j)' <=> Due(j)) /\ (Due(j) => AlertOf(j)' = AlertOf(j))
  BY DueKept DEF Ticks, Outside, hookVars, NothingSettles, Free
<1>2. \A j \in Jobs : Doomed(j)' <=> Doomed(j)
  BY <1>1 DEF Doomed, Status
<1>. QED BY <1>1, <1>2, Typed DEF Abandoned, Costs

LEMMA AbortsCost ==
  ASSUME TypeInv, NEW k \in Jobs, Aborts(k)
  PROVE  Costs
<1>1. /\ UNCHANGED <<hook, locked, at, job, crashes>>
      /\ \A j \in Jobs : (Due(j)' <=> Due(j)) /\ AlertOf(j)' = AlertOf(j)
  BY StreamStays DEF Aborts, hookVars, gateVars, NothingSettles, AlertOf
<1>2. \A j \in Jobs : Status(j)' = Status(j) \/ Status(j)' = "aborted"
  BY DEF Aborts, RowOnly, Kept, Status
<1>3. \A j \in Jobs : Doomed(j)' => Doomed(j)
  BY <1>1, <1>2 DEF Doomed, Final, Table!FinalStatus
<1>4. crashes' + faults' >= crashes + faults
  BY <1>1, Typed DEF Aborts, Free, Paid
<1>. QED BY <1>1, <1>3, <1>4 DEF Abandoned, Costs

(* However often executors die and calls are lost, and wherever that hits  *)
(* them, every lock left with nobody to release it took one such loss.     *)
THEOREM LeaksPaidFor ==
  ASSUME JobsFitIdle
  PROVE  Spec => []LeaksAccounted
<1>1. Init => IdleHook /\ RowsRecorded /\ LeakInv
  <2>1. ASSUME Init PROVE IdleHook /\ RowsRecorded
    BY <2>1 DEF Init, Idle, IdleHook, RowsRecorded, Status, Table!TableInit, Table!NoRow
  <2>2. ASSUME Init PROVE Abandoned = {} /\ crashes + faults = 0
    BY <2>2 DEF Init, Abandoned, Gate!GateInit
  <2>. QED BY <2>1, <2>2, FS_EmptySet DEF LeakInv
<1>2. (TypeInv /\ DeliveryInv /\ HolderOwns) /\ (TypeInv /\ DeliveryInv /\ HolderOwns)'
         /\ (IdleHook /\ RowsRecorded /\ LeakInv) /\ [Next]_vars
        => (IdleHook /\ RowsRecorded /\ LeakInv)'
  <2>1. ASSUME TypeInv, TypeInv', DeliveryInv, HolderOwns, IdleHook, RowsRecorded, LeakInv,
               [Next]_vars
        PROVE  LeakInv'
    <3>1. Costs
      BY <2>1, LockSteps, HooksCost, TicksCost, AbortsCost, TurnsCost, HandsCost
    <3>. QED BY <2>1, <3>1, CostsCover
  <2>. QED BY <2>1, IdleHookStep, RecordedStep
<1>3. TypeInv /\ LeakInv => LeaksAccounted
  <2>1. Leaked \subseteq Abandoned
    BY DEF Leaked, Abandoned
  <2>2. ASSUME TypeInv, LeakInv PROVE LeaksAccounted
    <3>1. IsFiniteSet(Leaked) /\ Cardinality(Leaked) <= Cardinality(Abandoned)
      BY <2>1, <2>2, FS_Subset DEF LeakInv
    <3>. QED BY <2>2, <3>1, FS_CardinalityType, Typed DEF LeakInv, LeaksAccounted
  <2>. QED BY <2>2
<1>. QED BY <1>1, <1>2, <1>3, OwnersKept, PTL DEF Spec

=============================================================================
