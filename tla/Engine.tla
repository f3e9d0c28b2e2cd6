------------------------------- MODULE Engine -------------------------------
(***************************************************************************)
(* One investigation in the engine (core/engine.py stream_investigate): a  *)
(* scan by sub-agents, then steps in which the conversation is compacted   *)
(* if it is too long, the LLM is asked and streams its answer, tools start *)
(* in a thread pool while it does, their results are collected before a    *)
(* deadline, and the conversation is checkpointed.  The process may die    *)
(* and another one resume from the checkpoint (server.py                   *)
(* _resume_investigation, core/engine.py resume_messages).                 *)
(*                                                                         *)
(* Composes Transcript, LoopGuard, ToolPool and SubAgents.  The LLM may    *)
(* answer anything, fail at any point of a stream, and number the calls of *)
(* each answer alike: a call's id is its position in the answer.           *)
(***************************************************************************)
EXTENDS Naturals, Sequences, FiniteSets

CONSTANTS
  Calls, NoCall,
  Domains, MaxTurns,
  MaxSteps,        (* max_steps *)
  MaxCalls,        (* bounds the calls of an answer *)
  MaxRetries,      (* _MAX_LLM_RETRIES *)
  MaxIdentical,    (* MAX_IDENTICAL_CALLS *)
  Workers,         (* threads in the pool, 16 in the code *)
  VerifyAfter, VerifyEvery,
  MaxToolTurns,    (* bounds the conversation: answers with tool calls *)
  MaxMishaps       (* bounds compactions, deaths, failed streams and failed
                      calls to the table, together *)

ASSUME EngineAssumption ==
  /\ NoCall \notin Calls
  /\ {MaxSteps, MaxCalls, MaxRetries, MaxIdentical, Workers, VerifyEvery} \subseteq Nat \ {0}
  /\ {MaxTurns, VerifyAfter, MaxToolTurns, MaxMishaps} \subseteq Nat

VARIABLES
  pc,          (* where the run is *)
  step,
  attempt,     (* failed LLM attempts of this step *)
  turn,        (* the calls of the current answer and what became of them *)
  futures,     (* positions dispatched and not collected, in dispatch order *)
  messages,    (* the conversation *)
  nudged,      (* _zero_tool_nudged *)
  saved,       (* the checkpointed conversation *)
  aborted,     (* an abort is on record *)
  compactions, deaths, failures, faults,   (* mishaps so far *)
  shuffled,    (* history: replies have been put back in another order *)
  shown,       (* history: calls whose output this process put into the
                  conversation *)
  counts, recorded,                  (* LoopGuard *)
  pool, starts,                      (* ToolPool *)
  scan, agent, turns, findings       (* SubAgents *)

T     == INSTANCE Transcript
Guard == INSTANCE LoopGuard
Pool  == INSTANCE ToolPool
Scan  == INSTANCE SubAgents

guardVars == <<counts, recorded>>
poolVars  == <<pool, starts>>
scanVars  == <<scan, agent, turns, findings>>
mishaps   == <<compactions, deaths, failures, faults>>
turnVars  == <<turn, futures>>

vars == <<pc, step, attempt, turnVars, messages, nudged, saved,
          aborted, mishaps, shuffled, shown, guardVars, poolVars, scanVars>>

Places == {"before", "top", "asking", "collecting", "dead"} \cup
          {"concluded", "aborted", "failed", "exhausted"}

Ended == {"concluded", "aborted", "failed", "exhausted"}

Fates == {"new", "refused", "started", "answered", "timedout"}

Offered(c)     == [call |-> c, fate |-> "new", from |-> NoCall]
Answered(c, o) == [call |-> c, fate |-> "answered", from |-> o]

-----------------------------------------------------------------------------

Init ==
  /\ pc = "before"
  /\ step = 0
  /\ attempt = 0
  /\ turn = <<>>
  /\ futures = <<>>
  /\ messages = <<>>
  /\ nudged = FALSE
  /\ saved = <<>>
  /\ aborted = FALSE
  /\ compactions = 0
  /\ deaths = 0
  /\ failures = 0
  /\ faults = 0
  /\ shuffled = FALSE
  /\ shown = {}
  /\ Guard!GuardInit
  /\ Pool!PoolInit
  /\ Scan!ScanInit

MayFail == compactions + deaths + failures + faults < MaxMishaps

Slip == MayFail /\ faults' = faults + 1

(* Mutant: the row's conversation is written once and not updated. *)
CheckpointOnce(m) ==
  /\ saved' = IF saved = <<>> THEN m ELSE saved
  /\ UNCHANGED faults

(* checkpoint_investigation; a failure is logged and the run goes on. *)
Checkpoint(m) == \/ saved' = m /\ UNCHANGED faults
                 \/ Slip /\ UNCHANGED saved

-----------------------------------------------------------------------------
(* Before the first step.                                                  *)

loopVars == <<step, attempt, turnVars, nudged, saved, mishaps, shuffled,
              shown, guardVars, poolVars>>

SubAgentsStep ==
  /\ pc = "before"
  /\ \/ Scan!Skip \/ Scan!Launch \/ Scan!Deadline \/ Scan!Leave
     \/ \E d \in Domains : Scan!AgentTurn(d) \/ Scan!AgentEnds(d) \/ Scan!ReadFinding(d)
  /\ UNCHANGED <<pc, messages, loopVars, aborted>>

(* build_messages; findings, if any, are a part of the question here. *)
Begin ==
  /\ pc = "before"
  /\ Scan!Hand
  /\ messages' = <<T!Ask>>
  /\ pc' = "top"
  /\ UNCHANGED <<loopVars, aborted>>

-----------------------------------------------------------------------------
(* The top of a step.                                                      *)

outside == UNCHANGED <<deaths, aborted, shown, scanVars>>

SeesAbort ==
  /\ pc = "top"
  /\ step < MaxSteps
  /\ aborted
  /\ Checkpoint(messages)
  /\ pc' = "aborted"
  /\ UNCHANGED <<step, attempt, turnVars, messages, nudged, compactions, failures, shuffled, guardVars, poolVars>>
  /\ outside

Verified(m) ==
  IF step >= VerifyAfter /\ (step - VerifyAfter) % VerifyEvery = 0
  THEN Append(m, T!Ask) ELSE m

(* compact_messages found the conversation too long.  A summary replaces   *)
(* it; but none can be made of one with images, and then replies are cut,  *)
(* unless they fit or there is none.  Whether there are images is left     *)
(* open, so that a run here may meet both.                                 *)
Compacted(m) == {T!Summarized, m} \cup T!Refilled(m)

NoCompaction == messages' = Verified(messages) /\ UNCHANGED <<compactions, shuffled, counts>>

Compaction ==
  /\ MayFail
  /\ compactions' = compactions + 1
  /\ messages' \in Compacted(Verified(messages))
  /\ shuffled' = (shuffled \/ messages' \notin {T!Summarized, Verified(messages)})
  /\ Guard!Reset

(* is_aborted takes an unreadable table for no. *)
AskLLM ==
  /\ pc = "top"
  /\ step < MaxSteps
  /\ \/ ~aborted /\ UNCHANGED faults
     \/ aborted /\ Slip
  /\ NoCompaction \/ Compaction
  /\ pc' = "asking"
  /\ attempt' = 0
  /\ UNCHANGED <<step, turnVars, nudged, saved, failures, recorded, poolVars>>
  /\ outside

RunsOut ==
  /\ pc = "top"
  /\ step = MaxSteps
  /\ pc' = "exhausted"
  /\ UNCHANGED <<step, attempt, turnVars, messages, nudged, saved, compactions, failures,
                 faults, shuffled, guardVars, poolVars>>
  /\ outside

-----------------------------------------------------------------------------
(* The answer streams in.                                                  *)

midStep == UNCHANGED <<step, nudged, saved, compactions, faults, shuffled>> /\ outside

(* _check_tool_allowed, and submission to the pool.  (Approvals and the    *)
(* bash policy are not used by investigations of alerts.)                  *)
Dispatch(i, t) ==
  LET c  == t[i].call
      ok == Guard!IsAllowed(c)
  IN /\ Guard!Count(c)
     /\ turn' = [t EXCEPT ![i].fate = IF ok THEN "started" ELSE "refused"]
     /\ futures' = IF ok THEN Append(futures, i) ELSE futures
     /\ IF ok THEN Pool!Submit(c, i) ELSE UNCHANGED poolVars
     /\ UNCHANGED recorded

(* A call's arguments are complete: it starts while the stream goes on; or *)
(* the stream does not say so, and it is left for later.                   *)
CallArrives(c) ==
  /\ pc = "asking"
  /\ Len(turn) < MaxCalls
  /\ T!NextTurn(messages) <= MaxToolTurns
  /\ \/ Dispatch(Len(turn) + 1, Append(turn, Offered(c)))
     \/ turn' = Append(turn, Offered(c)) /\ UNCHANGED <<futures, guardVars, poolVars>>
  /\ UNCHANGED <<pc, attempt, messages, failures>>
  /\ midStep

(* Mutant: a retry keeps the list of futures of the attempt before it. *)
FailedAttemptKeepingFutures ==
  /\ pc = "asking"
  /\ MayFail
  /\ failures' = failures + 1
  /\ attempt' = attempt + 1
  /\ pc' = IF attempt' = MaxRetries THEN "failed" ELSE "asking"
  /\ turn' = <<>>
  /\ UNCHANGED <<messages, futures, guardVars>>
  /\ midStep

FailedAttempt ==
  /\ pc = "asking"
  /\ MayFail
  /\ failures' = failures + 1
  /\ attempt' = attempt + 1
  /\ pc' = IF attempt' = MaxRetries THEN "failed" ELSE "asking"
  /\ turn' = <<>>
  /\ futures' = <<>>
  /\ UNCHANGED <<messages, guardVars>>
  /\ midStep

(* Mutant: the futures of the failed attempt are not cancelled. *)
StreamFailsKeepingFutures == FailedAttempt /\ UNCHANGED poolVars

(* The stream raises; after the third time the run is given up, without a  *)
(* checkpoint.  What was counted stays counted.                            *)
StreamFails == FailedAttempt /\ Pool!CancelTurn

CallsOf(t) == [i \in DOMAIN t |-> t[i].call]

StreamEnds ==
  /\ pc = "asking"
  /\ turn # <<>>
  /\ messages' = Append(messages, T!CallsMsg(T!NextTurn(messages), CallsOf(turn)))
  /\ pc' = "collecting"
  /\ UNCHANGED <<attempt, turnVars, guardVars, poolVars, failures>>
  /\ midStep

Left == {i \in DOMAIN turn : turn[i].fate = "new"}

DispatchLeft ==
  /\ pc = "collecting"
  /\ \E i \in Left : (\A k \in Left : i <= k) /\ Dispatch(i, turn)
  /\ UNCHANGED <<pc, attempt, messages, failures>>
  /\ midStep

-----------------------------------------------------------------------------
(* Results are collected in the order of dispatch.                         *)

CollectResult ==
  /\ pc = "collecting"
  /\ Left = {}
  /\ futures # <<>>
  /\ \E k \in Pool!WaitedFor(Head(futures)) :
       /\ Pool!TakeResult(k)
       /\ Guard!Record(pool[k].call)
       /\ turn' = [turn EXCEPT ![Head(futures)] = Answered(@.call, pool[k].call)]
  /\ futures' = Tail(futures)
  /\ UNCHANGED <<pc, attempt, messages, counts, failures>>
  /\ midStep

(* Mutant: result() without a timeout, which returns only with a result. *)
CollectWithoutTimeout ==
  /\ pc = "collecting"
  /\ futures # <<>>
  /\ Pool!WaitedFor(Head(futures)) \subseteq Pool!InState("finished")
  /\ UNCHANGED vars

(* The deadline passes: the call is answered with an error, the tool stays *)
(* where it is.                                                            *)
CollectTimesOut ==
  /\ pc = "collecting"
  /\ Left = {}
  /\ futures # <<>>
  /\ \E k \in Pool!WaitedFor(Head(futures)) : Pool!GiveUp(k)
  /\ turn' = [turn EXCEPT ![Head(futures)].fate = "timedout"]
  /\ futures' = Tail(futures)
  /\ UNCHANGED <<pc, attempt, messages, guardVars, failures>>
  /\ midStep

(* Mutant: calls whose tool gave no result get no reply. *)
RepliesWithResults ==
  LET HasResult(r) == r.from # NoCall
      n == T!NextTurn(messages) - 1
  IN SelectSeq([i \in DOMAIN turn |-> T!ReplyMsg(n, i, turn[i].from)], HasResult)

Replies ==
  LET n == T!NextTurn(messages) - 1
  IN [i \in DOMAIN turn |-> T!ReplyMsg(n, i, turn[i].from)]

ReplyAll ==
  /\ pc = "collecting"
  /\ Left = {}
  /\ futures = <<>>
  /\ messages' = messages \o Replies
  /\ Checkpoint(messages')
  /\ pc' = "top"
  /\ step' = step + 1
  /\ turn' = <<>>
  /\ UNCHANGED <<attempt, futures, nudged, compactions, failures, shuffled, guardVars, poolVars>>
  /\ shown' = shown \cup {c \in Calls : \E i \in DOMAIN turn : turn[i].from = c}
  /\ UNCHANGED <<deaths, aborted, scanVars>>

-----------------------------------------------------------------------------
(* An answer without tool calls.                                           *)

answerUnchanged ==
  UNCHANGED <<attempt, turnVars, compactions, failures, shuffled, guardVars, poolVars>> /\ outside

(* The first one that comes before any output is sent back; the step is    *)
(* spent, and not checkpointed.                                            *)
Nudge ==
  /\ pc = "asking"
  /\ turn = <<>>
  /\ recorded = {}
  /\ ~nudged
  /\ nudged' = TRUE
  /\ messages' = messages \o <<T!Text, T!Ask>>
  /\ pc' = "top"
  /\ step' = step + 1
  /\ UNCHANGED <<saved, faults>>
  /\ answerUnchanged

Conclude ==
  /\ pc = "asking"
  /\ turn = <<>>
  /\ recorded # {} \/ nudged
  /\ messages' = Append(messages, T!Text)
  /\ Checkpoint(messages')
  /\ pc' = "concluded"
  /\ UNCHANGED <<step, nudged>>
  /\ answerUnchanged

-----------------------------------------------------------------------------
(* Tools, the console, and the process.                                    *)

(* Threads outlive the run: the pool is not shut down with its queue. *)
ToolEnds(k) ==
  /\ Pool!EndTool(k)
  /\ UNCHANGED <<pc, step, attempt, turnVars, messages, nudged, saved, compactions,
                 failures, faults, shuffled, guardVars>>
  /\ outside

(* An abort that comes within a step is seen at the top of the next. *)
RequestAbort ==
  /\ ~aborted
  /\ pc \in {"top", "dead"}
  /\ aborted' = TRUE
  /\ UNCHANGED <<pc, messages, loopVars, scanVars>>

(* The process's memory is gone, its tools with it. *)
Die ==
  /\ pc \notin Ended \cup {"before", "dead"}
  /\ MayFail
  /\ deaths' = deaths + 1
  /\ pc' = "dead"
  /\ step' = 0
  /\ attempt' = 0
  /\ turn' = <<>>
  /\ futures' = <<>>
  /\ messages' = <<>>
  /\ nudged' = FALSE
  /\ shown' = {}
  /\ pool' = <<>>
  /\ Guard!FreshGuard
  /\ UNCHANGED <<saved, aborted, compactions, failures, faults, shuffled,
                 starts, scanVars>>

(* The reaper finds the row orphaned, unless it is aborted.  Without a     *)
(* checkpoint the run has failed; with one it goes on from there, with a   *)
(* fresh guard and no outputs.                                             *)
Resume ==
  /\ pc = "dead"
  /\ ~aborted
  /\ pc' = IF saved = <<>> THEN "failed" ELSE "top"
  /\ messages' = saved
  /\ UNCHANGED <<step, attempt, turnVars, nudged, saved, aborted, mishaps,
                 shuffled, shown, guardVars, poolVars, scanVars>>

-----------------------------------------------------------------------------

Steps == \/ Begin \/ SeesAbort \/ AskLLM \/ RunsOut
         \/ StreamFails \/ StreamEnds \/ DispatchLeft
         \/ CollectResult \/ CollectTimesOut \/ ReplyAll
         \/ Nudge \/ Conclude \/ Resume
         \/ \E c \in Calls : CallArrives(c)

Next == \/ SubAgentsStep \/ Steps
        \/ \E k \in DOMAIN pool : ToolEnds(k)
        \/ RequestAbort \/ Die

Spec == Init /\ [][Next]_vars

(* Sub-agents' tools have timeouts of their own; the engine does not wait  *)
(* for its tools, which need never end.                                    *)
FairSpec == Spec /\ WF_vars(SubAgentsStep) /\ WF_vars(Steps)
=============================================================================
