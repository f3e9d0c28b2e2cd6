-------------------------- MODULE EngineProperties --------------------------
(***************************************************************************)
(* What an investigation promises.                                         *)
(***************************************************************************)
EXTENDS Engine

(* Every variable holds values of its type. *)
EngineTypeOK ==
  /\ pc \in Places
  /\ step \in 0..MaxSteps
  /\ attempt \in 0..MaxRetries
  /\ Len(turn) <= MaxCalls
  /\ \A i \in DOMAIN turn :
       /\ turn[i].call \in Calls
       /\ turn[i].fate \in Fates
       /\ turn[i].from \in Calls \cup {NoCall}
  /\ \A n \in DOMAIN futures : futures[n] \in DOMAIN turn
  /\ {nudged, aborted, shuffled} \subseteq BOOLEAN
  /\ shown \subseteq Calls
  /\ Guard!GuardTypeOK
  /\ Pool!PoolTypeOK
  /\ Scan!ScanTypeOK

(* What the LLM is sent, and what a later process would resume from, has   *)
(* exactly one reply for every tool call, whatever was refused, timed out, *)
(* retried, compacted or lost in a crash; and the replies follow their     *)
(* calls in order, unless replies have been cut to fit.                    *)
ConversationSound ==
  /\ pc \in {"top", "asking"} => T!AllAnswered(messages) /\ (shuffled \/ T!InOrder(messages))
  /\ T!AllAnswered(saved) /\ (shuffled \/ T!InOrder(saved))

(* A reply that holds an output holds the output of the call it answers,   *)
(* although tools of failed attempts and abandoned ones end at any time    *)
(* and ids repeat.                                                         *)
OwnOutput(r, m) ==
  \A k \in T!Slots(m, "calls") :
    m[k].turn = r.turn => r.from \in {NoCall, m[k].calls[r.pos]}

RepliesAnswerTheirCall ==
  \A k \in T!Slots(messages, "reply") : OwnOutput(messages[k], messages)

(* However the model, failing streams and timeouts conspire, the same call *)
(* is started at most MaxIdentical times between two compactions or        *)
(* resumptions.                                                            *)
StartsBounded ==
  \A c \in Calls : starts[c] <= MaxIdentical * (1 + compactions + deaths)

(* A call whose output the model has been shown by this process is never   *)
(* dispatched again, not even after the conversation was compacted or a    *)
(* stream failed.                                                          *)
Dispatched(i) ==
  /\ i \in DOMAIN turn'
  /\ turn'[i].fate = "started"
  /\ i \in DOMAIN turn => turn[i].fate # "started"

NeverTwiceOnceAnswered ==
  [][\A i \in 1..MaxCalls : Dispatched(i) => turn'[i].call \notin shown]_vars

(* Unless a checkpoint failed to be written, what a crash loses is the     *)
(* step under way and the prompts that open it: every output the model was *)
(* shown in an earlier step is in the checkpoint, unless a summary has     *)
(* replaced it there or in the conversation.                               *)
CheckpointCurrent ==
  faults = 0 /\ compactions = 0 /\ pc \in {"top", "asking"} =>
    \A k \in T!Slots(messages, "reply") :
      \E l \in DOMAIN saved : saved[l] = messages[k]

(* The main investigation starts after the last sub-agent has ended, and a *)
(* scan that returned has a finding of every domain.                       *)
ScanIsBarrier ==
  scan \in {"returned", "raised"} =>
    /\ \A d \in Domains : agent[d] = "done"
    /\ scan = "returned" => findings = Domains

(* An investigation comes to an end though tools may hang for ever and the *)
(* LLM may fail; only an abort can leave a dead one where it is.           *)
EngineEnds == <>(pc \in Ended \/ (pc = "dead" /\ aborted))
=============================================================================
