----------------------------- MODULE ChatEngine -----------------------------
(***************************************************************************)
(* The request/response engine behind POST /api/investigate                *)
(* (core/engine.py, investigate): it answers in one piece, and may stop    *)
(* for the approval of tool calls, which come back with the client's next  *)
(* request.  The streaming engine is Engine.                               *)
(*                                                                         *)
(* A call's id is new with each answer of the LLM.  The LLM is external,   *)
(* and refuses a conversation that holds a call without a reply.           *)
(***************************************************************************)
EXTENDS Naturals

CONSTANTS
  MaxChatSteps,     (* max_steps *)
  CallsPerAnswer,   (* bounds the tool calls of an answer *)
  MaxRequests       (* bounds the requests of a conversation *)

ASSUME ChatAssumption ==
  MaxChatSteps \in Nat \ {0} /\ CallsPerAnswer \in Nat /\ MaxRequests \in Nat

MaxLlmTries == 3

VARIABLES
  chat,       (* the request being served *)
  history,    (* what the client has got back: calls, and those with a reply *)
  requests

chatVars == <<chat, history, requests>>

Calls == (1 .. MaxRequests) \X (1 .. MaxChatSteps) \X (1 .. CallsPerAnswer)

Kinds == {"bash", "other"}

(* What a request says of approvals.  A decision names a call of an        *)
(* earlier answer; only the prefixes it says to remember matter to calls   *)
(* with new ids.                                                           *)
Options == [needed : BOOLEAN, bash : {"ask", "allow", "deny"}, prefix : BOOLEAN]

NoOptions == [needed |-> FALSE, bash |-> "ask", prefix |-> FALSE]

Quiet == [at |-> "idle", options |-> NoOptions, step |-> 0, tries |-> 0,
          asked |-> {}, replied |-> {}, now |-> {}, run |-> {}, done |-> {}, refused |-> {},
          pending |-> {}, outcome |-> "none"]

ChatInit ==
  /\ chat = Quiet
  /\ history = [asked |-> {}, replied |-> {}, pending |-> {}]
  /\ requests = 0

(* Messages of the history are sent as they are. *)
StartChat ==
  /\ chat.at = "idle" /\ requests < MaxRequests
  /\ requests' = requests + 1
  /\ \E o \in Options :
       chat' = [Quiet EXCEPT !.at = "asking", !.options = o, !.step = 1,
                             !.asked = history.asked, !.replied = history.replied]
  /\ UNCHANGED history

wellFormed == chat.asked = chat.replied

(* Before the last step has been used up, the LLM is asked again after an  *)
(* error; a third one in a row is raised, and the client gets a 500.       *)
LlmRefuses ==
  /\ chat.at = "asking" /\ chat.step <= MaxChatSteps
  /\ chat' = IF chat.tries + 1 >= MaxLlmTries
             THEN [Quiet EXCEPT !.outcome = "raised"]
             ELSE [chat EXCEPT !.tries = @ + 1]
  /\ UNCHANGED <<history, requests>>

Return(outcome) ==
  /\ history' = [asked |-> chat.asked, replied |-> chat.replied, pending |-> chat.pending]
  /\ chat' = [Quiet EXCEPT !.outcome = outcome]
  /\ UNCHANGED requests

LlmConcludes ==
  /\ chat.at = "asking" /\ chat.step <= MaxChatSteps /\ wellFormed
  /\ Return("answer")

LlmCallsTools ==
  /\ chat.at = "asking" /\ chat.step <= MaxChatSteps /\ wellFormed
  /\ \E n \in 1 .. CallsPerAnswer :
       LET new == {<<requests, chat.step, k>> : k \in 1 .. n} IN
       chat' = [chat EXCEPT !.at = "checking", !.tries = 0, !.now = new,
                            !.asked = @ \cup new]
  /\ UNCHANGED <<history, requests>>

(* The guard of repeated calls, then the rules for bash, then approval.    *)
Verdict(o, kind, repeated, matches) ==
  IF repeated THEN "refused"
  ELSE IF kind = "bash" THEN
    IF o.bash = "deny" THEN "refused"
    ELSE IF o.bash = "allow" \/ ~o.needed \/ (o.prefix /\ matches) THEN "run"
    ELSE "pending"
  ELSE IF o.needed THEN "pending" ELSE "run"

Verdicts(o) == {Verdict(o, kind, repeated, matches) :
                  kind \in Kinds, repeated \in BOOLEAN, matches \in BOOLEAN}

Having(verdicts, v) == {c \in DOMAIN verdicts : verdicts[c] = v}

CheckCalls ==
  /\ chat.at = "checking"
  /\ \E verdicts \in [chat.now -> Verdicts(chat.options)] :
       chat' = [chat EXCEPT !.at = "running", !.run = Having(verdicts, "run"),
                            !.refused = Having(verdicts, "refused"),
                            !.pending = Having(verdicts, "pending")]
  /\ UNCHANGED <<history, requests>>

(* A tool that fails, or that is late, is answered with the error. *)
ToolEnds ==
  /\ chat.at = "running"
  /\ \E c \in chat.run \ chat.done :
       \/ chat' = [chat EXCEPT !.done = @ \cup {c}]
       \/ chat' = [chat EXCEPT !.run = @ \ {c}, !.refused = @ \cup {c}]
  /\ UNCHANGED <<history, requests>>

(* as_completed gives up after 300 seconds and raises out of investigate,  *)
(* once the pool's exit has waited for the tools.                          *)
ToolsTimeOut ==
  /\ chat.at = "running" /\ chat.run # chat.done
  /\ chat' = [Quiet EXCEPT !.outcome = "raised"]
  /\ UNCHANGED <<history, requests>>

(* Mutant: calls that wait for approval are answered like refused ones. *)
AnsweredAll == chat.refused \cup chat.done \cup chat.pending

Answered == chat.refused \cup chat.done

(* Replies in the order of the calls; large outputs have been compressed,  *)
(* together or one by one, without losing any.                             *)
AppendReplies ==
  /\ chat.at = "running" /\ chat.run = chat.done
  /\ chat' = [chat EXCEPT !.at = IF chat.pending = {} THEN "asking" ELSE "stopping",
                          !.replied = @ \cup Answered, !.step = @ + 1,
                          !.now = {}, !.run = {}, !.done = {}, !.refused = {}]
  /\ UNCHANGED <<history, requests>>

StopForApproval == chat.at = "stopping" /\ Return("pending")

(* Out of steps: one more answer, without tools; an error is not raised.   *)
Synthesize ==
  /\ chat.at = "asking" /\ chat.step > MaxChatSteps
  /\ Return("answer")

(* The client starts a conversation of its own, or drops the calls that    *)
(* nobody has answered from the one it has.                                *)
ClientEdits ==
  /\ chat.at = "idle" /\ history.asked # {}
  /\ \E kept \in {{}, history.replied} :
       history' = [asked |-> kept, replied |-> kept, pending |-> {}]
  /\ UNCHANGED <<chat, requests>>

ChatNext ==
  \/ StartChat \/ LlmRefuses \/ LlmConcludes \/ LlmCallsTools \/ CheckCalls
  \/ ToolEnds \/ ToolsTimeOut \/ AppendReplies \/ StopForApproval
  \/ Synthesize \/ ClientEdits

ChatSpec == ChatInit /\ [][ChatNext]_chatVars
-----------------------------------------------------------------------------
(* The calls without a reply in the conversation a client gets back are    *)
(* exactly those it is asked to approve, however calls were refused, run,  *)
(* failed or timed out before the request stopped: the client can always   *)
(* tell what to answer.                                                    *)
UnansweredArePending == history.asked \ history.replied = history.pending
=============================================================================
