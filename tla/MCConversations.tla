--------------------------- MODULE MCConversations ---------------------------
(***************************************************************************)
(* An instance for TLC of the modules that people meet: the learning loop, *)
(* Sage, Argus, the cost reports, the chat over HTTP and the live display. *)
(* They share no state, so each behaviour is one of a single module, which *)
(* Init picks; the others are in one of their initial states.              *)
(***************************************************************************)
EXTENDS MCFeedback, SageBot, ArgusBot, CostReport, ChatEngine, LiveEvents

VARIABLE moving   (* the module that takes the steps *)

ConversationsInit ==
  /\ moving \in {"feedback", "sage", "terminal", "argus", "costs", "chat", "bus"}
  /\ FeedbackInit /\ SageInit /\ ArgusInit /\ CostInit /\ ChatInit /\ BusInit
  /\ moving # "bus" => overRedis

ConversationsNext ==
  /\ UNCHANGED moving
  /\ \/ moving = "feedback" /\ FeedbackNext /\ UNCHANGED <<sageVars, argusVars, costVars, chatVars, busVars>>
     \/ moving \in {"sage", "terminal"} /\ SageNext /\ UNCHANGED <<feedbackVars, argusVars, costVars, chatVars, busVars>>
     \/ moving = "argus" /\ ArgusNext /\ UNCHANGED <<feedbackVars, sageVars, costVars, chatVars, busVars>>
     \/ moving = "costs" /\ CostNext /\ UNCHANGED <<feedbackVars, sageVars, argusVars, chatVars, busVars>>
     \/ moving = "chat" /\ ChatNext /\ UNCHANGED <<feedbackVars, sageVars, argusVars, costVars, busVars>>
     \/ moving = "bus" /\ BusNext /\ UNCHANGED <<feedbackVars, sageVars, argusVars, costVars, chatVars>>

ConversationsSpec ==
  ConversationsInit
    /\ [][ConversationsNext]_<<moving, feedbackVars, sageVars, argusVars, costVars, chatVars, busVars>>

(* Ten days of a service's costs, the last of them partial: nothing odd, a *)
(* spike yesterday, one today, a creep, and one today beside a service that*)
(* is new.                                                                 *)
Days(n, cost) == [d \in 1 .. n |-> cost]

TenDays ==
  {("ec2" :> Days(9, 10) \o <<4>>), ("ec2" :> Days(8, 10) \o <<30, 4>>),
   ("ec2" :> Days(9, 10) \o <<30>>), ("ec2" :> Days(6, 10) \o Days(4, 12)),
   ("ec2" :> Days(9, 10) \o <<12>>) @@ ("rds" :> Days(9, 0) \o <<20>>)}

(* Bounds: the terminal is used in behaviours of their own, beside one     *)
(* thread of questions to the oracle that no fault disturbs.               *)
InUse(t) == {live[t], resuming[t]} # {NoSession}

TerminalApart ==
  /\ moving = "sage" => terminal = Closed
  /\ moving = "terminal" =>
       /\ slackFaults = 0 /\ botRestarts = 0
       /\ \A t, u \in Threads : InUse(t) /\ InUse(u) => t = u
       /\ \A q \in Questions : run[q].kind # "debug"

Bounded == StudioFirst /\ TerminalApart
=============================================================================
