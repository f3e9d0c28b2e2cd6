---------------------------- MODULE PeopleProofs -----------------------------
(***************************************************************************)
(* Proofs about the modules that people meet: reports in Slack (ArgusBot), *)
(* the chat engine, Sage's sessions and debug runs (SageBot), the cost     *)
(* report, live events, and the learning loop (Feedback).  Each part       *)
(* states its inductive invariant first, then has a lemma per group of     *)
(* actions, and ends in its theorem.                                       *)
(***************************************************************************)
EXTENDS Feedback, ArgusBot, ChatEngine, SageBot, CostReport, LiveEvents, SequenceTheorems,
        FiniteSetTheorems, TLAPS

-----------------------------------------------------------------------------
(* ArgusBot: the lock of the dispatch. *)

(* The lock is why.  An event is active from the moment it holds the lock  *)
(* until its run ends: active events hold their keys, and no two the same. *)
Active(e) == e \in reportRuns \/ event[e].at = "queueing"

LockInv ==
  /\ DOMAIN posted = Messages /\ DOMAIN event = Events /\ reportRuns \subseteq Events
  /\ \A e \in Events : event[e].at # "none" => posted[e[1]] # NotPosted
  /\ \A e \in reportRuns : event[e].at = "over"
  /\ \A e \in Events : Active(e) => ReportKey(e) \in reportLocks
  /\ \A e, f \in Events : Active(e) /\ Active(f) /\ ReportKey(e) = ReportKey(f) => e = f

(* A handler that neither takes a lock nor starts a run keeps the          *)
(* invariant wherever it goes, unless it forgets a lock it holds.          *)
LEMMA HandlerMoves ==
  ASSUME LockInv, NEW e \in Events, NEW entry,
         event' = [event EXCEPT ![e] = entry], entry.at \notin {"none", "queueing"},
         posted[e[1]] # NotPosted, event[e].at \notin {"queueing", "over"},
         UNCHANGED <<posted, reportLocks, reportRuns>>
  PROVE  LockInv'
<1>1. \A f \in Events : f # e => event'[f] = event[f]
  BY DEF LockInv
<1>2. event'[e] = entry
  BY DEF LockInv
<1>3. \A f \in Events : Active(f)' => Active(f) /\ f # e
  BY <1>1, <1>2 DEF Active, LockInv
<1>4. \A f \in Events : ReportKey(f)' = ReportKey(f)
  BY DEF ReportKey, IsAlarm
<1> QED
  BY <1>1, <1>2, <1>3, <1>4 DEF LockInv

(* The steps of one event's handler. *)
LEMMA HandlerStep ==
  ASSUME LockInv, NEW e \in Events,
         \/ Arrive(e) \/ RelayAlarm(e) \/ Prune(e) \/ LookUp(e) \/ MarkSeen(e) \/ Filter(e)
         \/ Dispatch(e) \/ QueueReport(e) \/ ReportEnds(e)
  PROVE  LockInv'
<1> DEFINE Entry(at) == [Idle EXCEPT !.at = at]
<1>at. \A at : Entry(at).at = at
  BY DEF Idle
<1>posted. event[e].at # "none" => posted[e[1]] # NotPosted
  BY DEF LockInv
<1>1. CASE Arrive(e)
  BY <1>1, <1>at, HandlerMoves DEF Arrive, Goes, Stays
<1>2. CASE RelayAlarm(e)
  BY <1>2, <1>at, <1>posted, HandlerMoves DEF RelayAlarm, Goes
<1>3. CASE Prune(e)
  BY <1>3, <1>at, <1>posted, HandlerMoves DEF Prune, Goes, Stays
<1>4. CASE LookUp(e)
  BY <1>4, <1>at, <1>posted, HandlerMoves DEF LookUp, Goes, Stays
<1>5. CASE MarkSeen(e)
  BY <1>5, <1>at, <1>posted, HandlerMoves DEF MarkSeen, Goes, Stays
<1>6. CASE Filter(e)
  BY <1>6, <1>at, <1>posted, HandlerMoves DEF Filter, Goes, Stays
<1>7. CASE Dispatch(e)
  <2>1. CASE AcquireReport(ReportKey(e)) /\ Goes(e, "queueing")
    <3>1. /\ event' = [event EXCEPT ![e] = Entry("queueing")]
          /\ reportLocks' = reportLocks \cup {ReportKey(e)} /\ ReportKey(e) \notin reportLocks
          /\ UNCHANGED <<posted, reportRuns>>
      BY <1>7, <2>1 DEF Dispatch, AcquireReport, Goes
    <3>2. \A f \in Events : ReportKey(f)' = ReportKey(f)
      BY <3>1 DEF ReportKey, IsAlarm
    <3>3. \A f \in Events : f # e => event'[f] = event[f]
      BY <3>1 DEF LockInv
    <3>4. event'[e].at = "queueing" /\ e \notin reportRuns /\ posted[e[1]] # NotPosted
      BY <1>7, <3>1, <1>at, <1>posted DEF LockInv, Dispatch
    <3>5. \A f \in Events : f # e => (Active(f)' <=> Active(f))
      BY <3>1, <3>3 DEF Active
    <3>6. \A f \in Events : Active(f) => ReportKey(f) # ReportKey(e)
      BY <3>1 DEF LockInv
    <3> QED
      BY <3>1, <3>2, <3>3, <3>4, <3>5, <3>6 DEF LockInv
  <2>2. CASE ReportKey(e) \in reportLocks /\ Goes(e, "over") /\ UNCHANGED reportLocks
    BY <1>7, <2>2, <1>at, <1>posted, HandlerMoves DEF Dispatch, Goes
  <2> QED
    BY <1>7, <2>1, <2>2 DEF Dispatch
<1>8. CASE QueueReport(e)
  <2>1. /\ event' = [event EXCEPT ![e] = Entry("over")] /\ event[e].at = "queueing"
        /\ reportRuns' \subseteq reportRuns \cup {e}
        /\ UNCHANGED <<posted, reportLocks>>
    BY <1>8 DEF QueueReport, Goes
  <2>2. \A f \in Events : f # e => event'[f] = event[f]
    BY <2>1 DEF LockInv
  <2>3. event'[e].at = "over"
    BY <2>1, <1>at DEF LockInv
  <2>4. \A f \in Events : Active(f)' => Active(f)
    BY <2>1, <2>2, <2>3 DEF Active
  <2>5. \A f \in Events : ReportKey(f)' = ReportKey(f)
    BY <2>1 DEF ReportKey, IsAlarm
  <2> QED
    BY <2>1, <2>2, <2>3, <2>4, <2>5, <1>posted DEF LockInv
<1>9. CASE ReportEnds(e)
  <2>1. \A f \in Events : ReportKey(f)' = ReportKey(f)
    BY <1>9 DEF ReportEnds, ReportKey, IsAlarm
  <2>2. Active(e)
    BY <1>9 DEF ReportEnds, Active
  <2>3. \A f \in Events : Active(f)' => Active(f) /\ f # e
    BY <1>9 DEF ReportEnds, Active, LockInv
  <2>4. \A f \in Events : Active(f)' => ReportKey(f) # ReportKey(e)
    BY <2>2, <2>3 DEF LockInv
  <2> QED
    BY <1>9, <2>1, <2>3, <2>4 DEF LockInv, ReportEnds
<1> QED
  BY <1>1, <1>2, <1>3, <1>4, <1>5, <1>6, <1>7, <1>8, <1>9

(* The other steps: a message is posted, an entry of the table of seen     *)
(* messages grows old, a lock that nobody needs expires.                   *)
LEMMA OtherStep ==
  ASSUME LockInv,
         \/ \E m \in Messages : Post(m) \/ SeenAges(m)
         \/ ReportLockExpires
         \/ UNCHANGED argusVars
  PROVE  LockInv'
<1>1. ASSUME NEW m \in Messages, Post(m) PROVE LockInv'
  <2>0. /\ NotPosted \notin Contents
        /\ \A c \in Contents : c # NotPosted
    BY DEF Contents, NotPosted
  <2>1. \A f \in Events : Active(f)' <=> Active(f)
    BY <1>1 DEF Post, Active
  <2>2. \A f \in Events : event[f].at # "none" => posted'[f[1]] = posted[f[1]]
    <3>1. PICK c \in Contents : posted' = [posted EXCEPT ![m] = c]
      BY <1>1 DEF Post
    <3>2. \A f \in Events : f[1] \in Messages
      BY ArgusAssumption DEF Events
    <3> QED
      BY <1>1, <3>1, <3>2 DEF Post, LockInv
  <2>3. \A f \in Events : Active(f) => ReportKey(f)' = ReportKey(f)
    BY <2>2 DEF ReportKey, IsAlarm, Active, LockInv
  <2> QED
    BY <1>1, <2>1, <2>2, <2>3 DEF LockInv, Post
<1>2. CASE \/ \E m \in Messages : SeenAges(m)
           \/ UNCHANGED argusVars
  BY <1>2 DEF SeenAges, argusVars, LockInv, Active, ReportKey, IsAlarm
<1>3. CASE ReportLockExpires
  BY <1>3 DEF ReportLockExpires, LockInv, Active, ReportKey, IsAlarm
<1> QED
  BY <1>1, <1>2, <1>3

(* A report, and an alarm, has one investigation at a time. *)
THEOREM OneRun == ArgusSpec => []OneRunPerReport
<1>1. ArgusInit => LockInv
  BY DEF ArgusInit, LockInv, Idle, Active
<1>2. LockInv /\ [ArgusNext]_argusVars => LockInv'
  BY HandlerStep, OtherStep DEF ArgusNext
<1>3. LockInv => OneRunPerReport
  BY DEF LockInv, OneRunPerReport, Active
<1> QED
  BY <1>1, <1>2, <1>3, PTL DEF ArgusSpec
-----------------------------------------------------------------------------
(* ChatEngine: what a client is asked to approve. *)

(* A request goes on asking only with every call answered, and the calls of *)
(* an answer are new: no reply of an earlier answer is one of theirs.      *)
Phase == {"idle", "asking", "checking", "running", "stopping"}

Ids == Nat \X Nat \X Nat

ChatStates == [at : Phase, options : Options, step : Nat, tries : Nat,
             asked : SUBSET Ids, replied : SUBSET Ids, now : SUBSET Ids,
             run : SUBSET Ids, done : SUBSET Ids, refused : SUBSET Ids,
             pending : SUBSET Ids, outcome : {"none", "raised", "answer", "pending"}]

(* Calls are numbered by request and step. *)
IdsFresh ==
  /\ \A c \in history.asked \cup history.replied : c[1] <= requests
  /\ \A c \in chat.asked \cup chat.replied :
       c[1] < requests \/ (c[1] = requests /\ c[2] < chat.step) \/ c \in chat.now
  /\ \A c \in chat.now : c[1] = requests /\ c[2] = chat.step

(* Where the calls of the current answer are. *)
CallsPlaced ==
  /\ chat.at \in {"idle", "asking"} => chat.pending = {} /\ chat.now = {}
  /\ chat.at # "running" => chat.done = {}
  /\ chat.at = "asking" => chat.step >= 1 /\ (chat.step >= 2 => chat.asked = chat.replied)
  /\ chat.at \in {"checking", "running"} =>
       chat.asked = chat.replied \cup chat.now /\ chat.replied \cap chat.now = {} /\ chat.step >= 1
  /\ chat.at = "running" =>
       /\ chat.now = chat.run \cup chat.refused \cup chat.pending
       /\ chat.pending \cap (chat.run \cup chat.refused) = {}
       /\ chat.done \subseteq chat.run
  /\ chat.at = "stopping" =>
       chat.asked \ chat.replied = chat.pending /\ chat.now = {} /\ chat.step >= 1

ChatInv ==
  /\ chat \in ChatStates /\ requests \in Nat
  /\ history \in [asked : SUBSET Ids, replied : SUBSET Ids, pending : SUBSET Ids]
  /\ CallsPlaced /\ IdsFresh /\ UnansweredArePending

(* The blank request. *)
LEMMA QuietTyped ==
  /\ Quiet \in ChatStates
  /\ Quiet.at = "idle"
  /\ Quiet.asked = {} /\ Quiet.replied = {} /\ Quiet.now = {} /\ Quiet.run = {}
  /\ Quiet.done = {} /\ Quiet.refused = {} /\ Quiet.pending = {}
<1>1. NoOptions \in Options
  BY DEF NoOptions, Options
<1>2. Quiet \in ChatStates
  BY <1>1 DEF Quiet, ChatStates, Phase
<1> QED
  BY <1>2 DEF Quiet

(* What a request ends with when it raises. *)
LEMMA Raising ==
  ASSUME ChatInv, chat' = [Quiet EXCEPT !.outcome = "raised"], UNCHANGED <<history, requests>>
  PROVE  ChatInv'
<1>1. /\ chat' \in ChatStates
      /\ chat'.at = "idle" /\ chat'.asked = {} /\ chat'.replied = {} /\ chat'.now = {}
      /\ chat'.pending = {} /\ chat'.done = {}
  BY QuietTyped DEF ChatStates
<1> QED
  BY <1>1 DEF ChatInv, CallsPlaced, IdsFresh, UnansweredArePending

(* What it returns with otherwise. *)
LEMMA Returning ==
  ASSUME ChatInv, NEW outcome \in {"answer", "pending"}, Return(outcome),
         chat.asked \ chat.replied = chat.pending, chat.now = {}, chat.step >= 1
  PROVE  ChatInv'
<1>1. /\ chat' \in ChatStates
      /\ chat'.at = "idle" /\ chat'.asked = {} /\ chat'.replied = {} /\ chat'.now = {}
      /\ chat'.pending = {} /\ chat'.done = {}
  BY QuietTyped DEF ChatStates, Return
<1>2. /\ history'.asked = chat.asked /\ history'.replied = chat.replied
      /\ history'.pending = chat.pending /\ requests' = requests
      /\ history' \in [asked : SUBSET Ids, replied : SUBSET Ids, pending : SUBSET Ids]
  BY DEF Return, ChatInv, ChatStates
<1>3. \A c \in Ids : c[1] \in Nat
  BY DEF Ids
<1>4. \A c \in chat.asked \cup chat.replied : c[1] <= requests
  BY <1>3 DEF ChatInv, IdsFresh, ChatStates
<1> QED
  BY <1>1, <1>2, <1>4 DEF ChatInv, CallsPlaced, IdsFresh, UnansweredArePending

(* Every step keeps the invariant. *)
LEMMA ChatStep ==
  ASSUME ChatInv, [ChatNext]_chatVars
  PROVE  ChatInv'
<1>c. \A c \in Ids : c[1] \in Nat /\ c[2] \in Nat
  BY DEF Ids
<1>t. /\ chat \in ChatStates /\ requests \in Nat /\ chat.step \in Nat
      /\ chat.at \in Phase
  BY DEF ChatInv, ChatStates
<1>1. CASE StartChat
  <2>1. PICK o \in Options :
          chat' = [Quiet EXCEPT !.at = "asking", !.options = o, !.step = 1,
                                !.asked = history.asked, !.replied = history.replied]
    BY <1>1 DEF StartChat
  <2>2. /\ chat' \in ChatStates /\ chat'.at = "asking" /\ chat'.step = 1
        /\ chat'.asked = history.asked /\ chat'.replied = history.replied
        /\ chat'.now = {} /\ chat'.pending = {} /\ chat'.done = {}
    BY <2>1, QuietTyped DEF ChatStates, Phase, ChatInv
  <2>3. \A c \in chat'.asked \cup chat'.replied : c[1] < requests'
    BY <1>1, <1>c, <2>2 DEF StartChat, ChatInv, IdsFresh
  <2> QED
    BY <1>1, <1>c, <2>2, <2>3 DEF StartChat, ChatInv, CallsPlaced, IdsFresh, UnansweredArePending
<1>2. CASE LlmRefuses
  <2>1. CASE chat' = [Quiet EXCEPT !.outcome = "raised"]
    BY <1>2, <2>1, Raising DEF LlmRefuses
  <2>2. CASE chat' = [chat EXCEPT !.tries = @ + 1]
    BY <1>2, <2>2 DEF LlmRefuses, ChatInv, ChatStates, CallsPlaced, IdsFresh, UnansweredArePending
  <2> QED
    BY <1>2, <2>1, <2>2 DEF LlmRefuses
<1>3. CASE LlmConcludes
  <2>1. chat.asked \ chat.replied = chat.pending /\ chat.now = {} /\ chat.step >= 1
    BY <1>3 DEF LlmConcludes, wellFormed, ChatInv, CallsPlaced
  <2> QED
    BY <1>3, <2>1, Returning DEF LlmConcludes
<1>4. CASE LlmCallsTools
  <2>1. PICK n \in 1 .. CallsPerAnswer :
          LET new == {<<requests, chat.step, k>> : k \in 1 .. n} IN
          chat' = [chat EXCEPT !.at = "checking", !.tries = 0, !.now = new,
                               !.asked = @ \cup new]
    BY <1>4 DEF LlmCallsTools
  <2> DEFINE new == {<<requests, chat.step, k>> : k \in 1 .. n}
  <2>2. \A c \in new : c \in Ids /\ c[1] = requests /\ c[2] = chat.step
    BY <1>t DEF Ids
  <2>3. chat.asked = chat.replied /\ chat.now = {} /\ chat.pending = {} /\ chat.at = "asking"
    BY <1>4 DEF LlmCallsTools, wellFormed, ChatInv, CallsPlaced
  <2>4. chat.replied \cap new = {}
    BY <1>c, <1>t, <2>2, <2>3 DEF ChatInv, IdsFresh, ChatStates
  <2>5. chat' = [chat EXCEPT !.at = "checking", !.tries = 0, !.now = new, !.asked = @ \cup new]
    BY <2>1
  <2> HIDE DEF new
  <2>6. /\ chat' \in ChatStates /\ chat'.at = "checking" /\ chat'.step = chat.step
        /\ chat'.asked = chat.asked \cup new /\ chat'.replied = chat.replied /\ chat'.now = new
        /\ chat'.done = chat.done
    BY <1>t, <2>2, <2>5 DEF ChatStates, Phase
  <2>7. CallsPlaced'
    BY <2>3, <2>4, <2>6, <1>4 DEF CallsPlaced, LlmCallsTools, ChatInv
  <2>8. IdsFresh'
    BY <1>4, <2>2, <2>3, <2>6 DEF IdsFresh, LlmCallsTools, ChatInv
  <2> QED
    BY <1>4, <2>6, <2>7, <2>8 DEF LlmCallsTools, ChatInv, UnansweredArePending
<1>5. CASE CheckCalls
  <2>1. PICK verdicts \in [chat.now -> Verdicts(chat.options)] :
          chat' = [chat EXCEPT !.at = "running", !.run = Having(verdicts, "run"),
                               !.refused = Having(verdicts, "refused"),
                               !.pending = Having(verdicts, "pending")]
    BY <1>5 DEF CheckCalls
  <2>2. \A c \in chat.now : verdicts[c] \in {"run", "refused", "pending"}
    BY <2>1 DEF Verdicts, Verdict
  <2>3. /\ chat.now = Having(verdicts, "run") \cup Having(verdicts, "refused")
                        \cup Having(verdicts, "pending")
        /\ Having(verdicts, "pending")
             \cap (Having(verdicts, "run") \cup Having(verdicts, "refused")) = {}
    BY <2>1, <2>2 DEF Having
  <2>4. /\ chat' \in ChatStates /\ chat'.at = "running" /\ chat'.step = chat.step
        /\ chat'.asked = chat.asked /\ chat'.replied = chat.replied /\ chat'.now = chat.now
        /\ chat'.done = chat.done
        /\ chat'.run = Having(verdicts, "run") /\ chat'.refused = Having(verdicts, "refused")
        /\ chat'.pending = Having(verdicts, "pending")
    BY <1>t, <2>1, <2>3 DEF ChatStates, Phase
  <2>5. CallsPlaced'
    BY <1>5, <2>3, <2>4 DEF CallsPlaced, CheckCalls, ChatInv
  <2> QED
    BY <1>5, <2>4, <2>5 DEF CheckCalls, ChatInv, IdsFresh, UnansweredArePending
<1>6. CASE ToolEnds
  <2>1. PICK c \in chat.run \ chat.done :
          \/ chat' = [chat EXCEPT !.done = chat.done \cup {c}]
          \/ chat' = [chat EXCEPT !.run = chat.run \ {c}, !.refused = chat.refused \cup {c}]
    BY <1>6 DEF ToolEnds
  <2>a. chat.at = "running" /\ c \in Ids /\ c \in chat.run /\ c \notin chat.done
    BY <1>6, <1>t, <2>1 DEF ToolEnds, ChatStates
  <2>2. /\ chat' \in ChatStates /\ chat'.at = "running" /\ chat'.step = chat.step
        /\ chat'.asked = chat.asked /\ chat'.replied = chat.replied /\ chat'.now = chat.now
        /\ chat'.pending = chat.pending
        /\ chat'.run \cup chat'.refused = chat.run \cup chat.refused
        /\ chat.done \subseteq chat.run => chat'.done \subseteq chat'.run
    <3>1. CASE chat' = [chat EXCEPT !.done = chat.done \cup {c}]
      BY <1>t, <2>a, <3>1 DEF ChatStates
    <3>2. CASE chat' = [chat EXCEPT !.run = chat.run \ {c}, !.refused = chat.refused \cup {c}]
      BY <1>t, <2>a, <3>2 DEF ChatStates
    <3> QED
      BY <2>1, <3>1, <3>2
  <2> QED
    BY <1>6, <2>2 DEF ToolEnds, ChatInv, CallsPlaced, IdsFresh, UnansweredArePending
<1>7. CASE ToolsTimeOut
  BY <1>7, Raising DEF ToolsTimeOut
<1>8. CASE AppendReplies
  <2>1. /\ chat.asked = chat.replied \cup chat.now
        /\ chat.now = chat.run \cup chat.refused \cup chat.pending
        /\ chat.replied \cap chat.now = {} /\ chat.step >= 1
        /\ chat.pending \cap (chat.run \cup chat.refused) = {}
        /\ Answered = chat.refused \cup chat.run
    BY <1>8 DEF AppendReplies, ChatInv, CallsPlaced, Answered
  <2>2. /\ chat' \in ChatStates /\ chat'.at = IF chat.pending = {} THEN "asking" ELSE "stopping"
        /\ chat'.step = chat.step + 1 /\ chat'.asked = chat.asked
        /\ chat'.replied = chat.replied \cup Answered /\ chat'.now = {}
        /\ chat'.pending = chat.pending /\ chat'.done = {}
    <3> DEFINE at == IF chat.pending = {} THEN "asking" ELSE "stopping"
               replied == chat.replied \cup Answered
    <3>1. chat' = [chat EXCEPT !.at = at, !.replied = replied, !.step = chat.step + 1,
                               !.now = {}, !.run = {}, !.done = {}, !.refused = {}]
      BY <1>8 DEF AppendReplies
    <3>2. at \in Phase /\ replied \subseteq Ids
      BY <1>t, <2>1 DEF Phase, ChatStates
    <3> HIDE DEF at, replied
    <3>3. /\ chat' \in ChatStates /\ chat'.at = at
          /\ chat'.step = chat.step + 1 /\ chat'.asked = chat.asked
          /\ chat'.replied = replied /\ chat'.now = {}
          /\ chat'.pending = chat.pending /\ chat'.done = {}
      <4>1. chat' = [at |-> at, options |-> chat.options, step |-> chat.step + 1,
                     tries |-> chat.tries, asked |-> chat.asked, replied |-> replied,
                     now |-> {}, run |-> {}, done |-> {}, refused |-> {},
                     pending |-> chat.pending, outcome |-> chat.outcome]
        BY <1>t, <3>1 DEF ChatStates
      <4>2. chat.step + 1 \in Nat
        BY <1>t
      <4> QED
        BY <1>t, <3>2, <4>1, <4>2 DEF ChatStates
    <3> QED
      BY <3>3 DEF at, replied
  <2>3. chat'.asked \ chat'.replied = chat.pending
    BY <2>1, <2>2
  <2>4. IdsFresh'
    <3>1. \A c \in chat.asked : c[1] < requests \/ (c[1] = requests /\ c[2] < chat.step + 1)
      BY <1>8, <1>c, <1>t, <2>1 DEF ChatInv, IdsFresh, ChatStates
    <3> QED
      BY <1>8, <2>1, <2>2, <3>1 DEF AppendReplies, ChatInv, IdsFresh
  <2>5. CallsPlaced'
    BY <1>t, <2>1, <2>2, <2>3 DEF CallsPlaced
  <2> QED
    BY <1>8, <2>2, <2>4, <2>5 DEF AppendReplies, ChatInv, UnansweredArePending
<1>9. CASE StopForApproval
  BY <1>9, Returning DEF StopForApproval, ChatInv, CallsPlaced
<1>10. CASE Synthesize
  <2>1. chat.asked \ chat.replied = chat.pending /\ chat.now = {} /\ chat.step >= 1
    BY <1>10, <1>t, ChatAssumption DEF Synthesize, ChatInv, CallsPlaced
  <2> QED
    BY <1>10, <2>1, Returning DEF Synthesize
<1>11. CASE ClientEdits
  BY <1>11 DEF ClientEdits, ChatInv, CallsPlaced, IdsFresh, UnansweredArePending
<1>12. CASE UNCHANGED chatVars
  BY <1>12 DEF chatVars, ChatInv, CallsPlaced, IdsFresh, UnansweredArePending
<1> QED
  BY <1>1, <1>2, <1>3, <1>4, <1>5, <1>6, <1>7, <1>8, <1>9, <1>10, <1>11, <1>12 DEF ChatNext

(* A client can tell which calls it is to decide on. *)
THEOREM PendingShown == ChatSpec => []UnansweredArePending
<1>1. ChatInit => ChatInv
  BY QuietTyped DEF ChatInit, ChatInv, CallsPlaced, IdsFresh, UnansweredArePending
<1>2. ChatInv => UnansweredArePending
  BY DEF ChatInv
<1> QED
  BY <1>1, <1>2, ChatStep, PTL DEF ChatSpec

-----------------------------------------------------------------------------
(* SageBot: every question ends for both sides. *)

Turns == Seq(Nat)

Holding == {"ready", "asking", "saving", "posting", "failing", "closing"}

Runs ==
  [at : {"none", "over", "queued"} \cup Holding, kind : {"none", "oracle", "debug"},
   thread : Threads \cup {"none"}, sid : SessionIds \cup {"none"},
   base : Turns, pdf : BOOLEAN, told : {"nothing", "pdf", "text", "error"}, failed : Nat]

(* What was told, or how much went wrong, by where the run is. *)
Deliverable(r) ==
  /\ r.at = "failing" => r.failed >= 1
  /\ r.at = "closing" /\ r.told = "nothing" => r.failed >= 2

Asks(r) == r.kind = "oracle" => r.thread \in Threads /\ r.sid \in SessionIds

Held == {q \in Questions : run[q].at \in Holding}

SessionTurns == [sid : SessionIds, turns : Turns]

Terminals ==
  [at : {"closed", "prompt", "asking"}, sid : SessionIds \cup {"none"},
   turns : Turns, snapshot : Turns]

SessionsTyped ==
  /\ live \in [Threads -> SessionTurns \cup {NoSession}]
  /\ resuming \in [Threads -> SessionTurns \cup {NoSession}]
  /\ savedTurns \in [SessionIds -> Turns]
  /\ issued \subseteq SessionIds
  /\ terminal \in Terminals /\ (terminal.at # "closed" => terminal.sid \in SessionIds)

RunsInv ==
  /\ asked \in 0 .. MaxQuestions
  /\ run \in [Questions -> Runs]
  /\ \A q \in Questions : q > asked => run[q].at = "none"
  /\ \A q \in Questions :
       /\ Deliverable(run[q])
       /\ Asks(run[q])
  /\ slots = Cardinality(Held) /\ slots <= InvestigationLimit

LEMMA BlankRun ==
  /\ NoRun \in Runs /\ NoRun.at = "none"
  /\ [NoRun EXCEPT !.at = "over"] \in Runs /\ [NoRun EXCEPT !.at = "over"].at = "over"
  /\ [NoRun EXCEPT !.at = "over"].kind = "none"
<1>1. <<>> \in Turns
  BY DEF Turns
<1> QED
  BY <1>1 DEF NoRun, Runs

LEMMA Failing ==
  ASSUME NEW r \in Runs, NEW to \in Holding
  PROVE  /\ Failed(r, to) \in Runs /\ Failed(r, to).at = to
         /\ Failed(r, to).told = r.told /\ Failed(r, to).failed = r.failed + 1
         /\ Failed(r, to).kind = r.kind /\ Failed(r, to).thread = r.thread
         /\ Failed(r, to).sid = r.sid
<1>1. PICK n \in Nat : n = r.failed + 1
  BY DEF Runs
<1> QED
  BY <1>1 DEF Failed, Runs

LEMMA HeldFinite ==
  /\ IsFiniteSet(Held) /\ Cardinality(Held) \in Nat
<1>1. IsFiniteSet(Questions)
  BY SageAssumption, FS_Interval DEF Questions
<1>2. IsFiniteSet(Held)
  BY <1>1, FS_Subset DEF Held
<1> QED
  BY <1>2, FS_CardinalityType

(* One run moves, and holds a slot before and after, or not at all.        *)
LEMMA RunMoves ==
  ASSUME RunsInv, NEW q \in Questions, NEW r \in Runs, run' = [run EXCEPT ![q] = r],
         q <= asked', asked' \in asked .. MaxQuestions, Deliverable(r),
         Asks(r),
         r.at \in Holding <=> run[q].at \in Holding, slots' = slots
  PROVE  RunsInv'
<1>1. /\ run' \in [Questions -> Runs] /\ run'[q] = r
      /\ \A p \in Questions : p # q => run'[p] = run[p]
  BY DEF RunsInv
<1>2. Held' = Held
  BY <1>1 DEF Held
<1>3. \A p \in Questions : p > asked' => p # q /\ p > asked
  BY DEF Questions, RunsInv
<1>4. asked' \in 0 .. MaxQuestions
  BY DEF RunsInv
<1> QED
  BY <1>1, <1>2, <1>3, <1>4 DEF RunsInv

(* What a person does in a thread. *)
LEMMA NewRunStep ==
  ASSUME RunsInv, NEW t \in Threads, NEW kind \in {"oracle", "debug"},
         NEW s \in SessionIds \cup {"none"}, kind = "oracle" => s \in SessionIds, NewRun(t, kind, s)
  PROVE  RunsInv'
<1>1. PICK k \in Questions : k = asked + 1 /\ k = asked' /\ asked' \in asked .. MaxQuestions
  BY SageAssumption DEF NewRun, Questions, RunsInv
<1>2. run[k].at = "none"
  BY <1>1 DEF RunsInv, Questions
<1>3. PICK r : r = [NoRun EXCEPT !.at = "queued", !.kind = kind, !.thread = t, !.sid = s]
  OBVIOUS
<1>4. r \in Runs /\ r.at = "queued" /\ Asks(r)
  BY <1>3, BlankRun DEF Runs, Asks
<1>5. PICK o : o = [NoRun EXCEPT !.at = "over"]
  OBVIOUS
<1>6. o \in Runs /\ o.at = "over" /\ Asks(o)
  BY <1>5, BlankRun DEF Asks
<1>7. run' = [run EXCEPT ![k] = r] \/ run' = [run EXCEPT ![k] = o]
  BY <1>1, <1>3, <1>5 DEF NewRun, Ends
<1>8. Deliverable(r) /\ r.at \notin Holding /\ Deliverable(o) /\ o.at \notin Holding /\ run[k].at \notin Holding
  BY <1>2, <1>4, <1>6 DEF Deliverable, Holding
<1>9. k <= asked' /\ slots' = slots
  BY <1>1 DEF NewRun, Questions
<1>10. CASE run' = [run EXCEPT ![k] = r]
  BY <1>1, <1>4, <1>8, <1>9, <1>10, RunMoves
<1>11. CASE run' = [run EXCEPT ![k] = o]
  BY <1>1, <1>6, <1>8, <1>9, <1>11, RunMoves
<1> QED
  BY <1>7, <1>10, <1>11

LEMMA AskChatStep ==
  ASSUME RunsInv, NEW t \in Threads, AskChat(t)
  PROVE  RunsInv'
<1>1. PICK k \in Questions : k = asked + 1 /\ k = asked' /\ asked' \in asked .. MaxQuestions
  BY SageAssumption DEF AskChat, Questions, RunsInv
<1>2. run[k].at = "none"
  BY <1>1 DEF RunsInv, Questions
<1>3. PICK o : o = [NoRun EXCEPT !.at = "over"]
  OBVIOUS
<1>4. o \in Runs /\ o.at = "over" /\ Asks(o)
  BY <1>3, BlankRun DEF Asks
<1>5. run' = [run EXCEPT ![k] = o] /\ slots' = slots /\ k <= asked'
  BY <1>1, <1>3 DEF AskChat, Ends, Questions
<1>6. Deliverable(o) /\ o.at \notin Holding /\ run[k].at \notin Holding
  BY <1>2, <1>4 DEF Deliverable, Holding
<1> QED
  BY <1>1, <1>4, <1>5, <1>6, RunMoves

(* A run's own steps. *)
LEMMA QuietStep ==
  ASSUME RunsInv, SessionsTyped, NEW q \in Questions,
         \/ CopyHistory(q) \/ OracleAnswers(q) \/ SaveTurn(q) \/ DebugAnswers(q) \/ Raises(q)
         \/ Upload(q) \/ PostText(q) \/ SayFailed(q)
  PROVE  RunsInv'
<1>1. slots' = slots /\ asked' = asked
  BY DEF CopyHistory, OracleAnswers, SaveTurn, DebugAnswers, Raises, Upload, PostText, SayFailed, others
<1>2. PICK old \in Runs : /\ old = run[q] /\ Deliverable(old) /\ Asks(old)
  BY DEF RunsInv
<1>3. old.at \in Holding
  BY <1>2 DEF CopyHistory, OracleAnswers, SaveTurn, DebugAnswers, Raises, Upload, PostText, SayFailed,
              Step, Holding
<1>4. q <= asked /\ asked \in asked .. MaxQuestions
  BY <1>2, <1>3 DEF RunsInv, Questions, Holding
<1>5. ASSUME NEW r \in Runs, run' = [run EXCEPT ![q] = r], Deliverable(r), r.at \in Holding,
             Asks(r)
      PROVE  RunsInv'
  BY <1>1, <1>2, <1>3, <1>4, <1>5, RunMoves
<1>6. ASSUME NEW from, NEW to \in {"saving", "posting"}, Step(q, from, to) PROVE RunsInv'
  <2>1. PICK r : r = [old EXCEPT !.at = to]
    OBVIOUS
  <2>2. /\ r \in Runs /\ Asks(r) /\ Deliverable(r) /\ r.at \in Holding
    BY <1>2, <2>1 DEF Runs, Deliverable, Holding, Asks
  <2> QED
    BY <1>2, <1>5, <1>6, <2>1, <2>2 DEF Step
<1>7. ASSUME NEW what \in {"pdf", "text", "error"}, run' = [run EXCEPT ![q] = Told(@, what)]
      PROVE  RunsInv'
  <2>1. PICK r : r = Told(old, what)
    OBVIOUS
  <2>2. /\ r \in Runs /\ Asks(r) /\ Deliverable(r) /\ r.at \in Holding
    BY <1>2, <2>1 DEF Told, Runs, Deliverable, Holding, Asks
  <2> QED
    BY <1>2, <1>5, <1>7, <2>1, <2>2
<1>8. ASSUME NEW to \in {"failing", "closing"}, run' = [run EXCEPT ![q] = Failed(@, to)],
             to = "closing" => old.at = "failing"
      PROVE  RunsInv'
  <2>1. PICK r : r = Failed(old, to)
    OBVIOUS
  <2>2. r \in Runs /\ r.at = to /\ Asks(r) /\ r.failed = old.failed + 1
    BY <1>2, <2>1, Failing DEF Holding, Asks
  <2>3. Deliverable(r) /\ r.at \in Holding
    BY <1>2, <1>8, <2>2 DEF Deliverable, Holding, Runs
  <2> QED
    BY <1>2, <1>5, <1>8, <2>1, <2>2, <2>3
<1>9. CASE CopyHistory(q)
  <2>1. PICK b : b = IF old.kind = "oracle" THEN Base(old.thread) ELSE <<>>
    OBVIOUS
  <2>2. b \in Turns
    <3>1. <<>> \in Turns /\ NoSession.turns = <<>>
      BY DEF Turns, NoSession
    <3>2. \A x \in SessionTurns \cup {NoSession} : x.turns \in Turns
      BY <3>1 DEF SessionTurns
    <3> QED
      BY <1>2, <2>1, <3>1, <3>2 DEF SessionsTyped, Base, Asks
  <2>3. PICK r : r = [old EXCEPT !.at = "asking", !.base = b]
    OBVIOUS
  <2>4. /\ r \in Runs /\ Asks(r) /\ Deliverable(r) /\ r.at \in Holding
    BY <1>2, <2>2, <2>3 DEF Runs, Deliverable, Holding, Asks
  <2> QED
    BY <1>2, <1>5, <1>9, <2>1, <2>3, <2>4 DEF CopyHistory
<1>10. CASE DebugAnswers(q)
  <2>1. PICK pdf \in BOOLEAN : run' = [run EXCEPT ![q] = [@ EXCEPT !.at = "posting", !.pdf = pdf]]
    BY <1>10 DEF DebugAnswers
  <2>2. PICK r : r = [old EXCEPT !.at = "posting", !.pdf = pdf]
    OBVIOUS
  <2>3. /\ r \in Runs /\ Asks(r) /\ Deliverable(r) /\ r.at \in Holding
    BY <1>2, <2>2 DEF Runs, Deliverable, Holding, Asks
  <2> QED
    BY <1>2, <1>5, <2>1, <2>2, <2>3
<1>11. ASSUME run' = [run EXCEPT ![q] = NoUpload(q)] PROVE RunsInv'
  <2>1. PICK f : f = Failed(old, "posting")
    OBVIOUS
  <2>2. f \in Runs /\ Asks(f) /\ f.at = "posting"
    BY <1>2, <2>1, Failing DEF Holding, Asks
  <2>3. PICK r : r = [f EXCEPT !.pdf = FALSE]
    OBVIOUS
  <2>4. /\ r \in Runs /\ Asks(r) /\ Deliverable(r) /\ r.at \in Holding
    BY <1>2, <2>2, <2>3 DEF Runs, Deliverable, Holding, Asks
  <2> QED
    BY <1>2, <1>5, <1>11, <2>1, <2>3, <2>4 DEF NoUpload
<1> QED
  BY <1>2, <1>6, <1>7, <1>8, <1>9, <1>10, <1>11
  DEF OracleAnswers, SaveTurn, Raises, Upload, PostText, SayFailed

(* A slot is taken, or the question turned away. *)
LEMMA TakeStep ==
  ASSUME RunsInv, NEW q \in Questions, TakeSlot(q)
  PROVE  RunsInv'
<1>1. PICK old \in Runs : old = run[q] /\ old.at = "queued" /\ Asks(old)
  BY DEF RunsInv, TakeSlot
<1>2. asked' = asked /\ asked \in asked .. MaxQuestions /\ q <= asked
  BY <1>1 DEF TakeSlot, others, RunsInv, Questions
<1>3. PICK o : o = [NoRun EXCEPT !.at = "over"]
  OBVIOUS
<1>4. o \in Runs /\ o.at = "over" /\ Asks(o) /\ Deliverable(o) /\ o.at \notin Holding
  BY <1>3, BlankRun DEF Deliverable, Holding, Asks
<1>5. CASE run' = [run EXCEPT ![q] = o] /\ slots' = slots
  BY <1>1, <1>2, <1>4, <1>5, RunMoves DEF Holding
<1>6. CASE Step(q, "queued", "ready") /\ slots' = slots + 1 /\ slots < InvestigationLimit
  <2>1. PICK r : r = [old EXCEPT !.at = "ready"]
    OBVIOUS
  <2>2. r \in Runs /\ Asks(r) /\ Deliverable(r) /\ r.at \in Holding
    BY <1>1, <2>1 DEF Runs, Deliverable, Holding, Asks
  <2>3. /\ run' \in [Questions -> Runs] /\ run'[q] = r
        /\ \A p \in Questions : p # q => run'[p] = run[p]
    BY <1>1, <1>6, <2>1, <2>2 DEF Step, RunsInv
  <2>4. Held' = Held \cup {q} /\ q \notin Held
    BY <1>1, <2>2, <2>3 DEF Held, Holding
  <2>5. slots' = Cardinality(Held') /\ slots' <= InvestigationLimit
    <3>1. Cardinality(Held \cup {q}) = Cardinality(Held) + 1
      BY <2>4, HeldFinite, FS_AddElement
    <3>2. Cardinality(Held') = Cardinality(Held) + 1
      BY <2>4, <3>1
    <3>3. InvestigationLimit \in Nat /\ Cardinality(Held) \in Nat
      BY HeldFinite, SageAssumption
    <3>4. slots = Cardinality(Held)
      BY DEF RunsInv
    <3> QED
      BY <1>6, <3>2, <3>3, <3>4
  <2>6. \A p \in Questions : p > asked' => p # q
    BY <1>2 DEF Questions, RunsInv
  <2> QED
    BY <1>1, <1>2, <2>2, <2>3, <2>5, <2>6 DEF RunsInv
<1> QED
  BY <1>3, <1>5, <1>6 DEF TakeSlot, TurnAway, Ends

LEMMA ReleaseStep ==
  ASSUME RunsInv, NEW q \in Questions, ReleaseSlot(q)
  PROVE  RunsInv'
<1>1. run[q].at = "closing" /\ asked' = asked /\ slots' = slots - 1
  BY DEF ReleaseSlot, others
<1>2. PICK o : o = [NoRun EXCEPT !.at = "over"]
  OBVIOUS
<1>3. o \in Runs /\ o.at = "over" /\ Asks(o) /\ Deliverable(o) /\ o.at \notin Holding
  BY <1>2, BlankRun DEF Deliverable, Holding, Asks
<1>4. /\ run' \in [Questions -> Runs] /\ run'[q] = o
      /\ \A p \in Questions : p # q => run'[p] = run[p]
  BY <1>2, <1>3 DEF ReleaseSlot, Ends, RunsInv
<1>5. Held' = Held \ {q} /\ q \in Held
  BY <1>1, <1>3, <1>4 DEF Held, Holding
<1>6. slots' = Cardinality(Held') /\ slots' <= InvestigationLimit
  <2>1. Cardinality(Held \ {q}) = Cardinality(Held) - 1
    BY <1>5, HeldFinite, FS_RemoveElement
  <2>2. Cardinality(Held') = Cardinality(Held) - 1
    BY <1>5, <2>1
  <2>3. InvestigationLimit \in Nat /\ Cardinality(Held) \in Nat
    BY HeldFinite, SageAssumption
  <2>4. slots = Cardinality(Held) /\ slots <= InvestigationLimit
    BY DEF RunsInv
  <2> QED
    BY <1>1, <2>2, <2>3, <2>4
<1>7. \A p \in Questions : p > asked' => p # q
  BY <1>1 DEF Questions, RunsInv
<1> QED
  BY <1>1, <1>3, <1>4, <1>6, <1>7 DEF RunsInv

LEMMA RestartStep ==
  ASSUME RunsInv, BotRestarts
  PROVE  RunsInv'
<1>1. /\ run' \in [Questions -> Runs]
      /\ \A q \in Questions : run'[q] = IF run[q].at \in Over THEN run[q] ELSE NoRun
  BY BlankRun DEF BotRestarts, RunsInv
<1>2. \A q \in Questions :
        /\ run'[q].at \notin Holding /\ Deliverable(run'[q])
        /\ Asks(run'[q])
  BY <1>1, BlankRun DEF RunsInv, NoRun, Over, Holding, Deliverable, Asks
<1>3. Held' = {}
  BY <1>2 DEF Held
<1>4. slots' = Cardinality(Held') /\ slots' <= InvestigationLimit
  BY <1>3, FS_EmptySet, SageAssumption DEF BotRestarts
<1>5. asked' = asked
  BY DEF BotRestarts
<1>6. \A q \in Questions : q > asked' => run'[q].at = "none"
  BY <1>1, <1>5, BlankRun DEF RunsInv
<1> QED
  BY <1>1, <1>2, <1>4, <1>5, <1>6 DEF RunsInv

(* Everything else leaves the runs alone. *)
SessionsOnly ==
  \/ \E t \in Threads : OracleStop(t) \/ ResumeLoads(t) \/ ResumeSets(t)
  \/ TerminalOpens \/ TerminalRollsBack \/ TerminalClears \/ TerminalCloses \/ TerminalAnswers

LEMMA OtherRunsStep ==
  ASSUME RunsInv, SessionsOnly \/ TerminalAsks \/ UNCHANGED sageVars
  PROVE  RunsInv'
<1>1. run' = run /\ slots' = slots
  BY DEF SessionsOnly, OracleStop, ResumeLoads, ResumeSets, TerminalOpens, TerminalAsks, TerminalAnswers,
     TerminalRollsBack, TerminalClears, TerminalCloses, TerminalOnly, rest, sageVars
<1>2. asked' \in asked .. MaxQuestions
  <2>1. CASE TerminalAsks
    BY <2>1, SageAssumption DEF TerminalAsks, RunsInv
  <2>2. CASE asked' = asked
    BY <2>2 DEF RunsInv
  <2> QED
    BY <2>1, <2>2 DEF SessionsOnly, OracleStop, ResumeLoads, ResumeSets, TerminalOpens, TerminalAnswers,
       TerminalRollsBack, TerminalClears, TerminalCloses, rest, sageVars
<1>3. Held' = Held
  BY <1>1 DEF Held
<1>4. \A q \in Questions : q > asked' => q > asked
  BY <1>2 DEF RunsInv, Questions
<1>5. asked' \in 0 .. MaxQuestions
  BY <1>2 DEF RunsInv
<1> QED
  BY <1>1, <1>3, <1>4, <1>5 DEF RunsInv, Deliverable, Asks

-----------------------------------------------------------------------------
(* The sessions are of the right sort. *)

LEMMA Blank ==
  /\ <<>> \in Turns /\ NoSession.sid = "none" /\ NoSession.turns = <<>>
  /\ \A x \in SessionTurns \cup {NoSession} : x.turns \in Turns
  /\ \A x \in SessionTurns \cup {NoSession} : x # NoSession => x.sid \in SessionIds
  /\ \A s \in SessionIds, turns \in Turns :
       [sid |-> s, turns |-> turns] \in SessionTurns \cup {NoSession}
  /\ \A turns \in Turns, q \in Nat : Append(turns, q) \in Turns
<1>1. <<>> \in Turns /\ NoSession.sid = "none" /\ NoSession.turns = <<>>
  BY DEF NoSession, Turns
<1>2. /\ \A x \in SessionTurns \cup {NoSession} : x.turns \in Turns
      /\ \A x \in SessionTurns \cup {NoSession} : x # NoSession => x.sid \in SessionIds
      /\ \A s \in SessionIds, turns \in Turns :
           [sid |-> s, turns |-> turns] \in SessionTurns \cup {NoSession}
  BY <1>1 DEF SessionTurns
<1>3. \A turns \in Turns, q \in Nat : Append(turns, q) \in Turns
  BY DEF Turns
<1> QED
  BY <1>1, <1>2, <1>3

LEMMA Starting ==
  ASSUME NEW s
  PROVE  [NoSession EXCEPT !.sid = s] = [sid |-> s, turns |-> <<>>]
  BY DEF NoSession

(* What a step of the terminal makes of it. *)
TerminalTyped(x) == x \in Terminals /\ (x.at # "closed" => x.sid \in SessionIds)

LEMMA TerminalStarts ==
  /\ TerminalTyped(Closed)
  /\ \A s \in SessionIds, turns \in Turns :
       /\ TerminalTyped([Closed EXCEPT !.at = "prompt", !.sid = s, !.turns = turns])
       /\ TerminalTyped([Closed EXCEPT !.at = "prompt", !.sid = s])
  BY Blank DEF TerminalTyped, Terminals, Closed

LEMMA SessionsTypedStep ==
  ASSUME SessionsTyped, RunsInv, [SageNext]_sageVars
  PROVE  SessionsTyped'
<1>1. ASSUME NEW t \in Threads, AskOracle(t) PROVE SessionsTyped'
  <2>1. PICK s \in SessionFor(t) : Enter(t, s)
    BY <1>1 DEF AskOracle
  <2>2. s \in SessionIds
    BY <2>1, Blank DEF SessionFor, Open, SessionsTyped
  <2>3. live' \in [Threads -> SessionTurns \cup {NoSession}]
    <3>1. [NoSession EXCEPT !.sid = s] \in SessionTurns \cup {NoSession}
      <4>1. [NoSession EXCEPT !.sid = s] = [sid |-> s, turns |-> <<>>]
        BY Starting
      <4>2. [sid |-> s, turns |-> <<>>] \in SessionTurns \cup {NoSession}
        BY <2>2, Blank
      <4> QED
        BY <4>1, <4>2
    <3> QED
      BY <2>1, <3>1 DEF Enter, SessionsTyped
  <2> QED
    BY <1>1, <2>1, <2>2, <2>3 DEF AskOracle, NewRun, Enter, SessionsTyped
<1>2. ASSUME NEW t \in Threads, AskDebug(t) \/ AskChat(t) PROVE SessionsTyped'
  BY <1>2 DEF AskDebug, AskChat, NewRun, sessionVars, SessionsTyped
<1>3. ASSUME NEW t \in Threads, OracleStop(t) PROVE SessionsTyped'
  BY <1>3 DEF OracleStop, Drop, rest, SessionsTyped
<1>4. ASSUME NEW t \in Threads, ResumeLoads(t) PROVE SessionsTyped'
  BY <1>4, Blank DEF ResumeLoads, LoadSession, rest, SessionsTyped
<1>5. ASSUME NEW t \in Threads, ResumeSets(t) PROVE SessionsTyped'
  <2>1. resuming[t].sid \in SessionIds /\ resuming[t].turns \in Turns
    BY <1>5, Blank DEF ResumeSets, SessionsTyped
  <2> QED
    BY <1>5, <2>1, Blank DEF ResumeSets, Keep, rest, SessionsTyped
<1>6. ASSUME NEW q \in Questions, OracleAnswers(q) \/ SaveTurn(q) PROVE SessionsTyped'
  <2>1. q \in Nat /\ NewHistory(run[q].base, q) \in Turns
    BY Blank DEF NewHistory, RunsInv, Runs, Questions
  <2>2. CASE SaveTurn(q)
    BY <2>1, <2>2 DEF SaveTurn, SaveSession, others, SessionsTyped
  <2>3. CASE OracleAnswers(q)
    <3>1. run[q].sid \in SessionIds
      BY <2>3 DEF OracleAnswers, RunsInv, Asks
    <3> QED
      BY <2>1, <2>3, <3>1, Blank DEF OracleAnswers, Keep, others, SessionsTyped
  <2> QED
    BY <1>6, <2>2, <2>3
<1>7. ASSUME NEW q \in Questions,
             \/ TakeSlot(q) \/ CopyHistory(q) \/ DebugAnswers(q) \/ Raises(q) \/ Upload(q)
             \/ PostText(q) \/ SayFailed(q) \/ ReleaseSlot(q)
      PROVE  SessionsTyped'
  BY <1>7 DEF TakeSlot, CopyHistory, DebugAnswers, Raises, Upload, PostText, SayFailed, ReleaseSlot,
     others, sessionVars, SessionsTyped
<1>8. CASE TerminalOpens \/ TerminalClears \/ TerminalCloses
  <2>1. TerminalTyped(terminal')
    <3>1. \A s \in SessionIds : LoadSession(s) \in Turns
      BY DEF LoadSession, SessionsTyped
    <3> QED
      BY <1>8, <3>1, TerminalStarts DEF TerminalOpens, TerminalClears, TerminalCloses
  <2>2. UNCHANGED <<live, resuming, savedTurns>>
    BY <1>8 DEF TerminalOpens, TerminalClears, TerminalCloses, TerminalOnly
  <2>3. issued' \subseteq SessionIds
    BY <1>8 DEF TerminalOpens, TerminalClears, TerminalCloses, SessionsTyped
  <2> QED
    BY <2>1, <2>2, <2>3 DEF SessionsTyped, TerminalTyped
<1>9. CASE TerminalAsks \/ TerminalRollsBack
  <2>1. PICK x \in Terminals : x = terminal /\ x.sid \in SessionIds
    BY <1>9 DEF SessionsTyped, TerminalAsks, TerminalRollsBack
  <2>2. TerminalTyped(terminal')
    BY <1>9, <2>1 DEF TerminalAsks, TerminalRollsBack, TerminalTyped, Terminals
  <2> QED
    BY <1>9, <2>2 DEF TerminalAsks, TerminalRollsBack, TerminalOnly, SessionsTyped, TerminalTyped
<1>10. CASE TerminalAnswers
  <2>1. NewHistory(terminal.turns, asked) \in Turns
    BY Blank DEF NewHistory, SessionsTyped, RunsInv, Terminals
  <2>2. PICK x \in Terminals : x = terminal /\ x.sid \in SessionIds
    BY <1>10 DEF SessionsTyped, TerminalAnswers
  <2>3. TerminalTyped(terminal')
    BY <1>10, <2>1, <2>2 DEF TerminalAnswers, TerminalTyped, Terminals
  <2> QED
    BY <1>10, <2>1, <2>3 DEF TerminalAnswers, SaveSession, TerminalOnly, SessionsTyped, TerminalTyped
<1>11. CASE BotRestarts
  BY <1>11 DEF BotRestarts, SessionsTyped
<1>12. CASE UNCHANGED sageVars
  BY <1>12 DEF sageVars, sessionVars, SessionsTyped
<1> QED
  BY <1>1, <1>2, <1>3, <1>4, <1>5, <1>6, <1>7, <1>8, <1>9, <1>10, <1>11, <1>12 DEF SageNext

LEMMA RunsStep ==
  ASSUME SessionsTyped, RunsInv, [SageNext]_sageVars
  PROVE  RunsInv'
<1>1. ASSUME NEW t \in Threads, AskOracle(t) PROVE RunsInv'
  <2>1. \A s \in SessionFor(t) : s \in SessionIds
    BY Blank DEF SessionFor, Open, SessionsTyped
  <2> QED
    BY <1>1, <2>1, NewRunStep DEF AskOracle
<1>2. ASSUME NEW t \in Threads, AskDebug(t) PROVE RunsInv'
  BY <1>2, NewRunStep DEF AskDebug
<1>3. ASSUME NEW t \in Threads, AskChat(t) PROVE RunsInv'
  BY <1>3, AskChatStep
<1>4. ASSUME NEW q \in Questions,
             \/ TakeSlot(q) \/ CopyHistory(q) \/ OracleAnswers(q) \/ SaveTurn(q)
             \/ DebugAnswers(q) \/ Raises(q) \/ Upload(q) \/ PostText(q)
             \/ SayFailed(q) \/ ReleaseSlot(q)
      PROVE  RunsInv'
  BY <1>4, TakeStep, ReleaseStep, QuietStep
<1> QED
  BY <1>1, <1>2, <1>3, <1>4, RestartStep, OtherRunsStep DEF SageNext, SessionsOnly

LEMMA SageInitially == SageInit => SessionsTyped /\ RunsInv
<1> SUFFICES ASSUME SageInit PROVE SessionsTyped /\ RunsInv
  OBVIOUS
<1>1. SessionsTyped
  BY Blank, TerminalStarts DEF SageInit, SessionsInit, SessionsTyped, Closed, TerminalTyped
<1>2. \A q \in Questions : run[q] = NoRun
  BY DEF SageInit
<1>3. Held = {} /\ \A q \in Questions : Deliverable(run[q]) /\ Asks(run[q])
  BY <1>2 DEF Held, NoRun, Holding, Deliverable, Asks
<1>4. slots = Cardinality(Held)
  BY <1>3, FS_EmptySet DEF SageInit
<1>5. run \in [Questions -> Runs] /\ \A q \in Questions : run[q].at = "none"
  BY <1>2, BlankRun DEF SageInit
<1> QED
  BY <1>1, <1>3, <1>4, <1>5, SageAssumption DEF SageInit, RunsInv

LEMMA SageInvariant == SageSpec => [](SessionsTyped /\ RunsInv)
<1>1. SessionsTyped /\ RunsInv /\ [SageNext]_sageVars => SessionsTyped' /\ RunsInv'
  BY SessionsTypedStep, RunsStep
<1> QED
  BY <1>1, SageInitially, PTL DEF SageSpec

(* A question that got its slot reaches who asked it unless two things go  *)
(* wrong, and the slots that are counted are those of the threads.         *)
THEOREM EndsForBoth == SageSpec => []RunsEndForBoth
<1>1. RunsInv => RunsEndForBoth
  <2> SUFFICES ASSUME RunsInv PROVE RunsEndForBoth
    OBVIOUS
  <2>1. Held = {q \in Questions : run[q].at \notin Over \cup {"queued"}}
    BY DEF RunsInv, Runs, Held, Holding, Over
  <2>2. AnswersDelivered
    BY DEF RunsInv, Deliverable, AnswersDelivered
  <2> QED
    BY <2>1, <2>2 DEF RunsEndForBoth, SlotsHeldByRuns, RunsInv
<1> QED
  BY <1>1, SageInvariant, PTL

-----------------------------------------------------------------------------
(* SageBot: what is saved of a session only grows. *)

Under(q) == run[q].at \notin Over

(* Nobody has used the session yet. *)
Fresh(s) ==
  /\ savedTurns[s] = <<>> /\ terminal.sid # s
  /\ \A t \in Threads : live[t].sid # s /\ resuming[t].sid # s
  /\ \A q \in Questions : Under(q) => run[q].sid # s

(* One thread or the terminal holds the session and knows all that is      *)
(* saved of it; a question is one of that thread, and the only one there.  *)
Single(s) ==
  /\ \A t, u \in Threads : live[t].sid = s /\ live[u].sid = s => t = u
  /\ \A t \in Threads : live[t].sid = s => IsPrefix(savedTurns[s], live[t].turns)
  /\ \A q \in Questions : Under(q) /\ run[q].sid = s =>
       /\ run[q].kind = "oracle" /\ run[q].thread \in Threads /\ live[run[q].thread].sid = s
       /\ run[q].at \in {"asking", "saving"} => IsPrefix(savedTurns[s], run[q].base)
       /\ run[q].at = "saving" => live[run[q].thread].turns = Append(run[q].base, q)
       /\ \A p \in Questions :
            Under(p) /\ run[p].thread = run[q].thread /\ run[p].sid # "none" => p = q
  /\ terminal.sid = s =>
       /\ \A t \in Threads : live[t].sid # s
       /\ IsPrefix(savedTurns[s], terminal.turns)
       /\ terminal.at = "asking" => terminal.snapshot = terminal.turns

GrowInv ==
  /\ \A s \in SessionIds \ issued : Fresh(s)
  /\ \A s \in SessionIds \ contested : Single(s)

LEMMA PrefixMeans ==
  ASSUME NEW a \in Turns, NEW b \in Turns
  PROVE  IsPrefix(a, b) <=> Len(a) <= Len(b) /\ \A i \in 1 .. Len(a) : a[i] = b[i]
<1>1. /\ Len(a) \in Nat /\ Len(b) \in Nat
      /\ \A i \in 1 .. Len(a) : a[i] \in Nat
      /\ \A i \in 1 .. Len(b) : b[i] \in Nat
  BY DEF Turns
<1>2. CASE Len(a) <= Len(b)
  <2>1. \A i \in 1 .. Len(a) : b[i] \in Nat
    BY <1>1, <1>2
  <2>2. /\ SubSeq(a, 1, Len(a)) \in Seq(Nat)
        /\ Len(SubSeq(a, 1, Len(a))) = Len(a)
        /\ \A i \in 1 .. Len(a) : SubSeq(a, 1, Len(a))[i] = a[i]
    BY <1>1, SubSeqProperties DEF Turns
  <2>3. /\ SubSeq(b, 1, Len(a)) \in Seq(Nat)
        /\ Len(SubSeq(b, 1, Len(a))) = Len(a)
        /\ \A i \in 1 .. Len(a) : SubSeq(b, 1, Len(a))[i] = b[i]
    BY <1>1, <2>1, SubSeqProperties DEF Turns
  <2>4. SubSeq(a, 1, Len(a)) = SubSeq(b, 1, Len(a)) <=> \A i \in 1 .. Len(a) : a[i] = b[i]
    BY <2>2, <2>3, SeqEqual
  <2> QED
    BY <1>2, <2>4 DEF IsPrefix
<1> QED
  BY <1>2 DEF IsPrefix

LEMMA PrefixKept ==
  ASSUME NEW a \in Turns
  PROVE  /\ IsPrefix(a, a) /\ IsPrefix(<<>>, a)
         /\ \A b \in Turns, x \in Nat : IsPrefix(a, b) => IsPrefix(a, Append(b, x))
<1>1. <<>> \in Turns /\ Len(<<>>) = 0 /\ Len(a) \in Nat
  BY DEF Turns
<1>2. ASSUME NEW b \in Turns, NEW x \in Nat, IsPrefix(a, b)
      PROVE  IsPrefix(a, Append(b, x))
  <2>1. Len(a) <= Len(b) /\ \A i \in 1 .. Len(a) : a[i] = b[i]
    BY <1>2, PrefixMeans
  <2>2. /\ Append(b, x) \in Turns /\ Len(Append(b, x)) = Len(b) + 1 /\ Len(b) \in Nat
        /\ \A i \in 1 .. Len(b) : Append(b, x)[i] = b[i]
    BY DEF Turns
  <2>3. Len(a) <= Len(Append(b, x)) /\ \A i \in 1 .. Len(a) : a[i] = Append(b, x)[i]
    BY <1>1, <2>1, <2>2
  <2> QED
    BY <2>2, <2>3, PrefixMeans
<1> QED
  BY <1>1, <1>2, PrefixMeans

LEMMA Untouched ==
  ASSUME GrowInv, UNCHANGED <<live, resuming, savedTurns, issued, terminal>>,
         contested \subseteq contested',
         \A q \in Questions :
           /\ run'[q].at \notin Over =>
                /\ run[q].at \notin Over
                /\ run'[q].sid = run[q].sid /\ run'[q].thread = run[q].thread
                /\ run'[q].kind = run[q].kind
           /\ run'[q].at \in {"asking", "saving"} => run'[q].at = run[q].at /\ run'[q].base = run[q].base
  PROVE  GrowInv'
<1>1. \A q \in Questions : Under(q)' => Under(q)
  BY DEF Under
<1>2. \A s \in SessionIds : Fresh(s) => Fresh(s)'
  BY <1>1 DEF Fresh, Under
<1>3. ASSUME NEW s \in SessionIds, Single(s) PROVE Single(s)'
  <2>1. ASSUME NEW q \in Questions, Under(q)', run'[q].sid = s
        PROVE  /\ run'[q].kind = "oracle" /\ run'[q].thread \in Threads
               /\ live'[run'[q].thread].sid = s
               /\ run'[q].at \in {"asking", "saving"} => IsPrefix(savedTurns'[s], run'[q].base)
               /\ run'[q].at = "saving" => live'[run'[q].thread].turns = Append(run'[q].base, q)
               /\ \A p \in Questions :
                    Under(p)' /\ run'[p].thread = run'[q].thread /\ run'[p].sid # "none" => p = q
    <3>1. Under(q) /\ run[q].sid = s /\ run'[q].thread = run[q].thread /\ run'[q].kind = run[q].kind
      BY <1>1, <2>1 DEF Under
    <3>2. \A p \in Questions : Under(p)' => run'[p].sid = run[p].sid /\ run'[p].thread = run[p].thread
      BY DEF Under
    <3> QED
      BY <1>1, <1>3, <3>1, <3>2 DEF Single
  <2> QED
    BY <1>3, <2>1 DEF Single
<1> QED
  BY <1>2, <1>3 DEF GrowInv

(* One run moves on, and keeps what it is about. *)
LEMMA MovesOn ==
  ASSUME RunsInv, GrowInv, NEW q \in Questions, NEW r \in Runs, run' = [run EXCEPT ![q] = r],
         Under(q), r.sid = run[q].sid, r.thread = run[q].thread, r.kind = run[q].kind,
         r.at \notin {"asking", "saving"},
         UNCHANGED <<live, resuming, savedTurns, issued, contested, terminal>>
  PROVE  GrowInv'
<1>1. run'[q] = r /\ \A p \in Questions : p # q => run'[p] = run[p]
  BY DEF RunsInv
<1> QED
  BY <1>1, Untouched DEF Under

LEMMA Gone ==
  ASSUME RunsInv, GrowInv, NEW q \in Questions, Ends(q),
         UNCHANGED <<live, resuming, savedTurns, issued, contested, terminal>>
  PROVE  GrowInv'
<1>1. run'[q].at = "over" /\ \A p \in Questions : p # q => run'[p] = run[p]
  BY BlankRun DEF RunsInv, Ends
<1> QED
  BY <1>1, Untouched DEF Over

LEMMA QuietGrows ==
  ASSUME RunsInv, GrowInv, NEW q \in Questions,
         \/ TakeSlot(q) \/ DebugAnswers(q) \/ Raises(q) \/ Upload(q) \/ PostText(q)
         \/ SayFailed(q) \/ ReleaseSlot(q)
  PROVE  GrowInv'
<1>1. UNCHANGED <<live, resuming, savedTurns, issued, contested, terminal>>
  BY DEF TakeSlot, DebugAnswers, Raises, Upload, PostText, SayFailed, ReleaseSlot, sessionVars, others
<1>2. PICK old \in Runs : old = run[q]
  BY DEF RunsInv
<1>3. ASSUME NEW r \in Runs, run' = [run EXCEPT ![q] = r], old.at \notin Over,
             r.sid = old.sid, r.thread = old.thread, r.kind = old.kind,
             r.at \notin {"asking", "saving"}
      PROVE  GrowInv'
  BY <1>1, <1>2, <1>3, MovesOn DEF Under
<1>4. ASSUME old.at \notin Over, NEW what \in {"pdf", "text", "error"},
             run' = [run EXCEPT ![q] = Told(@, what)]
      PROVE  GrowInv'
  <2>1. PICK r : r = Told(old, what)
    OBVIOUS
  <2>2. /\ r \in Runs /\ r.sid = old.sid /\ r.thread = old.thread /\ r.kind = old.kind
        /\ r.at = "closing"
    BY <2>1 DEF Told, Runs, Holding
  <2> QED
    BY <1>2, <1>3, <1>4, <2>1, <2>2
<1>5. ASSUME old.at \notin Over, NEW to \in {"failing", "closing"},
             run' = [run EXCEPT ![q] = Failed(@, to)]
      PROVE  GrowInv'
  <2>1. PICK r : r = Failed(old, to)
    OBVIOUS
  <2>2. /\ r \in Runs /\ r.sid = old.sid /\ r.thread = old.thread /\ r.kind = old.kind
        /\ r.at = to
    BY <2>1, Failing DEF Holding
  <2> QED
    BY <1>2, <1>3, <1>5, <2>1, <2>2
<1>6. ASSUME old.at \notin Over, run' = [run EXCEPT ![q] = NoUpload(q)] PROVE GrowInv'
  <2>1. PICK f : f = Failed(old, "posting")
    OBVIOUS
  <2>2. /\ f \in Runs /\ f.sid = old.sid /\ f.thread = old.thread /\ f.kind = old.kind
        /\ f.at = "posting"
    BY <2>1, Failing DEF Holding
  <2>3. PICK r : r = [f EXCEPT !.pdf = FALSE]
    OBVIOUS
  <2>4. /\ r \in Runs /\ r.sid = old.sid /\ r.thread = old.thread /\ r.kind = old.kind
        /\ r.at = "posting"
    BY <2>2, <2>3 DEF Runs
  <2> QED
    BY <1>2, <1>3, <1>6, <2>1, <2>3, <2>4 DEF NoUpload
<1>7. CASE Step(q, "queued", "ready")
  <2>1. PICK r : r = [old EXCEPT !.at = "ready"]
    OBVIOUS
  <2>2. /\ r \in Runs /\ r.sid = old.sid /\ r.thread = old.thread /\ r.kind = old.kind
        /\ r.at = "ready"
    BY <2>1 DEF Runs, Holding
  <2> QED
    BY <1>2, <1>3, <1>7, <2>1, <2>2 DEF Step, Over
<1>8. CASE DebugAnswers(q)
  <2>1. PICK pdf \in BOOLEAN : run' = [run EXCEPT ![q] = [@ EXCEPT !.at = "posting", !.pdf = pdf]]
    BY <1>8 DEF DebugAnswers
  <2>2. PICK r : r = [old EXCEPT !.at = "posting", !.pdf = pdf]
    OBVIOUS
  <2>3. /\ r \in Runs /\ r.sid = old.sid /\ r.thread = old.thread /\ r.kind = old.kind
        /\ r.at = "posting"
    BY <2>2 DEF Runs, Holding
  <2> QED
    BY <1>2, <1>3, <1>8, <2>1, <2>2, <2>3 DEF DebugAnswers, Over
<1>9. CASE Ends(q)
  BY <1>1, <1>9, Gone
<1>10. CASE TakeSlot(q) \/ ReleaseSlot(q)
  BY <1>7, <1>9, <1>10 DEF TakeSlot, TurnAway, ReleaseSlot
<1>11. CASE Raises(q) \/ Upload(q) \/ PostText(q) \/ SayFailed(q)
  <2>1. old.at \notin Over
    BY <1>2, <1>11 DEF Raises, Upload, PostText, SayFailed, Over
  <2> QED
    BY <1>4, <1>5, <1>6, <1>11, <2>1 DEF Raises, Upload, PostText, SayFailed
<1> QED
  BY <1>8, <1>10, <1>11

(* What a step that is not about a session leaves alone. *)
LEMMA StillFresh ==
  ASSUME NEW x \in SessionIds, Fresh(x), savedTurns'[x] = savedTurns[x], terminal'.sid # x,
         \A t \in Threads : live'[t].sid # x /\ resuming'[t].sid # x,
         \A q \in Questions : Under(q)' => run'[q].sid # x
  PROVE  Fresh(x)'
BY DEF Fresh, Under

LEMMA StillSingle ==
  ASSUME NEW x \in SessionIds, Single(x), savedTurns'[x] = savedTurns[x],
         terminal'.sid = x => terminal' = terminal,
         \A t \in Threads : live'[t].sid = x => live'[t] = live[t],
         \A p \in Questions :
           Under(p)' /\ run'[p].sid = x =>
             Under(p) /\ run'[p] = run[p] /\ live'[run[p].thread] = live[run[p].thread],
         \A p, q \in Questions :
           Under(p)' /\ run'[p].sid = x /\ Under(q)' /\ run'[q].sid # "none"
             /\ run'[q].thread = run'[p].thread
           => Under(q) /\ run[q].sid # "none" /\ run[q].thread = run'[q].thread
  PROVE  Single(x)'
<1>1. ASSUME NEW q \in Questions, Under(q)', run'[q].sid = x
      PROVE  /\ run'[q].kind = "oracle" /\ run'[q].thread \in Threads
             /\ live'[run'[q].thread].sid = x
             /\ run'[q].at \in {"asking", "saving"} => IsPrefix(savedTurns'[x], run'[q].base)
             /\ run'[q].at = "saving" => live'[run'[q].thread].turns = Append(run'[q].base, q)
             /\ \A p \in Questions :
                  Under(p)' /\ run'[p].thread = run'[q].thread /\ run'[p].sid # "none" => p = q
  <2>1. Under(q) /\ run'[q] = run[q] /\ live'[run[q].thread] = live[run[q].thread]
    BY <1>1
  <2>2. \A p \in Questions :
          Under(p)' /\ run'[p].thread = run'[q].thread /\ run'[p].sid # "none" =>
            Under(p) /\ run[p].thread = run[q].thread /\ run[p].sid # "none"
    BY <1>1, <2>1
  <2> QED
    BY <1>1, <2>1, <2>2 DEF Single
<1>2. terminal'.sid = x =>
        /\ \A t \in Threads : live'[t].sid # x
        /\ IsPrefix(savedTurns'[x], terminal'.turns)
        /\ terminal'.at = "asking" => terminal'.snapshot = terminal'.turns
  BY DEF Single
<1>3. /\ \A t, u \in Threads : live'[t].sid = x /\ live'[u].sid = x => t = u
      /\ \A t \in Threads : live'[t].sid = x => IsPrefix(savedTurns'[x], live'[t].turns)
  BY DEF Single
<1> QED
  BY <1>1, <1>2, <1>3 DEF Single

(* The runs are as before. *)
LEMMA RunsAsBefore ==
  ASSUME NEW x \in SessionIds, Single(x), run' = run, savedTurns'[x] = savedTurns[x],
         terminal'.sid = x => terminal' = terminal,
         \A t \in Threads : live'[t].sid = x => live'[t] = live[t],
         \A p \in Questions :
           Under(p) /\ run[p].sid = x => live'[run[p].thread] = live[run[p].thread]
  PROVE  Single(x)'
<1>1. \A p \in Questions : Under(p)' <=> Under(p)
  BY DEF Under
<1> QED
  BY <1>1, StillSingle

LEMMA StopGrows ==
  ASSUME SessionsTyped, RunsInv, GrowInv, NEW t \in Threads, OracleStop(t)
  PROVE  GrowInv'
<1>1. /\ UNCHANGED <<resuming, savedTurns, issued, run, terminal>>
      /\ contested' = contested \cup InThread(t)
      /\ live'[t].sid = "none" /\ \A u \in Threads : u # t => live'[u] = live[u]
  BY Blank DEF OracleStop, Drop, rest, Contest, SessionsTyped
<1>2. \A q \in Questions : Under(q)' <=> Under(q)
  BY <1>1 DEF Under
<1>3. ASSUME NEW x \in SessionIds \ issued' PROVE Fresh(x)'
  <2>1. Fresh(x) /\ x # "none"
    BY <1>1, SageAssumption DEF GrowInv
  <2> QED
    BY <1>1, <1>2, <2>1, StillFresh DEF Fresh
<1>4. ASSUME NEW x \in SessionIds \ contested' PROVE Single(x)'
  <2>1. Single(x) /\ x # "none"
    BY <1>1, SageAssumption DEF GrowInv
  <2>2. \A p \in Questions : Under(p) /\ run[p].sid = x => run[p].thread # t
    BY <1>1, <1>4, <2>1 DEF InThread, Under
  <2>3. \A p \in Questions : Under(p) /\ run[p].sid = x => live'[run[p].thread] = live[run[p].thread]
    BY <1>1, <2>1, <2>2 DEF Single
  <2> QED
    BY <1>1, <2>1, <2>3, RunsAsBefore
<1> QED
  BY <1>3, <1>4 DEF GrowInv

LEMMA LoadGrows ==
  ASSUME SessionsTyped, GrowInv, NEW t \in Threads, ResumeLoads(t)
  PROVE  GrowInv'
<1>1. /\ UNCHANGED <<live, savedTurns, issued, contested, run, terminal>>
      /\ \A u \in Threads : resuming'[u].sid \in issued \/ resuming'[u] = resuming[u]
  BY DEF ResumeLoads, rest, SessionsTyped
<1>2. \A q \in Questions : Under(q)' <=> Under(q)
  BY <1>1 DEF Under
<1>3. ASSUME NEW x \in SessionIds \ issued' PROVE Fresh(x)'
  <2>1. Fresh(x) /\ x \notin issued
    BY <1>1 DEF GrowInv
  <2> QED
    BY <1>1, <1>2, <2>1, StillFresh DEF Fresh
<1>4. ASSUME NEW x \in SessionIds \ contested' PROVE Single(x)'
  <2>1. Single(x)
    BY <1>1 DEF GrowInv
  <2> QED
    BY <1>1, <2>1, RunsAsBefore
<1> QED
  BY <1>3, <1>4 DEF GrowInv

LEMMA ResumeGrows ==
  ASSUME SessionsTyped, RunsInv, GrowInv, NEW t \in Threads, ResumeSets(t)
  PROVE  GrowInv'
<1>1. PICK s \in SessionIds : s = resuming[t].sid
  BY Blank DEF ResumeSets, SessionsTyped
<1>2. /\ UNCHANGED <<savedTurns, issued, run, terminal>>
      /\ contested \cup InThread(t) \subseteq contested'
      /\ live'[t].sid = s /\ live'[t].turns = resuming[t].turns
      /\ \A u \in Threads : u # t => live'[u] = live[u]
      /\ \A u \in Threads : resuming'[u] \in {NoSession, resuming[u]}
  BY <1>1 DEF ResumeSets, Keep, rest, Contest, SessionsTyped
<1>3. s \notin contested' =>
        /\ ~Running(s) /\ HeldBy(s) \subseteq {t} /\ terminal.sid # s
        /\ resuming[t].turns = savedTurns[s]
  BY <1>1 DEF ResumeSets, Contest
<1>4. \A q \in Questions : Under(q)' <=> Under(q)
  BY <1>2 DEF Under
<1>5. ASSUME NEW x \in SessionIds \ issued' PROVE Fresh(x)'
  <2>1. Fresh(x) /\ x # "none" /\ x # s
    BY <1>1, <1>2, SageAssumption DEF GrowInv, Fresh
  <2> QED
    BY <1>2, <1>4, <2>1, Blank, StillFresh DEF Fresh
<1>6. ASSUME NEW x \in SessionIds \ contested', x # s PROVE Single(x)'
  <2>1. Single(x) /\ x # "none"
    BY <1>2, <1>6, SageAssumption DEF GrowInv
  <2>2. \A p \in Questions : Under(p) /\ run[p].sid = x => run[p].thread # t
    BY <1>2, <1>6, <2>1 DEF InThread, Under
  <2>3. \A p \in Questions : Under(p) /\ run[p].sid = x => live'[run[p].thread] = live[run[p].thread]
    BY <1>2, <2>1, <2>2 DEF Single
  <2> QED
    BY <1>2, <1>6, <2>1, <2>3, RunsAsBefore
<1>7. ASSUME s \notin contested' PROVE Single(s)'
  <2>1. savedTurns[s] \in Turns /\ live'[t].turns = savedTurns'[s]
    BY <1>2, <1>3, <1>7 DEF SessionsTyped
  <2>2. \A u \in Threads : live'[u].sid = s => u = t
    BY <1>2, <1>3, <1>7 DEF HeldBy
  <2>3. \A q \in Questions : ~(Under(q)' /\ run'[q].sid = s)
    BY <1>2, <1>3, <1>4, <1>7 DEF Running, Under
  <2>4. terminal'.sid # s
    BY <1>2, <1>3, <1>7
  <2>5. IsPrefix(savedTurns'[s], live'[t].turns)
    BY <1>2, <2>1, PrefixKept
  <2> QED
    BY <2>2, <2>3, <2>4, <2>5 DEF Single
<1> QED
  BY <1>5, <1>6, <1>7 DEF GrowInv

(* A run's record, when one run moves. *)
LEMMA OneMoves ==
  ASSUME RunsInv, NEW q \in Questions, NEW r, run' = [run EXCEPT ![q] = r]
  PROVE  run'[q] = r /\ \A p \in Questions : p # q => run'[p] = run[p]
BY DEF RunsInv

LEMMA CopyGrows ==
  ASSUME SessionsTyped, RunsInv, GrowInv, NEW q \in Questions, CopyHistory(q)
  PROVE  GrowInv'
<1>1. PICK old \in Runs : old = run[q] /\ old.at = "ready"
  BY DEF RunsInv, CopyHistory
<1>2. PICK b : b = IF old.kind = "oracle" THEN Base(old.thread) ELSE <<>>
  OBVIOUS
<1>3. PICK r : r = [old EXCEPT !.at = "asking", !.base = b]
  OBVIOUS
<1>4. /\ r.at = "asking" /\ r.base = b /\ r.sid = old.sid /\ r.thread = old.thread
      /\ r.kind = old.kind
  BY <1>3 DEF Runs
<1>5. run' = [run EXCEPT ![q] = r]
  BY <1>1, <1>2, <1>3 DEF CopyHistory
<1>6. run'[q] = r /\ \A p \in Questions : p # q => run'[p] = run[p]
  BY <1>5, OneMoves
<1>7. UNCHANGED <<live, resuming, savedTurns, issued, contested, terminal>>
  BY DEF CopyHistory, sessionVars, others
<1>8. \A p \in Questions :
        /\ Under(p)' <=> Under(p)
        /\ run'[p].sid = run[p].sid /\ run'[p].thread = run[p].thread /\ run'[p].kind = run[p].kind
  BY <1>1, <1>4, <1>6 DEF Under, Over
<1>9. ASSUME NEW x \in SessionIds \ issued' PROVE Fresh(x)'
  BY <1>7, <1>8 DEF GrowInv, Fresh
<1>10. ASSUME NEW x \in SessionIds \ contested' PROVE Single(x)'
  <2>1. Single(x)
    BY <1>7 DEF GrowInv
  <2>2. ASSUME NEW p \in Questions, Under(p)', run'[p].sid = x
        PROVE  /\ run'[p].kind = "oracle" /\ run'[p].thread \in Threads
               /\ live'[run'[p].thread].sid = x
               /\ \A o \in Questions :
                    Under(o)' /\ run'[o].thread = run'[p].thread /\ run'[o].sid # "none" => o = p
    BY <1>7, <1>8, <2>1, <2>2 DEF Single
  <2>3. ASSUME NEW p \in Questions, Under(p)', run'[p].sid = x
        PROVE  /\ run'[p].at \in {"asking", "saving"} => IsPrefix(savedTurns'[x], run'[p].base)
               /\ run'[p].at = "saving" => live'[run'[p].thread].turns = Append(run'[p].base, p)
    <3>1. CASE p = q
      <4>1. r.base = live[r.thread].turns /\ live[r.thread].sid = x /\ r.thread \in Threads
        BY <1>1, <1>2, <1>4, <1>6, <1>7, <2>2, <2>3, <3>1 DEF Base
      <4>2. IsPrefix(savedTurns[x], live[r.thread].turns)
        BY <2>1, <4>1 DEF Single
      <4> QED
        BY <1>4, <1>6, <1>7, <3>1, <4>1, <4>2
    <3>2. CASE p # q
      BY <1>6, <1>7, <1>8, <2>1, <2>3, <3>2 DEF Single
    <3> QED
      BY <3>1, <3>2
  <2> QED
    BY <1>7, <2>1, <2>2, <2>3 DEF Single
<1> QED
  BY <1>9, <1>10 DEF GrowInv

LEMMA AnswerGrows ==
  ASSUME SessionsTyped, RunsInv, GrowInv, NEW q \in Questions, OracleAnswers(q)
  PROVE  GrowInv'
<1>1. PICK old \in Runs : /\ old = run[q] /\ old.at = "asking" /\ old.thread \in Threads
                          /\ old.sid \in SessionIds /\ old.kind = "oracle"
  BY DEF RunsInv, OracleAnswers, Step, Asks
<1>2. PICK r : r = [old EXCEPT !.at = "saving"]
  OBVIOUS
<1>3. /\ r.at = "saving" /\ r.base = old.base /\ r.sid = old.sid /\ r.thread = old.thread
      /\ r.kind = old.kind
  BY <1>2 DEF Runs
<1>4. run' = [run EXCEPT ![q] = r]
  BY <1>1, <1>2 DEF OracleAnswers, Step
<1>5. run'[q] = r /\ \A p \in Questions : p # q => run'[p] = run[p]
  BY <1>4, OneMoves
<1>6. /\ UNCHANGED <<resuming, savedTurns, issued, contested, terminal>>
      /\ live'[old.thread].sid = old.sid /\ live'[old.thread].turns = Append(old.base, q)
      /\ \A u \in Threads : u # old.thread => live'[u] = live[u]
  BY <1>1 DEF OracleAnswers, Keep, NewHistory, others, SessionsTyped
<1>7. \A p \in Questions :
        /\ Under(p)' <=> Under(p)
        /\ run'[p].sid = run[p].sid /\ run'[p].thread = run[p].thread /\ run'[p].kind = run[p].kind
  BY <1>1, <1>3, <1>5 DEF Under, Over
<1>8. Under(q) /\ run[q].sid # "none"
  BY <1>1, SageAssumption DEF Under, Over
<1>9. ASSUME NEW x \in SessionIds \ issued' PROVE Fresh(x)'
  <2>1. Fresh(x) /\ old.sid # x
    BY <1>1, <1>6, <1>8 DEF GrowInv, Fresh
  <2> QED
    BY <1>6, <1>7, <2>1, StillFresh DEF Fresh
<1>10. ASSUME NEW x \in SessionIds \ contested', x # old.sid PROVE Single(x)'
  <2>1. Single(x)
    BY <1>6, <1>10 DEF GrowInv
  <2>2. \A p \in Questions : Under(p) /\ run[p].sid = x => run[p].thread # old.thread
    BY <1>1, <1>8, <1>10, <2>1 DEF Single
  <2>3. \A p \in Questions : Under(p) /\ run[p].sid = x => live'[run[p].thread] = live[run[p].thread]
    BY <1>6, <2>1, <2>2 DEF Single
  <2>4. \A p \in Questions : Under(p)' /\ run'[p].sid = x =>
          Under(p) /\ run'[p] = run[p] /\ live'[run[p].thread] = live[run[p].thread]
    BY <1>1, <1>5, <1>7, <1>10, <2>3
  <2> QED
    BY <1>6, <1>7, <1>10, <2>1, <2>4, StillSingle
<1>11. ASSUME old.sid \notin contested' PROVE Single(old.sid)'
  <2> DEFINE x == old.sid
  <2>1. Single(x) /\ live[old.thread].sid = x /\ IsPrefix(savedTurns[x], old.base)
    BY <1>1, <1>6, <1>8, <1>11 DEF GrowInv, Single
  <2>2. savedTurns[x] \in Turns /\ old.base \in Turns /\ q \in Nat
    BY <1>1 DEF SessionsTyped, Runs, Questions
  <2>3. IsPrefix(savedTurns'[x], live'[old.thread].turns)
    BY <1>6, <2>1, <2>2, PrefixKept
  <2>4. \A u \in Threads : live'[u].sid = x => live[u].sid = x
    BY <1>6, <2>1
  <2>5. ASSUME NEW p \in Questions, Under(p)', run'[p].sid = x PROVE p = q
    <3>1. Under(p) /\ run[p].sid = x
      BY <1>7, <2>5
    <3>2. run[p].thread \in Threads /\ live[run[p].thread].sid = x
      BY <2>1, <3>1 DEF Single
    <3>3. run[p].thread = old.thread
      BY <1>1, <2>1, <3>2 DEF Single
    <3> QED
      BY <1>1, <1>8, <2>1, <3>1, <3>3 DEF Single
  <2>6. \A p \in Questions :
          Under(p)' /\ run'[p].thread = run'[q].thread /\ run'[p].sid # "none" => p = q
    BY <1>1, <1>7, <1>8, <2>1 DEF Single
  <2>7. /\ run'[q].kind = "oracle" /\ run'[q].thread \in Threads /\ live'[run'[q].thread].sid = x
        /\ IsPrefix(savedTurns'[x], run'[q].base)
        /\ live'[run'[q].thread].turns = Append(run'[q].base, q)
    BY <1>1, <1>3, <1>5, <1>6, <2>1
  <2>8. \A t, u \in Threads : live'[t].sid = x /\ live'[u].sid = x => t = u
    BY <2>1, <2>4 DEF Single
  <2>9. \A u \in Threads : live'[u].sid = x => u = old.thread
    BY <1>1, <2>1, <2>4 DEF Single
  <2>10. terminal'.sid # x
    BY <1>1, <1>6, <2>1 DEF Single
  <2> QED
    BY <2>3, <2>5, <2>6, <2>7, <2>8, <2>9, <2>10 DEF Single
<1> QED
  BY <1>9, <1>10, <1>11 DEF GrowInv

LEMMA SaveGrows ==
  ASSUME SessionsTyped, RunsInv, GrowInv, NEW q \in Questions, SaveTurn(q)
  PROVE  GrowInv'
<1>1. PICK old \in Runs : old = run[q] /\ old.at = "saving"
  BY DEF RunsInv, SaveTurn, Step
<1>2. PICK r : r = [old EXCEPT !.at = "posting"]
  OBVIOUS
<1>3. /\ r \in Runs /\ r.at = "posting" /\ r.sid = old.sid /\ r.thread = old.thread
      /\ r.kind = old.kind
  BY <1>2 DEF Runs, Holding
<1>4. run' = [run EXCEPT ![q] = r]
  BY <1>1, <1>2 DEF SaveTurn, Step
<1>5. run'[q] = r /\ \A p \in Questions : p # q => run'[p] = run[p]
  BY <1>4, OneMoves
<1>6. UNCHANGED <<live, resuming, issued, contested, terminal>>
  BY DEF SaveTurn, others
<1>7. Under(q)
  BY <1>1 DEF Under, Over
<1>8. CASE savedTurns' = savedTurns
  BY <1>1, <1>3, <1>4, <1>6, <1>7, <1>8, MovesOn
<1>9. CASE SaveSession(old.sid, NewHistory(old.base, q))
  <2>1. \A p \in Questions :
          /\ Under(p)' <=> Under(p)
          /\ run'[p].sid = run[p].sid /\ run'[p].thread = run[p].thread /\ run'[p].kind = run[p].kind
    BY <1>1, <1>3, <1>5 DEF Under, Over
  <2>2. \A x \in SessionIds : x # old.sid => savedTurns'[x] = savedTurns[x]
    BY <1>9 DEF SaveSession, SessionsTyped
  <2>3. ASSUME NEW x \in SessionIds \ issued' PROVE Fresh(x)'
    <3>1. Fresh(x) /\ old.sid # x
      BY <1>1, <1>6, <1>7 DEF GrowInv, Fresh
    <3> QED
      BY <1>6, <2>1, <2>2, <3>1, StillFresh DEF Fresh
  <2>4. ASSUME NEW x \in SessionIds \ contested', x # old.sid PROVE Single(x)'
    <3>1. Single(x)
      BY <1>6, <2>4 DEF GrowInv
    <3>2. \A p \in Questions : Under(p)' /\ run'[p].sid = x =>
            Under(p) /\ run'[p] = run[p] /\ live'[run[p].thread] = live[run[p].thread]
      BY <1>1, <1>5, <1>6, <2>1, <2>4
    <3> QED
      BY <1>6, <2>1, <2>2, <2>4, <3>1, <3>2, StillSingle
  <2>5. ASSUME old.sid \in SessionIds \ contested' PROVE Single(old.sid)'
    <3> DEFINE x == old.sid
    <3>1. /\ Single(x) /\ old.kind = "oracle" /\ old.thread \in Threads
          /\ live[old.thread].sid = x /\ live[old.thread].turns = Append(old.base, q)
      BY <1>1, <1>6, <1>7, <2>5 DEF GrowInv, Single
    <3>2. savedTurns'[x] = live[old.thread].turns
      BY <1>9, <2>5, <3>1 DEF SaveSession, NewHistory, SessionsTyped
    <3>3. live[old.thread].turns \in Turns
      BY <3>1, Blank DEF SessionsTyped
    <3>4. \A u \in Threads : live'[u].sid = x => u = old.thread
      BY <1>6, <3>1 DEF Single
    <3>5. IsPrefix(savedTurns'[x], live'[old.thread].turns)
      BY <1>6, <3>2, <3>3, PrefixKept
    <3>6. ASSUME NEW p \in Questions, Under(p)', run'[p].sid = x PROVE p = q
      <4>1. Under(p) /\ run[p].sid = x
        BY <2>1, <3>6
      <4>2. run[p].thread \in Threads /\ live[run[p].thread].sid = x
        BY <3>1, <4>1 DEF Single
      <4>3. run[p].thread = old.thread
        BY <3>1, <4>2 DEF Single
      <4>4. run[q].sid # "none"
        BY <1>1, <2>5, SageAssumption
      <4> QED
        BY <1>1, <1>7, <3>1, <4>1, <4>3, <4>4 DEF Single
    <3>7. \A p \in Questions :
            Under(p)' /\ run'[p].thread = run'[q].thread /\ run'[p].sid # "none" => p = q
      BY <1>1, <1>7, <2>1, <3>1 DEF Single
    <3>8. terminal'.sid # x
      BY <1>6, <3>1 DEF Single
    <3>9. /\ run'[q].kind = "oracle" /\ run'[q].thread \in Threads /\ live'[run'[q].thread].sid = x
          /\ run'[q].at = "posting"
      BY <1>3, <1>5, <1>6, <3>1
    <3> QED
      BY <3>4, <3>5, <3>6, <3>7, <3>8, <3>9 DEF Single
  <2> QED
    BY <2>3, <2>4, <2>5 DEF GrowInv
<1> QED
  BY <1>1, <1>8, <1>9 DEF SaveTurn

(* A new question, in a thread that holds s for it, or about no session.   *)
LEMMA NewRunMeans ==
  ASSUME RunsInv, NEW t \in Threads, NEW kind \in {"oracle", "debug"},
         NEW s \in SessionIds \cup {"none"}, NewRun(t, kind, s)
  PROVE  /\ terminal' = terminal
         /\ \E k \in Questions :
              /\ ~Under(k)
              /\ \A p \in Questions : p # k => run'[p] = run[p]
              /\ Under(k)' => /\ run'[k].at = "queued" /\ run'[k].sid = s /\ run'[k].thread = t
                              /\ run'[k].kind = kind
<1>1. PICK k \in Questions : k = asked + 1
  BY SageAssumption DEF NewRun, Questions, RunsInv
<1>2. ~Under(k)
  BY <1>1 DEF RunsInv, Questions, Under, Over
<1>3. PICK r : r = [NoRun EXCEPT !.at = "queued", !.kind = kind, !.thread = t, !.sid = s]
  OBVIOUS
<1>4. r.at = "queued" /\ r.sid = s /\ r.thread = t /\ r.kind = kind
  BY <1>3 DEF NoRun
<1>5. PICK o : o = [NoRun EXCEPT !.at = "over"]
  OBVIOUS
<1>6. o.at = "over"
  BY <1>5, BlankRun
<1>7. run' = [run EXCEPT ![k] = r] \/ run' = [run EXCEPT ![k] = o]
  BY <1>1, <1>3, <1>5 DEF NewRun, Ends
<1>8. \A p \in Questions : p # k => run'[p] = run[p]
  BY <1>7, OneMoves
<1>9. run'[k] = r \/ run'[k] = o
  BY <1>7, OneMoves
<1>10. Under(k)' => /\ run'[k].at = "queued" /\ run'[k].sid = s /\ run'[k].thread = t
                    /\ run'[k].kind = kind
  BY <1>4, <1>6, <1>9 DEF Under, Over
<1>11. terminal' = terminal
  BY DEF NewRun
<1> QED
  BY <1>1, <1>2, <1>8, <1>10, <1>11

LEMMA DebugGrows ==
  ASSUME SessionsTyped, RunsInv, GrowInv, NEW t \in Threads, AskDebug(t)
  PROVE  GrowInv'
<1>1. UNCHANGED <<live, resuming, savedTurns, issued, contested>>
  BY DEF AskDebug, sessionVars
<1>2. NewRun(t, "debug", "none")
  BY DEF AskDebug
<1>3. PICK k \in Questions :
        /\ terminal' = terminal /\ ~Under(k)
        /\ \A p \in Questions : p # k => run'[p] = run[p]
        /\ Under(k)' => run'[k].sid = "none"
  BY <1>2, NewRunMeans
<1>4. ASSUME NEW x \in SessionIds \ issued' PROVE Fresh(x)'
  <2>1. Fresh(x) /\ x # "none"
    BY <1>1, SageAssumption DEF GrowInv
  <2> QED
    BY <1>1, <1>3, <2>1, StillFresh DEF Fresh, Under
<1>5. ASSUME NEW x \in SessionIds \ contested' PROVE Single(x)'
  <2>1. Single(x) /\ x # "none"
    BY <1>1, SageAssumption DEF GrowInv
  <2>2. \A p \in Questions : Under(p)' /\ run'[p].sid # "none" => Under(p) /\ run'[p] = run[p]
    BY <1>3 DEF Under
  <2> QED
    BY <1>1, <1>3, <2>1, <2>2, StillSingle
<1> QED
  BY <1>4, <1>5 DEF GrowInv

LEMMA ChatGrows ==
  ASSUME RunsInv, GrowInv, NEW t \in Threads, AskChat(t)
  PROVE  GrowInv'
<1>1. PICK k \in Questions : k = asked + 1
  BY SageAssumption DEF AskChat, Questions, RunsInv
<1> QED
  BY <1>1, Gone DEF AskChat, sessionVars

LEMMA AskGrows ==
  ASSUME SessionsTyped, RunsInv, GrowInv, NEW t \in Threads, AskOracle(t)
  PROVE  GrowInv'
<1>1. PICK s \in SessionFor(t) :
        /\ Enter(t, s)
        /\ Contest(IF Running(s) \/ InThread(t) # {} THEN {s} \cup InThread(t) ELSE {})
        /\ NewRun(t, "oracle", s)
        /\ UNCHANGED <<resuming, savedTurns>>
  BY DEF AskOracle
<1>2. s \in SessionIds /\ s # "none"
  BY Blank, SageAssumption DEF SessionFor, Open, SessionsTyped
<1>3. PICK k \in Questions :
        /\ terminal' = terminal /\ ~Under(k)
        /\ \A p \in Questions : p # k => run'[p] = run[p]
        /\ Under(k)' => /\ run'[k].at = "queued" /\ run'[k].sid = s /\ run'[k].thread = t
                        /\ run'[k].kind = "oracle"
  BY <1>1, <1>2, NewRunMeans
<1>4. \A p \in Questions : p # k => run'[p] = run[p] /\ (Under(p)' <=> Under(p))
  BY <1>3 DEF Under
<1>5. /\ contested \subseteq contested' /\ issued' = issued \cup {s}
      /\ InThread(t) # {} => InThread(t) \cup {s} \subseteq contested'
      /\ Running(s) => s \in contested'
  BY <1>1 DEF Contest, Enter
<1>6. /\ live'[t].sid = s
      /\ Open(t) => live' = live /\ live[t].sid = s
      /\ ~Open(t) => live[t] = NoSession /\ live'[t].turns = <<>> /\ s \notin issued
      /\ \A u \in Threads : u # t => live'[u] = live[u]
  <2>1. CASE Open(t)
    <3>1. live[t].sid = s
      BY <1>1, <2>1 DEF SessionFor
    <3> QED
      BY <1>1, <2>1, <3>1 DEF Enter
  <2>2. CASE ~Open(t)
    <3>1. live' = [live EXCEPT ![t] = [NoSession EXCEPT !.sid = s]] /\ s \notin issued
      BY <1>1, <2>2 DEF Enter, SessionFor
    <3>2. PICK n : n = [NoSession EXCEPT !.sid = s]
      OBVIOUS
    <3>3. n.sid = s /\ n.turns = <<>>
      BY <3>2 DEF NoSession
    <3>4. live'[t] = n /\ \A u \in Threads : u # t => live'[u] = live[u]
      BY <3>1, <3>2 DEF SessionsTyped
    <3> QED
      BY <2>2, <3>1, <3>3, <3>4 DEF Open
  <2> QED
    BY <2>1, <2>2
<1>7. ASSUME NEW x \in SessionIds \ issued' PROVE Fresh(x)'
  <2>1. Fresh(x) /\ x # s
    BY <1>5 DEF GrowInv
  <2>2. \A u \in Threads : live'[u].sid # x /\ resuming'[u].sid # x
    BY <1>1, <1>6, <2>1 DEF Fresh
  <2>3. \A p \in Questions : Under(p)' => run'[p].sid # x
    BY <1>3, <1>4, <2>1 DEF Fresh
  <2> QED
    BY <1>1, <1>3, <2>1, <2>2, <2>3, StillFresh DEF Fresh
<1>8. ASSUME NEW x \in SessionIds \ contested', x # s PROVE Single(x)'
  <2>1. Single(x) /\ x # "none"
    BY <1>5, SageAssumption, <1>8 DEF GrowInv
  <2>2. \A p \in Questions : Under(p) /\ run[p].sid = x => run[p].thread # t
    BY <1>5, <1>8, <2>1 DEF InThread, Under
  <2>3. \A p \in Questions : Under(p)' /\ run'[p].sid = x =>
          p # k /\ Under(p) /\ run'[p] = run[p] /\ run[p].thread # t
    BY <1>3, <1>4, <1>8, <2>2
  <2>4. \A p \in Questions : Under(p)' /\ run'[p].sid = x =>
          Under(p) /\ run'[p] = run[p] /\ live'[run[p].thread] = live[run[p].thread]
    BY <1>6, <2>1, <2>3 DEF Single
  <2>5. \A u \in Threads : live'[u].sid = x => live'[u] = live[u]
    BY <1>6, <1>8
  <2>6. ASSUME NEW p \in Questions, NEW q \in Questions, Under(p)', run'[p].sid = x, Under(q)',
               run'[q].sid # "none", run'[q].thread = run'[p].thread
        PROVE  Under(q) /\ run[q].sid # "none" /\ run[q].thread = run'[q].thread
    <3>1. q # k
      BY <1>3, <2>3, <2>6
    <3> QED
      BY <1>4, <2>6, <3>1
  <2> QED
    BY <1>1, <1>3, <2>1, <2>4, <2>5, <2>6, StillSingle
<1>9. ASSUME s \notin contested' PROVE Single(s)'
  <2>1. ~Running(s) /\ InThread(t) = {} /\ s \notin contested
    BY <1>5, <1>9
  <2>2. \A p \in Questions : Under(p) => run[p].sid # s /\ (run[p].thread = t => run[p].sid = "none")
    BY <2>1 DEF Running, InThread, Under
  <2>3. /\ terminal.sid # s /\ IsPrefix(savedTurns[s], live'[t].turns)
        /\ \A u \in Threads : u # t => live[u].sid # s
    <3>1. CASE Open(t)
      BY <1>2, <1>6, <2>1, <3>1 DEF GrowInv, Single
    <3>2. CASE ~Open(t)
      <4>1. Fresh(s)
        BY <1>2, <1>6, <3>2 DEF GrowInv
      <4>2. <<>> \in Turns
        BY Blank
      <4> QED
        BY <1>6, <3>2, <4>1, <4>2, PrefixKept DEF Fresh
    <3> QED
      BY <3>1, <3>2
  <2>4. \A u \in Threads : live'[u].sid = s => u = t
    BY <1>6, <2>3
  <2>5. ASSUME NEW p \in Questions, Under(p)', run'[p].sid = s
        PROVE  p = k
    BY <1>4, <2>2, <2>5
  <2>6. ASSUME NEW p \in Questions, Under(p)', run'[p].thread = t, run'[p].sid # "none"
        PROVE  p = k
    BY <1>4, <2>2, <2>6
  <2> QED
    BY <1>1, <1>3, <1>6, <2>3, <2>4, <2>5, <2>6 DEF Single
<1> QED
  BY <1>2, <1>7, <1>8, <1>9 DEF GrowInv

(* The terminal takes a session, or lets one go. *)
LEMMA TerminalTakes ==
  ASSUME SessionsTyped, GrowInv, UNCHANGED <<live, resuming, savedTurns, run>>, issued \subseteq issued',
         contested \subseteq contested', terminal'.at # "asking",
         terminal'.sid # "none" => terminal'.sid \in issued',
         terminal'.sid \in SessionIds \ contested' =>
           /\ \A t \in Threads : live[t].sid # terminal'.sid
           /\ ~Running(terminal'.sid)
           /\ terminal'.turns = savedTurns[terminal'.sid]
  PROVE  GrowInv'
<1>1. \A p \in Questions : Under(p)' <=> Under(p)
  BY DEF Under
<1>2. ASSUME NEW x \in SessionIds \ issued' PROVE Fresh(x)'
  <2>1. Fresh(x) /\ x # "none"
    BY SageAssumption DEF GrowInv
  <2> QED
    BY <1>1, <1>2, <2>1, StillFresh DEF Fresh
<1>3. ASSUME NEW x \in SessionIds \ contested', terminal'.sid # x PROVE Single(x)'
  <2>1. Single(x)
    BY <1>3 DEF GrowInv
  <2> QED
    BY <1>3, <2>1, RunsAsBefore
<1>4. ASSUME NEW x \in SessionIds \ contested', terminal'.sid = x PROVE Single(x)'
  <2>1. \A q \in Questions : ~(Under(q)' /\ run'[q].sid = x)
    BY <1>1, <1>4 DEF Running, Under
  <2>2. savedTurns[x] \in Turns
    BY DEF SessionsTyped
  <2>3. IsPrefix(savedTurns'[x], terminal'.turns)
    BY <1>4, <2>2, PrefixKept
  <2>4. \A t \in Threads : live'[t].sid # x
    BY <1>4
  <2> QED
    BY <2>1, <2>3, <2>4 DEF Single
<1> QED
  BY <1>2, <1>3, <1>4 DEF GrowInv

LEMMA OpenGrows ==
  ASSUME SessionsTyped, GrowInv, TerminalOpens \/ TerminalClears \/ TerminalCloses
  PROVE  GrowInv'
<1>1. UNCHANGED <<live, resuming, savedTurns, run>>
  BY DEF TerminalOpens, TerminalClears, TerminalCloses, TerminalOnly
<1>2. ASSUME NEW s \in SessionIds, NEW turns,
             terminal' = [Closed EXCEPT !.at = "prompt", !.sid = s, !.turns = turns]
      PROVE  terminal'.at = "prompt" /\ terminal'.sid = s /\ terminal'.turns = turns
  BY <1>2 DEF Closed
<1>3. CASE TerminalOpens
  <2>1. PICK s \in SessionIds :
          /\ terminal' = [Closed EXCEPT !.at = "prompt", !.sid = s, !.turns = LoadSession(s)]
          /\ issued' = issued \cup {s}
          /\ Contest(IF Running(s) \/ HeldBy(s) # {} THEN {s} ELSE {})
    BY <1>3 DEF TerminalOpens
  <2>2. terminal'.at = "prompt" /\ terminal'.sid = s /\ terminal'.turns = savedTurns[s]
    BY <1>2, <2>1 DEF LoadSession
  <2>3. contested \subseteq contested' /\ s \in issued' /\ issued \subseteq issued'
    BY <2>1 DEF Contest
  <2>4. s \notin contested' => ~Running(s) /\ \A t \in Threads : live[t].sid # s
    BY <2>1 DEF Contest, HeldBy
  <2> QED
    BY <1>1, <2>2, <2>3, <2>4, TerminalTakes
<1>4. CASE TerminalClears
  <2>1. PICK s \in SessionIds \ issued :
          /\ terminal' = [Closed EXCEPT !.at = "prompt", !.sid = s]
          /\ issued' = issued \cup {s}
    BY <1>4 DEF TerminalClears
  <2>2. terminal'.at = "prompt" /\ terminal'.sid = s /\ terminal'.turns = <<>>
    BY <2>1 DEF Closed
  <2>3. contested' = contested /\ s \in issued' /\ issued \subseteq issued'
    BY <1>4, <2>1 DEF TerminalClears
  <2>4. Fresh(s)
    BY <2>1 DEF GrowInv
  <2>5. ~Running(s) /\ savedTurns[s] = <<>> /\ \A t \in Threads : live[t].sid # s
    BY <2>4 DEF Fresh, Running, Under
  <2> QED
    BY <1>1, <2>2, <2>3, <2>5, TerminalTakes
<1>5. CASE TerminalCloses
  <2>1. terminal'.at = "closed" /\ terminal'.sid = "none"
    BY <1>5 DEF TerminalCloses, Closed
  <2>2. UNCHANGED <<issued, contested>>
    BY <1>5 DEF TerminalCloses
  <2> QED
    BY <1>1, <2>1, <2>2, SageAssumption, TerminalTakes
<1> QED
  BY <1>3, <1>4, <1>5

LEMMA TerminalGrows ==
  ASSUME SessionsTyped, RunsInv, GrowInv, TerminalAsks \/ TerminalAnswers \/ TerminalRollsBack
  PROVE  GrowInv'
<1>1. UNCHANGED <<live, resuming, run, issued, contested>>
  BY DEF TerminalAsks, TerminalAnswers, TerminalRollsBack, TerminalOnly
<1>2. PICK old \in Terminals : old = terminal /\ old.sid \in SessionIds
  BY DEF SessionsTyped, TerminalAsks, TerminalAnswers, TerminalRollsBack
<1>3. /\ terminal'.sid = old.sid
      /\ terminal'.at = "asking" => terminal'.snapshot = terminal'.turns
      /\ TerminalAnswers => terminal'.turns = Append(old.turns, asked)
      /\ ~TerminalAnswers => terminal'.turns \in {old.turns, old.snapshot}
      /\ terminal'.turns = old.turns \/ old.at = "asking"
  BY <1>2 DEF TerminalAsks, TerminalAnswers, TerminalRollsBack, NewHistory, Terminals
<1>4. \A x \in SessionIds : x # old.sid => savedTurns'[x] = savedTurns[x]
  BY <1>2 DEF TerminalAsks, TerminalAnswers, TerminalRollsBack, SaveSession, SessionsTyped
<1>5. \A p \in Questions : Under(p)' <=> Under(p)
  BY <1>1 DEF Under
<1>6. ASSUME NEW x \in SessionIds \ issued' PROVE Fresh(x)'
  <2>1. Fresh(x) /\ x # old.sid
    BY <1>1, <1>2 DEF GrowInv, Fresh
  <2> QED
    BY <1>1, <1>3, <1>4, <1>5, <2>1, StillFresh DEF Fresh
<1>7. ASSUME NEW x \in SessionIds \ contested', x # old.sid PROVE Single(x)'
  <2>1. Single(x)
    BY <1>1, <1>7 DEF GrowInv
  <2> QED
    BY <1>1, <1>3, <1>4, <1>7, <2>1, RunsAsBefore
<1>8. ASSUME old.sid \notin contested' PROVE Single(old.sid)'
  <2> DEFINE x == old.sid
  <2>1. /\ Single(x) /\ \A t \in Threads : live[t].sid # x
        /\ IsPrefix(savedTurns[x], old.turns)
        /\ old.at = "asking" => old.snapshot = old.turns
    BY <1>1, <1>2, <1>8 DEF GrowInv, Single
  <2>2. \A q \in Questions : ~(Under(q)' /\ run'[q].sid = x)
    BY <1>1, <1>5, <2>1 DEF Single
  <2>3. savedTurns[x] \in Turns /\ old.turns \in Turns /\ asked \in Nat
    BY <1>2 DEF SessionsTyped, Terminals, RunsInv
  <2>4. IsPrefix(savedTurns'[x], terminal'.turns)
    <3>1. CASE TerminalAnswers
      <4>1. Append(old.turns, asked) \in Turns
        BY <2>3, Blank
      <4>2. savedTurns'[x] = Append(old.turns, asked) \/ savedTurns' = savedTurns
        BY <1>2, <3>1 DEF TerminalAnswers, SaveSession, NewHistory, SessionsTyped
      <4> QED
        BY <1>3, <2>1, <2>3, <3>1, <4>1, <4>2, PrefixKept
    <3>2. CASE TerminalAsks \/ TerminalRollsBack
      <4>1. savedTurns' = savedTurns /\ terminal'.turns = old.turns
        BY <1>2, <2>1, <3>2 DEF TerminalAsks, TerminalRollsBack, Terminals
      <4> QED
        BY <2>1, <4>1
    <3> QED
      BY <3>1, <3>2
  <2>5. \A t \in Threads : live'[t].sid # x
    BY <1>1, <2>1
  <2> QED
    BY <1>3, <2>2, <2>4, <2>5 DEF Single
<1> QED
  BY <1>6, <1>7, <1>8 DEF GrowInv

LEMMA RestartGrows ==
  ASSUME SessionsTyped, RunsInv, GrowInv, BotRestarts
  PROVE  GrowInv'
<1>1. /\ UNCHANGED <<savedTurns, issued, contested, terminal>>
      /\ \A t \in Threads : live'[t].sid = "none" /\ resuming'[t].sid = "none"
  BY Blank DEF BotRestarts
<1>2. \A q \in Questions : ~Under(q)'
  BY BlankRun DEF BotRestarts, Under, Over
<1>3. ASSUME NEW x \in SessionIds \ issued' PROVE Fresh(x)'
  BY <1>1, <1>2, <1>3, SageAssumption DEF GrowInv, Fresh
<1>4. ASSUME NEW x \in SessionIds \ contested' PROVE Single(x)'
  BY <1>1, <1>2, <1>4, SageAssumption DEF GrowInv, Single
<1> QED
  BY <1>3, <1>4 DEF GrowInv

LEMMA GrowStep ==
  ASSUME SessionsTyped, RunsInv, GrowInv, [SageNext]_sageVars
  PROVE  GrowInv'
<1>1. ASSUME NEW t \in Threads,
             \/ AskOracle(t) \/ AskDebug(t) \/ AskChat(t) \/ OracleStop(t)
             \/ ResumeLoads(t) \/ ResumeSets(t)
      PROVE  GrowInv'
  BY <1>1, AskGrows, DebugGrows, ChatGrows, StopGrows, LoadGrows, ResumeGrows
<1>2. ASSUME NEW q \in Questions,
             \/ TakeSlot(q) \/ CopyHistory(q) \/ OracleAnswers(q) \/ SaveTurn(q)
             \/ DebugAnswers(q) \/ Raises(q) \/ Upload(q) \/ PostText(q)
             \/ SayFailed(q) \/ ReleaseSlot(q)
      PROVE  GrowInv'
  BY <1>2, QuietGrows, CopyGrows, AnswerGrows, SaveGrows
<1>3. CASE UNCHANGED sageVars
  <2>1. UNCHANGED <<live, resuming, savedTurns, issued, contested, terminal, run>>
    BY <1>3 DEF sageVars, sessionVars
  <2> QED
    BY <2>1, Untouched
<1> QED
  BY <1>1, <1>2, <1>3, OpenGrows, TerminalGrows, RestartGrows DEF SageNext

LEMMA GrowInitially == SageInit => GrowInv
<1> SUFFICES ASSUME SageInit PROVE GrowInv
  OBVIOUS
<1>1. /\ \A t \in Threads : live[t].sid = "none" /\ resuming[t].sid = "none"
      /\ \A s \in SessionIds : savedTurns[s] = <<>>
  BY Blank DEF SageInit, SessionsInit
<1>2. terminal.sid = "none"
  BY DEF SageInit, Closed
<1>3. \A q \in Questions : ~Under(q)
  <2>1. \A q \in Questions : run[q] = NoRun
    BY DEF SageInit
  <2> QED
    BY <2>1, BlankRun DEF Under, Over
<1>4. \A s \in SessionIds : s # "none"
  BY SageAssumption
<1>5. \A s \in SessionIds : Fresh(s)
  BY <1>1, <1>2, <1>3, <1>4 DEF Fresh
<1>6. \A s \in SessionIds : Single(s)
  BY <1>1, <1>2, <1>3, <1>4 DEF Single
<1> QED
  BY <1>5, <1>6 DEF GrowInv

(* What is saved grows, by the two steps that save. *)
LEMMA SavedGrows ==
  ASSUME SessionsTyped, RunsInv, GrowInv, [SageNext]_sageVars, NEW s \in SessionIds \ contested'
  PROVE  IsPrefix(savedTurns[s], savedTurns'[s])
<1>1. savedTurns[s] \in Turns /\ IsPrefix(savedTurns[s], savedTurns[s])
  BY PrefixKept DEF SessionsTyped
<1>2. CASE savedTurns' = savedTurns
  BY <1>1, <1>2
<1>3. ASSUME NEW q \in Questions, SaveTurn(q), savedTurns' # savedTurns
      PROVE  IsPrefix(savedTurns[s], savedTurns'[s])
  <2>1. SaveSession(run[q].sid, NewHistory(run[q].base, q)) /\ contested' = contested
    BY <1>3 DEF SaveTurn
  <2>2. CASE s = run[q].sid
    <3>1. Under(q) /\ run[q].at = "saving" /\ Single(s)
      BY <1>3, <2>1 DEF SaveTurn, Step, Under, Over, GrowInv
    <3>2. IsPrefix(savedTurns[s], run[q].base)
      BY <2>2, <3>1 DEF Single
    <3>3. run[q].base \in Turns /\ q \in Nat
      BY DEF RunsInv, Runs, Questions
    <3>4. savedTurns'[s] = Append(run[q].base, q)
      BY <2>1, <2>2 DEF SaveSession, NewHistory, SessionsTyped
    <3> QED
      BY <1>1, <3>2, <3>3, <3>4, PrefixKept
  <2>3. CASE s # run[q].sid
    <3>1. savedTurns'[s] = savedTurns[s]
      BY <2>1, <2>3 DEF SaveSession, SessionsTyped
    <3> QED
      BY <1>1, <3>1
  <2> QED
    BY <2>2, <2>3
<1>4. CASE TerminalAnswers /\ savedTurns' # savedTurns
  <2>1. SaveSession(terminal.sid, NewHistory(terminal.turns, asked)) /\ contested' = contested
    BY <1>4 DEF TerminalAnswers
  <2>2. CASE s = terminal.sid
    <3>1. IsPrefix(savedTurns[s], terminal.turns)
      BY <2>1, <2>2 DEF GrowInv, Single
    <3>2. terminal.turns \in Turns /\ asked \in Nat
      BY DEF SessionsTyped, Terminals, RunsInv
    <3>3. savedTurns'[s] = Append(terminal.turns, asked)
      BY <2>1, <2>2 DEF SaveSession, NewHistory, SessionsTyped
    <3> QED
      BY <1>1, <3>1, <3>2, <3>3, PrefixKept
  <2>3. CASE s # terminal.sid
    <3>1. savedTurns'[s] = savedTurns[s]
      BY <2>1, <2>3 DEF SaveSession, SessionsTyped
    <3> QED
      BY <1>1, <3>1
  <2> QED
    BY <2>2, <2>3
<1>5. \/ savedTurns' = savedTurns \/ (\E q \in Questions : SaveTurn(q)) \/ TerminalAnswers
  BY DEF SageNext, sageVars, sessionVars, AskOracle, AskDebug, AskChat, OracleStop, ResumeLoads, ResumeSets,
     TakeSlot, CopyHistory, OracleAnswers, DebugAnswers, Raises, Upload, PostText, SayFailed,
     ReleaseSlot, TerminalOpens, TerminalAsks, TerminalRollsBack, TerminalClears, TerminalCloses,
     BotRestarts
<1> QED
  BY <1>2, <1>3, <1>4, <1>5

(* A session that one thread, or the terminal, has for itself keeps every  *)
(* turn that was saved of it, through stops, resumptions and restarts.     *)
THEOREM SessionsGrow == SageSpec => SessionsOnlyGrow
<1>1. SessionsTyped /\ RunsInv /\ GrowInv /\ [SageNext]_sageVars => SessionsTyped' /\ RunsInv' /\ GrowInv'
  BY SessionsTypedStep, RunsStep, GrowStep
<1>2. SessionsTyped /\ RunsInv /\ GrowInv /\ [SageNext]_sageVars =>
        [\A s \in SessionIds \ contested' : IsPrefix(savedTurns[s], savedTurns'[s])]_sageVars
  BY SavedGrows
<1> QED
  BY <1>1, <1>2, SageInitially, GrowInitially, PTL DEF SageSpec, SessionsOnlyGrow

-----------------------------------------------------------------------------
(* CostReport: each report is its own, and reaches who asked. *)

Locked == {"fetching", "drilling", "rendering", "posting", "uploading", "texting", "removing",
           "triggering", "closing", "raised"}

Findings == [severity : {"info", "warning", "critical"}, services : BOOLEAN]

ReportRecords ==
  [at : {"idle", "starting", "over"} \cup Locked, found : Findings, pdf : BOOLEAN,
   uploaded : Reporters \cup {nobody}, told : {"nothing", "skipped", "pdf", "text", "error"},
   failed : Nat]

(* What has gone wrong and what was told, by how far a report is.          *)
ReportSound(r, rep) ==
  /\ rep.uploaded \in {nobody, r}
  /\ rep.at \in {"starting", "fetching", "drilling", "rendering"} => ~rep.pdf
  /\ rep.at \in {"posting", "uploading"} /\ ~rep.pdf => rep.failed >= 1
  /\ rep.at \in {"texting", "raised"} => rep.failed >= 1
  /\ r \in Requests =>
       /\ rep.at = "removing" => rep.told # "nothing"
       /\ rep.at \in {"triggering", "closing", "over"} /\ rep.told = "nothing" => rep.failed >= 2

(* Who has the lock is under way, and the file of the day is its own.      *)
ReportsInv ==
  /\ report \in [Reporters -> ReportRecords]
  /\ \A r \in Reporters : ReportSound(r, report[r])
  /\ \A r \in Reporters : report[r].at \in Locked <=> reportLock = r
  /\ \A r \in Reporters : report[r].at \in {"posting", "uploading"} /\ report[r].pdf => reportFile = r

LEMMA ReporterMoves ==
  ASSUME ReportsInv, NEW r \in Reporters, NEW n \in ReportRecords, ReportSound(r, n),
         report' = [report EXCEPT ![r] = n],
         n.at \in Locked <=> reportLock' = r,
         reportLock' # reportLock => {reportLock, reportLock'} = {r, nobody},
         reportFile' = reportFile \/ reportLock = r,
         n.at \in {"posting", "uploading"} /\ n.pdf => reportFile' = r
  PROVE  ReportsInv'
<1>1. /\ report' \in [Reporters -> ReportRecords] /\ report'[r] = n
      /\ \A p \in Reporters : p # r => report'[p] = report[p]
  BY DEF ReportsInv
<1>2. nobody \notin Reporters
  BY CostReportAssumption DEF Reporters, nobody
<1>3. ASSUME NEW p \in Reporters, p # r PROVE reportLock' = p <=> reportLock = p
  BY <1>2, <1>3
<1>4. ASSUME NEW p \in Reporters, p # r, report'[p].at \in {"posting", "uploading"}, report'[p].pdf
      PROVE  reportFile' = p
  <2>1. report[p].at \in Locked /\ reportFile = p
    BY <1>1, <1>4 DEF ReportsInv, Locked
  <2>2. reportLock # r
    BY <1>4, <2>1 DEF ReportsInv
  <2> QED
    BY <2>1, <2>2
<1> QED
  BY <1>1, <1>3, <1>4 DEF ReportsInv

LEMMA FailureMeans ==
  ASSUME NEW rep \in ReportRecords, NEW to \in {"over"} \cup Locked
  PROVE  /\ Failure(rep, to) \in ReportRecords /\ Failure(rep, to).at = to
         /\ Failure(rep, to).failed = rep.failed + 1 /\ Failure(rep, to).pdf = rep.pdf
         /\ Failure(rep, to).told = rep.told /\ Failure(rep, to).uploaded = rep.uploaded
<1>1. PICK n \in Nat : n = rep.failed + 1
  BY DEF ReportRecords
<1> QED
  BY <1>1 DEF Failure, ReportRecords

(* Tells, and moves that change nothing but where a report is. *)
LEMMA Telling ==
  ASSUME NEW r \in Reporters, NEW old \in ReportRecords, ReportSound(r, old),
         NEW to \in {"idle", "over", "removing"}, NEW what \in {"skipped", "pdf", "text", "error"}
  PROVE  \E n \in ReportRecords :
           n = [old EXCEPT !.at = to, !.told = what] /\ n.at = to /\ ReportSound(r, n)
<1>1. PICK n : n = [old EXCEPT !.at = to, !.told = what]
  OBVIOUS
<1>2. n \in ReportRecords /\ n.at = to /\ n.told = what /\ n.uploaded = old.uploaded
  BY <1>1 DEF ReportRecords, Locked
<1>3. ReportSound(r, n)
  BY <1>2 DEF ReportSound, Locked
<1> QED
  BY <1>1, <1>2, <1>3

LEMMA Going ==
  ASSUME NEW old \in ReportRecords, NEW to \in {"idle", "over"} \cup Locked
  PROVE  \E n \in ReportRecords :
           /\ n = [old EXCEPT !.at = to] /\ n.at = to /\ n.told = old.told
           /\ n.uploaded = old.uploaded /\ n.pdf = old.pdf /\ n.failed = old.failed
<1>1. PICK n : n = [old EXCEPT !.at = to]
  OBVIOUS
<1> QED
  BY <1>1 DEF ReportRecords

LEMMA BlankReport ==
  /\ NoReport \in ReportRecords /\ NoReport.at = "idle" /\ NoReport.pdf = FALSE
  /\ NoReport.uploaded = nobody /\ NoReport.failed = 0
  /\ \E n \in ReportRecords :
       /\ n = [NoReport EXCEPT !.at = "starting"] /\ n.at = "starting" /\ n.pdf = FALSE
       /\ n.uploaded = nobody
<1>1. [severity |-> "info", services |-> FALSE] \in Findings
  BY DEF Findings
<1>2. /\ NoReport \in ReportRecords /\ NoReport.at = "idle" /\ NoReport.pdf = FALSE
      /\ NoReport.uploaded = nobody /\ NoReport.failed = 0
  BY <1>1 DEF NoReport, ReportRecords
<1>3. PICK n : n = [NoReport EXCEPT !.at = "starting"]
  OBVIOUS
<1>4. n \in ReportRecords /\ n.at = "starting" /\ n.pdf = FALSE /\ n.uploaded = nobody
  BY <1>2, <1>3 DEF ReportRecords
<1> QED
  BY <1>2, <1>3, <1>4

LEMMA StartStep ==
  ASSUME ReportsInv, NEW r \in Reporters, StartReport(r) \/ Starts(r)
  PROVE  ReportsInv'
<1>1. PICK old \in ReportRecords : old = report[r] /\ ReportSound(r, old)
  BY DEF ReportsInv
<1>2. reportFile' = reportFile
  BY DEF StartReport, Starts
<1>3. reportLock # r
  BY DEF ReportsInv, StartReport, Starts, TakeReportLock, Locked
<1>4. r # nobody
  BY CostReportAssumption DEF Reporters, nobody
<1>5. CASE StartReport(r)
  <2>1. PICK n \in ReportRecords :
          /\ n = [NoReport EXCEPT !.at = "starting"] /\ n.at = "starting" /\ n.pdf = FALSE
          /\ n.uploaded = nobody
    BY BlankReport
  <2>2. ReportSound(r, n) /\ n.at \notin Locked
    BY <2>1 DEF ReportSound, Locked
  <2>3. report' = [report EXCEPT ![r] = n] /\ reportLock' = reportLock
    BY <1>5, <2>1 DEF StartReport
  <2> QED
    BY <1>2, <1>3, <2>1, <2>2, <2>3, ReporterMoves
<1>6. CASE Moves(r, "starting", "fetching") /\ reportLock' = r /\ reportLock = nobody
  <2>1. PICK n \in ReportRecords :
          /\ n = [old EXCEPT !.at = "fetching"] /\ n.at = "fetching" /\ n.told = old.told
          /\ n.uploaded = old.uploaded /\ n.pdf = old.pdf /\ n.failed = old.failed
    BY Going DEF Locked
  <2>2. ReportSound(r, n) /\ n.at \in Locked
    BY <1>1, <1>6, <2>1 DEF ReportSound, Locked, Moves
  <2>3. report' = [report EXCEPT ![r] = n]
    BY <1>1, <1>6, <2>1 DEF Moves
  <2>4. n.at \notin {"posting", "uploading"}
    BY <2>1
  <2> QED
    BY <1>2, <1>6, <2>2, <2>3, <2>4, ReporterMoves
<1>7. CASE Tells(r, "skipped", Finished(r)) /\ reportLock' = reportLock
  <2>1. PICK to \in {"idle", "over", "removing"} : to = Finished(r) /\ to # "removing"
    BY DEF Finished
  <2>2. PICK n \in ReportRecords :
          n = [old EXCEPT !.at = to, !.told = "skipped"] /\ n.at = to /\ ReportSound(r, n)
    <3>1. PICK n : n = [old EXCEPT !.at = to, !.told = "skipped"]
      OBVIOUS
    <3>2. n \in ReportRecords /\ n.at = to /\ n.told = "skipped" /\ n.uploaded = old.uploaded
      BY <2>1, <3>1 DEF ReportRecords
    <3>3. ReportSound(r, n)
      BY <1>1, <2>1, <3>2 DEF ReportSound
    <3> QED
      BY <3>1, <3>2, <3>3
  <2>3. report' = [report EXCEPT ![r] = n]
    BY <1>1, <1>7, <2>1, <2>2 DEF Tells
  <2>4. n.at \notin Locked /\ n.at \notin {"posting", "uploading"}
    BY <2>1, <2>2 DEF Locked
  <2> QED
    BY <1>2, <1>3, <1>7, <2>2, <2>3, <2>4, ReporterMoves
<1> QED
  BY <1>5, <1>6, <1>7 DEF Starts, TakeReportLock

(* The steps of a report that has the lock, and keeps it. *)
LEMMA LockedStep ==
  ASSUME ReportsInv, NEW r \in Reporters,
         \/ FetchCosts(r) \/ DrillDown(r) \/ MakeReportPdf(r) \/ PostHeadline(r)
         \/ UploadReport(r) \/ PostAnalysis(r) \/ RemoveReportPdf(r) \/ TriggerInquiry(r)
  PROVE  ReportsInv'
<1>1. PICK old \in ReportRecords : old = report[r] /\ ReportSound(r, old)
  BY DEF ReportsInv
<1>2. old.at \in Locked
  BY <1>1 DEF FetchCosts, DrillDown, MakeReportPdf, PostHeadline, UploadReport, PostAnalysis,
              RemoveReportPdf, TriggerInquiry, Moves, Locked
<1>3. reportLock = r /\ reportLock' = r
  BY <1>1, <1>2 DEF ReportsInv, FetchCosts, DrillDown, MakeReportPdf, PostHeadline, UploadReport,
                    PostAnalysis, RemoveReportPdf, TriggerInquiry
<1>4. ASSUME NEW n \in ReportRecords, report' = [report EXCEPT ![r] = n], ReportSound(r, n),
             n.at \in Locked, n.at \in {"posting", "uploading"} /\ n.pdf => reportFile' = r
      PROVE  ReportsInv'
  BY <1>3, <1>4, ReporterMoves
<1>5. old.at \in {"posting", "uploading"} /\ old.pdf => reportFile = r
  BY <1>1 DEF ReportsInv
<1>6. ASSUME NEW to \in {"raised", "texting", "removing", "triggering"}, Fails(r, to),
             to = "removing" => r = "daily", to = "triggering" => old.at = "texting"
      PROVE  ReportsInv'
  <2>1. PICK n \in ReportRecords :
          /\ n = Failure(old, to) /\ n.at = to /\ n.failed = old.failed + 1 /\ n.pdf = old.pdf
          /\ n.told = old.told /\ n.uploaded = old.uploaded
    BY FailureMeans DEF Locked
  <2>2. "daily" \notin Requests /\ old.failed \in Nat
    BY CostReportAssumption DEF ReportRecords
  <2>3. ReportSound(r, n)
    BY <1>1, <1>6, <2>1, <2>2 DEF ReportSound
  <2>4. n.at \in Locked /\ n.at \notin {"posting", "uploading"}
    BY <2>1 DEF Locked
  <2> QED
    BY <1>1, <1>4, <1>6, <2>1, <2>3, <2>4 DEF Fails
<1>7. ASSUME NEW to \in Locked, Moves(r, old.at, to), reportFile' = reportFile,
             \/ <<old.at, to>> \in {<<"drilling", "rendering">>, <<"posting", "uploading">>}
             \/ /\ <<old.at, to>> = <<"uploading", "texting">>
                /\ ~(old.pdf /\ reportFile # nobody)
             \/ <<old.at, to>> = <<"triggering", "closing">>
      PROVE  ReportsInv'
  <2>1. PICK n \in ReportRecords :
          /\ n = [old EXCEPT !.at = to] /\ n.at = to /\ n.told = old.told
          /\ n.uploaded = old.uploaded /\ n.pdf = old.pdf /\ n.failed = old.failed
    BY Going
  <2>2. r # nobody
    BY CostReportAssumption DEF Reporters, nobody
  <2>3. ReportSound(r, n)
    BY <1>1, <1>5, <1>7, <2>1, <2>2 DEF ReportSound
  <2>4. n.at \in {"posting", "uploading"} /\ n.pdf => reportFile' = r
    BY <1>5, <1>7, <2>1
  <2> QED
    BY <1>1, <1>4, <1>7, <2>1, <2>3, <2>4 DEF Moves
<1>8. CASE FetchCosts(r)
  <2>1. ASSUME NEW costs \in Histories,
               report' = [report EXCEPT ![r] =
                            [@ EXCEPT !.found = Found(costs),
                                      !.at = IF r = "daily" /\ Found(costs).severity = "info"
                                             THEN "closing" ELSE "drilling"]]
        PROVE  ReportsInv'
    <3>1. PICK f : f = Found(costs)
      OBVIOUS
    <3>2. f \in Findings
      BY <3>1 DEF Found, Findings
    <3>3. PICK to \in {"closing", "drilling"} :
            /\ to = IF r = "daily" /\ f.severity = "info" THEN "closing" ELSE "drilling"
            /\ to = "closing" => r = "daily"
      OBVIOUS
    <3>4. PICK n : n = [old EXCEPT !.found = f, !.at = to]
      OBVIOUS
    <3>5. /\ n \in ReportRecords /\ n.at = to /\ n.told = old.told /\ n.uploaded = old.uploaded
          /\ n.pdf = old.pdf /\ n.failed = old.failed
      BY <3>2, <3>3, <3>4 DEF ReportRecords, Locked
    <3>6. ReportSound(r, n)
      BY <1>1, <1>8, <3>3, <3>5, CostReportAssumption DEF ReportSound, FetchCosts
    <3>7. n.at \in Locked /\ n.at \notin {"posting", "uploading"}
      BY <3>3, <3>5 DEF Locked
    <3> QED
      BY <1>1, <1>4, <2>1, <3>1, <3>3, <3>4, <3>5, <3>6, <3>7
  <2> QED
    BY <1>6, <1>8, <2>1 DEF FetchCosts
<1>9. CASE DrillDown(r) \/ PostHeadline(r)
  BY <1>1, <1>6, <1>7, <1>9 DEF DrillDown, PostHeadline, Moves, Locked
<1>10. CASE MakeReportPdf(r)
  <2>1. CASE report' = [report EXCEPT ![r] = [@ EXCEPT !.pdf = TRUE, !.at = "posting"]] /\ reportFile' = r
    <3>1. PICK n : n = [old EXCEPT !.pdf = TRUE, !.at = "posting"]
      OBVIOUS
    <3>2. /\ n \in ReportRecords /\ n.at = "posting" /\ n.uploaded = old.uploaded /\ n.pdf = TRUE
      BY <3>1 DEF ReportRecords, Locked
    <3>3. ReportSound(r, n) /\ n.at \in Locked
      BY <1>1, <3>2 DEF ReportSound, Locked
    <3> QED
      BY <1>1, <1>4, <2>1, <3>1, <3>2, <3>3
  <2>2. CASE Fails(r, "posting")
    <3>1. PICK n \in ReportRecords :
            /\ n = Failure(old, "posting") /\ n.at = "posting" /\ n.failed = old.failed + 1
            /\ n.pdf = old.pdf /\ n.told = old.told /\ n.uploaded = old.uploaded
      BY FailureMeans DEF Locked
    <3>2. ReportSound(r, n) /\ n.at \in Locked /\ ~n.pdf
      BY <1>1, <1>10, <3>1 DEF ReportSound, Locked, MakeReportPdf, ReportRecords
    <3> QED
      BY <1>1, <1>4, <2>2, <3>1, <3>2 DEF Fails
  <2> QED
    BY <1>10, <2>1, <2>2 DEF MakeReportPdf
<1>11. CASE UploadReport(r)
  <2>1. CASE /\ old.at = "uploading" /\ old.pdf
             /\ report' = [report EXCEPT ![r] =
                             [@ EXCEPT !.uploaded = reportFile, !.told = "pdf", !.at = "removing"]]
    <3>1. reportFile = r
      BY <1>5, <2>1
    <3>2. PICK n : n = [old EXCEPT !.uploaded = r, !.told = "pdf", !.at = "removing"]
      OBVIOUS
    <3>3. n \in ReportRecords /\ n.at = "removing" /\ n.uploaded = r /\ n.told = "pdf"
      BY <3>2 DEF ReportRecords, Locked
    <3>4. ReportSound(r, n) /\ n.at \in Locked
      BY <1>1, <3>3 DEF ReportSound, Locked
    <3> QED
      BY <1>1, <1>4, <2>1, <3>1, <3>2, <3>3, <3>4
  <2> QED
    BY <1>1, <1>6, <1>7, <1>11, <2>1 DEF UploadReport, Moves, Locked
<1>12. CASE PostAnalysis(r)
  <2>1. CASE Tells(r, "text", "removing")
    <3>1. PICK n \in ReportRecords :
            n = [old EXCEPT !.at = "removing", !.told = "text"] /\ n.at = "removing" /\ ReportSound(r, n)
      BY <1>1, Telling
    <3> QED
      BY <1>1, <1>4, <2>1, <3>1 DEF Tells, Locked
  <2> QED
    BY <1>1, <1>6, <1>12, <2>1 DEF PostAnalysis
<1>13. CASE RemoveReportPdf(r)
  <2>1. PICK n \in ReportRecords :
          /\ n = [old EXCEPT !.at = "triggering"] /\ n.at = "triggering" /\ n.told = old.told
          /\ n.uploaded = old.uploaded /\ n.pdf = old.pdf /\ n.failed = old.failed
    BY Going DEF Locked
  <2>2. ReportSound(r, n)
    BY <1>1, <1>13, <2>1 DEF ReportSound, RemoveReportPdf, Moves
  <2> QED
    BY <1>1, <1>4, <1>13, <2>1, <2>2 DEF RemoveReportPdf, Moves, Locked
<1>14. CASE TriggerInquiry(r)
  BY <1>1, <1>7, <1>14 DEF TriggerInquiry, Moves, Locked
<1> QED
  BY <1>8, <1>9, <1>10, <1>11, <1>12, <1>13, <1>14

LEMMA ReportEndsStep ==
  ASSUME ReportsInv, NEW r \in Reporters, EndReport(r)
  PROVE  ReportsInv'
<1>1. PICK old \in ReportRecords : old = report[r] /\ ReportSound(r, old)
  BY DEF ReportsInv
<1>2. reportLock = r /\ reportLock' = nobody /\ reportFile' = reportFile
  BY DEF ReportsInv, EndReport, Moves, Locked
<1>3. r # nobody /\ "daily" \notin Requests
  BY CostReportAssumption DEF Reporters, nobody
<1>4. ASSUME NEW n \in ReportRecords, report' = [report EXCEPT ![r] = n], ReportSound(r, n),
             n.at \in {"idle", "over"}
      PROVE  ReportsInv'
  <2>1. n.at \notin Locked /\ n.at \notin {"posting", "uploading"}
    BY <1>4 DEF Locked
  <2> QED
    BY <1>2, <1>3, <1>4, <2>1, ReporterMoves
<1>5. ASSUME NEW from \in {"closing", "raised"}, NEW to \in {"idle", "over"}, Moves(r, from, to),
             from = "raised" => to = "idle" /\ r = "daily"
      PROVE  ReportsInv'
  <2>1. PICK n \in ReportRecords :
          /\ n = [old EXCEPT !.at = to] /\ n.at = to /\ n.told = old.told
          /\ n.uploaded = old.uploaded /\ n.pdf = old.pdf /\ n.failed = old.failed
    BY Going
  <2>2. ReportSound(r, n)
    BY <1>1, <1>5, <2>1 DEF ReportSound, Moves
  <2> QED
    BY <1>1, <1>4, <1>5, <2>1, <2>2 DEF Moves
<1>6. CASE Tells(r, "error", "over")
  <2>1. PICK n \in ReportRecords :
          n = [old EXCEPT !.at = "over", !.told = "error"] /\ n.at = "over" /\ ReportSound(r, n)
    BY <1>1, Telling
  <2> QED
    BY <1>1, <1>4, <1>6, <2>1 DEF Tells
<1>7. CASE Fails(r, "over") /\ old.at = "raised"
  <2>1. PICK n \in ReportRecords :
          /\ n = Failure(old, "over") /\ n.at = "over" /\ n.failed = old.failed + 1
          /\ n.pdf = old.pdf /\ n.told = old.told /\ n.uploaded = old.uploaded
    BY FailureMeans
  <2>2. ReportSound(r, n)
    BY <1>1, <1>7, <2>1 DEF ReportSound, ReportRecords
  <2> QED
    BY <1>1, <1>4, <1>7, <2>1, <2>2 DEF Fails
<1>8. Finished(r) \in {"idle", "over"}
  BY DEF Finished
<1> QED
  BY <1>1, <1>5, <1>6, <1>7, <1>8 DEF EndReport

-----------------------------------------------------------------------------
(* CostReport: one investigation at a time. *)

InquiryPhases == {"idle", "starting", "asking", "posting", "removing", "clearing", "over"}

InquiryRecords == [at : InquiryPhases, pdf : BOOLEAN, uploaded : Inquiries \cup {0}]

UnderWay(k) == inquiry[k].at \notin {"idle", "over"}

Alone ==
  /\ \A j, k \in Inquiries : UnderWay(j) /\ UnderWay(k) => j = k
  /\ investigating <=> \E k \in Inquiries : UnderWay(k) /\ inquiry[k].at # "starting"
  /\ \A k \in Inquiries : inquiry[k].uploaded \in {0, k}
  /\ \A k \in Inquiries : inquiry[k].at = "posting" /\ inquiry[k].pdf => inquiryFile = k

InquiriesInv ==
  /\ inquiry \in [Inquiries -> InquiryRecords] /\ raced \in BOOLEAN
  /\ investigating \in BOOLEAN /\ inquiryFile \in Inquiries \cup {0}
  /\ \A k \in Inquiries : inquiry[k].at \in {"idle", "starting", "asking"} => ~inquiry[k].pdf
  /\ ~raced => Alone

(* The one that is under way moves. *)
LEMMA InquiryMoves ==
  ASSUME InquiriesInv, NEW k \in Inquiries, NEW n \in InquiryRecords, UnderWay(k), raced' = raced,
         inquiry' = [inquiry EXCEPT ![k] = n], n.at # "idle", n.at # "starting",
         n.at = "asking" => ~n.pdf,
         investigating' \in BOOLEAN, ~raced => investigating' = (n.at # "over"),
         inquiryFile' \in Inquiries \cup {0},
         n.at = "posting" /\ n.pdf => inquiryFile' = k,
         ~raced => n.uploaded \in {0, k}
  PROVE  InquiriesInv'
<1>1. /\ inquiry' \in [Inquiries -> InquiryRecords] /\ inquiry'[k] = n
      /\ \A j \in Inquiries : j # k => inquiry'[j] = inquiry[j]
  BY DEF InquiriesInv
<1>3. \A j \in Inquiries : inquiry'[j].at \in {"idle", "starting", "asking"} => ~inquiry'[j].pdf
  BY <1>1 DEF InquiriesInv
<1>4. ASSUME ~raced PROVE Alone'
  <2>1. Alone
    BY <1>4 DEF InquiriesInv
  <2>2. \A j \in Inquiries : UnderWay(j)' => j = k
    BY <1>1, <2>1 DEF Alone, UnderWay
  <2>3. UnderWay(k)' <=> n.at # "over"
    BY <1>1 DEF UnderWay
  <2>4. investigating' <=> \E j \in Inquiries : UnderWay(j)' /\ inquiry'[j].at # "starting"
    BY <1>1, <1>4, <2>2, <2>3
  <2>5. \A j \in Inquiries : inquiry'[j].uploaded \in {0, j}
    BY <1>1, <1>4, <2>1 DEF Alone
  <2>6. ASSUME NEW j \in Inquiries, inquiry'[j].at = "posting", inquiry'[j].pdf
        PROVE  inquiryFile' = j
    <3>1. j = k
      BY <2>2, <2>6 DEF UnderWay
    <3> QED
      BY <1>1, <2>6, <3>1
  <2> QED
    BY <2>2, <2>4, <2>5, <2>6 DEF Alone
<1> QED
  BY <1>1, <1>3, <1>4 DEF InquiriesInv

LEMMA InquiryGoing ==
  ASSUME NEW old \in InquiryRecords, NEW to \in InquiryPhases
  PROVE  \E n \in InquiryRecords :
           n = [old EXCEPT !.at = to] /\ n.at = to /\ n.pdf = old.pdf /\ n.uploaded = old.uploaded
<1>1. PICK n : n = [old EXCEPT !.at = to]
  OBVIOUS
<1> QED
  BY <1>1 DEF InquiryRecords

LEMMA InquiryStep ==
  ASSUME InquiriesInv, NEW k \in Inquiries,
         \/ BeginInquiry(k) \/ Inquire(k) \/ PostInquiry(k) \/ RemoveInquiryPdf(k) \/ EndInquiry(k)
  PROVE  InquiriesInv'
<1>1. PICK old \in InquiryRecords : old = inquiry[k]
  BY DEF InquiriesInv
<1>2. UnderWay(k) /\ raced' = raced
  BY DEF BeginInquiry, Inquire, PostInquiry, RemoveInquiryPdf, EndInquiry, InquiryGoes, UnderWay,
         reportStays
<1>3. /\ old.at \in {"idle", "starting", "asking"} => ~old.pdf
      /\ inquiryFile \in Inquiries \cup {0}
      /\ ~raced => Alone
  BY <1>1 DEF InquiriesInv
<1>4. ~raced => /\ old.uploaded \in {0, k}
                /\ old.at = "posting" /\ old.pdf => inquiryFile = k
                /\ investigating = (old.at # "starting")
  BY <1>1, <1>2, <1>3 DEF Alone, InquiriesInv
<1>5. ASSUME NEW from \in {"starting", "asking", "posting", "removing", "clearing"},
             NEW to \in {"asking", "posting", "removing", "clearing", "over"},
             InquiryGoes(k, from, to),
             to = "asking" => from = "starting",
             to = "posting" => from = "asking",
             inquiryFile' \in Inquiries \cup {0},
             investigating' \in BOOLEAN, ~raced => investigating' = (to # "over")
      PROVE  InquiriesInv'
  <2>1. PICK n \in InquiryRecords :
          n = [old EXCEPT !.at = to] /\ n.at = to /\ n.pdf = old.pdf /\ n.uploaded = old.uploaded
    <3>1. to \in InquiryPhases
      BY DEF InquiryPhases
    <3> QED
      BY <3>1, InquiryGoing
  <2>2. old.at = from /\ inquiry' = [inquiry EXCEPT ![k] = n]
    BY <1>1, <1>5, <2>1 DEF InquiryGoes
  <2>3. n.at # "idle" /\ n.at # "starting" /\ (n.at = "asking" => ~n.pdf) /\ (n.at = "posting" => ~n.pdf)
    BY <1>3, <1>5, <2>1, <2>2
  <2> QED
    BY <1>2, <1>4, <1>5, <2>1, <2>2, <2>3, InquiryMoves
<1>6. CASE BeginInquiry(k)
  BY <1>3, <1>5, <1>6 DEF BeginInquiry
<1>7. CASE EndInquiry(k)
  BY <1>3, <1>5, <1>7 DEF EndInquiry
<1>8. CASE RemoveInquiryPdf(k)
  <2>1. InquiryGoes(k, "removing", "clearing") /\ investigating' = investigating
    BY <1>8 DEF RemoveInquiryPdf
  <2>2. inquiryFile' \in Inquiries \cup {0}
    BY <1>3, <1>8 DEF RemoveInquiryPdf
  <2>3. old.at = "removing" /\ investigating \in BOOLEAN
    BY <1>1, <2>1 DEF InquiryGoes, InquiriesInv
  <2> QED
    BY <1>4, <1>5, <2>1, <2>2, <2>3
<1>9. CASE Inquire(k)
  <2>1. old.at = "asking" /\ investigating' = investigating /\ investigating \in BOOLEAN
    BY <1>1, <1>9 DEF Inquire, InquiriesInv
  <2>2. CASE inquiryFile' = inquiryFile /\ \E to \in {"posting", "clearing"} : InquiryGoes(k, "asking", to)
    BY <1>3, <1>4, <1>5, <2>1, <2>2
  <2>3. CASE inquiryFile' = k /\ inquiry' = [inquiry EXCEPT ![k] = [@ EXCEPT !.at = "posting", !.pdf = TRUE]]
    <3>1. PICK n : n = [old EXCEPT !.at = "posting", !.pdf = TRUE]
      OBVIOUS
    <3>2. n \in InquiryRecords /\ n.at = "posting" /\ n.uploaded = old.uploaded
      BY <3>1 DEF InquiryRecords, InquiryPhases
    <3> QED
      BY <1>1, <1>2, <1>4, <2>1, <2>3, <3>1, <3>2, InquiryMoves
  <2> QED
    BY <1>9, <2>2, <2>3 DEF Inquire
<1>10. CASE PostInquiry(k)
  <2>1. /\ old.at = "posting" /\ investigating' = investigating /\ investigating \in BOOLEAN
        /\ inquiryFile' = inquiryFile
    BY <1>1, <1>10 DEF PostInquiry, InquiriesInv
  <2>2. CASE \E to \in {"removing", "clearing"} : InquiryGoes(k, "posting", to)
    BY <1>3, <1>4, <1>5, <2>1, <2>2
  <2>3. CASE /\ old.pdf
             /\ inquiry' = [inquiry EXCEPT ![k] = [@ EXCEPT !.at = "removing", !.uploaded = inquiryFile]]
    <3>1. PICK f \in Inquiries \cup {0} : f = inquiryFile
      BY <1>3
    <3>2. PICK n : n = [old EXCEPT !.at = "removing", !.uploaded = f]
      OBVIOUS
    <3>3. n \in InquiryRecords /\ n.at = "removing" /\ n.uploaded = f
      BY <3>1, <3>2 DEF InquiryRecords, InquiryPhases
    <3>4. ~raced => n.uploaded \in {0, k}
      BY <1>4, <2>1, <2>3, <3>1, <3>3
    <3> QED
      BY <1>1, <1>2, <1>4, <2>1, <2>3, <3>1, <3>2, <3>3, <3>4, InquiryMoves
  <2> QED
    BY <1>1, <1>10, <2>2, <2>3 DEF PostInquiry
<1> QED
  BY <1>6, <1>7, <1>8, <1>9, <1>10

LEMMA TriggerStep ==
  ASSUME InquiriesInv, NEW r \in Reporters, TriggerInquiry(r)
  PROVE  InquiriesInv'
<1>1. investigating' = investigating /\ inquiryFile' = inquiryFile
  BY DEF TriggerInquiry
<1>2. CASE UNCHANGED <<inquiry, raced>>
  BY <1>1, <1>2 DEF InquiriesInv, Alone, UnderWay
<1>3. ASSUME NEW k \in Inquiries, ~investigating, inquiry[k].at = "idle",
             inquiry' = [inquiry EXCEPT ![k] = [@ EXCEPT !.at = "starting"]],
             raced' = (raced \/ \E j \in Inquiries : inquiry[j].at \notin {"idle", "over"})
      PROVE  InquiriesInv'
  <2>1. PICK old \in InquiryRecords : old = inquiry[k] /\ ~old.pdf
    BY <1>3 DEF InquiriesInv
  <2>2. PICK n \in InquiryRecords :
          n = [old EXCEPT !.at = "starting"] /\ n.at = "starting" /\ n.pdf = old.pdf /\ n.uploaded = old.uploaded
    BY InquiryGoing DEF InquiryPhases
  <2>3. /\ inquiry' \in [Inquiries -> InquiryRecords] /\ inquiry'[k] = n
        /\ \A j \in Inquiries : j # k => inquiry'[j] = inquiry[j]
    BY <1>3, <2>1, <2>2 DEF InquiriesInv
  <2>4. raced' \in BOOLEAN
    BY <1>3 DEF InquiriesInv
  <2>5. ASSUME ~raced' PROVE Alone'
    <3>1. Alone /\ \A j \in Inquiries : ~UnderWay(j)
      BY <1>3, <2>5 DEF InquiriesInv, UnderWay
    <3>2. \A j \in Inquiries : UnderWay(j)' => j = k
      BY <2>3, <3>1 DEF UnderWay
    <3>3. investigating' <=> \E j \in Inquiries : UnderWay(j)' /\ inquiry'[j].at # "starting"
      BY <1>1, <1>3, <2>2, <2>3, <3>2
    <3>4. \A j \in Inquiries : inquiry'[j].uploaded \in {0, j}
      BY <2>1, <2>2, <2>3, <3>1 DEF Alone
    <3>5. \A j \in Inquiries : inquiry'[j].at # "posting"
      BY <2>2, <2>3, <3>1 DEF UnderWay
    <3> QED
      BY <3>2, <3>3, <3>4, <3>5 DEF Alone
  <2>6. \A j \in Inquiries : inquiry'[j].at \in {"idle", "starting", "asking"} => ~inquiry'[j].pdf
    BY <2>1, <2>2, <2>3 DEF InquiriesInv
  <2> QED
    BY <1>1, <2>3, <2>4, <2>5, <2>6 DEF InquiriesInv
<1> QED
  BY <1>2, <1>3 DEF TriggerInquiry

LEMMA CostInitially == CostInit => ReportsInv /\ InquiriesInv
<1> SUFFICES ASSUME CostInit PROVE ReportsInv /\ InquiriesInv
  OBVIOUS
<1>1. \A r \in Reporters : report[r] = NoReport
  BY DEF CostInit
<1>2. report \in [Reporters -> ReportRecords]
  BY <1>1, BlankReport DEF CostInit
<1>3. \A r \in Reporters : ReportSound(r, report[r]) /\ report[r].at \notin Locked
  BY <1>1, BlankReport DEF ReportSound, Locked
<1>4. \A r \in Reporters : reportLock # r
  BY CostReportAssumption DEF CostInit, Reporters, nobody
<1>5. ReportsInv
  BY <1>1, <1>2, <1>3, <1>4, BlankReport DEF ReportsInv
<1>6. \A k \in Inquiries : inquiry[k] = NoInquiry
  BY DEF CostInit
<1>7. NoInquiry \in InquiryRecords /\ NoInquiry.at = "idle" /\ NoInquiry.pdf = FALSE /\ NoInquiry.uploaded = 0
  BY DEF NoInquiry, InquiryRecords, InquiryPhases
<1>8. inquiry \in [Inquiries -> InquiryRecords]
  BY <1>6, <1>7 DEF CostInit
<1>9. raced \in BOOLEAN /\ investigating = FALSE /\ inquiryFile = 0
  BY DEF CostInit
<1>10. Alone
  BY <1>6, <1>7, <1>9 DEF Alone, UnderWay
<1> QED
  BY <1>5, <1>6, <1>7, <1>8, <1>9, <1>10 DEF InquiriesInv

LEMMA CostStep ==
  ASSUME ReportsInv, InquiriesInv, [CostNext]_costVars
  PROVE  ReportsInv' /\ InquiriesInv'
<1>1. ASSUME NEW r \in Reporters,
             \/ StartReport(r) \/ Starts(r) \/ FetchCosts(r) \/ DrillDown(r) \/ MakeReportPdf(r)
             \/ PostHeadline(r) \/ UploadReport(r) \/ PostAnalysis(r) \/ RemoveReportPdf(r)
             \/ TriggerInquiry(r) \/ EndReport(r)
      PROVE  ReportsInv' /\ InquiriesInv'
  <2>1. ReportsInv'
    BY <1>1, StartStep, LockedStep, ReportEndsStep
  <2>2. CASE UNCHANGED <<investigating, inquiry, inquiryFile, raced>>
    BY <2>1, <2>2 DEF InquiriesInv, Alone, UnderWay
  <2>3. TriggerInquiry(r) \/ UNCHANGED <<investigating, inquiry, inquiryFile, raced>>
    BY <1>1 DEF StartReport, Starts, FetchCosts, DrillDown, MakeReportPdf, PostHeadline, UploadReport,
                PostAnalysis, RemoveReportPdf, EndReport, inquiryStays
  <2> QED
    BY <2>1, <2>2, <2>3, TriggerStep
<1>2. ASSUME NEW k \in Inquiries,
             \/ BeginInquiry(k) \/ Inquire(k) \/ PostInquiry(k) \/ RemoveInquiryPdf(k) \/ EndInquiry(k)
      PROVE  ReportsInv' /\ InquiriesInv'
  <2>1. UNCHANGED <<reportLock, report, reportFile>>
    BY <1>2 DEF BeginInquiry, Inquire, PostInquiry, RemoveInquiryPdf, EndInquiry, reportStays
  <2> QED
    BY <1>2, <2>1, InquiryStep DEF ReportsInv
<1>3. CASE UNCHANGED costVars
  BY <1>3 DEF costVars, ReportsInv, InquiriesInv, Alone, UnderWay
<1> QED
  BY <1>1, <1>2, <1>3 DEF CostNext

(* Reports take turns, so each uploads its own file; whoever asked is told *)
(* something, unless two calls failed; and one investigation runs at a     *)
(* time, unless two reports found the event unset.                         *)
THEOREM ReportsSound == CostSpec => []CostReportsSound
<1>1. ASSUME ReportsInv, InquiriesInv PROVE CostReportsSound
  <2>1. OwnPdfUploaded
    BY <1>1 DEF ReportsInv, ReportSound, OwnPdfUploaded
  <2>2. AskersAnswered
    BY <1>1 DEF ReportsInv, ReportSound, AskersAnswered, Reporters
  <2>3. ASSUME ~raced PROVE Cardinality({k \in Inquiries : inquiry[k].at \notin {"idle", "over"}}) <= 1
    <3> DEFINE S == {k \in Inquiries : inquiry[k].at \notin {"idle", "over"}}
    <3>1. \A j, k \in S : j = k
      BY <1>1, <2>3 DEF InquiriesInv, Alone, UnderWay
    <3>2. CASE S = {}
      BY <3>2, FS_EmptySet
    <3>3. CASE S # {}
      <4>1. PICK k : S = {k}
        BY <3>1, <3>3
      <4>2. Cardinality({k}) = 1
        BY FS_Singleton
      <4>3. Cardinality(S) = 1
        BY <4>1, <4>2
      <4> QED
        BY <4>3
    <3> QED
      BY <3>2, <3>3
  <2>4. ASSUME ~raced
        PROVE  /\ investigating <=> \E k \in Inquiries : inquiry[k].at \notin {"idle", "starting", "over"}
               /\ \A k \in Inquiries : inquiry[k].uploaded \in {0, k}
    BY <1>1, <2>4 DEF InquiriesInv, Alone, UnderWay
  <2>5. OneInquiryAtATime
    BY <2>3, <2>4 DEF OneInquiryAtATime
  <2> QED
    BY <2>1, <2>2, <2>5 DEF CostReportsSound
<1> QED
  BY <1>1, CostInitially, CostStep, PTL DEF CostSpec

-----------------------------------------------------------------------------
(* LiveEvents: nothing that is shown goes back in time. *)

Published == Watched \X Nat

Deliveries ==
  [event : Published \cup {<<>>}, todo : SUBSET Browsers, full : SUBSET Browsers, room : BOOLEAN]

Before(e, f) == e[1] = f[1] => e[2] <= f[2]

InOrder(queue) == \A p, q \in DOMAIN queue : p <= q => Before(queue[p], queue[q])

(* What is after everything that b has been shown or has yet to be shown.  *)
AfterAll(b, e) ==
  /\ shown[b][e[1]] <= e[2]
  /\ \A f \in ToSet(inbox[b]) : Before(f, e)

BusTyped ==
  /\ overRedis \in BOOLEAN /\ busFaults \in Nat
  /\ published \in [Watched -> Nat] /\ wire \in Seq(Published)
  /\ delivery \in [Deliverers -> Deliveries] /\ subscribed \subseteq Browsers
  /\ inbox \in [Browsers -> Seq(Published)] /\ shown \in [Browsers -> [Watched -> Nat]]
  /\ \A d \in Deliverers :
       /\ delivery[d].full \subseteq delivery[d].todo
       /\ delivery[d].todo # {} => delivery[d].event \in Published

(* What a browser was shown comes before what is in its queue, that before *)
(* what is being delivered, that before what Redis has, and that before    *)
(* what is yet to be published.                                            *)
BusOrder ==
  /\ InOrder(wire)
  /\ \A b \in Browsers :
       /\ InOrder(inbox[b])
       /\ \A e \in ToSet(inbox[b]) : shown[b][e[1]] <= e[2] /\ e[2] <= published[e[1]]
       /\ \A i \in Watched : shown[b][i] <= published[i]
       /\ \A e \in ToSet(wire) : AfterAll(b, e)
  /\ \A d \in Deliverers : delivery[d].todo # {} =>
       /\ delivery[d].event[2] <= published[delivery[d].event[1]]
       /\ IF overRedis THEN d = "listener" ELSE d = delivery[d].event[1]
       /\ \A b \in delivery[d].todo : AfterAll(b, delivery[d].event)
       /\ \A e \in ToSet(wire) : Before(delivery[d].event, e)
  /\ \A e \in ToSet(wire) : e[2] <= published[e[1]]
  /\ ~overRedis => wire = <<>>

BusInv == BusTyped /\ (busFaults = 0 => BusOrder)

LEMMA TailKeeps ==
  ASSUME NEW q \in Seq(Published), q # <<>>
  PROVE  /\ Tail(q) \in Seq(Published) /\ Head(q) \in Published /\ Head(q) \in ToSet(q)
         /\ ToSet(Tail(q)) \subseteq ToSet(q)
         /\ InOrder(q) => InOrder(Tail(q)) /\ \A e \in ToSet(q) : Before(Head(q), e)
<1>1. /\ Tail(q) \in Seq(Published) /\ Head(q) = q[1] /\ Len(q) \in Nat /\ Len(q) >= 1
      /\ Len(Tail(q)) = Len(q) - 1 /\ \A k \in 1 .. Len(q) - 1 : Tail(q)[k] = q[k + 1]
  OBVIOUS
<1>2. DOMAIN q = 1 .. Len(q) /\ DOMAIN Tail(q) = 1 .. Len(q) - 1
  BY <1>1
<1>3. \A k \in DOMAIN Tail(q) : k + 1 \in DOMAIN q /\ Tail(q)[k] = q[k + 1]
  BY <1>1, <1>2
<1>4. 1 \in DOMAIN q /\ \A k \in DOMAIN q : 1 <= k
  BY <1>1, <1>2
<1>5. Head(q) \in ToSet(q) /\ Head(q) \in Published
  BY <1>1, <1>4 DEF ToSet
<1>6. ToSet(Tail(q)) \subseteq ToSet(q)
  BY <1>3 DEF ToSet
<1>7. ASSUME InOrder(q) PROVE InOrder(Tail(q))
  <2>1. ASSUME NEW j \in DOMAIN Tail(q), NEW k \in DOMAIN Tail(q), j <= k
        PROVE  Before(Tail(q)[j], Tail(q)[k])
    <3>1. j + 1 <= k + 1
      BY <1>2, <2>1
    <3> QED
      BY <1>3, <1>7, <3>1 DEF InOrder
  <2> QED
    BY <2>1 DEF InOrder
<1>8. ASSUME InOrder(q) PROVE \A e \in ToSet(q) : Before(Head(q), e)
  BY <1>1, <1>4, <1>8 DEF InOrder, ToSet
<1> QED
  BY <1>1, <1>5, <1>6, <1>7, <1>8

LEMMA Itself == \A e \in Published : Before(e, e)
BY DEF Before, Published

LEMMA AppendKeeps ==
  ASSUME NEW q \in Seq(Published), NEW e \in Published
  PROVE  /\ Append(q, e) \in Seq(Published) /\ ToSet(Append(q, e)) \subseteq ToSet(q) \cup {e}
         /\ InOrder(q) /\ (\A f \in ToSet(q) : Before(f, e)) => InOrder(Append(q, e))
<1>1. /\ Append(q, e) \in Seq(Published) /\ Len(q) \in Nat /\ Len(Append(q, e)) = Len(q) + 1
      /\ \A k \in 1 .. Len(q) : Append(q, e)[k] = q[k]
      /\ Append(q, e)[Len(q) + 1] = e
  OBVIOUS
<1>2. DOMAIN q = 1 .. Len(q) /\ DOMAIN Append(q, e) = 1 .. Len(q) + 1
  BY <1>1
<1>3. \A k \in DOMAIN Append(q, e) :
        \/ k \in DOMAIN q /\ Append(q, e)[k] = q[k]
        \/ k = Len(q) + 1 /\ Append(q, e)[k] = e
  BY <1>1, <1>2
<1>4. ToSet(Append(q, e)) \subseteq ToSet(q) \cup {e}
  BY <1>3 DEF ToSet
<1>5. Before(e, e)
  BY Itself
<1>6. ASSUME InOrder(q), \A f \in ToSet(q) : Before(f, e) PROVE InOrder(Append(q, e))
  <2>1. ASSUME NEW j \in DOMAIN Append(q, e), NEW k \in DOMAIN Append(q, e), j <= k
        PROVE  Before(Append(q, e)[j], Append(q, e)[k])
    <3>1. CASE k \in DOMAIN q
      <4>1. j \in DOMAIN q
        BY <1>1, <1>2, <2>1, <3>1
      <4>2. Append(q, e)[j] = q[j] /\ Append(q, e)[k] = q[k]
        BY <1>1, <1>2, <3>1, <4>1
      <4> QED
        BY <1>6, <2>1, <3>1, <4>1, <4>2 DEF InOrder
    <3>2. CASE k = Len(q) + 1
      <4>1. Append(q, e)[k] = e
        BY <1>1, <3>2
      <4>2. Append(q, e)[j] \in ToSet(q) \cup {e}
        BY <1>3 DEF ToSet
      <4> QED
        BY <1>5, <1>6, <4>1, <4>2
    <3> QED
      BY <1>3, <3>1, <3>2
  <2> QED
    BY <2>1 DEF InOrder
<1> QED
  BY <1>1, <1>4, <1>6

LEMMA EmptyQueue == <<>> \in Seq(Published) /\ InOrder(<<>>) /\ ToSet(<<>>) = {}
<1>1. <<>> \in Seq(Published) /\ Len(<<>>) = 0 /\ DOMAIN <<>> = {}
  OBVIOUS
<1> QED
  BY <1>1 DEF InOrder, ToSet

(* A delivery serves b, or finds its queue full, or makes room there. *)
LEMMA DeliveredStep ==
  ASSUME BusInv, NEW d \in Deliverers, NEW b \in Browsers, NEW n \in Deliveries,
         NEW q \in Seq(Published),
         UNCHANGED <<overRedis, published, wire, subscribed, shown, busFaults>>,
         delivery' = [delivery EXCEPT ![d] = n], inbox' = [inbox EXCEPT ![b] = q],
         n.full \subseteq n.todo, n.todo \subseteq delivery[d].todo,
         n.todo # {} => n.event = delivery[d].event,
         busFaults = 0 => InOrder(q),
         \/ ToSet(q) \subseteq ToSet(inbox[b])
         \/ b \in delivery[d].todo /\ ToSet(q) \subseteq ToSet(inbox[b]) \cup {delivery[d].event}
  PROVE  BusInv'
<1>1. /\ delivery' \in [Deliverers -> Deliveries] /\ delivery'[d] = n
      /\ \A c \in Deliverers : c # d => delivery'[c] = delivery[c]
  BY DEF BusInv, BusTyped
<1>2. /\ inbox' \in [Browsers -> Seq(Published)] /\ inbox'[b] = q
      /\ \A c \in Browsers : c # b => inbox'[c] = inbox[c]
  BY DEF BusInv, BusTyped
<1>3. BusTyped'
  BY <1>1, <1>2 DEF BusInv, BusTyped
<1>4. ASSUME busFaults = 0 PROVE BusOrder'
  <2>1. BusOrder /\ BusTyped
    BY <1>4 DEF BusInv
  <2>2. \A c \in Deliverers :
          /\ delivery'[c].todo \subseteq delivery[c].todo
          /\ delivery'[c].todo # {} => delivery'[c].event = delivery[c].event
    BY <1>1
  <2>3. \A c \in Browsers : \A f \in ToSet(inbox'[c]) :
          f \in ToSet(inbox[c]) \/ (c = b /\ b \in delivery[d].todo /\ f = delivery[d].event)
    BY <1>2
  <2>4. ASSUME NEW c \in Browsers, NEW e, AfterAll(c, e),
               c = b /\ b \in delivery[d].todo => Before(delivery[d].event, e)
        PROVE  AfterAll(c, e)'
    BY <2>3, <2>4 DEF AfterAll
  <2>5. ASSUME NEW c \in Browsers PROVE \A e \in ToSet(wire) : AfterAll(c, e)'
    BY <2>1, <2>4 DEF BusOrder
  <2>6. ASSUME NEW c \in Deliverers, delivery'[c].todo # {}, NEW a \in delivery'[c].todo
        PROVE  AfterAll(a, delivery[c].event)'
    <3>1. a \in delivery[c].todo /\ delivery'[c].event = delivery[c].event /\ a \in Browsers
      BY <2>1, <2>2, <2>6 DEF BusTyped, Deliveries
    <3>2. AfterAll(a, delivery[c].event)
      BY <2>1, <3>1 DEF BusOrder
    <3>3. b \in delivery[d].todo => Before(delivery[d].event, delivery[c].event)
      <4>1. CASE c = d
        <5>1. b \in delivery[d].todo => delivery[d].event \in Published
          BY <2>1 DEF BusTyped
        <5> QED
          BY <4>1, <5>1, Itself
      <4>2. CASE c # d
        BY <2>1, <3>1, <4>2 DEF BusOrder, Before
      <4> QED
        BY <4>1, <4>2
    <3>4. PICK e : e = delivery[c].event
      OBVIOUS
    <3>5. AfterAll(a, e)'
      BY <2>4, <3>1, <3>2, <3>3, <3>4
    <3> QED
      BY <3>1, <3>4, <3>5 DEF AfterAll
  <2>7. ASSUME NEW c \in Browsers
        PROVE  /\ InOrder(inbox'[c])
               /\ \A e \in ToSet(inbox'[c]) : shown'[c][e[1]] <= e[2] /\ e[2] <= published'[e[1]]
    <3>1. InOrder(inbox'[c])
      BY <1>2, <1>4, <2>1 DEF BusOrder
    <3>2. ASSUME NEW e \in ToSet(inbox'[c]) PROVE shown[c][e[1]] <= e[2] /\ e[2] <= published[e[1]]
      <4>1. CASE e \in ToSet(inbox[c])
        BY <2>1, <4>1 DEF BusOrder
      <4>2. CASE c = b /\ b \in delivery[d].todo /\ e = delivery[d].event
        BY <2>1, <4>2 DEF BusOrder, AfterAll
      <4> QED
        BY <2>3, <4>1, <4>2
    <3> QED
      BY <3>1, <3>2
  <2> QED
    BY <2>1, <2>2, <2>5, <2>6, <2>7 DEF BusOrder
<1> QED
  BY <1>3, <1>4 DEF BusInv

LEMMA ServedMeans ==
  ASSUME BusTyped, NEW d \in Deliverers, NEW b \in Browsers, Served(d, b)
  PROVE  \E n \in Deliveries :
           /\ delivery' = [delivery EXCEPT ![d] = n] /\ n.full \subseteq n.todo
           /\ n.todo \subseteq delivery[d].todo
           /\ n.todo # {} => n.event = delivery[d].event
<1>1. PICK old \in Deliveries : old = delivery[d]
  BY DEF BusTyped
<1>2. PICK x : x = [old EXCEPT !.todo = old.todo \ {b}, !.full = {}, !.room = FALSE]
  OBVIOUS
<1>3. x \in Deliveries /\ x.full = {} /\ x.todo \subseteq old.todo /\ x.event = old.event
  BY <1>2 DEF Deliveries
<1>4. NoDelivery \in Deliveries /\ NoDelivery.full = {} /\ NoDelivery.todo = {}
  BY DEF NoDelivery, Deliveries
<1>5. delivery' = [delivery EXCEPT ![d] = x] \/ delivery' = [delivery EXCEPT ![d] = NoDelivery]
  BY <1>1, <1>2 DEF Served
<1> QED
  BY <1>1, <1>3, <1>4, <1>5

LEMMA SameQueue ==
  ASSUME BusTyped, NEW b \in Browsers
  PROVE  inbox = [inbox EXCEPT ![b] = inbox[b]] /\ inbox[b] \in Seq(Published)
BY DEF BusTyped

LEMMA QueueStep ==
  ASSUME BusInv, NEW d \in Deliverers, NEW b \in Browsers,
         Put(d, b) \/ FindFull(d, b) \/ DropOldest(d, b) \/ PutAgain(d, b)
  PROVE  BusInv'
<1>1. UNCHANGED <<overRedis, published, wire, subscribed, shown, busFaults>>
  BY DEF Put, FindFull, DropOldest, PutAgain
<1>2. BusTyped /\ (busFaults = 0 => BusOrder)
  BY DEF BusInv
<1>3. PICK old \in Deliveries :
        /\ old = delivery[d] /\ old.full \subseteq old.todo
        /\ old.todo # {} => old.event \in Published
  BY <1>2 DEF BusTyped
<1>4. ASSUME b \in old.todo, Served(d, b), inbox' = [inbox EXCEPT ![b] = Append(inbox[b], old.event)]
      PROVE  BusInv'
  <2>1. PICK n \in Deliveries :
          /\ delivery' = [delivery EXCEPT ![d] = n] /\ n.full \subseteq n.todo
          /\ n.todo \subseteq delivery[d].todo
          /\ n.todo # {} => n.event = delivery[d].event
    BY <1>2, <1>4, ServedMeans
  <2>2. inbox[b] \in Seq(Published) /\ old.event \in Published
    BY <1>2, <1>3, <1>4 DEF BusTyped
  <2>3. PICK q : q = Append(inbox[b], old.event)
    OBVIOUS
  <2>4. q \in Seq(Published) /\ ToSet(q) \subseteq ToSet(inbox[b]) \cup {old.event}
    BY <2>2, <2>3, AppendKeeps
  <2>5. ASSUME busFaults = 0 PROVE InOrder(q)
    BY <1>2, <1>3, <1>4, <2>2, <2>3, <2>5, AppendKeeps DEF BusOrder, AfterAll
  <2> QED
    BY <1>1, <1>3, <1>4, <2>1, <2>3, <2>4, <2>5, DeliveredStep
<1>5. ASSUME Served(d, b), inbox' = inbox PROVE BusInv'
  <2>1. PICK n \in Deliveries :
          /\ delivery' = [delivery EXCEPT ![d] = n] /\ n.full \subseteq n.todo
          /\ n.todo \subseteq delivery[d].todo
          /\ n.todo # {} => n.event = delivery[d].event
    BY <1>2, <1>5, ServedMeans
  <2>2. PICK q \in Seq(Published) : q = inbox[b] /\ inbox' = [inbox EXCEPT ![b] = q]
    BY <1>2, <1>5, SameQueue
  <2>3. busFaults = 0 => InOrder(q)
    BY <1>2, <2>2 DEF BusOrder
  <2> QED
    BY <1>1, <2>1, <2>2, <2>3, DeliveredStep
<1>6. CASE FindFull(d, b)
  <2>1. PICK n : n = [old EXCEPT !.full = {b}]
    OBVIOUS
  <2>2. n \in Deliveries /\ n.full \subseteq n.todo /\ n.todo = old.todo /\ n.event = old.event
    BY <1>3, <1>6, <2>1 DEF FindFull, Deliveries
  <2>3. PICK q \in Seq(Published) : q = inbox[b] /\ inbox' = [inbox EXCEPT ![b] = q]
    BY <1>2, <1>6, SameQueue DEF FindFull
  <2>4. busFaults = 0 => InOrder(q)
    BY <1>2, <2>3 DEF BusOrder
  <2>5. delivery' = [delivery EXCEPT ![d] = n]
    BY <1>3, <1>6, <2>1 DEF FindFull
  <2> QED
    BY <1>1, <1>3, <2>2, <2>3, <2>4, <2>5, DeliveredStep
<1>7. ASSUME inbox[b] # <<>>, inbox' = [inbox EXCEPT ![b] = Room(inbox[b])],
             delivery' = [delivery EXCEPT ![d] = [@ EXCEPT !.room = TRUE]]
      PROVE  BusInv'
  <2>1. PICK n : n = [old EXCEPT !.room = TRUE]
    OBVIOUS
  <2>2. n \in Deliveries /\ n.full \subseteq n.todo /\ n.todo = old.todo /\ n.event = old.event
    BY <1>3, <2>1 DEF Deliveries
  <2>3. PICK q : q = Tail(inbox[b])
    OBVIOUS
  <2>4. inbox[b] \in Seq(Published)
    BY <1>2 DEF BusTyped
  <2>5. /\ q \in Seq(Published) /\ ToSet(q) \subseteq ToSet(inbox[b])
        /\ InOrder(inbox[b]) => InOrder(q)
    BY <1>7, <2>3, <2>4, TailKeeps
  <2>6. busFaults = 0 => InOrder(q)
    BY <1>2, <2>5 DEF BusOrder
  <2>7. delivery' = [delivery EXCEPT ![d] = n] /\ inbox' = [inbox EXCEPT ![b] = q]
    BY <1>3, <1>7, <2>1, <2>3 DEF Room
  <2> QED
    BY <1>1, <1>3, <2>2, <2>5, <2>6, <2>7, DeliveredStep
<1>8. CASE Put(d, b)
  BY <1>3, <1>4, <1>8 DEF Put
<1>9. CASE PutAgain(d, b)
  BY <1>3, <1>4, <1>5, <1>9 DEF PutAgain
<1>10. CASE DropOldest(d, b)
  BY <1>5, <1>7, <1>10 DEF DropOldest
<1> QED
  BY <1>6, <1>8, <1>9, <1>10

(* An event that comes after all that went before sets out for the browsers. *)
LEMMA ServeStep ==
  ASSUME BusInv, NEW d \in Deliverers, NEW e \in Published, Serve(d, e), delivery[d].todo = {},
         UNCHANGED <<overRedis, subscribed, inbox, shown>>, busFaults' \in Nat,
         published' \in [Watched -> Nat], wire' \in Seq(Published),
         busFaults' = 0 =>
           /\ busFaults = 0 /\ InOrder(wire')
           /\ \A i \in Watched : published[i] <= published'[i]
           /\ ToSet(wire') \subseteq ToSet(wire) /\ (wire = <<>> => wire' = <<>>)
           /\ IF overRedis THEN d = "listener" ELSE d = e[1]
           /\ e[2] <= published'[e[1]]
           /\ \A b \in Browsers : AfterAll(b, e)
           /\ \A f \in ToSet(wire') : Before(e, f)
  PROVE  BusInv'
<1>1. BusTyped /\ (busFaults = 0 => BusOrder)
  BY DEF BusInv
<1>2. PICK n : n = [NoDelivery EXCEPT !.event = e, !.todo = subscribed]
  OBVIOUS
<1>3. n \in Deliveries /\ n.full = {} /\ n.event = e /\ n.todo = subscribed
  <2>1. /\ NoDelivery.full = {} /\ NoDelivery.room = FALSE
        /\ NoDelivery = [event |-> <<>>, todo |-> {}, full |-> {}, room |-> FALSE]
    BY DEF NoDelivery
  <2> QED
    BY <1>1, <1>2, <2>1 DEF Deliveries, BusTyped
<1>4. delivery' = delivery \/ delivery' = [delivery EXCEPT ![d] = n]
  BY <1>2 DEF Serve
<1>5. /\ delivery' \in [Deliverers -> Deliveries]
      /\ \A c \in Deliverers : delivery'[c] = delivery[c] \/ (c = d /\ delivery'[c] = n)
  BY <1>1, <1>3, <1>4 DEF BusTyped
<1>6. BusTyped'
  BY <1>1, <1>3, <1>5 DEF BusTyped
<1>7. ASSUME busFaults' = 0 PROVE BusOrder'
  <2>1. BusOrder
    BY <1>1, <1>7
  <2>2. ASSUME NEW b \in Browsers, NEW f, AfterAll(b, f) PROVE AfterAll(b, f)'
    BY <2>2 DEF AfterAll
  <2>3. ASSUME NEW b \in Browsers
        PROVE  /\ InOrder(inbox'[b])
               /\ \A f \in ToSet(inbox'[b]) : shown'[b][f[1]] <= f[2] /\ f[2] <= published'[f[1]]
               /\ \A i \in Watched : shown'[b][i] <= published'[i]
               /\ \A f \in ToSet(wire') : AfterAll(b, f)'
    <3>1. \A f \in ToSet(inbox[b]) : f \in Published
      BY <1>1 DEF BusTyped, ToSet
    <3>2. ASSUME NEW f \in ToSet(inbox[b]) PROVE f[2] <= published'[f[1]]
      <4>1. f[1] \in Watched /\ f[2] \in Nat /\ f[2] <= published[f[1]]
        BY <2>1, <3>1 DEF BusOrder, Published
      <4>2. published[f[1]] <= published'[f[1]] /\ published[f[1]] \in Nat /\ published'[f[1]] \in Nat
        BY <1>1, <1>7, <4>1 DEF BusTyped
      <4> QED
        BY <4>1, <4>2
    <3>3. ASSUME NEW i \in Watched PROVE shown[b][i] <= published'[i]
      <4>1. /\ published[i] <= published'[i] /\ published[i] \in Nat /\ published'[i] \in Nat
            /\ shown[b][i] \in Nat
        BY <1>1, <1>7 DEF BusTyped
      <4> QED
        BY <2>1, <4>1 DEF BusOrder
    <3> QED
      BY <1>7, <2>1, <2>2, <3>2, <3>3 DEF BusOrder
  <2>4. ASSUME NEW c \in Deliverers, delivery'[c].todo # {}
        PROVE  /\ delivery'[c].event[2] <= published'[delivery'[c].event[1]]
               /\ IF overRedis' THEN c = "listener" ELSE c = delivery'[c].event[1]
               /\ \A b \in delivery'[c].todo : AfterAll(b, delivery[c].event)'
               /\ \A f \in ToSet(wire') : Before(delivery'[c].event, f)
    <3>1. CASE delivery'[c] = delivery[c]
      <4>1. delivery[c].event \in Published
        BY <1>1, <2>4, <3>1 DEF BusTyped
      <4>2. PICK f \in Published : f = delivery[c].event
        BY <4>1
      <4>3. f[1] \in Watched /\ f[2] \in Nat /\ f[2] <= published[f[1]]
        BY <2>1, <2>4, <3>1, <4>2 DEF BusOrder, Published
      <4>4. published[f[1]] <= published'[f[1]] /\ published[f[1]] \in Nat /\ published'[f[1]] \in Nat
        BY <1>1, <1>7, <4>3 DEF BusTyped
      <4>5. f[2] <= published'[f[1]]
        BY <4>3, <4>4
      <4>6. \A b \in delivery[c].todo : b \in Browsers /\ AfterAll(b, f)
        BY <1>1, <2>1, <2>4, <3>1, <4>2 DEF BusOrder, BusTyped, Deliveries
      <4>7. \A b \in delivery'[c].todo : AfterAll(b, f)'
        BY <2>2, <3>1, <4>6
      <4>8. /\ IF overRedis' THEN c = "listener" ELSE c = f[1]
            /\ \A g \in ToSet(wire') : Before(f, g)
        BY <1>7, <2>1, <2>4, <3>1, <4>2 DEF BusOrder
      <4> QED
        BY <3>1, <4>2, <4>5, <4>7, <4>8 DEF AfterAll
    <3>2. CASE c = d /\ delivery'[c] = n
      <4>1. \A b \in delivery'[c].todo : AfterAll(b, e)'
        BY <1>1, <1>3, <1>7, <2>2, <3>2 DEF BusTyped
      <4> QED
        BY <1>3, <1>7, <3>2, <4>1 DEF AfterAll
    <3> QED
      BY <1>5, <3>1, <3>2
  <2>5. ASSUME NEW f \in ToSet(wire') PROVE f[2] <= published'[f[1]]
    <3>1. f \in Published
      BY <1>1, <1>7 DEF BusTyped, ToSet
    <3>2. f[1] \in Watched /\ f[2] \in Nat /\ f[2] <= published[f[1]]
      BY <1>7, <2>1, <3>1 DEF BusOrder, Published
    <3>3. published[f[1]] <= published'[f[1]] /\ published[f[1]] \in Nat /\ published'[f[1]] \in Nat
      BY <1>1, <1>7, <3>2 DEF BusTyped
    <3> QED
      BY <3>2, <3>3
  <2> QED
    BY <1>7, <2>1, <2>3, <2>4, <2>5 DEF BusOrder
<1> QED
  BY <1>6, <1>7 DEF BusInv

LEMMA Queued ==
  ASSUME BusTyped
  PROVE  /\ \A f \in ToSet(wire) : f \in Published
         /\ \A b \in Browsers : \A f \in ToSet(inbox[b]) : f \in Published
<1>1. ASSUME NEW q \in Seq(Published) PROVE \A f \in ToSet(q) : f \in Published
  BY DEF ToSet
<1>2. wire \in Seq(Published) /\ \A b \in Browsers : inbox[b] \in Seq(Published)
  BY DEF BusTyped
<1> QED
  BY <1>1, <1>2

(* A new event comes after all the others of its investigation.            *)
LEMMA Newest ==
  ASSUME BusTyped, BusOrder, NEW i \in Watched, NEW e \in Published, e = <<i, published[i] + 1>>
  PROVE  /\ \A b \in Browsers : AfterAll(b, e)
         /\ \A f \in ToSet(wire) : Before(f, e)
         /\ \A d \in Deliverers : delivery[d].todo # {} => Before(delivery[d].event, e)
<1>1. e[1] = i /\ e[2] = published[i] + 1 /\ published[i] \in Nat
  BY DEF BusTyped
<1>2. ASSUME NEW f \in Published, f[2] <= published[f[1]] PROVE Before(f, e)
  BY <1>1, <1>2 DEF Before, Published
<1>3. ASSUME NEW b \in Browsers PROVE AfterAll(b, e)
  <2>1. shown[b][i] \in Nat /\ shown[b][i] <= published[i]
    BY DEF BusTyped, BusOrder
  <2>2. \A f \in ToSet(inbox[b]) : f \in Published /\ f[2] <= published[f[1]]
    BY Queued DEF BusOrder
  <2> QED
    BY <1>1, <1>2, <2>1, <2>2 DEF AfterAll
<1>4. \A f \in ToSet(wire) : f \in Published /\ f[2] <= published[f[1]]
  BY Queued DEF BusOrder
<1>5. \A d \in Deliverers : delivery[d].todo # {} =>
        delivery[d].event \in Published /\ delivery[d].event[2] <= published[delivery[d].event[1]]
  BY DEF BusTyped, BusOrder
<1> QED
  BY <1>2, <1>3, <1>4, <1>5

LEMMA NoDeliveryMeans ==
  ASSUME NEW d, ~Delivering(d) PROVE delivery[d].todo = {}
BY DEF Delivering, NoDelivery

LEMMA PublishStep ==
  ASSUME BusInv, NEW i \in Watched, Publish(i)
  PROVE  BusInv'
<1>1. BusTyped /\ (busFaults = 0 => BusOrder)
  BY DEF BusInv
<1>2. PICK e : e = <<i, published[i] + 1>>
  OBVIOUS
<1>3. e \in Published /\ e[1] = i /\ e[2] = published[i] + 1 /\ published[i] \in Nat
  BY <1>1, <1>2 DEF BusTyped, Published
<1>4. i \in Deliverers /\ delivery[i].todo = {}
  BY NoDeliveryMeans DEF Publish, Deliverers
<1>5. /\ published' \in [Watched -> Nat] /\ published'[i] = e[2]
      /\ \A j \in Watched : published[j] <= published'[j]
  <2>1. PICK n \in Nat : n = published[i] + 1
    BY <1>3
  <2>2. published' = [published EXCEPT ![i] = n]
    BY <2>1 DEF Publish
  <2>3. published' \in [Watched -> Nat] /\ published'[i] = n /\ \A j \in Watched : j # i => published'[j] = published[j]
    BY <1>1, <2>2 DEF BusTyped
  <2>4. \A j \in Watched : published[j] \in Nat
    BY <1>1 DEF BusTyped
  <2> QED
    BY <1>3, <2>1, <2>3, <2>4
<1>6. UNCHANGED <<overRedis, subscribed, inbox, shown>>
  BY DEF Publish
<1>7. CASE Serve(i, e) /\ wire' = wire /\ busFaults' \in Nat /\ (busFaults' = 0 => busFaults = 0 /\ ~overRedis)
  <2>1. wire' \in Seq(Published)
    BY <1>1, <1>7 DEF BusTyped
  <2>2. ASSUME busFaults' = 0
        PROVE  /\ busFaults = 0 /\ InOrder(wire')
               /\ ToSet(wire') \subseteq ToSet(wire) /\ (wire = <<>> => wire' = <<>>)
               /\ IF overRedis THEN i = "listener" ELSE i = e[1]
               /\ e[2] <= published'[e[1]]
               /\ \A b \in Browsers : AfterAll(b, e)
               /\ \A f \in ToSet(wire') : Before(e, f)
    <3>1. BusOrder /\ busFaults = 0 /\ ~overRedis
      BY <1>1, <1>7, <2>2
    <3>2. wire = <<>>
      BY <3>1 DEF BusOrder
    <3>3. \A b \in Browsers : AfterAll(b, e)
      BY <1>1, <1>2, <1>3, <3>1, Newest
    <3>4. e[2] <= published'[e[1]]
      BY <1>3, <1>5
    <3> QED
      BY <1>3, <1>7, <3>1, <3>2, <3>3, <3>4, EmptyQueue
  <2> QED
    BY <1>3, <1>4, <1>5, <1>6, <1>7, <2>1, <2>2, ServeStep
<1>8. CASE overRedis /\ wire' = Append(wire, e) /\ UNCHANGED <<delivery, busFaults>>
  <2>1. /\ wire' \in Seq(Published) /\ ToSet(wire') \subseteq ToSet(wire) \cup {e}
        /\ InOrder(wire) /\ (\A f \in ToSet(wire) : Before(f, e)) => InOrder(wire')
    BY <1>1, <1>3, <1>8, AppendKeeps DEF BusTyped
  <2>2. BusTyped'
    BY <1>1, <1>5, <1>6, <1>8, <2>1 DEF BusTyped
  <2>3. ASSUME busFaults = 0 PROVE BusOrder'
    <3>1. BusOrder
      BY <1>1, <2>3
    <3>2. /\ \A b \in Browsers : AfterAll(b, e)
          /\ \A f \in ToSet(wire) : Before(f, e)
          /\ \A d \in Deliverers : delivery[d].todo # {} => Before(delivery[d].event, e)
      BY <1>1, <1>2, <1>3, <3>1, Newest
    <3>3. ASSUME NEW f \in Published, f[2] <= published[f[1]] PROVE f[2] <= published'[f[1]]
      <4>1. f[1] \in Watched /\ f[2] \in Nat
        BY DEF Published
      <4>2. published[f[1]] \in Nat /\ published'[f[1]] \in Nat /\ published[f[1]] <= published'[f[1]]
        BY <1>1, <1>5, <4>1 DEF BusTyped
      <4> QED
        BY <3>3, <4>1, <4>2
    <3>4. ASSUME NEW b \in Browsers
          PROVE  /\ \A f \in ToSet(inbox'[b]) : shown'[b][f[1]] <= f[2] /\ f[2] <= published'[f[1]]
                 /\ \A j \in Watched : shown'[b][j] <= published'[j]
                 /\ \A f \in ToSet(wire') : AfterAll(b, f)'
      <4>1. \A f \in ToSet(inbox[b]) : f \in Published
        BY <1>1 DEF BusTyped, ToSet
      <4>2. \A f \in ToSet(inbox'[b]) : shown'[b][f[1]] <= f[2] /\ f[2] <= published'[f[1]]
        BY <1>6, <3>1, <3>3, <4>1 DEF BusOrder
      <4>3. ASSUME NEW j \in Watched PROVE shown'[b][j] <= published'[j]
        <5>1. /\ published[j] <= published'[j] /\ published[j] \in Nat /\ published'[j] \in Nat
              /\ shown[b][j] \in Nat
          BY <1>1, <1>5 DEF BusTyped
        <5> QED
          BY <1>6, <3>1, <5>1 DEF BusOrder
      <4>4. \A f \in ToSet(wire') : AfterAll(b, f)
        BY <2>1, <3>1, <3>2 DEF BusOrder
      <4> QED
        BY <1>6, <4>2, <4>3, <4>4 DEF AfterAll
    <3>5. ASSUME NEW f \in ToSet(wire') PROVE f[2] <= published'[f[1]]
      <4>1. CASE f = e
        <5>1. e[2] <= published'[e[1]]
          BY <1>3, <1>5
        <5> QED
          BY <4>1, <5>1
      <4>2. CASE f \in ToSet(wire)
        <5>1. f \in Published /\ f[2] <= published[f[1]]
          BY <1>1, <3>1, <4>2, Queued DEF BusOrder
        <5> QED
          BY <3>3, <5>1
      <4> QED
        BY <2>1, <4>1, <4>2
    <3>6. ASSUME NEW d \in Deliverers, delivery[d].todo # {}
          PROVE  /\ delivery[d].event[2] <= published'[delivery[d].event[1]]
                 /\ \A f \in ToSet(wire') : Before(delivery[d].event, f)
                 /\ \A b \in delivery[d].todo : AfterAll(b, delivery[d].event)'
      <4>1. delivery[d].event \in Published /\ delivery[d].event[2] <= published[delivery[d].event[1]]
        BY <1>1, <3>1, <3>6 DEF BusTyped, BusOrder
      <4>2. \A b \in delivery[d].todo : AfterAll(b, delivery[d].event)
        BY <3>1, <3>6 DEF BusOrder
      <4>3. \A f \in ToSet(wire') : Before(delivery[d].event, f)
        BY <2>1, <3>1, <3>2, <3>6 DEF BusOrder
      <4>4. \A b \in delivery[d].todo : AfterAll(b, delivery[d].event)'
        BY <1>6, <1>8, <4>2 DEF AfterAll
      <4>5. delivery[d].event[2] <= published'[delivery[d].event[1]]
        BY <3>3, <4>1
      <4> QED
        BY <4>3, <4>4, <4>5
    <3>7. InOrder(wire')
      BY <2>1, <3>1, <3>2 DEF BusOrder
    <3> QED
      BY <1>6, <1>8, <3>1, <3>4, <3>5, <3>6, <3>7 DEF BusOrder
  <2> QED
    BY <1>8, <2>2, <2>3 DEF BusInv
<1>9. ASSUME busFaults' = busFaults + 1 PROVE busFaults' \in Nat /\ busFaults' # 0
  BY <1>1, <1>9 DEF BusTyped
<1> QED
  BY <1>1, <1>2, <1>7, <1>8, <1>9 DEF Publish, BusTyped

LEMMA RelayStep ==
  ASSUME BusInv, Relay
  PROVE  BusInv'
<1>1. BusTyped /\ (busFaults = 0 => BusOrder)
  BY DEF BusInv
<1>2. PICK e \in Published : e = Head(wire)
  BY <1>1, TailKeeps DEF Relay, BusTyped
<1>3. /\ wire \in Seq(Published) /\ wire # <<>> /\ wire' = Tail(wire)
      /\ wire' \in Seq(Published) /\ e \in ToSet(wire) /\ ToSet(wire') \subseteq ToSet(wire)
      /\ InOrder(wire) => InOrder(wire') /\ \A f \in ToSet(wire) : Before(e, f)
  BY <1>1, <1>2, TailKeeps DEF Relay, BusTyped
<1>4. "listener" \in Deliverers /\ delivery["listener"].todo = {}
  BY NoDeliveryMeans DEF Relay, Deliverers
<1>5. UNCHANGED <<overRedis, published, subscribed, inbox, shown>>
  BY DEF Relay
<1>6. CASE Serve("listener", e) /\ busFaults' = busFaults
  <2>1. ASSUME busFaults' = 0
        PROVE  /\ busFaults = 0 /\ InOrder(wire') /\ overRedis
               /\ e[2] <= published'[e[1]]
               /\ \A b \in Browsers : AfterAll(b, e)
               /\ \A f \in ToSet(wire') : Before(e, f)
    <3>1. busFaults = 0 /\ BusOrder
      BY <1>1, <1>6, <2>1
    <3> QED
      BY <1>3, <1>5, <3>1 DEF BusOrder
  <2>2. \A i \in Watched : published[i] <= published'[i]
    BY <1>1, <1>5 DEF BusTyped
  <2>3. published' \in [Watched -> Nat] /\ busFaults' \in Nat
    BY <1>1, <1>5, <1>6 DEF BusTyped
  <2> QED
    BY <1>3, <1>4, <1>5, <1>6, <2>1, <2>2, <2>3, ServeStep
<1>7. CASE busFaults' = busFaults + 1 /\ delivery' = delivery
  <2>1. busFaults' \in Nat /\ busFaults' # 0
    BY <1>1, <1>7 DEF BusTyped
  <2>2. BusTyped'
    BY <1>1, <1>3, <1>5, <1>7, <2>1 DEF BusTyped
  <2> QED
    BY <2>1, <2>2 DEF BusInv
<1> QED
  BY <1>2, <1>6, <1>7 DEF Relay

LEMMA ComesStep ==
  ASSUME BusInv, NEW b \in Browsers, Subscribe(b) \/ Unsubscribe(b)
  PROVE  BusInv'
<1>1. BusTyped /\ (busFaults = 0 => BusOrder)
  BY DEF BusInv
<1>2. UNCHANGED <<overRedis, published, wire, delivery, busFaults>>
  BY DEF Subscribe, Unsubscribe
<1>3. CASE UNCHANGED <<inbox, shown>> /\ subscribed' \subseteq Browsers
  BY <1>1, <1>2, <1>3 DEF BusInv, BusTyped, BusOrder, AfterAll
<1>4. CASE Subscribe(b)
  <2> DEFINE zero == [i \in Watched |-> 0]
  <2>1. zero \in [Watched -> Nat] /\ \A i \in Watched : zero[i] = 0
    OBVIOUS
  <2>2. /\ inbox' \in [Browsers -> Seq(Published)] /\ inbox'[b] = <<>>
        /\ \A c \in Browsers : c # b => inbox'[c] = inbox[c]
    BY <1>1, <1>4, EmptyQueue DEF Subscribe, BusTyped
  <2>3. /\ shown' \in [Browsers -> [Watched -> Nat]] /\ shown'[b] = zero
        /\ \A c \in Browsers : c # b => shown'[c] = shown[c]
    BY <1>1, <1>4, <2>1 DEF Subscribe, BusTyped
  <2>4. BusTyped'
    BY <1>1, <1>2, <1>4, <2>2, <2>3 DEF BusTyped, Subscribe
  <2>5. ASSUME busFaults = 0 PROVE BusOrder'
    <3>1. BusOrder
      BY <1>1, <2>5
    <3>2. ASSUME NEW f \in Published PROVE AfterAll(b, f)'
      BY <2>1, <2>2, <2>3, EmptyQueue DEF AfterAll, Published
    <3>3. ASSUME NEW c \in Browsers, c # b, NEW f, AfterAll(c, f) PROVE AfterAll(c, f)'
      BY <2>2, <2>3, <3>3 DEF AfterAll
    <3>4. ASSUME NEW c \in Browsers
          PROVE  /\ InOrder(inbox'[c])
                 /\ \A f \in ToSet(inbox'[c]) : shown'[c][f[1]] <= f[2] /\ f[2] <= published'[f[1]]
                 /\ \A i \in Watched : shown'[c][i] <= published'[i]
                 /\ \A f \in ToSet(wire') : AfterAll(c, f)'
      <4>1. CASE c = b
        <5>1. \A i \in Watched : shown'[c][i] <= published'[i]
          BY <1>1, <1>2, <2>1, <2>3, <4>1 DEF BusTyped
        <5>2. \A f \in ToSet(wire') : AfterAll(c, f)'
          BY <1>1, <1>2, <3>2, <4>1, Queued
        <5> QED
          BY <2>2, <4>1, <5>1, <5>2, EmptyQueue
      <4>2. CASE c # b
        BY <1>2, <2>2, <2>3, <3>1, <3>3, <4>2 DEF BusOrder
      <4> QED
        BY <4>1, <4>2
    <3>5. ASSUME NEW d \in Deliverers, delivery[d].todo # {}, NEW c \in delivery[d].todo
          PROVE  AfterAll(c, delivery[d].event)'
      <4>1. c \in Browsers /\ c # b
        BY <1>1, <1>4, <3>5 DEF BusTyped, Deliveries, Subscribe
      <4>2. PICK f : f = delivery[d].event
        OBVIOUS
      <4>3. AfterAll(c, f)'
        BY <3>1, <3>3, <3>5, <4>1, <4>2 DEF BusOrder
      <4> QED
        BY <1>2, <4>2, <4>3 DEF AfterAll
    <3> QED
      BY <1>2, <3>1, <3>4, <3>5 DEF BusOrder
  <2> QED
    BY <1>2, <2>4, <2>5 DEF BusInv
<1> QED
  BY <1>1, <1>3, <1>4 DEF Unsubscribe, BusTyped

LEMMA ShowStep ==
  ASSUME BusInv, NEW b \in Browsers, Show(b)
  PROVE  BusInv'
<1>1. BusTyped /\ (busFaults = 0 => BusOrder)
  BY DEF BusInv
<1>2. UNCHANGED <<overRedis, published, wire, delivery, subscribed, busFaults>>
  BY DEF Show
<1>3. PICK h \in Published : h = Head(inbox[b]) /\ h \in ToSet(inbox[b])
  BY <1>1, TailKeeps DEF Show, BusTyped
<1>4. h[1] \in Watched /\ h[2] \in Nat
  BY DEF Published
<1>5. PICK q \in Seq(Published) :
        /\ q = Tail(inbox[b]) /\ ToSet(q) \subseteq ToSet(inbox[b])
        /\ InOrder(inbox[b]) => InOrder(q) /\ \A e \in ToSet(inbox[b]) : Before(h, e)
  BY <1>1, <1>3, TailKeeps DEF Show, BusTyped
<1>6. /\ inbox' \in [Browsers -> Seq(Published)] /\ inbox'[b] = q
      /\ \A c \in Browsers : c # b => inbox'[c] = inbox[c]
  BY <1>1, <1>5 DEF Show, BusTyped
<1>7. PICK g : g = [shown[b] EXCEPT ![h[1]] = h[2]]
  OBVIOUS
<1>8. g \in [Watched -> Nat] /\ g[h[1]] = h[2] /\ \A i \in Watched : i # h[1] => g[i] = shown[b][i]
  BY <1>1, <1>4, <1>7 DEF BusTyped
<1>9. /\ shown' \in [Browsers -> [Watched -> Nat]] /\ shown'[b] = g
      /\ \A c \in Browsers : c # b => shown'[c] = shown[c]
  BY <1>1, <1>3, <1>7, <1>8 DEF Show, BusTyped
<1>10. BusTyped'
  BY <1>1, <1>2, <1>6, <1>9 DEF BusTyped
<1>11. ASSUME busFaults = 0 PROVE BusOrder'
  <2>1. BusOrder
    BY <1>1, <1>11
  <2>2. ASSUME NEW c \in Browsers, NEW f \in Published, AfterAll(c, f) PROVE AfterAll(c, f)'
    <3>1. CASE c = b
      <4>1. Before(h, f) /\ shown[b][f[1]] <= f[2] /\ f[1] \in Watched
        BY <1>3, <2>2, <3>1 DEF AfterAll, Published
      <4>2. g[f[1]] <= f[2]
        BY <1>8, <4>1 DEF Before
      <4> QED
        BY <1>5, <1>6, <1>9, <2>2, <3>1, <4>2 DEF AfterAll
    <3>2. CASE c # b
      BY <1>6, <1>9, <2>2, <3>2 DEF AfterAll
    <3> QED
      BY <3>1, <3>2
  <2>3. ASSUME NEW c \in Browsers
        PROVE  /\ InOrder(inbox'[c])
               /\ \A f \in ToSet(inbox'[c]) : shown'[c][f[1]] <= f[2] /\ f[2] <= published'[f[1]]
               /\ \A i \in Watched : shown'[c][i] <= published'[i]
               /\ \A f \in ToSet(wire') : AfterAll(c, f)'
    <3>1. \A f \in ToSet(wire') : AfterAll(c, f)'
      BY <1>1, <1>2, <2>1, <2>2, Queued DEF BusOrder
    <3>2. CASE c = b
      <4>1. ASSUME NEW f \in ToSet(q) PROVE g[f[1]] <= f[2] /\ f[2] <= published[f[1]]
        <5>1. /\ f \in ToSet(inbox[b]) /\ f \in Published
              /\ shown[b][f[1]] <= f[2] /\ f[2] <= published[f[1]]
          BY <1>1, <1>5, <2>1, <4>1, Queued DEF BusOrder
        <5>2. Before(h, f) /\ f[1] \in Watched
          BY <1>5, <2>1, <5>1 DEF BusOrder, Published
        <5> QED
          BY <1>8, <5>1, <5>2 DEF Before
      <4>2. \A i \in Watched : g[i] <= published[i]
        BY <1>3, <1>8, <2>1 DEF BusOrder
      <4>3. InOrder(q)
        BY <1>5, <2>1 DEF BusOrder
      <4> QED
        BY <1>2, <1>6, <1>9, <3>1, <3>2, <4>1, <4>2, <4>3
    <3>3. CASE c # b
      BY <1>2, <1>6, <1>9, <2>1, <3>1, <3>3 DEF BusOrder
    <3> QED
      BY <3>2, <3>3
  <2>4. ASSUME NEW d \in Deliverers, delivery[d].todo # {}, NEW c \in delivery[d].todo
        PROVE  AfterAll(c, delivery[d].event)'
    <3>1. c \in Browsers
      BY <1>1, <2>4 DEF BusTyped, Deliveries
    <3>2. PICK f \in Published : f = delivery[d].event
      BY <1>1, <2>4 DEF BusTyped
    <3>3. AfterAll(c, f)'
      BY <2>1, <2>2, <2>4, <3>1, <3>2 DEF BusOrder
    <3> QED
      BY <1>2, <3>2, <3>3 DEF AfterAll
  <2> QED
    BY <1>2, <2>1, <2>3, <2>4 DEF BusOrder
<1> QED
  BY <1>2, <1>10, <1>11 DEF BusInv

(* Once the final text is there, the worker has nothing left to do. *)
Statuses ==
  [pending : Nat, busy : BOOLEAN, at : {"idle", "reading", "clearing", "updating", "leaving"},
   text : Nat, slack : Nat, next : Nat, over : {"no", "waking", "stopping", "done"}]

StatusInv == drain \in Statuses /\ (drain.over = "done" => drain.at = "idle")

(* The steps of the status message. *)
StatusMoves ==
  \/ SetPending \/ WakeDrain \/ ReadPending \/ ClearPending \/ UpdateStatus
  \/ LeaveDrain \/ StopPending \/ FinalStatus

LEMMA StatusStep ==
  ASSUME StatusInv, StatusMoves
  PROVE  StatusInv' /\ drain.over # "done"
<1>1. drain \in Statuses /\ (drain.over = "done" => drain.at = "idle")
  BY DEF StatusInv
<1>2. drain.over # "done"
  BY <1>1 DEF StatusMoves, SetPending, WakeDrain, ReadPending, ClearPending, UpdateStatus,
              LeaveDrain, StopPending, FinalStatus
<1>3. PICK n \in Nat : n = drain.next + 1
  BY <1>1 DEF Statuses
<1>4. Final \in Nat
  BY LiveEventsAssumption DEF Final
<1>5. CASE SetPending
  <2>1. drain' = [drain EXCEPT !.pending = drain.next, !.next = n, !.over = "waking"]
    BY <1>3, <1>5 DEF SetPending
  <2> QED
    BY <1>1, <1>2, <2>1 DEF StatusInv, Statuses
<1>6. CASE WakeDrain
  BY <1>1, <1>2, <1>6 DEF WakeDrain, StatusInv, Statuses
<1>7. CASE ReadPending
  <2>1. drain.over # "done" /\ drain.pending \in Nat
    BY <1>1, <1>2 DEF Statuses
  <2>2. CASE drain.pending = 0
    <3>1. drain' = [drain EXCEPT !.at = "leaving"]
      BY <1>7, <2>2 DEF ReadPending
    <3> QED
      BY <1>1, <2>1, <3>1 DEF StatusInv, Statuses
  <2>3. CASE drain.pending # 0
    <3>1. PICK text \in Nat : text = drain.pending
      BY <2>1
    <3>2. drain' = [drain EXCEPT !.at = "clearing", !.text = text]
      BY <1>7, <2>3, <3>1 DEF ReadPending
    <3> QED
      BY <1>1, <2>1, <3>2 DEF StatusInv, Statuses
  <2> QED
    BY <2>2, <2>3
<1>8. CASE ClearPending
  BY <1>1, <1>2, <1>8 DEF ClearPending, StatusInv, Statuses
<1>12. CASE LeaveDrain
  <2>1. PICK no \in BOOLEAN : no = FALSE
    OBVIOUS
  <2>2. drain' = [drain EXCEPT !.busy = no, !.at = "idle"]
    BY <1>12, <2>1 DEF LeaveDrain
  <2> QED
    BY <1>1, <1>2, <2>2 DEF StatusInv, Statuses
<1>9. CASE UpdateStatus
  <2>1. drain.over # "done" /\ drain.text \in Nat
    BY <1>1, <1>2 DEF Statuses
  <2>2. PICK text \in Nat : text = drain.text
    BY <2>1
  <2>3. \/ drain' = [drain EXCEPT !.slack = text, !.text = 0, !.at = "reading"]
        \/ drain' = [drain EXCEPT !.text = 0, !.at = "reading"]
    BY <1>9, <2>2 DEF UpdateStatus
  <2>4. CASE drain' = [drain EXCEPT !.slack = text, !.text = 0, !.at = "reading"]
    BY <1>1, <2>1, <2>4 DEF StatusInv, Statuses
  <2>5. CASE drain' = [drain EXCEPT !.text = 0, !.at = "reading"]
    BY <1>1, <2>1, <2>5 DEF StatusInv, Statuses
  <2> QED
    BY <2>3, <2>4, <2>5
<1>10. CASE StopPending
  BY <1>1, <1>2, <1>10 DEF StopPending, StatusInv, Statuses
<1>11. CASE FinalStatus
  <2>1. drain.at = "idle" /\ drain' = [drain EXCEPT !.slack = Final, !.over = "done"]
    BY <1>11 DEF FinalStatus, AwaitDrain
  <2> QED
    BY <1>1, <1>2, <1>4, <2>1 DEF StatusInv, Statuses
<1> QED
  BY <1>2, <1>5, <1>6, <1>7, <1>8, <1>9, <1>10, <1>11, <1>12 DEF StatusMoves

LEMMA BusStep ==
  ASSUME BusInv, StatusInv, [BusNext]_busVars
  PROVE  BusInv' /\ StatusInv'
<1>1. CASE StatusMoves
  <2>1. UNCHANGED <<overRedis, published, wire, delivery, subscribed, inbox, shown, busFaults>>
    BY <1>1 DEF StatusMoves, SetPending, WakeDrain, ReadPending, ClearPending, UpdateStatus,
                LeaveDrain, StopPending, FinalStatus, statusOnly
  <2> QED
    BY <1>1, <2>1, StatusStep DEF BusInv, BusTyped, BusOrder, AfterAll
<1>2. CASE UNCHANGED busVars
  BY <1>2 DEF busVars, BusInv, BusTyped, BusOrder, AfterAll, StatusInv
<1>3. CASE \E i \in Watched : Publish(i)
  BY <1>3, PublishStep DEF Publish, StatusInv
<1>4. CASE Relay
  BY <1>4, RelayStep DEF Relay, StatusInv
<1>5. CASE \E d \in Deliverers, b \in Browsers :
             Put(d, b) \/ FindFull(d, b) \/ DropOldest(d, b) \/ PutAgain(d, b)
  <2>1. drain' = drain
    BY <1>5 DEF Put, FindFull, DropOldest, PutAgain
  <2> QED
    BY <1>5, <2>1, QueueStep DEF StatusInv
<1>6. CASE \E b \in Browsers : Subscribe(b) \/ Unsubscribe(b) \/ Show(b)
  <2>1. drain' = drain
    BY <1>6 DEF Subscribe, Unsubscribe, Show
  <2> QED
    BY <1>6, <2>1, ComesStep, ShowStep DEF StatusInv
<1> QED
  BY <1>1, <1>2, <1>3, <1>4, <1>5, <1>6 DEF BusNext, StatusMoves

LEMMA BusInitially == BusInit => BusInv /\ StatusInv
<1> SUFFICES ASSUME BusInit PROVE BusInv /\ StatusInv
  OBVIOUS
<1>1. \A d \in Deliverers : delivery[d] = NoDelivery
  BY DEF BusInit
<1>2. NoDelivery \in Deliveries /\ NoDelivery.full = {} /\ NoDelivery.todo = {}
  BY DEF NoDelivery, Deliveries
<1>3. delivery \in [Deliverers -> Deliveries]
  BY <1>1, <1>2 DEF BusInit
<1>4. /\ published \in [Watched -> Nat] /\ shown \in [Browsers -> [Watched -> Nat]]
      /\ inbox \in [Browsers -> Seq(Published)] /\ wire = <<>> /\ wire \in Seq(Published)
  BY EmptyQueue DEF BusInit
<1>5. BusTyped
  BY <1>1, <1>2, <1>3, <1>4 DEF BusInit, BusTyped
<1>6. /\ \A i \in Watched : published[i] = 0
      /\ \A b \in Browsers, i \in Watched : shown[b][i] = 0
      /\ \A b \in Browsers : inbox[b] = <<>>
  BY DEF BusInit
<1>7. BusOrder
  BY <1>1, <1>2, <1>4, <1>6, EmptyQueue DEF BusOrder
<1>8. StatusInit \in Statuses /\ StatusInit.over = "no"
  BY DEF StatusInit, Statuses
<1>9. StatusInv
  BY <1>8 DEF BusInit, StatusInv
<1> QED
  BY <1>5, <1>7, <1>9 DEF BusInv

LEMMA ShownLater ==
  ASSUME BusInv, StatusInv, BusNext
  PROVE  FinalStatusLast /\ EventsInOrder
<1>1. FinalStatusLast
  <2>1. StatusMoves \/ drain' = drain
    BY DEF BusNext, StatusMoves, Publish, Relay, Put, FindFull, DropOldest, PutAgain,
           Subscribe, Unsubscribe, Show
  <2> QED
    BY <2>1, StatusStep DEF FinalStatusLast
<1>2. EventsInOrder
  <2> SUFFICES ASSUME NEW b \in Browsers, NEW i \in Watched, busFaults = 0, b \in subscribed
               PROVE  shown'[b][i] >= shown[b][i]
    BY DEF EventsInOrder
  <2>1. BusTyped /\ BusOrder /\ shown[b][i] \in Nat
    BY DEF BusInv, BusTyped
  <2>2. CASE shown'[b] = shown[b]
    BY <2>1, <2>2
  <2>3. CASE Show(b)
    <3>1. PICK h \in Published : h = Head(inbox[b]) /\ h \in ToSet(inbox[b])
      BY <2>1, <2>3, TailKeeps DEF Show, BusTyped
    <3>2. h[1] \in Watched /\ h[2] \in Nat /\ shown[b][h[1]] <= h[2]
      BY <2>1, <3>1 DEF BusOrder, Published
    <3>3. PICK g : g = [shown[b] EXCEPT ![h[1]] = h[2]]
      OBVIOUS
    <3>4. shown'[b] = g
      BY <2>1, <2>3, <3>1, <3>3 DEF Show, BusTyped
    <3>5. g[i] = IF i = h[1] THEN h[2] ELSE shown[b][i]
      BY <2>1, <3>3 DEF BusTyped
    <3> QED
      BY <2>1, <3>2, <3>4, <3>5
  <2>4. ASSUME NEW c \in Browsers, c # b, Show(c) \/ Subscribe(c) PROVE shown'[b] = shown[b]
    BY <2>1, <2>4 DEF Show, Subscribe, BusTyped
  <2>5. ~Subscribe(b)
    BY DEF Subscribe
  <2>6. \/ shown' = shown \/ \E c \in Browsers : Show(c) \/ Subscribe(c)
    BY DEF BusNext, Publish, Relay, Put, FindFull, DropOldest, PutAgain, Unsubscribe,
           SetPending, WakeDrain, ReadPending, ClearPending, UpdateStatus, LeaveDrain, StopPending,
           FinalStatus, statusOnly
  <2> QED
    BY <2>2, <2>3, <2>4, <2>5, <2>6
<1> QED
  BY <1>1, <1>2

(* What is shown of an investigation, in Slack or in a browser, never goes *)
(* back in time.                                                           *)
THEOREM ShownInOrder == BusSpec => NeverBackInTime
<1>1. BusInv /\ StatusInv /\ [BusNext]_busVars => BusInv' /\ StatusInv'
  BY BusStep
<1>2. BusInv /\ StatusInv /\ [BusNext]_busVars => [FinalStatusLast /\ EventsInOrder]_busVars
  BY ShownLater
<1> QED
  BY <1>1, <1>2, BusInitially, PTL DEF BusSpec, NeverBackInTime

-----------------------------------------------------------------------------
(* Feedback: what people said is kept. *)

Rows ==
  [alert : AlertNames, cause : CauseTypes, status : {"active", "expired", "wrong"},
   hits : Nat, misses : Nat, last : Incidents, keywords : Keywords, fresh : BOOLEAN]

RunbookRows == [status : {"absent", "active", "demoted"}, hits : Nat, misses : Nat]

Flows ==
  [at : {"new", "recalled", "replaying", "posted"}, tried : Nat,
   by : {"nobody", "tools", "talk", "pattern"}, books : SUBSET RunbookIds]

TaughtPhases == {"compacting", "crediting", "saving", "invalidating"}

HandlerRecords ==
  [at : {"idle", "done", "known"} \cup ReadingPhases \cup TaughtPhases,
   kind : HandlerKinds \cup {"none"}, incident : Incidents \cup {Nothing},
   text : SUBSET Facts, got : {"no", "filling", "yes"}]

LearnTyped ==
  /\ pattern \in Seq(Rows) /\ runbook \in [RunbookIds -> RunbookRows]
  /\ flow \in [Incidents -> Flows] /\ thread \in [Handlers -> HandlerRecords]
  /\ stored \subseteq Facts /\ cached \in (SUBSET Facts) \cup {NotCached}
  /\ rejected \subseteq Incidents /\ told \subseteq Facts /\ alone \in BOOLEAN
  /\ \A i \in Incidents : flow[i].at = "replaying" => flow[i].tried \in DOMAIN pattern

(* Whoever judges an incident found it posted, which it then remains.      *)
Judges(t) ==
  /\ t.kind \in {"confirm", "reject"} => t.incident \in Incidents /\ flow[t.incident].at = "posted"
  /\ t.at = "appending" => t.kind \in {"confirm", "reject", "learn"}
  /\ t.at \in {"distilling"} \cup TaughtPhases => t.kind \in {"confirm", "reject"}

(* A replay has still to post, so that it cannot have been rejected.       *)
VerdictsInv ==
  /\ RejectedNotReplayable
  /\ \A i \in rejected : flow[i].at = "posted"
  /\ \A h \in Handlers : Judges(thread[h])

(* Of handlers that take turns, the one that is busy has read what is      *)
(* stored, nothing else is cached, and what it has appended is there.      *)
TextsInv ==
  /\ \A h \in Handlers : thread[h].got # "no" => thread[h].at \in ReadingPhases
  /\ alone =>
       /\ \A g, h \in Handlers : Busy(g) /\ Busy(h) => g = h
       /\ told \subseteq stored /\ cached \in {stored, NotCached}
       /\ \A h \in Handlers :
            /\ thread[h].got # "no" => thread[h].text = stored
            /\ thread[h].at \in TaughtPhases => h \in stored

LearnInv == LearnTyped /\ VerdictsInv /\ TextsInv

LEMMA RowChanges ==
  ASSUME NEW rows \in Seq(Rows), NEW p \in DOMAIN rows, NEW n \in Rows
  PROVE  /\ [rows EXCEPT ![p] = n] \in Seq(Rows)
         /\ DOMAIN [rows EXCEPT ![p] = n] = DOMAIN rows
         /\ [rows EXCEPT ![p] = n][p] = n
         /\ \A q \in DOMAIN rows : q # p => [rows EXCEPT ![p] = n][q] = rows[q]
<1>1. p \in 1 .. Len(rows)
  OBVIOUS
<1>2. [rows EXCEPT ![p] = n] \in Seq(Rows)
  BY <1>1, ExceptSeq
<1> QED
  BY <1>2

LEMMA SeenMeans ==
  ASSUME NEW row \in Rows, NEW i \in Incidents
  PROVE  P!Seen(row, i) \in Rows /\ P!Seen(row, i).last = i /\ P!Seen(row, i).status = row.status
<1>1. PICK hits \in Nat : hits = row.hits + 1
  BY DEF Rows
<1>2. PICK yes \in BOOLEAN : yes = TRUE
  OBVIOUS
<1>3. P!Seen(row, i) = [row EXCEPT !.hits = hits, !.last = i, !.fresh = yes]
  BY <1>1, <1>2 DEF P!Seen
<1> QED
  BY <1>3 DEF Rows

(* A row changes, and is not active with a rejected incident.              *)
LEMMA RowStep ==
  ASSUME LearnTyped, RejectedNotReplayable, NEW p \in DOMAIN pattern, NEW n \in Rows,
         pattern' = [pattern EXCEPT ![p] = n], rejected' \subseteq rejected,
         n.status = "active" => n.last \notin rejected'
  PROVE  /\ pattern' \in Seq(Rows) /\ DOMAIN pattern' = DOMAIN pattern
         /\ RejectedNotReplayable'
<1>1. /\ pattern' \in Seq(Rows) /\ DOMAIN pattern' = DOMAIN pattern /\ pattern'[p] = n
      /\ \A q \in DOMAIN pattern : q # p => pattern'[q] = pattern[q]
  BY RowChanges DEF LearnTyped
<1>2. ASSUME NEW q \in DOMAIN pattern', pattern'[q].status = "active"
      PROVE  pattern'[q].last \notin rejected'
  BY <1>1, <1>2 DEF RejectedNotReplayable, P!Active
<1> QED
  BY <1>1, <1>2 DEF RejectedNotReplayable, P!Active

-----------------------------------------------------------------------------
(* Investigations. *)

(* What an investigation does, to itself and to one row. *)
LEMMA FlowMoves ==
  ASSUME LearnInv, NEW i \in Incidents, NEW f \in Flows, flow' = [flow EXCEPT ![i] = f],
         flow[i].at # "posted", flowOnly,
         pattern' \in Seq(Rows), DOMAIN pattern' = DOMAIN pattern, RejectedNotReplayable',
         f.at = "replaying" => f.tried \in DOMAIN pattern
  PROVE  LearnInv'
<1>1. /\ flow' \in [Incidents -> Flows] /\ flow'[i] = f
      /\ \A j \in Incidents : j # i => flow'[j] = flow[j]
  BY DEF LearnInv, LearnTyped
<1>2. UNCHANGED <<runbook, mapped, stored, cached, thread, rejected, told, alone>>
  BY DEF flowOnly, runbookVars, textVars
<1>3. LearnTyped'
  BY <1>1, <1>2 DEF LearnInv, LearnTyped
<1>4. \A j \in Incidents : flow[j].at = "posted" => flow'[j].at = "posted"
  BY <1>1
<1>5. VerdictsInv'
  <2>1. \A j \in rejected' : flow'[j].at = "posted"
    BY <1>2, <1>4 DEF LearnInv, LearnTyped, VerdictsInv
  <2>2. ASSUME NEW h \in Handlers PROVE Judges(thread[h])'
    BY <1>2, <1>4 DEF LearnInv, VerdictsInv, Judges
  <2> QED
    BY <2>1, <2>2 DEF VerdictsInv
<1>6. TextsInv'
  BY <1>2 DEF LearnInv, TextsInv, Busy
<1> QED
  BY <1>3, <1>5, <1>6 DEF LearnInv

LEMMA FlowStep ==
  ASSUME LearnInv, NEW i \in Incidents, Recall(i) \/ FetchPatterns(i) \/ Replay(i)
  PROVE  LearnInv'
<1>1. /\ flow[i] \in Flows /\ pattern \in Seq(Rows) /\ RejectedNotReplayable
      /\ \A j \in rejected : flow[j].at = "posted"
  BY DEF LearnInv, LearnTyped, VerdictsInv
<1>2. flowOnly
  BY DEF Recall, FetchPatterns, Replay
<1>3. rejected' = rejected
  BY <1>2 DEF flowOnly
<1>4. UNCHANGED pattern => pattern' \in Seq(Rows) /\ DOMAIN pattern' = DOMAIN pattern /\ RejectedNotReplayable'
  BY <1>1, <1>3 DEF RejectedNotReplayable, P!Active
<1>5. ASSUME Investigated(i), flow[i].at # "posted",
             pattern' \in Seq(Rows), DOMAIN pattern' = DOMAIN pattern, RejectedNotReplayable'
      PROVE  LearnInv'
  <2>1. PICK by \in {"tools", "talk"} :
          flow' = [flow EXCEPT ![i] = [@ EXCEPT !.at = "posted", !.by = by]]
    BY <1>5 DEF Investigated
  <2>2. PICK f : f = [flow[i] EXCEPT !.at = "posted", !.by = by]
    OBVIOUS
  <2>3. f \in Flows /\ f.at = "posted"
    BY <1>1, <2>2 DEF Flows
  <2>4. flow' = [flow EXCEPT ![i] = f]
    BY <2>1, <2>2 DEF LearnInv, LearnTyped
  <2> QED
    BY <1>2, <1>5, <2>3, <2>4, FlowMoves
<1>6. CASE Recall(i)
  <2>1. PICK S \in R!Matches(AlertOf[i]) :
          flow' = [flow EXCEPT ![i] = [@ EXCEPT !.at = "recalled", !.books = S]]
    BY <1>6 DEF Recall
  <2>2. S \subseteq RunbookIds
    BY DEF R!Matches, R!Eligible
  <2>3. PICK f : f = [flow[i] EXCEPT !.at = "recalled", !.books = S]
    OBVIOUS
  <2>4. f \in Flows /\ f.at = "recalled"
    BY <1>1, <2>2, <2>3 DEF Flows
  <2>5. flow' = [flow EXCEPT ![i] = f]
    BY <2>1, <2>3 DEF LearnInv, LearnTyped
  <2>6. flow[i].at = "new" /\ UNCHANGED pattern
    BY <1>6 DEF Recall
  <2> QED
    BY <1>2, <1>4, <2>4, <2>5, <2>6, FlowMoves
<1>7. CASE FetchPatterns(i)
  <2>1. flow[i].at = "recalled" /\ UNCHANGED pattern
    BY <1>7 DEF FetchPatterns
  <2>2. CASE P!Candidates(AlertOf[i]) = {}
    BY <1>4, <1>5, <1>7, <2>1, <2>2 DEF FetchPatterns
  <2>3. CASE P!Candidates(AlertOf[i]) # {}
    <3>1. PICK p \in P!Best(AlertOf[i]) :
            flow' = [flow EXCEPT ![i] = [@ EXCEPT !.at = "replaying", !.tried = p]]
      BY <1>7, <2>3 DEF FetchPatterns
    <3>2. p \in DOMAIN pattern /\ p \in Nat
      BY <1>1 DEF P!Best, P!Candidates
    <3>3. PICK f : f = [flow[i] EXCEPT !.at = "replaying", !.tried = p]
      OBVIOUS
    <3>4. f \in Flows /\ f.tried = p
      BY <1>1, <3>2, <3>3 DEF Flows
    <3>5. flow' = [flow EXCEPT ![i] = f]
      BY <3>1, <3>3 DEF LearnInv, LearnTyped
    <3> QED
      BY <1>2, <1>4, <2>1, <3>2, <3>4, <3>5, FlowMoves
  <2> QED
    BY <2>2, <2>3
<1>8. CASE Replay(i)
  <2>1. flow[i].at = "replaying" /\ i \notin rejected
    BY <1>1, <1>8 DEF Replay
  <2>2. PICK p : p = flow[i].tried
    OBVIOUS
  <2>3. p \in DOMAIN pattern /\ pattern[p] \in Rows
    BY <1>1, <2>1, <2>2 DEF LearnInv, LearnTyped
  <2>4. CASE /\ P!MarkHit(p, i)
             /\ flow' = [flow EXCEPT ![i] = [@ EXCEPT !.at = "posted", !.by = "pattern"]]
    <3>1. PICK n : n = P!Seen(pattern[p], i)
      OBVIOUS
    <3>2. n \in Rows /\ n.last = i /\ pattern' = [pattern EXCEPT ![p] = n]
      BY <2>3, <2>4, <3>1, SeenMeans DEF P!MarkHit
    <3>3. pattern' \in Seq(Rows) /\ DOMAIN pattern' = DOMAIN pattern /\ RejectedNotReplayable'
      BY <1>1, <1>3, <2>1, <2>3, <3>2, RowStep DEF LearnInv
    <3>4. PICK f : f = [flow[i] EXCEPT !.at = "posted", !.by = "pattern"]
      OBVIOUS
    <3>5. f \in Flows /\ f.at = "posted"
      BY <1>1, <3>4 DEF Flows
    <3>6. flow' = [flow EXCEPT ![i] = f]
      BY <2>4, <3>4 DEF LearnInv, LearnTyped
    <3> QED
      BY <1>2, <2>1, <3>3, <3>5, <3>6, FlowMoves
  <2>5. CASE P!MarkMiss(p) /\ Investigated(i)
    <3>1. PICK misses \in Nat : misses = pattern[p].misses + 1
      BY <2>3 DEF Rows
    <3>2. PICK m : m = [pattern[p] EXCEPT !.misses = misses]
      OBVIOUS
    <3>3. m \in Rows /\ m.last = pattern[p].last /\ m.status = pattern[p].status
      BY <2>3, <3>2 DEF Rows
    <3>4. PICK n : n = IF m.misses > 2 * m.hits THEN [m EXCEPT !.status = "expired"] ELSE m
      OBVIOUS
    <3>5. n \in Rows /\ n.last = m.last /\ (n.status = "active" => m.status = "active")
      <4>1. CASE n = m
        BY <3>3, <4>1
      <4>2. CASE n = [m EXCEPT !.status = "expired"]
        BY <3>3, <4>2 DEF Rows
      <4> QED
        BY <3>4, <4>1, <4>2
    <3>6. pattern' = [pattern EXCEPT ![p] = n]
      BY <2>5, <3>1, <3>2, <3>4 DEF P!MarkMiss
    <3>7. n.status = "active" => n.last \notin rejected
      BY <1>1, <2>3, <3>3, <3>5 DEF RejectedNotReplayable, P!Active
    <3>8. pattern' \in Seq(Rows) /\ DOMAIN pattern' = DOMAIN pattern /\ RejectedNotReplayable'
      BY <1>1, <1>3, <2>3, <3>5, <3>6, <3>7, RowStep DEF LearnInv
    <3> QED
      BY <1>5, <2>1, <2>5, <3>8
  <2>6. CASE Investigated(i) /\ UNCHANGED pattern
    BY <1>4, <1>5, <2>1, <2>6
  <2> QED
    BY <1>8, <2>2, <2>4, <2>5, <2>6 DEF Replay
<1> QED
  BY <1>6, <1>7, <1>8

LEMMA MonthStep == ASSUME LearnInv, MonthPasses PROVE LearnInv'
<1>1. PICK p \in DOMAIN pattern : P!Age(p)
  BY DEF MonthPasses
<1>2. pattern[p] \in Rows /\ pattern \in Seq(Rows)
  BY DEF LearnInv, LearnTyped
<1>3. PICK no \in BOOLEAN : no = FALSE
  OBVIOUS
<1>4. PICK n : n = [pattern[p] EXCEPT !.fresh = no]
  OBVIOUS
<1>5. n \in Rows /\ n.last = pattern[p].last /\ n.status = pattern[p].status
  BY <1>2, <1>4 DEF Rows
<1>6. pattern' = [pattern EXCEPT ![p] = n]
  BY <1>1, <1>3, <1>4 DEF P!Age
<1>7. UNCHANGED <<flow, runbook, mapped, stored, cached, thread, rejected, told, alone>>
  BY DEF MonthPasses, flowOnly, runbookVars, textVars
<1>8. pattern' \in Seq(Rows) /\ DOMAIN pattern' = DOMAIN pattern /\ RejectedNotReplayable'
  BY <1>2, <1>5, <1>6, <1>7, RowStep DEF LearnInv, VerdictsInv, RejectedNotReplayable, P!Active
<1>9. LearnTyped'
  BY <1>7, <1>8 DEF LearnInv, LearnTyped
<1>10. VerdictsInv'
  BY <1>7, <1>8 DEF LearnInv, VerdictsInv, Judges
<1>11. TextsInv'
  BY <1>7 DEF LearnInv, TextsInv, Busy
<1> QED
  BY <1>9, <1>10, <1>11 DEF LearnInv

-----------------------------------------------------------------------------
(* Handlers. *)

(* What a handler does, to itself, to the texts, and to patterns. *)
LEMMA ThreadMoves ==
  ASSUME LearnInv, NEW h \in Handlers, NEW n \in HandlerRecords, Busy(h),
         thread' = [thread EXCEPT ![h] = n], alone' = alone, handlerOnly,
         Judges(n), n.got # "no" => n.at \in ReadingPhases,
         pattern' \in Seq(Rows), DOMAIN pattern \subseteq DOMAIN pattern', RejectedNotReplayable',
         \A i \in rejected' : i \in Incidents /\ flow[i].at = "posted",
         stored' \subseteq Facts, cached' \in (SUBSET Facts) \cup {NotCached}, told' \subseteq Facts,
         alone => /\ told' \subseteq stored' /\ cached' \in {stored', NotCached}
                  /\ n.got # "no" => n.text = stored'
                  /\ n.at \in TaughtPhases => h \in stored'
  PROVE  LearnInv'
<1>1. /\ thread' \in [Handlers -> HandlerRecords] /\ thread'[h] = n
      /\ \A g \in Handlers : g # h => thread'[g] = thread[g]
  BY DEF LearnInv, LearnTyped
<1>2. UNCHANGED <<flow, runbook>>
  BY DEF handlerOnly, runbookVars
<1>3. LearnTyped'
  BY <1>1, <1>2 DEF LearnInv, LearnTyped
<1>4. VerdictsInv'
  <2>1. ASSUME NEW g \in Handlers PROVE Judges(thread[g])'
    <3>1. CASE g = h
      BY <1>1, <1>2, <3>1 DEF Judges
    <3>2. CASE g # h
      BY <1>1, <1>2, <3>2 DEF LearnInv, VerdictsInv, Judges
    <3> QED
      BY <3>1, <3>2
  <2> QED
    BY <1>2, <2>1 DEF VerdictsInv
<1>5. TextsInv'
  <2>1. \A g \in Handlers : thread'[g].got # "no" => thread'[g].at \in ReadingPhases
    BY <1>1 DEF LearnInv, TextsInv
  <2>2. ASSUME alone'
        PROVE  /\ \A g \in Handlers : g # h => ~Busy(g)' /\ thread'[g].got = "no"
               /\ \A g \in Handlers : g # h => thread'[g].at \notin TaughtPhases
    <3> SUFFICES ASSUME NEW g \in Handlers, g # h
                 PROVE  ~Busy(g)' /\ thread'[g].got = "no" /\ thread'[g].at \notin TaughtPhases
      OBVIOUS
    <3>1. ~Busy(g) /\ thread'[g] = thread[g]
      BY <1>1, <2>2 DEF LearnInv, TextsInv
    <3> QED
      BY <3>1 DEF LearnInv, TextsInv, Busy, ReadingPhases, TaughtPhases
  <2>3. ASSUME alone'
        PROVE  /\ \A g, f \in Handlers : Busy(g)' /\ Busy(f)' => g = f
               /\ \A g \in Handlers :
                    /\ thread'[g].got # "no" => thread'[g].text = stored'
                    /\ thread'[g].at \in TaughtPhases => g \in stored'
    BY <1>1, <2>2, <2>3
  <2> QED
    BY <2>1, <2>3 DEF TextsInv, Busy
<1> QED
  BY <1>3, <1>4, <1>5 DEF LearnInv

LEMMA GoesTo ==
  ASSUME LearnInv, NEW h \in Handlers, NEW phase, Goto(h, phase),
         phase \in {"done", "known"} \cup ReadingPhases \cup TaughtPhases
  PROVE  \E n \in HandlerRecords :
           /\ thread' = [thread EXCEPT ![h] = n] /\ n.at = phase /\ n.got = "no"
           /\ n.kind = thread[h].kind /\ n.incident = thread[h].incident
<1>1. thread[h] \in HandlerRecords
  BY DEF LearnInv, LearnTyped
<1>2. PICK nothing \in SUBSET Facts : nothing = {}
  OBVIOUS
<1>3. PICK n : n = [thread[h] EXCEPT !.at = phase, !.got = "no", !.text = nothing]
  OBVIOUS
<1>4. /\ n \in HandlerRecords /\ n.at = phase /\ n.got = "no"
      /\ n.kind = thread[h].kind /\ n.incident = thread[h].incident
  BY <1>1, <1>3 DEF HandlerRecords
<1>5. thread' = [thread EXCEPT ![h] = n]
  BY <1>2, <1>3 DEF Goto, LearnInv, LearnTyped
<1> QED
  BY <1>4, <1>5

(* A handler that moves on and leaves the patterns alone. *)
LEMMA HandlerGoesOn ==
  ASSUME LearnInv, NEW h \in Handlers, NEW phase, Goto(h, phase), Busy(h), alone' = alone,
         handlerOnly, UNCHANGED <<pattern, rejected>>,
         phase \in {"done", "known"} \cup ReadingPhases \cup TaughtPhases,
         phase = "appending" => thread[h].kind \in {"confirm", "reject", "learn"},
         phase \in {"distilling"} \cup TaughtPhases => thread[h].kind \in {"confirm", "reject"},
         stored' \subseteq Facts, cached' \in (SUBSET Facts) \cup {NotCached}, told' \subseteq Facts,
         alone => /\ told' \subseteq stored' /\ cached' \in {stored', NotCached}
                  /\ phase \in TaughtPhases => h \in stored'
  PROVE  LearnInv'
<1>1. PICK n \in HandlerRecords :
        /\ thread' = [thread EXCEPT ![h] = n] /\ n.at = phase /\ n.got = "no"
        /\ n.kind = thread[h].kind /\ n.incident = thread[h].incident
  BY GoesTo
<1>2. Judges(n)
  BY <1>1 DEF LearnInv, VerdictsInv, Judges
<1>3. pattern' \in Seq(Rows) /\ DOMAIN pattern \subseteq DOMAIN pattern' /\ RejectedNotReplayable'
  BY DEF LearnInv, LearnTyped, VerdictsInv, RejectedNotReplayable, P!Active
<1>4. \A i \in rejected' : i \in Incidents /\ flow[i].at = "posted"
  BY DEF LearnInv, LearnTyped, VerdictsInv
<1> QED
  BY <1>1, <1>2, <1>3, <1>4, ThreadMoves

LEMMA HandlerStarts ==
  ASSUME LearnInv, NEW h \in Handlers, Start(h) PROVE LearnInv'
<1>1. thread[h] \in HandlerRecords
  BY DEF LearnInv, LearnTyped
<1>2. PICK i \in Incidents \cup {Nothing}, kind \in MayDo[h] :
        /\ IF kind \in {"confirm", "reject"} THEN CanBeJudged(i) ELSE i = Nothing
        /\ thread' = [thread EXCEPT ![h] = [@ EXCEPT !.at = FirstPhase[kind], !.kind = kind,
                                                     !.incident = i]]
  BY DEF Start
<1>3. PICK first : first = FirstPhase[kind]
  OBVIOUS
<1>4. /\ kind \in HandlerKinds /\ first \in {"distilling", "appending", "forgetting", "recalling"}
      /\ first = "distilling" => kind \in {"confirm", "reject"}
      /\ first = "appending" => kind = "learn"
  BY <1>2, <1>3, FeedbackAssumption DEF FirstPhase, HandlerKinds
<1>5. PICK n : n = [thread[h] EXCEPT !.at = first, !.kind = kind, !.incident = i]
  OBVIOUS
<1>6. n \in HandlerRecords /\ n.at = first /\ n.kind = kind /\ n.incident = i /\ n.got = thread[h].got
  BY <1>1, <1>4, <1>5 DEF HandlerRecords, ReadingPhases
<1>7. /\ thread' \in [Handlers -> HandlerRecords] /\ thread'[h] = n
      /\ \A g \in Handlers : g # h => thread'[g] = thread[g]
  BY <1>2, <1>3, <1>5, <1>6 DEF LearnInv, LearnTyped
<1>8. UNCHANGED <<pattern, stored, cached, rejected, told, flow, runbook>>
  BY DEF Start, textVars, handlerOnly, runbookVars
<1>9. alone' \in BOOLEAN /\ (alone' => alone /\ \A g \in Handlers : ~Busy(g))
  BY DEF Start
<1>10. LearnTyped'
  BY <1>7, <1>8, <1>9 DEF LearnInv, LearnTyped
<1>11. VerdictsInv'
  <2>1. ASSUME NEW g \in Handlers PROVE Judges(thread[g])'
    <3>1. CASE g = h
      BY <1>2, <1>4, <1>6, <1>7, <1>8, <3>1 DEF Judges, CanBeJudged, TaughtPhases
    <3>2. CASE g # h
      BY <1>7, <1>8, <3>2 DEF LearnInv, VerdictsInv, Judges
    <3> QED
      BY <3>1, <3>2
  <2>2. RejectedNotReplayable'
    BY <1>8 DEF LearnInv, VerdictsInv, RejectedNotReplayable, P!Active
  <2> QED
    BY <1>8, <2>1, <2>2 DEF LearnInv, VerdictsInv
<1>12. thread[h].got = "no"
  BY <1>1 DEF Start, LearnInv, TextsInv, ReadingPhases, HandlerRecords
<1>13. TextsInv'
  <2>1. \A g \in Handlers : thread'[g].got # "no" => thread'[g].at \in ReadingPhases
    BY <1>6, <1>7, <1>12 DEF LearnInv, TextsInv
  <2>2. ASSUME alone', NEW g \in Handlers, g # h
        PROVE  ~Busy(g)' /\ thread'[g].got = "no" /\ thread'[g].at \notin TaughtPhases
    <3>1. ~Busy(g) /\ thread'[g] = thread[g]
      BY <1>7, <1>9, <2>2
    <3> QED
      BY <3>1 DEF LearnInv, TextsInv, Busy, ReadingPhases, TaughtPhases
  <2>3. ASSUME alone'
        PROVE  /\ \A g, f \in Handlers : Busy(g)' /\ Busy(f)' => g = f
               /\ told' \subseteq stored' /\ cached' \in {stored', NotCached}
               /\ \A g \in Handlers :
                    /\ thread'[g].got # "no" => thread'[g].text = stored'
                    /\ thread'[g].at \in TaughtPhases => g \in stored'
    <3>1. told' \subseteq stored' /\ cached' \in {stored', NotCached}
      BY <1>8, <1>9, <2>3 DEF LearnInv, TextsInv
    <3>2. thread'[h].got = "no" /\ thread'[h].at \notin TaughtPhases
      BY <1>4, <1>6, <1>7, <1>12 DEF TaughtPhases
    <3> QED
      BY <2>2, <2>3, <3>1, <3>2
  <2> QED
    BY <2>1, <2>3 DEF TextsInv, Busy
<1> QED
  BY <1>10, <1>11, <1>13 DEF LearnInv

LEMMA ReadStep ==
  ASSUME LearnInv, NEW h \in Handlers, Get(h) \/ FillCache(h) PROVE LearnInv'
<1>1. /\ thread[h] \in HandlerRecords /\ Judges(thread[h])
      /\ thread[h].got # "no" => thread[h].at \in ReadingPhases
  BY DEF LearnInv, LearnTyped, VerdictsInv, TextsInv
<1>2. /\ thread[h].at \in ReadingPhases /\ Busy(h)
      /\ UNCHANGED <<alone, pattern, rejected, told, stored>> /\ handlerOnly
  BY <1>1 DEF Get, FillCache, L!Fill, textVars, Busy, ReadingPhases
<1>3. /\ pattern' \in Seq(Rows) /\ DOMAIN pattern \subseteq DOMAIN pattern' /\ RejectedNotReplayable'
      /\ \A i \in rejected' : i \in Incidents /\ flow[i].at = "posted"
  BY <1>2 DEF LearnInv, LearnTyped, VerdictsInv, RejectedNotReplayable, P!Active
<1>4. PICK text, got, n :
        /\ text \in SUBSET Facts /\ got \in {"filling", "yes"}
        /\ n = [thread[h] EXCEPT !.text = text, !.got = got]
        /\ thread' = [thread EXCEPT ![h] = n]
        /\ cached' \in {cached, text}
        /\ alone => text = stored
  <2>1. CASE Get(h)
    <3>1. PICK text : text = L!Read
      OBVIOUS
    <3>2. PICK got : got = IF L!Hit THEN "yes" ELSE "filling"
      OBVIOUS
    <3>3. text \in SUBSET Facts /\ (alone => text = stored)
      BY <3>1 DEF L!Read, L!Hit, LearnInv, LearnTyped, TextsInv
    <3>4. PICK n : n = [thread[h] EXCEPT !.text = text, !.got = got]
      OBVIOUS
    <3>5. thread' = [thread EXCEPT ![h] = n]
      BY <2>1, <3>1, <3>2, <3>4 DEF Get, LearnInv, LearnTyped
    <3>6. cached' = cached
      BY <2>1 DEF Get, textVars
    <3> QED
      BY <3>2, <3>3, <3>4, <3>5, <3>6
  <2>2. CASE FillCache(h)
    <3>1. PICK text : text = thread[h].text
      OBVIOUS
    <3>2. thread[h].got = "filling" /\ cached' = text
      BY <2>2, <3>1 DEF FillCache, L!Fill
    <3>3. text \in SUBSET Facts /\ (alone => text = stored)
      BY <1>1, <3>1, <3>2 DEF HandlerRecords, LearnInv, TextsInv
    <3>4. PICK n : n = [thread[h] EXCEPT !.text = text, !.got = "yes"]
      OBVIOUS
    <3>5. [thread[h] EXCEPT !.text = text, !.got = "yes"] = [thread[h] EXCEPT !.got = "yes"]
      BY <1>1, <3>1 DEF HandlerRecords
    <3>6. thread' = [thread EXCEPT ![h] = n]
      BY <2>2, <3>4, <3>5 DEF FillCache, LearnInv, LearnTyped
    <3> QED
      BY <3>2, <3>3, <3>4, <3>6
  <2> QED
    BY <2>1, <2>2
<1>5. /\ n \in HandlerRecords /\ n.text = text /\ n.at = thread[h].at
      /\ n.kind = thread[h].kind /\ n.incident = thread[h].incident
  BY <1>1, <1>4 DEF HandlerRecords
<1>6. Judges(n)
  BY <1>1, <1>5 DEF Judges
<1>7. /\ stored' \subseteq Facts /\ cached' \in (SUBSET Facts) \cup {NotCached} /\ told' \subseteq Facts
      /\ alone => told' \subseteq stored' /\ cached' \in {stored', NotCached} /\ n.text = stored'
  <2>1. /\ stored \subseteq Facts /\ cached \in (SUBSET Facts) \cup {NotCached} /\ told \subseteq Facts
        /\ alone => told \subseteq stored /\ cached \in {stored, NotCached}
    BY DEF LearnInv, LearnTyped, TextsInv
  <2>2. stored' = stored /\ told' = told /\ (cached' = cached \/ cached' = text)
    BY <1>2, <1>4
  <2> QED
    BY <1>4, <1>5, <2>1, <2>2
<1>8. alone /\ n.at \in TaughtPhases => h \in stored'
  BY <1>2, <1>5 DEF LearnInv, TextsInv
<1> QED
  BY <1>2, <1>3, <1>4, <1>5, <1>6, <1>7, <1>8, ThreadMoves

(* Distill, AppendFact, Compact, Forget, UseFacts and Credit. *)
LEMMA TextStep ==
  ASSUME LearnInv, NEW h \in Handlers,
         Distill(h) \/ AppendFact(h) \/ Compact(h) \/ Forget(h) \/ UseFacts(h) \/ Credit(h)
  PROVE  LearnInv'
<1>1. /\ thread[h] \in HandlerRecords /\ Judges(thread[h])
      /\ stored \subseteq Facts /\ cached \in (SUBSET Facts) \cup {NotCached} /\ told \subseteq Facts
  BY DEF LearnInv, LearnTyped, VerdictsInv
<1>2. /\ alone' = alone /\ handlerOnly /\ UNCHANGED <<pattern, rejected>>
      /\ thread[h].at \in ReadingPhases \cup TaughtPhases
  BY DEF Distill, AppendFact, Compact, Forget, UseFacts, Credit, Has, textVars,
         ReadingPhases, TaughtPhases
<1>3. Busy(h)
  BY <1>2 DEF Busy, ReadingPhases, TaughtPhases
<1>4. PICK text \in SUBSET Facts : text = thread[h].text
  BY <1>1 DEF HandlerRecords
<1>5. ASSUME alone
      PROVE  /\ told \subseteq stored /\ cached \in {stored, NotCached}
             /\ thread[h].got # "no" => text = stored
             /\ thread[h].at \in TaughtPhases => h \in stored
  BY <1>4, <1>5 DEF LearnInv, TextsInv
<1>6. CASE Distill(h)
  <2>1. UNCHANGED <<stored, cached, told>> /\ thread[h].at = "distilling"
    BY <1>6 DEF Distill, textVars, Has
  <2>2. thread[h].kind \in {"confirm", "reject"}
    BY <1>1, <2>1 DEF Judges
  <2>3. PICK phase \in {"appending", "known"} : Goto(h, phase)
    BY <1>6 DEF Distill
  <2>4. /\ phase \in {"done", "known"} \cup ReadingPhases \cup TaughtPhases
        /\ phase \notin {"distilling"} \cup TaughtPhases
    BY DEF ReadingPhases, TaughtPhases
  <2> QED
    BY <1>1, <1>2, <1>3, <1>5, <2>1, <2>2, <2>3, <2>4, HandlerGoesOn
<1>7. CASE AppendFact(h)
  <2>1. /\ thread[h].at = "appending" /\ thread[h].got = "yes"
        /\ stored' = text \cup {h} /\ cached' = NotCached
    BY <1>4, <1>7 DEF AppendFact, L!Set, Has
  <2>2. /\ stored' \subseteq Facts /\ cached' \in (SUBSET Facts) \cup {NotCached} /\ h \in Facts
        /\ h \in stored' /\ (alone => stored \subseteq stored')
    BY <1>5, <2>1 DEF Facts
  <2>3. CASE thread[h].kind = "learn"
    <3>1. Goto(h, "done") /\ told' = told \cup {h}
      BY <1>7, <2>3 DEF AppendFact
    <3> QED
      BY <1>1, <1>2, <1>3, <1>5, <2>1, <2>2, <3>1, HandlerGoesOn DEF TaughtPhases
  <2>4. CASE thread[h].kind # "learn"
    <3>1. Goto(h, "compacting") /\ told' = told /\ thread[h].kind \in {"confirm", "reject"}
      BY <1>1, <1>7, <2>1, <2>4 DEF AppendFact, Judges
    <3> QED
      BY <1>1, <1>2, <1>3, <1>5, <2>1, <2>2, <3>1, HandlerGoesOn DEF TaughtPhases
  <2> QED
    BY <2>3, <2>4
<1>8. CASE Compact(h)
  <2>1. /\ thread[h].at = "compacting" /\ thread[h].got = "yes" /\ told' = told
        /\ Goto(h, AfterLearning(h))
        /\ (stored' = text /\ cached' = NotCached) \/ UNCHANGED <<stored, cached>>
    BY <1>4, <1>8 DEF Compact, L!Set, Has, textVars
  <2>2. PICK phase \in {"crediting", "invalidating"} : Goto(h, phase)
    BY <2>1 DEF AfterLearning
  <2>3. thread[h].kind \in {"confirm", "reject"} /\ thread[h].at \in TaughtPhases
    BY <1>1, <2>1 DEF Judges, TaughtPhases
  <2>4. /\ stored' \subseteq Facts /\ cached' \in (SUBSET Facts) \cup {NotCached} /\ told' \subseteq Facts
        /\ alone => told' \subseteq stored' /\ cached' \in {stored', NotCached} /\ h \in stored'
    BY <1>1, <1>4, <1>5, <2>1, <2>3
  <2>5. phase \in TaughtPhases /\ phase # "appending"
    BY DEF TaughtPhases
  <2> QED
    BY <1>2, <1>3, <2>2, <2>3, <2>4, <2>5, HandlerGoesOn
<1>9. CASE Forget(h)
  <2>1. PICK f \in Facts :
          /\ told' = told \ {f}
          /\ IF f \in text THEN stored' = text \ {f} /\ cached' = NotCached
             ELSE UNCHANGED <<stored, cached>>
    BY <1>4, <1>9 DEF Forget, L!Set, textVars
  <2>2. Goto(h, "done") /\ thread[h].got = "yes"
    BY <1>9 DEF Forget, Has
  <2>3. /\ stored' \subseteq Facts /\ cached' \in (SUBSET Facts) \cup {NotCached} /\ told' \subseteq Facts
        /\ alone => told' \subseteq stored' /\ cached' \in {stored', NotCached}
    BY <1>1, <1>4, <1>5, <2>1, <2>2
  <2> QED
    BY <1>2, <1>3, <2>2, <2>3, HandlerGoesOn DEF TaughtPhases
<1>10. CASE UseFacts(h)
  <2>1. Goto(h, "done") /\ UNCHANGED <<stored, cached, told>>
    BY <1>10 DEF UseFacts, textVars
  <2> QED
    BY <1>1, <1>2, <1>3, <1>5, <2>1, HandlerGoesOn DEF TaughtPhases
<1>11. CASE Credit(h)
  <2>1. Goto(h, "saving") /\ UNCHANGED <<stored, cached, told>> /\ thread[h].at \in TaughtPhases
    BY <1>11 DEF Credit, textVars, TaughtPhases
  <2>2. thread[h].kind \in {"confirm", "reject"}
    BY <1>1, <2>1 DEF Judges
  <2>3. "saving" \in TaughtPhases
    BY DEF TaughtPhases
  <2> QED
    BY <1>1, <1>2, <1>3, <1>5, <2>1, <2>2, <2>3, HandlerGoesOn
<1> QED
  BY <1>6, <1>7, <1>8, <1>9, <1>10, <1>11

(* SaveLearned and InvalidateLearned, by what they do to the patterns. *)
LEMMA LearnedStep ==
  ASSUME LearnInv, NEW h \in Handlers, SaveLearned(h) \/ InvalidateLearned(h),
         pattern' \in Seq(Rows), DOMAIN pattern \subseteq DOMAIN pattern', RejectedNotReplayable',
         rejected' \subseteq rejected \cup {thread[h].incident}
  PROVE  LearnInv'
<1>1. /\ Goto(h, "done") /\ told' = told \cup {h} /\ alone' = alone /\ handlerOnly
      /\ UNCHANGED <<stored, cached>> /\ thread[h].at \in TaughtPhases
  BY DEF SaveLearned, InvalidateLearned, textVars, TaughtPhases
<1>2. Judges(thread[h]) /\ Busy(h)
  BY <1>1 DEF LearnInv, VerdictsInv, Busy, TaughtPhases
<1>3. thread[h].incident \in Incidents /\ flow[thread[h].incident].at = "posted"
  BY <1>1, <1>2 DEF Judges
<1>4. \A i \in rejected' : i \in Incidents /\ flow[i].at = "posted"
  BY <1>3 DEF LearnInv, LearnTyped, VerdictsInv
<1>5. PICK n \in HandlerRecords :
        /\ thread' = [thread EXCEPT ![h] = n] /\ n.at = "done" /\ n.got = "no"
        /\ n.kind = thread[h].kind /\ n.incident = thread[h].incident
  BY <1>1, GoesTo
<1>6. Judges(n)
  BY <1>2, <1>5 DEF Judges, TaughtPhases
<1>7. /\ stored' \subseteq Facts /\ cached' \in (SUBSET Facts) \cup {NotCached} /\ told' \subseteq Facts
      /\ alone => told' \subseteq stored' /\ cached' \in {stored', NotCached}
  BY <1>1 DEF LearnInv, LearnTyped, TextsInv, Facts
<1> QED
  BY <1>1, <1>2, <1>4, <1>5, <1>6, <1>7, ThreadMoves DEF TaughtPhases

LEMMA SaveStep ==
  ASSUME LearnInv, NEW h \in Handlers, SaveLearned(h) PROVE LearnInv'
<1>1. Judges(thread[h]) /\ thread[h].at = "saving" /\ pattern \in Seq(Rows) /\ RejectedNotReplayable
  BY DEF LearnInv, LearnTyped, VerdictsInv, SaveLearned
<1>2. PICK i \in Incidents : i = thread[h].incident
  BY <1>1 DEF Judges, TaughtPhases
<1>3. AlertOf[i] \in AlertNames
  BY <1>2, FeedbackAssumption
<1>4. CASE UNCHANGED <<pattern, rejected>>
  BY <1>1, <1>4, LearnedStep DEF RejectedNotReplayable, P!Active
<1>5. ASSUME NEW x \in P!Extractions, P!SavePattern(AlertOf[i], x[1], x[2], i), rejected' = rejected \ {i}
      PROVE  LearnInv'
  <2>1. x[1] \in CauseTypes /\ x[2] \in Keywords
    BY DEF P!Extractions
  <2>2. PICK a \in AlertNames, t \in CauseTypes, k \in Keywords : a = AlertOf[i] /\ t = x[1] /\ k = x[2]
    BY <1>3, <2>1
  <2>3. P!SavePattern(a, t, k, i)
    BY <1>5, <2>2
  <2>4. CASE P!Known(a, t) = {}
    <3>1. PICK n : n = P!NewRow(a, t, k, i)
      OBVIOUS
    <3>2. n \in Rows /\ n.last = i
      BY <3>1 DEF P!NewRow, Rows
    <3>3. pattern' = Append(pattern, n)
      BY <2>3, <2>4, <3>1 DEF P!SavePattern
    <3>4. /\ pattern' \in Seq(Rows) /\ DOMAIN pattern \subseteq DOMAIN pattern'
          /\ \A p \in DOMAIN pattern' : (p \in DOMAIN pattern /\ pattern'[p] = pattern[p]) \/ pattern'[p] = n
      BY <1>1, <3>2, <3>3
    <3>5. RejectedNotReplayable'
      BY <1>1, <1>5, <3>2, <3>4 DEF RejectedNotReplayable, P!Active
    <3> QED
      BY <1>5, <3>4, <3>5, LearnedStep
  <2>5. CASE P!Known(a, t) # {}
    <3>1. PICK p : p = CHOOSE q \in P!Known(a, t) : TRUE
      OBVIOUS
    <3>2. p \in P!Known(a, t)
      BY <2>5, <3>1
    <3>3. p \in DOMAIN pattern /\ pattern[p] \in Rows
      BY <1>1, <3>2 DEF P!Known
    <3>4. PICK s : s = P!Seen(pattern[p], i)
      OBVIOUS
    <3>5. s \in Rows /\ s.last = i
      BY <3>3, <3>4, SeenMeans
    <3>6. PICK n : n = [s EXCEPT !.keywords = k]
      OBVIOUS
    <3>7. n \in Rows /\ n.last = i
      BY <3>5, <3>6 DEF Rows
    <3>8. pattern' = [pattern EXCEPT ![p] = n]
      BY <2>3, <2>5, <3>1, <3>3, <3>4, <3>6 DEF P!SavePattern
    <3>9. pattern' \in Seq(Rows) /\ DOMAIN pattern' = DOMAIN pattern /\ RejectedNotReplayable'
      BY <1>1, <1>5, <3>3, <3>7, <3>8, RowStep DEF LearnInv
    <3> QED
      BY <1>5, <3>9, LearnedStep
  <2> QED
    BY <2>4, <2>5
<1> QED
  BY <1>2, <1>4, <1>5 DEF SaveLearned

LEMMA InvalidateStep ==
  ASSUME LearnInv, NEW h \in Handlers, InvalidateLearned(h) PROVE LearnInv'
<1>1. pattern \in Seq(Rows) /\ RejectedNotReplayable
  BY DEF LearnInv, LearnTyped, VerdictsInv
<1>2. CASE UNCHANGED <<pattern, rejected>>
  BY <1>1, <1>2, LearnedStep DEF RejectedNotReplayable, P!Active
<1>3. CASE P!Invalidate(thread[h].incident) /\ rejected' = rejected \cup {thread[h].incident}
  <2>1. PICK i : i = thread[h].incident
    OBVIOUS
  <2>2. pattern' = [p \in DOMAIN pattern |->
                      IF P!Active(p) /\ pattern[p].last = i
                      THEN [pattern[p] EXCEPT !.status = "wrong"] ELSE pattern[p]]
    BY <1>3, <2>1 DEF P!Invalidate
  <2>3. ASSUME NEW p \in DOMAIN pattern
        PROVE  /\ pattern'[p] \in Rows
               /\ pattern'[p].status = "active" =>
                    pattern[p].status = "active" /\ pattern'[p] = pattern[p] /\ pattern[p].last # i
    <3>1. pattern[p] \in Rows
      BY <1>1
    <3>2. CASE P!Active(p) /\ pattern[p].last = i
      <4>1. pattern'[p] = [pattern[p] EXCEPT !.status = "wrong"]
        BY <2>2, <3>2
      <4> QED
        BY <3>1, <4>1 DEF Rows
    <3>3. CASE ~(P!Active(p) /\ pattern[p].last = i)
      <4>1. pattern'[p] = pattern[p]
        BY <2>2, <3>3
      <4> QED
        BY <3>1, <3>3, <4>1 DEF P!Active
    <3> QED
      BY <3>2, <3>3
  <2>4. DOMAIN pattern' = DOMAIN pattern
    BY <2>2
  <2>5. pattern' \in Seq(Rows)
    <3>1. DOMAIN pattern = 1 .. Len(pattern) /\ Len(pattern) \in Nat
      BY <1>1
    <3>2. pattern' \in [1 .. Len(pattern) -> Rows]
      BY <2>2, <2>3, <3>1
    <3> QED
      BY <3>1, <3>2, SeqDef
  <2>6. RejectedNotReplayable'
    BY <1>1, <1>3, <2>1, <2>3, <2>4 DEF RejectedNotReplayable, P!Active
  <2> QED
    BY <1>3, <2>4, <2>5, <2>6, LearnedStep
<1> QED
  BY <1>2, <1>3 DEF InvalidateLearned

-----------------------------------------------------------------------------
(* The rest. *)

LEMMA ExpiresStep == ASSUME LearnInv, CopyExpires PROVE LearnInv'
<1>1. /\ UNCHANGED <<pattern, runbook, flow, stored, thread, rejected, told, alone>>
      /\ cached' = NotCached
  BY DEF CopyExpires, L!ExpireCopy, handlerOnly, runbookVars
<1> QED
  BY <1>1 DEF LearnInv, LearnTyped, VerdictsInv, RejectedNotReplayable, P!Active, Judges, TextsInv, Busy

(* The only status that the studio gives a demoted runbook is none. *)
LEMMA StudioStep ==
  ASSUME LearnInv, Console
  PROVE  LearnInv' /\ DemotionSticks
<1>1. UNCHANGED <<pattern, flow, stored, cached, thread, rejected, told, alone>>
  BY DEF Console, flowVars, textVars
<1>2. PICK r \in RunbookIds, a \in AlertNames :
        \/ R!SaveRunbook(r)
        \/ R!Exists(r) /\ R!DeleteRunbook(r)
        \/ R!Exists(r) /\ R!MapAlert(a, r)
        \/ runbook[r].hits < MaxCount /\ R!MarkRunbookHit(r, a)
        \/ runbook[r].misses < MaxCount /\ R!MarkRunbookMiss(r)
  BY DEF Console
<1>3. runbook[r] \in RunbookRows /\ runbook \in [RunbookIds -> RunbookRows]
  BY DEF LearnInv, LearnTyped
<1>4. \/ runbook' = runbook
      \/ \E n \in RunbookRows :
           /\ runbook' = [runbook EXCEPT ![r] = n]
           /\ runbook[r].status = "demoted" => n.status \in {"demoted", "absent"}
  <2>1. R!NoRunbook \in RunbookRows /\ R!NoRunbook.status = "absent"
    BY DEF R!NoRunbook, RunbookRows
  <2>2. CASE R!SaveRunbook(r)
    <3>1. PICK n : n = [R!NoRunbook EXCEPT !.status = "active"]
      OBVIOUS
    <3>2. n \in RunbookRows
      BY <2>1, <3>1 DEF RunbookRows
    <3>3. runbook' = runbook \/ (runbook' = [runbook EXCEPT ![r] = n] /\ runbook[r].status = "absent")
      BY <2>2, <3>1 DEF R!SaveRunbook, R!Exists
    <3> QED
      BY <3>2, <3>3
  <2>3. CASE R!DeleteRunbook(r)
    BY <2>1, <2>3 DEF R!DeleteRunbook
  <2>4. CASE R!MapAlert(a, r)
    BY <2>4 DEF R!MapAlert
  <2>5. CASE R!MarkRunbookHit(r, a)
    <3>1. PICK hits \in Nat : hits = runbook[r].hits + 1
      BY <1>3 DEF RunbookRows
    <3>2. PICK n : n = [runbook[r] EXCEPT !.hits = hits]
      OBVIOUS
    <3>3. n \in RunbookRows /\ n.status = runbook[r].status
      BY <1>3, <3>2 DEF RunbookRows
    <3>4. runbook' = runbook \/ runbook' = [runbook EXCEPT ![r] = n]
      BY <1>3, <2>5, <3>1, <3>2 DEF R!MarkRunbookHit
    <3> QED
      BY <3>3, <3>4
  <2>6. CASE R!MarkRunbookMiss(r)
    <3>1. PICK misses \in Nat : misses = runbook[r].misses + 1
      BY <1>3 DEF RunbookRows
    <3>2. PICK m : m = [runbook[r] EXCEPT !.misses = misses]
      OBVIOUS
    <3>3. m \in RunbookRows /\ m.status = runbook[r].status
      BY <1>3, <3>2 DEF RunbookRows
    <3>4. PICK n : n = IF R!Demotable(m) THEN [m EXCEPT !.status = "demoted"] ELSE m
      OBVIOUS
    <3>5. n \in RunbookRows /\ n.status \in {m.status, "demoted"}
      <4>1. CASE n = m
        BY <3>3, <4>1
      <4>2. CASE n = [m EXCEPT !.status = "demoted"]
        BY <3>3, <4>2 DEF RunbookRows
      <4> QED
        BY <3>4, <4>1, <4>2
    <3>6. runbook' = runbook \/ runbook' = [runbook EXCEPT ![r] = n]
      BY <2>6, <3>1, <3>2, <3>4 DEF R!MarkRunbookMiss
    <3> QED
      BY <3>3, <3>5, <3>6
  <2> QED
    BY <1>2, <2>2, <2>3, <2>4, <2>5, <2>6
<1>5. runbook' \in [RunbookIds -> RunbookRows] /\ DemotionSticks
  BY <1>3, <1>4 DEF DemotionSticks
<1>6. LearnInv'
  BY <1>1, <1>5 DEF LearnInv, LearnTyped, VerdictsInv, RejectedNotReplayable, P!Active, Judges, TextsInv, Busy
<1> QED
  BY <1>5, <1>6

LEMMA LearnStep ==
  ASSUME LearnInv, [FeedbackNext]_feedbackVars
  PROVE  LearnInv' /\ DemotionSticks
<1>1. CASE UNCHANGED feedbackVars
  <2>1. UNCHANGED <<pattern, runbook, flow, stored, cached, thread, rejected, told, alone>>
    BY <1>1 DEF feedbackVars, flowVars, runbookVars, textVars
  <2> QED
    BY <2>1 DEF LearnInv, LearnTyped, VerdictsInv, RejectedNotReplayable, P!Active, Judges,
                TextsInv, Busy, DemotionSticks
<1>2. CASE Console
  BY <1>2, StudioStep
<1>3. ASSUME NEW i \in Incidents, Recall(i) \/ FetchPatterns(i) \/ Replay(i)
      PROVE  LearnInv' /\ runbook' = runbook
  BY <1>3, FlowStep DEF Recall, FetchPatterns, Replay, flowOnly, runbookVars
<1>4. CASE MonthPasses
  BY <1>4, MonthStep DEF MonthPasses, flowOnly, runbookVars, DemotionSticks
<1>5. CASE CopyExpires
  BY <1>5, ExpiresStep DEF CopyExpires, handlerOnly, runbookVars, DemotionSticks
<1>6. ASSUME NEW h \in Handlers,
             \/ Start(h) \/ Get(h) \/ FillCache(h) \/ Distill(h) \/ AppendFact(h)
             \/ Compact(h) \/ Forget(h) \/ UseFacts(h) \/ Credit(h)
             \/ SaveLearned(h) \/ InvalidateLearned(h)
      PROVE  LearnInv' /\ runbook' = runbook
  <2>1. handlerOnly
    BY <1>6 DEF Start, Get, FillCache, Distill, AppendFact, Compact, Forget, UseFacts, Credit,
                SaveLearned, InvalidateLearned
  <2>2. LearnInv'
    BY <1>6, HandlerStarts, ReadStep, TextStep, SaveStep, InvalidateStep
  <2> QED
    BY <2>1, <2>2 DEF handlerOnly, runbookVars
<1> QED
  BY <1>1, <1>2, <1>3, <1>4, <1>5, <1>6 DEF FeedbackNext, DemotionSticks

LEMMA LearnInitially == FeedbackInit => LearnInv
<1> SUFFICES ASSUME FeedbackInit PROVE LearnInv
  OBVIOUS
<1>1. NotStarted \in Flows /\ NotStarted.at = "new"
  BY DEF NotStarted, Flows
<1>2. /\ Waiting \in HandlerRecords /\ Waiting.at = "idle" /\ Waiting.got = "no"
      /\ Waiting.kind = "none"
  BY DEF Waiting, HandlerRecords
<1>3. [R!NoRunbook EXCEPT !.status = "active"] \in RunbookRows
  BY DEF R!NoRunbook, RunbookRows
<1>4. pattern = <<>> /\ pattern \in Seq(Rows) /\ DOMAIN pattern = {}
  BY DEF FeedbackInit, P!PatternsInit
<1>5. /\ flow \in [Incidents -> Flows] /\ \A i \in Incidents : flow[i].at = "new"
      /\ thread \in [Handlers -> HandlerRecords]
      /\ \A h \in Handlers : thread[h].at = "idle" /\ thread[h].got = "no" /\ thread[h].kind = "none"
      /\ runbook \in [RunbookIds -> RunbookRows]
  BY <1>1, <1>2, <1>3 DEF FeedbackInit
<1>6. LearnTyped
  BY <1>4, <1>5 DEF FeedbackInit, LearnTyped, Facts
<1>7. VerdictsInv
  BY <1>4, <1>5 DEF FeedbackInit, VerdictsInv, RejectedNotReplayable, Judges, TaughtPhases
<1>8. TextsInv
  BY <1>5 DEF FeedbackInit, TextsInv, Busy, TaughtPhases
<1> QED
  BY <1>6, <1>7, <1>8 DEF LearnInv

(* What people said is kept: rejected patterns are not replayed, saved     *)
(* facts stay while handlers take turns, and demotions last.               *)
THEOREM LearningKept == FeedbackSpec => FeedbackKept
<1>1. LearnInv /\ [FeedbackNext]_feedbackVars => LearnInv'
  BY LearnStep
<1>2. LearnInv => RejectedNotReplayable /\ SavedFactsKept
  BY DEF LearnInv, VerdictsInv, TextsInv, SavedFactsKept
<1>3. LearnInv' => (RejectedNotReplayable /\ SavedFactsKept)'
  BY <1>2, PTL
<1>4. LearnInv /\ [FeedbackNext]_feedbackVars =>
        [(RejectedNotReplayable /\ SavedFactsKept)' /\ DemotionSticks]_feedbackVars
  BY <1>1, <1>3, LearnStep
<1> QED
  BY <1>1, <1>4, LearnInitially, PTL DEF FeedbackSpec, FeedbackKept
=============================================================================
