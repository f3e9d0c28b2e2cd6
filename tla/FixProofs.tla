----------------------------- MODULE FixProofs ------------------------------
(***************************************************************************)
(* Theorems about the coding agent: its drafts are scored commits, and no  *)
(* worktree is forgotten.  The calls of the agent's tools interleave, so   *)
(* one invariant (FixInv) says of each worktree whose it is, of each call  *)
(* what it holds, and of each branch what was committed on it.             *)
(***************************************************************************)
EXTENDS CodeFix, TLAPS

Proposed == {"measure", "mark", "find", "push", "create"}   (* the fix is committed *)

Handling ==
  {"send", "wait", "end", "close", "get", "checkpoint", "propose", "commit", "drop"}
    \cup Proposed

Trees == [commits : Seq(Nat), dirty : Nat, there : BOOLEAN]

SessionRecords ==
  [mode : {"none", "read", "edit"}, name : Seconds, started : Nat,
   alive : BOOLEAN, open : BOOLEAN]

CallRecords ==
  [pc : {"idle", "start", "serve"} \cup Handling, sid : Sessions \cup {"none"},
   mode : {"none", "read", "edit"}, name : Seconds, size : Nat,
   read : SUBSET Sessions, tests : TestVerdicts]

PrRecords == [name : Seconds, size : Nat, tests : TestVerdicts]

FixRows ==
  [status : {"running", "awaiting_fix_review", "done", "aborted"},
   sessions : SUBSET Sessions]

FixTyped ==
  /\ second \in Seconds
  /\ worktrees \in [Seconds -> Trees]
  /\ session \in [Sessions -> SessionRecords]
  /\ leftover \in [Seconds -> {"none", "restart", "failed"}]
  /\ toolCall \in [ToolCalls -> CallRecords]
  /\ heads \in [Seconds -> Seq(Nat)]
  /\ prs \subseteq PrRecords
  /\ fixRow \in FixRows

(* No other session or call has the worktree of a session that is opened,  *)
(* and nothing was committed on it.                                        *)
OpensAlone(c) ==
  /\ At(c, "serve") => toolCall[c].mode # "none"
  /\ \A n \in Seconds : Opening(c, n) =>
       /\ n \in branches /\ worktrees[n].commits = <<>>
       /\ \A s \in Sessions : Editing(s) => session[s].name # n
       /\ \A d \in ToolCalls : Opening(d, n) => d = c

(* A call on a session keeps its name, only edit sessions propose, and what *)
(* they propose was committed.                                             *)
Holds(c) ==
  toolCall[c].pc \in Handling =>
    /\ Sid(c) \in Sessions /\ session[Sid(c)].mode # "none"
    /\ toolCall[c].name = session[Sid(c)].name
    /\ toolCall[c].pc \in Proposing => Editing(Sid(c))
    /\ toolCall[c].pc \in Proposed /\ worktrees[toolCall[c].name].there =>
         worktrees[toolCall[c].name].commits # <<>>

OwnsTree(s) ==
  /\ session[s].mode = "none" => session[s] = NoSession
  /\ Editing(s) =>
       /\ session[s].name \in branches
       /\ \A t \in Sessions : Editing(t) /\ session[t].name = session[s].name => t = s

Accounted(n) ==
  worktrees[n].there =>
    \/ leftover[n] # "none"
    \/ \E s \in Sessions : Editing(s) /\ Known(s) /\ session[s].name = n
    \/ \E c \in ToolCalls : Opening(c, n)

(* Nothing of the branch has left the pod.                                 *)
Proposes(c, n) == toolCall[c].pc \in Proposed /\ toolCall[c].name = n

Untouched(n) ==
  /\ heads[n] = <<>>
  /\ \A pr \in prs : pr.name # n
  /\ \A c \in ToolCalls : ~Proposes(c, n)

(* The branch's one commit, while a call proposes it.                      *)
Follows(c, n) ==
  LET call == toolCall[c]
      tree == worktrees[n]
  IN /\ tree.there /\ call.pc = "measure" => Len(tree.commits) = 1
     /\ tree.there /\ call.pc \in Proposed \ {"measure"} => call.size = 0 \/ tree.commits = <<call.size>>
     /\ call.pc \in {"find", "push", "create"} =>
          Localized(call.size, EditLines * call.size) /\ call.tests # "failed"
     /\ call.pc = "create" => heads[n] = <<call.size>>

Scored(n) ==
  /\ n \notin branches => Untouched(n)
  /\ worktrees[n].there /\ worktrees[n].commits = <<>> => Untouched(n)
  /\ worktrees[n].there /\ worktrees[n].commits # <<>> =>
       \A s \in Sessions : Editing(s) /\ session[s].name = n /\ Usable(s) =>
         \E c \in ToolCalls : Sid(c) = s /\ toolCall[c].pc \in Proposed \cup {"drop"}
  /\ \A c, d \in ToolCalls : Proposes(c, n) /\ Proposes(d, n) => c = d
  /\ \A c \in ToolCalls : Proposes(c, n) => Follows(c, n)
  /\ \A pr \in prs : pr.name = n =>
       /\ \A c \in ToolCalls : ~Proposes(c, n)
       /\ heads[n] = <<pr.size>>
       /\ Localized(pr.size, EditLines * pr.size)
       /\ pr.tests # "failed"

FixInv ==
  /\ FixTyped
  /\ \A c \in ToolCalls : OpensAlone(c) /\ Holds(c)
  /\ \A s \in Sessions : OwnsTree(s)
  /\ \A n \in Seconds : Accounted(n)
  /\ \A n \in Seconds \ unseen : Scored(n)

-----------------------------------------------------------------------------
(* Steps that change nothing but a call, and calls that start and end.     *)

Still == UNCHANGED <<worktrees, branches, session, leftover, unseen, hubVars>>

(* Only this call moves. *)
CallMoves(c) ==
  /\ toolCall' \in [ToolCalls -> CallRecords]
  /\ \A d \in ToolCalls : d # c => toolCall'[d] = toolCall[d]

LEMMA Moving ==
  ASSUME FixTyped, NEW c \in ToolCalls,
         NEW pc \in {"idle", "start", "serve"} \cup Handling, Goto(c, pc)
  PROVE  CallMoves(c) /\ toolCall'[c] = [toolCall[c] EXCEPT !.pc = pc]
  BY DEF FixTyped, Goto, CallMoves, CallRecords

LEMMA Answering ==
  ASSUME FixInv, NEW c \in ToolCalls, Answered(c)
  PROVE  CallMoves(c) /\ toolCall'[c] = NoToolCall
<1>1. 0 \in Seconds
  BY SessionsAssumption DEF Seconds
<1>2. NoToolCall \in CallRecords
  BY <1>1 DEF NoToolCall, CallRecords, TestVerdicts
<1> QED
  BY <1>2 DEF FixInv, FixTyped, Answered, CallMoves

(* A call that opens no session and takes no new part in a proposal.       *)
Quietly(c) ==
  LET new == toolCall'[c]
      call == toolCall[c]
  IN /\ CallMoves(c)
     /\ call.pc # "serve" \/ call.mode # "edit"
     /\ new.pc = "serve" => new.mode = "read"
     /\ Holds(c)'
     /\ call.pc \in Proposed \cup {"drop"} =>
          new.pc \in Proposed \cup {"drop"} /\ new.sid = call.sid
     /\ new.pc \in Proposed => call.pc \in Proposed /\ new.name = call.name
     /\ \A n \in Seconds : Proposes(c, n)' /\ Follows(c, n) => Follows(c, n)'

LEMMA QuietStep ==
  ASSUME FixInv, FixTyped', Still, NEW c \in ToolCalls, Quietly(c)
  PROVE  FixInv'
<1> USE DEF Still, hubVars
<1>1. \A d \in ToolCalls, n \in Seconds : Opening(d, n)' <=> Opening(d, n)
  BY DEF Quietly, CallMoves, Opening, At
<1>2. \A d \in ToolCalls, n \in Seconds : Proposes(d, n)' => Proposes(d, n)
  BY DEF Quietly, CallMoves, Proposes
<1>3. \A d \in ToolCalls : OpensAlone(d)'
  BY <1>1 DEF FixInv, OpensAlone, Editing, Quietly, CallMoves, At
<1>4. \A d \in ToolCalls : Holds(d)'
  BY DEF FixInv, Quietly, CallMoves, Holds, Sid, Editing
<1>5. \A s \in Sessions : OwnsTree(s)'
  BY DEF FixInv, OwnsTree, Editing
<1>6. \A n \in Seconds : Accounted(n)'
  BY <1>1 DEF FixInv, Accounted, Editing, Known
<1>7. ASSUME NEW n \in Seconds, n \notin unseen
      PROVE  Scored(n)'
  <2>1. Scored(n)
    BY <1>7 DEF FixInv
  <2>2. Untouched(n) => Untouched(n)'
    BY <1>2, <1>7 DEF Untouched
  <2>3. ASSUME NEW s \in Sessions, Editing(s)', session'[s].name = n, Usable(s)',
               worktrees'[n].there, worktrees'[n].commits # <<>>
        PROVE  \E d \in ToolCalls : Sid(d)' = s /\ toolCall'[d].pc \in Proposed \cup {"drop"}
    BY <2>1, <2>3 DEF Scored, Quietly, CallMoves, Sid, Editing, Usable, Known
  <2>4. \A d, e \in ToolCalls : Proposes(d, n)' /\ Proposes(e, n)' => d = e
    BY <2>1, <1>2, <1>7 DEF Scored
  <2>5. ASSUME NEW d \in ToolCalls, Proposes(d, n)'
        PROVE  Follows(d, n)'
    <3>1. Follows(d, n)
      BY <2>1, <2>5, <1>2, <1>7 DEF Scored
    <3>2. CASE d = c
      BY <3>1, <3>2, <2>5, <1>7 DEF Quietly
    <3>3. CASE d # c
      BY <3>1, <3>3 DEF Quietly, CallMoves, Follows
    <3> QED
      BY <3>2, <3>3
  <2> QED
    BY <2>1, <2>2, <2>3, <2>4, <2>5, <1>2, <1>7 DEF Scored
<1> QED
  BY <1>3, <1>4, <1>5, <1>6, <1>7 DEF FixInv

LEMMA StillTyped ==
  ASSUME FixTyped, Still, toolCall' \in [ToolCalls -> CallRecords],
         second' \in Seconds, fixRow' \in FixRows
  PROVE  FixTyped'
  BY DEF FixTyped, Still, hubVars

(* A call that ends before it has proposed anything. *)
LEMMA EndingStep ==
  ASSUME FixInv, Still, NEW c \in ToolCalls, Answered(c),
         toolCall[c].pc \notin Proposed \cup {"serve", "drop"},
         second' = second, fixRow' \in FixRows
  PROVE  FixInv'
<1>1. CallMoves(c) /\ toolCall'[c] = NoToolCall
  BY Answering
<1>2. Quietly(c)
  BY <1>1 DEF Quietly, Holds, Proposes, NoToolCall, Handling, Proposed
<1>3. FixTyped'
  BY <1>1, StillTyped DEF FixInv, FixTyped, CallMoves
<1> QED
  BY <1>2, <1>3, QuietStep

(* A call on a session goes on, not yet or no longer with a commit. *)
LEMMA GoingStep ==
  ASSUME FixInv, Still, NEW c \in ToolCalls, NEW pc \in Handling \ Proposed, Goto(c, pc),
         toolCall[c].pc \in Handling,
         pc = "drop" \/ toolCall[c].pc \notin Proposed \cup {"drop"},
         pc \in Proposing => Editing(Sid(c)),
         second' = second, fixRow' = fixRow
  PROVE  FixInv'
<1>1. CallMoves(c) /\ toolCall'[c] = [toolCall[c] EXCEPT !.pc = pc]
  BY Moving DEF FixInv
<1>2. /\ toolCall'[c].pc = pc /\ toolCall'[c].sid = toolCall[c].sid
      /\ toolCall'[c].name = toolCall[c].name
  BY <1>1 DEF FixInv, FixTyped, CallRecords
<1>3. Holds(c)'
  BY <1>2 DEF FixInv, Holds, Sid, Editing, Still
<1>4. Quietly(c)
  BY <1>1, <1>2, <1>3 DEF Quietly, Proposes, Handling, Proposed
<1>5. FixTyped'
  BY <1>1, StillTyped DEF FixInv, FixTyped, CallMoves
<1> QED
  BY <1>4, <1>5, QuietStep

LEMMA SendStep ==
  ASSUME FixInv, NEW c \in ToolCalls, Send(c) \/ SendRefused(c) \/ GotReply(c)
  PROVE  FixInv'
<1> USE DEF At, sessionVars, hubVars, Still
<1>1. CASE Send(c)
  BY <1>1, GoingStep DEF Send, Message, Handling, Proposed, Proposing
<1>2. CASE SendRefused(c)
  BY <1>2, EndingStep DEF SendRefused, Fails, Proposed, FixInv, FixTyped
<1>3. CASE GotReply(c)
  BY <1>3, EndingStep DEF GotReply, Reply, Proposed, FixInv, FixTyped
<1> QED
  BY <1>1, <1>2, <1>3

LEMMA EndStep ==
  ASSUME FixInv, NEW c \in ToolCalls,
         End(c) \/ EndRefused(c) \/ GetSessions(c) \/ CheckpointSession(c)
  PROVE  FixInv'
<1> USE DEF At, sessionVars, hubVars, Still
<1>1. CASE End(c)
  BY <1>1, GoingStep DEF End, Handling, Proposed, Proposing
<1>2. CASE EndRefused(c)
  BY <1>2, EndingStep DEF EndRefused, Fails, Proposed, FixInv, FixTyped
<1>3. CASE GetSessions(c)
  <2>1. /\ CallMoves(c) /\ toolCall'[c].pc = "checkpoint"
        /\ toolCall'[c].sid = toolCall[c].sid /\ toolCall'[c].name = toolCall[c].name
    <3> DEFINE new == [toolCall[c] EXCEPT !.pc = "checkpoint", !.read = fixRow.sessions]
    <3>1. toolCall \in [ToolCalls -> CallRecords] /\ fixRow.sessions \subseteq Sessions
      BY DEF FixInv, FixTyped, FixRows
    <3>2. toolCall[c] \in CallRecords /\ "checkpoint" \in Handling
      BY <3>1 DEF Handling
    <3>3. /\ new \in CallRecords /\ new.pc = "checkpoint"
          /\ new.sid = toolCall[c].sid /\ new.name = toolCall[c].name
      BY <3>1, <3>2 DEF CallRecords
    <3>4. toolCall' = [toolCall EXCEPT ![c] = new]
      BY <1>3 DEF GetSessions
    <3> HIDE DEF new
    <3> QED
      BY <3>1, <3>3, <3>4 DEF CallMoves
  <2>2. Holds(c)'
    BY <1>3, <2>1 DEF GetSessions, FixInv, Holds, Sid, Editing, Handling, Proposing, Proposed
  <2>3. Quietly(c)
    BY <1>3, <2>1, <2>2 DEF GetSessions, Quietly, Proposes, Proposed
  <2>4. FixTyped'
    BY <1>3, <2>1, StillTyped DEF GetSessions, FixInv, FixTyped, CallMoves
  <2> QED
    BY <1>3, <2>3, <2>4, QuietStep DEF GetSessions
<1>4. CASE CheckpointSession(c)
  <2>1. fixRow' \in FixRows
    BY <1>4 DEF CheckpointSession, FixInv, FixTyped, FixRows, CallRecords, Holds, Handling, Sid
  <2> QED
    BY <1>4, <2>1, EndingStep DEF CheckpointSession, Proposed
<1> QED
  BY <1>1, <1>2, <1>3, <1>4

LEMMA Entering ==
  ASSUME FixTyped, NEW c \in ToolCalls, NEW new \in CallRecords,
         toolCall' = [toolCall EXCEPT ![c] = new]
  PROVE  CallMoves(c) /\ toolCall'[c] = new
  BY DEF FixTyped, CallMoves

LEMMA IssueStep ==
  ASSUME FixInv, NEW c \in ToolCalls, Issue(c)
  PROVE  FixInv'
<1>1. 0 \in Seconds
  BY SessionsAssumption DEF Seconds
<1>2. Still /\ second' = second /\ fixRow' = fixRow
  BY DEF Issue, Still, sessionVars
<1>3. CASE \E mode \in {"read", "edit"} :
             toolCall' = [toolCall EXCEPT ![c] = [NoToolCall EXCEPT !.pc = "start", !.mode = mode]]
  <2>1. PICK mode \in {"read", "edit"} :
          toolCall' = [toolCall EXCEPT ![c] = [NoToolCall EXCEPT !.pc = "start", !.mode = mode]]
    BY <1>3
  <2> DEFINE new == [NoToolCall EXCEPT !.pc = "start", !.mode = mode]
  <2>2. new \in CallRecords /\ new.pc = "start"
    BY <1>1 DEF NoToolCall, CallRecords, TestVerdicts
  <2>3. CallMoves(c) /\ toolCall'[c] = new
    BY <2>1, <2>2, Entering DEF FixInv
  <2> HIDE DEF new
  <2>4. Quietly(c)
    BY <2>2, <2>3 DEF Quietly, Holds, Proposes, Handling, Proposed, Issue, At
  <2>5. FixTyped'
    BY <1>2, <2>3, StillTyped DEF FixInv, FixTyped, CallMoves
  <2> QED
    BY <1>2, <2>4, <2>5, QuietStep
<1>4. CASE \E tool \in {"send", "end", "propose"}, s \in Handles :
             toolCall' = [toolCall EXCEPT ![c] =
               [NoToolCall EXCEPT !.pc = tool, !.sid = s, !.name = session[s].name]]
  <2>1. PICK tool \in {"send", "end", "propose"}, s \in Handles :
          toolCall' = [toolCall EXCEPT ![c] =
            [NoToolCall EXCEPT !.pc = tool, !.sid = s, !.name = session[s].name]]
    BY <1>4
  <2> DEFINE new == [NoToolCall EXCEPT !.pc = tool, !.sid = s, !.name = session[s].name]
  <2>2. s \in Sessions /\ session[s].mode # "none" /\ session[s].name \in Seconds
    BY DEF Handles, FixInv, FixTyped, OwnsTree, SessionRecords
  <2>3. /\ new \in CallRecords
        /\ new.pc = tool /\ new.sid = s /\ new.name = session[s].name
    BY <1>1, <2>2 DEF NoToolCall, CallRecords, Handling, TestVerdicts
  <2>4. CallMoves(c) /\ toolCall'[c] = new
    BY <2>1, <2>3, Entering DEF FixInv
  <2> HIDE DEF new
  <2>5. Holds(c)'
    BY <1>2, <2>2, <2>3, <2>4 DEF Holds, Sid, Still, Proposing, Proposed
  <2>6. Quietly(c)
    BY <2>3, <2>4, <2>5 DEF Quietly, Proposes, Proposed, Issue, At
  <2>7. FixTyped'
    BY <1>2, <2>4, StillTyped DEF FixInv, FixTyped, CallMoves
  <2> QED
    BY <1>2, <2>6, <2>7, QuietStep
<1> QED
  BY <1>3, <1>4 DEF Issue

LEMMA StartStep ==
  ASSUME FixInv, NEW c \in ToolCalls, WorktreeRefused(c) \/ ReadInPlace(c)
  PROVE  FixInv'
<1> USE DEF At, sessionVars, hubVars, Still
<1>1. CASE WorktreeRefused(c)
  BY <1>1, EndingStep DEF WorktreeRefused, Fails, Proposed, FixInv, FixTyped
<1>2. CASE ReadInPlace(c)
  <2>1. CallMoves(c) /\ toolCall'[c] = [toolCall[c] EXCEPT !.pc = "serve"]
    BY <1>2, Moving DEF ReadInPlace, FixInv
  <2>2. toolCall'[c].pc = "serve" /\ toolCall'[c].mode = "read"
    BY <1>2, <2>1 DEF ReadInPlace, FixInv, FixTyped, CallRecords
  <2>3. Quietly(c)
    BY <1>2, <2>1, <2>2 DEF ReadInPlace, Quietly, Holds, Proposes, Handling, Proposed
  <2>4. FixTyped'
    BY <1>2, <2>1, StillTyped DEF ReadInPlace, FixInv, FixTyped, CallMoves
  <2> QED
    BY <1>2, <2>3, <2>4, QuietStep DEF ReadInPlace
<1> QED
  BY <1>1, <1>2

(* The steps of a proposal that write nothing.                             *)
LEMMA ProposeStep ==
  ASSUME FixInv, NEW c \in ToolCalls,
         \/ Propose(c) \/ ProposeRefused(c) \/ NothingCommitted(c) \/ CommitRefused(c)
         \/ PushFails(c) \/ CreateFails(c)
  PROVE  FixInv'
<1> USE DEF At, sessionVars, hubVars, Still
<1>1. CASE Propose(c)
  BY <1>1, GoingStep DEF Propose, Handling, Proposed
<1>2. CASE ProposeRefused(c)
  BY <1>2, EndingStep DEF ProposeRefused, Fails, Proposed, FixInv, FixTyped
<1>3. CASE NothingCommitted(c)
  BY <1>3, GoingStep DEF NothingCommitted, Handling, Proposed, Proposing, FixInv, Holds
<1>4. CASE CommitRefused(c)
  BY <1>4, EndingStep DEF CommitRefused, Fails, Proposed, FixInv, FixTyped
<1>5. CASE PushFails(c)
  BY <1>5, GoingStep DEF PushFails, Handling, Proposed, Proposing, FixInv, Holds
<1>6. CASE CreateFails(c)
  BY <1>6, GoingStep DEF CreateFails, Handling, Proposed, Proposing, FixInv, Holds
<1> QED
  BY <1>1, <1>2, <1>3, <1>4, <1>5, <1>6

(* A call of a proposal goes on, with what it measured or what it scored.  *)
LEMMA OnwardStep ==
  ASSUME FixInv, Still, NEW c \in ToolCalls, NEW new \in CallRecords,
         toolCall' = [toolCall EXCEPT ![c] = new],
         toolCall[c].pc \in Proposed, new.pc \in Proposed \cup {"drop"},
         new.sid = toolCall[c].sid, new.name = toolCall[c].name,
         \A n \in Seconds : Proposes(c, n)' /\ Follows(c, n) => Follows(c, n)',
         second' = second, fixRow' \in FixRows
  PROVE  FixInv'
<1>1. CallMoves(c) /\ toolCall'[c] = new
  BY Entering DEF FixInv
<1>2. Holds(c)'
  BY <1>1 DEF FixInv, Holds, Sid, Editing, Still, Handling, Proposed, Proposing
<1>3. Quietly(c)
  BY <1>1, <1>2 DEF Quietly, Proposed
<1>4. FixTyped'
  BY <1>1, StillTyped DEF FixInv, FixTyped, CallMoves
<1> QED
  BY <1>3, <1>4, QuietStep

LEMMA MeasureStep ==
  ASSUME FixInv, NEW c \in ToolCalls, Measure(c)
  PROVE  FixInv'
<1> DEFINE n == toolCall[c].name
           measured == Measured(worktrees[n])
           new == [toolCall[c] EXCEPT !.pc = "mark", !.size = measured]
<1>1. /\ toolCall[c] \in CallRecords /\ toolCall[c].pc = "measure"
      /\ n \in Seconds /\ worktrees[n] \in Trees
      /\ Still /\ second' = second /\ fixRow' = fixRow
      /\ fixRow \in FixRows
  BY DEF FixInv, FixTyped, CallRecords, Measure, At, Still, sessionVars
<1>2. worktrees[n].there => worktrees[n].commits # <<>>
  BY <1>1 DEF FixInv, Holds, Handling, Proposed
<1>3. measured \in Nat /\ (Len(worktrees[n].commits) = 1 => measured = 0 \/ worktrees[n].commits = <<measured>>)
  BY <1>1, <1>2 DEF Measured, Trees
<1>4. new \in CallRecords /\ new.pc = "mark" /\ new.size = measured
      /\ new.sid = toolCall[c].sid /\ new.name = n
  BY <1>1, <1>3 DEF CallRecords, Handling, Proposed
<1>5. toolCall' = [toolCall EXCEPT ![c] = new]
  BY DEF Measure
<1> HIDE DEF measured, new
<1>6. toolCall'[c] = new
  BY <1>4, <1>5, Entering DEF FixInv
<1>7. ASSUME NEW m \in Seconds, Proposes(c, m)', Follows(c, m)
      PROVE  Follows(c, m)'
  <2>1. m = n
    BY <1>4, <1>6, <1>7 DEF Proposes
  <2> QED
    BY <1>1, <1>3, <1>4, <1>6, <1>7, <2>1 DEF Follows, Still
<1> QED
  BY <1>1, <1>4, <1>5, <1>7, OnwardStep DEF Proposed

LEMMA ScoreStep ==
  ASSUME FixInv, NEW c \in ToolCalls, ScoreFix(c)
  PROVE  FixInv'
<1> DEFINE size == toolCall[c].size
           Fix(rca, exactLine, pattern, tests) ==
             [rca |-> rca, exactLine |-> exactLine, pattern |-> pattern,
              tests |-> tests, files |-> size, lines |-> EditLines * size]
           Next(fix) == IF Action(fix) = "draft_pr" /\ GitHubConfigured THEN "find" ELSE "drop"
<1>1. PICK rca \in RcaLevels, exactLine \in BOOLEAN, pattern \in BOOLEAN, tests \in TestVerdicts :
        toolCall' = [toolCall EXCEPT ![c].pc = Next(Fix(rca, exactLine, pattern, tests)),
                                     ![c].tests = tests]
  BY DEF ScoreFix
<1> DEFINE fix == Fix(rca, exactLine, pattern, tests)
           new == [toolCall[c] EXCEPT !.pc = Next(fix), !.tests = tests]
<1>2. /\ toolCall[c] \in CallRecords /\ toolCall[c].pc = "mark"
      /\ Still /\ second' = second
  BY DEF FixInv, FixTyped, ScoreFix, At, Still, sessionVars
<1>3. fixRow' \in FixRows
  BY DEF FixInv, FixTyped, ScoreFix, FixRows
<1>4. Next(fix) \in {"find", "drop"}
  OBVIOUS
<1>5. Next(fix) = "find" => Localized(size, EditLines * size) /\ tests # "failed"
  BY DEF Action
<1>6. /\ new \in CallRecords /\ new.pc = Next(fix) /\ new.tests = tests /\ new.size = size
      /\ new.sid = toolCall[c].sid /\ new.name = toolCall[c].name
  BY <1>2, <1>4 DEF CallRecords, Handling, Proposed
<1>7. toolCall' = [toolCall EXCEPT ![c] = new]
  BY <1>1
<1> HIDE DEF fix, new
<1>8. toolCall'[c] = new
  BY <1>6, <1>7, Entering DEF FixInv
<1>9. ASSUME NEW n \in Seconds, Proposes(c, n)', Follows(c, n)
      PROVE  Follows(c, n)'
  BY <1>2, <1>4, <1>5, <1>6, <1>8, <1>9 DEF Follows, Still, Proposed
<1> QED
  BY <1>2, <1>3, <1>4, <1>6, <1>7, <1>9, OnwardStep DEF Proposed

LEMMA FindStep ==
  ASSUME FixInv, NEW c \in ToolCalls, FindPr(c)
  PROVE  FixInv'
<1>1. PICK pc \in {"drop", "push"} : Goto(c, pc)
  BY DEF FindPr
<1> DEFINE new == [toolCall[c] EXCEPT !.pc = pc]
<1>2. /\ toolCall[c] \in CallRecords /\ toolCall[c].pc = "find"
      /\ Still /\ second' = second /\ fixRow' = fixRow /\ fixRow \in FixRows
  BY DEF FixInv, FixTyped, FindPr, At, Still, sessionVars
<1>3. /\ new \in CallRecords /\ new.pc = pc
      /\ new.tests = toolCall[c].tests /\ new.size = toolCall[c].size
      /\ new.sid = toolCall[c].sid /\ new.name = toolCall[c].name
  BY <1>2 DEF CallRecords, Handling, Proposed
<1>4. toolCall' = [toolCall EXCEPT ![c] = new]
  BY <1>1 DEF Goto
<1> HIDE DEF new
<1>5. toolCall'[c] = new
  BY <1>3, <1>4, Entering DEF FixInv
<1>6. ASSUME NEW n \in Seconds, Proposes(c, n)', Follows(c, n)
      PROVE  Follows(c, n)'
  BY <1>2, <1>3, <1>5, <1>6 DEF Follows, Still, Proposed
<1> QED
  BY <1>2, <1>3, <1>4, <1>6, OnwardStep DEF Proposed

-----------------------------------------------------------------------------
(* Steps of the sessions and of GitHub.                                    *)

LEMMA AddStep ==
  ASSUME FixInv, NEW c \in ToolCalls, AddWorktree(c)
  PROVE  FixInv'
<1> DEFINE new == [toolCall[c] EXCEPT !.pc = "serve", !.name = second]
<1>1. /\ second \in Seconds /\ second \notin branches /\ ~worktrees[second].there
      /\ worktrees \in [Seconds -> Trees] /\ toolCall[c] \in CallRecords
      /\ toolCall[c].pc = "start" /\ toolCall[c].mode = "edit"
      /\ worktrees' = [worktrees EXCEPT ![second] = FreshTree]
      /\ branches' = branches \cup {second}
      /\ second' = second /\ session' = session /\ leftover' = leftover /\ unseen' = unseen
      /\ heads' = heads /\ prs' = prs /\ fixRow' = fixRow
  BY DEF FixInv, FixTyped, AddWorktree, AddTree, CanAddTree, At, hubVars
<1>2. FreshTree \in Trees /\ FreshTree.commits = <<>> /\ FreshTree.there
  <2>1. <<>> \in Seq(Nat)
    OBVIOUS
  <2>2. NoTree \in Trees /\ NoTree.commits = <<>>
    BY <2>1 DEF NoTree, Trees
  <2> QED
    BY <2>2 DEF FreshTree, Trees
<1>3. /\ new \in CallRecords /\ new.pc = "serve" /\ new.mode = "edit"
      /\ new.name = second
  BY <1>1 DEF CallRecords
<1>4. toolCall' = [toolCall EXCEPT ![c] = new]
  BY DEF AddWorktree
<1> HIDE DEF new
<1>5. CallMoves(c) /\ toolCall'[c] = new
  BY <1>3, <1>4, Entering DEF FixInv
<1>6. /\ worktrees' \in [Seconds -> Trees] /\ worktrees'[second] = FreshTree
      /\ \A n \in Seconds : n # second => worktrees'[n] = worktrees[n]
  BY <1>1, <1>2
<1>7. FixTyped'
  BY <1>1, <1>5, <1>6 DEF FixInv, FixTyped, CallMoves
<1>8. /\ Opening(c, second)'
      /\ \A n \in Seconds : n # second => ~Opening(c, n)'
      /\ \A d \in ToolCalls : d # c => \A n \in Seconds : Opening(d, n)' <=> Opening(d, n)
      /\ \A n \in Seconds : ~Opening(c, n)
  BY <1>1, <1>3, <1>5 DEF Opening, At, CallMoves
<1>9. \A d \in ToolCalls : ~Opening(d, second)
  BY <1>1 DEF FixInv, OpensAlone
<1>10. \A s \in Sessions : Editing(s) => session[s].name # second
  BY <1>1 DEF FixInv, OwnsTree
<1>11. \A d \in ToolCalls : OpensAlone(d)'
  BY <1>1, <1>2, <1>3, <1>5, <1>6, <1>8, <1>9, <1>10 DEF FixInv, OpensAlone, Editing, At, CallMoves
<1>12. \A d \in ToolCalls, n \in Seconds : Proposes(d, n)' <=> Proposes(d, n)
  BY <1>1, <1>3, <1>5 DEF Proposes, CallMoves, Proposed
<1>13. \A d \in ToolCalls, n \in Seconds : Proposes(d, n) => n # second
  BY <1>1 DEF FixInv, Holds, OwnsTree, Proposes, Proposing, Proposed, Handling, Sid
<1>14. ASSUME NEW d \in ToolCalls
       PROVE  Holds(d)'
  <2>1. CASE d = c
    BY <1>3, <1>5, <2>1 DEF Holds, Handling, Proposed
  <2>2. CASE d # c
    BY <1>1, <1>5, <1>6, <1>13, <2>2 DEF FixInv, FixTyped, CallRecords, Holds, Proposes, CallMoves, Sid, Editing
  <2> QED
    BY <2>1, <2>2
<1>15. \A s \in Sessions : OwnsTree(s)'
  BY <1>1 DEF FixInv, OwnsTree, Editing
<1>16. \A n \in Seconds : Accounted(n)'
  BY <1>1, <1>6, <1>8 DEF FixInv, Accounted, Editing, Known
<1>17. ASSUME NEW n \in Seconds, n \notin unseen
       PROVE  Scored(n)'
  <2>1. Scored(n)
    BY <1>17 DEF FixInv
  <2>2. Untouched(n) => Untouched(n)'
    BY <1>1, <1>12, <1>17 DEF Untouched
  <2>3. CASE n = second
    <3>1. Untouched(n)
      BY <1>1, <2>1, <2>3 DEF Scored
    <3> QED
      BY <1>2, <1>6, <2>2, <2>3, <3>1 DEF Scored, Untouched
  <2>4. CASE n # second
    <3>1. worktrees'[n] = worktrees[n] /\ (n \in branches' <=> n \in branches)
      BY <1>1, <1>6, <1>17, <2>4
    <3>2. ASSUME NEW s \in Sessions, Editing(s)', session'[s].name = n, Usable(s)',
                 worktrees'[n].there, worktrees'[n].commits # <<>>
          PROVE  \E d \in ToolCalls : Sid(d)' = s /\ toolCall'[d].pc \in Proposed \cup {"drop"}
      <4>1. PICK d \in ToolCalls : Sid(d) = s /\ toolCall[d].pc \in Proposed \cup {"drop"}
        BY <1>1, <2>1, <3>1, <3>2 DEF Scored, Editing, Usable, Known
      <4>2. d # c
        BY <1>1, <4>1 DEF Proposed
      <4> QED
        BY <1>5, <4>1, <4>2 DEF CallMoves, Sid
    <3>3. ASSUME NEW d \in ToolCalls, Proposes(d, n)
          PROVE  Follows(d, n)'
      <4>1. d # c /\ Follows(d, n)
        BY <1>1, <2>1, <3>3 DEF Scored, Proposes, Proposed
      <4> QED
        BY <1>1, <1>5, <3>1, <4>1 DEF Follows, CallMoves
    <3> QED
      BY <1>1, <1>12, <1>17, <2>1, <2>2, <3>1, <3>2, <3>3 DEF Scored
  <2> QED
    BY <2>3, <2>4
<1> QED
  BY <1>1, <1>7, <1>11, <1>14, <1>15, <1>16, <1>17 DEF FixInv

(* Sessions and worktrees go, and with them calls. *)
Shrunk ==
  /\ \A n \in Seconds : worktrees'[n] = worktrees[n] \/ worktrees'[n] = NoTree
  /\ \A s \in Sessions :
       /\ session'[s].mode = session[s].mode /\ session'[s].name = session[s].name
       /\ Usable(s)' => Usable(s)
       /\ session[s] = NoSession => session'[s] = NoSession
  /\ \A d \in ToolCalls :
       \/ toolCall'[d] = toolCall[d]
       \/ toolCall'[d].pc = "idle"
       \/ /\ toolCall[d].pc \in Handling \ Proposing /\ toolCall'[d].pc \in Handling \ Proposing
          /\ toolCall'[d].sid = toolCall[d].sid /\ toolCall'[d].name = toolCall[d].name
  /\ \A s \in Sessions, d \in ToolCalls :
       Usable(s)' /\ Sid(d) = s /\ toolCall[d].pc \in Proposed \cup {"drop"} =>
         toolCall'[d] = toolCall[d]
  /\ branches' = branches /\ unseen' = unseen /\ heads' = heads /\ prs' = prs

LEMMA ShrinkStep ==
  ASSUME FixInv, FixTyped', Shrunk, \A n \in Seconds : Accounted(n)'
  PROVE  FixInv'
<1>0. NoTree.commits = <<>> /\ ~NoTree.there
  BY DEF NoTree
<1>1. \A d \in ToolCalls, n \in Seconds : Opening(d, n)' => Opening(d, n)
  BY DEF Shrunk, Opening, At, Handling, Proposed
<1>2. \A d \in ToolCalls, n \in Seconds : Proposes(d, n)' => Proposes(d, n) /\ toolCall'[d] = toolCall[d]
  BY DEF Shrunk, Proposes, Proposed, Proposing
<1>3. \A s \in Sessions : Editing(s)' <=> Editing(s)
  BY DEF Shrunk, Editing
<1>4. ASSUME NEW d \in ToolCalls
      PROVE  OpensAlone(d)'
  <2>1. At(d, "serve")' => At(d, "serve") /\ toolCall'[d] = toolCall[d]
    BY DEF Shrunk, At, Handling, Proposed
  <2>2. \A n \in Seconds : worktrees[n].commits = <<>> => worktrees'[n].commits = <<>>
    BY <1>0 DEF Shrunk
  <2> QED
    BY <1>1, <1>3, <2>1, <2>2 DEF FixInv, OpensAlone, Shrunk
<1>5. ASSUME NEW d \in ToolCalls
      PROVE  Holds(d)'
  <2>1. CASE toolCall'[d] = toolCall[d]
    <3>1. Holds(d) /\ toolCall[d].name \in Seconds
      BY DEF FixInv, FixTyped, CallRecords
    <3>2. worktrees'[toolCall[d].name].there => worktrees'[toolCall[d].name] = worktrees[toolCall[d].name]
      BY <1>0, <3>1 DEF Shrunk
    <3> QED
      BY <2>1, <3>1, <3>2, <1>3 DEF Holds, Shrunk, Sid
  <2>2. CASE toolCall'[d].pc = "idle"
    BY <2>2 DEF Holds, Handling, Proposed
  <2>3. CASE /\ toolCall[d].pc \in Handling \ Proposing /\ toolCall'[d].pc \in Handling \ Proposing
             /\ toolCall'[d].sid = toolCall[d].sid /\ toolCall'[d].name = toolCall[d].name
    BY <2>3 DEF FixInv, Holds, Shrunk, Sid, Proposed, Proposing
  <2> QED
    BY <2>1, <2>2, <2>3 DEF Shrunk
<1>6. \A s \in Sessions : OwnsTree(s)'
  BY <1>3 DEF FixInv, OwnsTree, Shrunk
<1>7. ASSUME NEW n \in Seconds, n \notin unseen
      PROVE  Scored(n)'
  <2>1. Scored(n) /\ unseen' = unseen /\ branches' = branches
    BY <1>7 DEF FixInv, Shrunk
  <2>2. Untouched(n) => Untouched(n)'
    BY <1>2, <1>7 DEF Untouched, Shrunk
  <2>3. worktrees'[n].there => worktrees'[n] = worktrees[n]
    BY <1>0, <1>7 DEF Shrunk
  <2>4. ASSUME NEW s \in Sessions, Editing(s)', session'[s].name = n, Usable(s)',
               worktrees'[n].there, worktrees'[n].commits # <<>>
        PROVE  \E d \in ToolCalls : Sid(d)' = s /\ toolCall'[d].pc \in Proposed \cup {"drop"}
    <3>1. PICK d \in ToolCalls : Sid(d) = s /\ toolCall[d].pc \in Proposed \cup {"drop"}
      BY <2>1, <2>3, <2>4, <1>3 DEF Scored, Shrunk
    <3>2. toolCall'[d] = toolCall[d]
      BY <2>4, <3>1 DEF Shrunk
    <3> QED
      BY <3>1, <3>2 DEF Sid
  <2>5. ASSUME NEW d \in ToolCalls, Proposes(d, n)'
        PROVE  Follows(d, n)'
    <3>1. Follows(d, n) /\ toolCall'[d] = toolCall[d]
      BY <1>2, <1>7, <2>1, <2>5 DEF Scored
    <3> QED
      BY <2>3, <3>1 DEF Follows, Shrunk
  <2> QED
    BY <1>2, <1>7, <2>1, <2>2, <2>3, <2>4, <2>5 DEF Scored, Shrunk
<1> QED
  BY <1>4, <1>5, <1>6, <1>7 DEF FixInv, Shrunk

(* A worktree that goes, or is left behind. *)
LEMMA Removing ==
  ASSUME FixInv, NEW n \in Seconds, RemoveTree(n)
  PROVE  /\ worktrees' \in [Seconds -> Trees]
         /\ leftover' \in [Seconds -> {"none", "restart", "failed"}]
         /\ \A m \in Seconds : worktrees'[m] = worktrees[m] \/ worktrees'[m] = NoTree
         /\ \A m \in Seconds : leftover[m] # "none" => leftover'[m] # "none"
         /\ \A m \in Seconds : m # n => worktrees'[m] = worktrees[m]
         /\ worktrees'[n].there => leftover'[n] # "none"
<1>1. <<>> \in Seq(Nat)
  OBVIOUS
<1>2. NoTree \in Trees /\ ~NoTree.there
  BY <1>1 DEF NoTree, Trees
<1>3. worktrees \in [Seconds -> Trees] /\ leftover \in [Seconds -> {"none", "restart", "failed"}]
  BY DEF FixInv, FixTyped
<1> QED
  BY <1>2, <1>3 DEF RemoveTree

LEMMA FailsStep ==
  ASSUME FixInv, NEW c \in ToolCalls, ServerFails(c)
  PROVE  FixInv'
<1> DEFINE n == toolCall[c].name
<1>1. CallMoves(c) /\ toolCall'[c] = NoToolCall
  BY Answering DEF ServerFails
<1>2. /\ toolCall[c].pc = "serve" /\ n \in Seconds
      /\ second' = second /\ branches' = branches /\ session' = session /\ unseen' = unseen
      /\ heads' = heads /\ prs' = prs /\ fixRow' = fixRow
  BY DEF ServerFails, StartFailed, At, hubVars, FixInv, FixTyped, CallRecords
<1>3. /\ worktrees' \in [Seconds -> Trees]
      /\ leftover' \in [Seconds -> {"none", "restart", "failed"}]
      /\ \A m \in Seconds : worktrees'[m] = worktrees[m] \/ worktrees'[m] = NoTree
      /\ \A m \in Seconds : leftover[m] # "none" => leftover'[m] # "none"
      /\ \A m \in Seconds : ~Opening(c, m) => worktrees'[m] = worktrees[m]
      /\ \A m \in Seconds : Opening(c, m) => (worktrees'[m].there => leftover'[m] # "none")
  <2>1. CASE toolCall[c].mode = "edit"
    <3>1. RemoveTree(n)
      BY <2>1 DEF ServerFails, StartFailed
    <3>2. \A m \in Seconds : Opening(c, m) <=> m = n
      BY <1>2, <2>1 DEF Opening, At
    <3> HIDE DEF n
    <3> QED
      BY <1>2, <3>1, <3>2, Removing
  <2>2. CASE toolCall[c].mode # "edit"
    BY <2>2 DEF ServerFails, StartFailed, FixInv, FixTyped, Opening
  <2> QED
    BY <2>1, <2>2
<1>4. FixTyped'
  BY <1>1, <1>2, <1>3 DEF FixInv, FixTyped, CallMoves
<1>5. Shrunk
  BY <1>1, <1>2, <1>3 DEF Shrunk, CallMoves, NoToolCall, Proposed, Usable, Known
<1>6. \A d \in ToolCalls, m \in Seconds : d # c => (Opening(d, m)' <=> Opening(d, m))
  BY <1>1 DEF Opening, At, CallMoves
<1>7. \A m \in Seconds : Accounted(m)'
  BY <1>2, <1>3, <1>6 DEF FixInv, Accounted, Editing, Known
<1> QED
  BY <1>4, <1>5, <1>7, ShrinkStep

(* A session that is closed. *)
LEMMA Closing ==
  ASSUME FixInv, NEW s \in Sessions, session[s].mode # "none", Close(s),
         toolCall' \in [ToolCalls -> CallRecords],
         UNCHANGED hubVars, fixRow' = fixRow,
         \A d \in ToolCalls, n \in Seconds : Opening(d, n) => Opening(d, n)'
  PROVE  /\ FixTyped' /\ \A n \in Seconds : Accounted(n)'
         /\ ~Usable(s)' /\ \A t \in Sessions : t # s => session'[t] = session[t]
         /\ session'[s].mode = session[s].mode /\ session'[s].name = session[s].name
         /\ \A n \in Seconds : worktrees'[n] = worktrees[n] \/ worktrees'[n] = NoTree
         /\ branches' = branches /\ unseen' = unseen
<1> DEFINE n == session[s].name
           gone == Gone(session[s])
<1>1. /\ session \in [Sessions -> SessionRecords] /\ session[s] \in SessionRecords
      /\ n \in Seconds
      /\ second' = second /\ branches' = branches /\ unseen' = unseen
  BY DEF FixInv, FixTyped, SessionRecords, Close
<1>2. /\ gone \in SessionRecords /\ gone.mode = session[s].mode /\ gone.name = n
      /\ ~gone.alive /\ ~gone.open
  BY <1>1 DEF Gone, SessionRecords
<1>3. session' = [session EXCEPT ![s] = gone]
  BY DEF Close
<1> HIDE DEF gone
<1>4. /\ session' \in [Sessions -> SessionRecords] /\ session'[s] = gone
      /\ \A t \in Sessions : t # s => session'[t] = session[t]
  BY <1>1, <1>2, <1>3
<1>5. /\ worktrees' \in [Seconds -> Trees]
      /\ leftover' \in [Seconds -> {"none", "restart", "failed"}]
      /\ \A m \in Seconds : worktrees'[m] = worktrees[m] \/ worktrees'[m] = NoTree
      /\ \A m \in Seconds : leftover[m] # "none" => leftover'[m] # "none"
      /\ \A m \in Seconds : m # n \/ ~Editing(s) => worktrees'[m] = worktrees[m]
      /\ Editing(s) => (worktrees'[n].there => leftover'[n] # "none")
  <2>1. CASE Editing(s)
    <3>1. RemoveTree(n)
      BY <2>1 DEF Close
    <3> HIDE DEF n
    <3> QED
      BY <1>1, <2>1, <3>1, Removing
  <2>2. CASE ~Editing(s)
    BY <2>2 DEF Close, FixInv, FixTyped
  <2> QED
    BY <2>1, <2>2
<1>6. FixTyped'
  BY <1>1, <1>4, <1>5 DEF FixInv, FixTyped, hubVars
<1>7. ASSUME NEW m \in Seconds
      PROVE  Accounted(m)'
  <2>1. Accounted(m)
    BY DEF FixInv
  <2>2. CASE Editing(s) /\ m = n
    BY <1>5, <2>2 DEF Accounted
  <2>3. CASE ~(Editing(s) /\ m = n)
    <3>1. worktrees'[m] = worktrees[m]
      BY <1>5, <2>3
    <3>2. \A t \in Sessions : Editing(t) /\ Known(t) /\ session[t].name = m => t # s
      BY <2>3
    <3>3. \A t \in Sessions : t # s => (Editing(t)' <=> Editing(t)) /\ (Known(t)' <=> Known(t))
      BY <1>4 DEF Editing, Known
    <3> QED
      BY <1>4, <1>5, <2>1, <3>1, <3>2, <3>3 DEF Accounted
  <2> QED
    BY <2>2, <2>3
<1> QED
  BY <1>1, <1>2, <1>4, <1>5, <1>6, <1>7 DEF Usable, Known

LEMMA CloseStep ==
  ASSUME FixInv, NEW c \in ToolCalls, CloseSession(c)
  PROVE  FixInv'
<1>0. PICK s \in Sessions : s = Sid(c)
  BY DEF CloseSession, At, FixInv, Holds, Handling
<1>1. CallMoves(c) /\ toolCall'[c] = [toolCall[c] EXCEPT !.pc = "get"]
  BY Moving DEF CloseSession, FixInv, Handling
<1>2. /\ toolCall[c].pc = "close" /\ s \in Sessions /\ session[s].mode # "none"
      /\ UNCHANGED hubVars /\ fixRow' = fixRow /\ Close(s)
  BY <1>0 DEF CloseSession, At, FixInv, Holds, Handling
<1>3. /\ toolCall'[c].pc = "get"
      /\ toolCall'[c].sid = toolCall[c].sid /\ toolCall'[c].name = toolCall[c].name
  BY <1>1 DEF FixInv, FixTyped, CallRecords
<1>4. \A d \in ToolCalls, n \in Seconds : Opening(d, n) => Opening(d, n)'
  BY <1>1, <1>2 DEF Opening, At, CallMoves
<1>5. toolCall' \in [ToolCalls -> CallRecords]
  BY <1>1 DEF CallMoves
<1>6. /\ FixTyped' /\ \A n \in Seconds : Accounted(n)'
      /\ ~Usable(s)' /\ \A t \in Sessions : t # s => session'[t] = session[t]
      /\ session'[s].mode = session[s].mode /\ session'[s].name = session[s].name
      /\ \A n \in Seconds : worktrees'[n] = worktrees[n] \/ worktrees'[n] = NoTree
      /\ branches' = branches /\ unseen' = unseen
  BY <1>2, <1>4, <1>5, Closing
<1>7. Shrunk
  <2>1. /\ toolCall[c].pc \in Handling \ Proposing /\ toolCall'[c].pc \in Handling \ Proposing
        /\ toolCall[c].pc \notin Proposed \cup {"drop"}
    BY <1>2, <1>3 DEF Handling, Proposed, Proposing
  <2>2. \A t \in Sessions : Usable(t)' => Usable(t)
    BY <1>6 DEF Usable, Known
  <2>3. session[s] # NoSession
    BY <1>2 DEF NoSession
  <2> QED
    BY <1>1, <1>2, <1>3, <1>6, <2>1, <2>2, <2>3 DEF Shrunk, CallMoves, hubVars
<1> QED
  BY <1>6, <1>7, ShrinkStep

LEMMA DropStep ==
  ASSUME FixInv, NEW c \in ToolCalls, DropSession(c)
  PROVE  FixInv'
<1>0. PICK s \in Sessions : s = Sid(c)
  BY DEF DropSession, At, FixInv, Holds, Handling
<1>1. CallMoves(c) /\ toolCall'[c] = NoToolCall
  BY Answering DEF DropSession
<1>2. /\ toolCall[c].pc = "drop" /\ s \in Sessions /\ session[s].mode # "none"
      /\ UNCHANGED hubVars /\ fixRow' = fixRow
  BY <1>0 DEF DropSession, At, FixInv, Holds, Handling
<1>3. \A d \in ToolCalls, n \in Seconds : Opening(d, n) => Opening(d, n)'
  BY <1>1, <1>2 DEF Opening, At, CallMoves
<1>4. toolCall' \in [ToolCalls -> CallRecords] /\ toolCall'[c].pc = "idle"
  BY <1>1 DEF CallMoves, NoToolCall
<1>5. CASE Usable(s)
  <2>1. Close(s)
    BY <1>0, <1>5 DEF DropSession
  <2>2. /\ FixTyped' /\ \A n \in Seconds : Accounted(n)'
        /\ ~Usable(s)' /\ \A t \in Sessions : t # s => session'[t] = session[t]
        /\ session'[s].mode = session[s].mode /\ session'[s].name = session[s].name
        /\ \A n \in Seconds : worktrees'[n] = worktrees[n] \/ worktrees'[n] = NoTree
        /\ branches' = branches /\ unseen' = unseen
    BY <1>2, <1>3, <1>4, <2>1, Closing
  <2>3. \A d \in ToolCalls : Sid(d) # s => d # c
    BY <1>0
  <2>4. Shrunk
    BY <1>1, <1>2, <1>4, <2>2, <2>3 DEF Shrunk, CallMoves, Usable, Known, NoSession, hubVars
  <2> QED
    BY <2>2, <2>4, ShrinkStep
<1>6. CASE ~Usable(s)
  <2>1. UNCHANGED sessionVars
    BY <1>0, <1>6 DEF DropSession
  <2>2. FixTyped'
    BY <1>2, <1>4, <2>1 DEF FixInv, FixTyped, sessionVars, hubVars
  <2>3. \A n \in Seconds : Accounted(n)'
    BY <1>3, <2>1 DEF FixInv, Accounted, Editing, Known, sessionVars
  <2>4. Shrunk
    BY <1>0, <1>1, <1>2, <1>4, <1>6, <2>1 DEF Shrunk, CallMoves, Usable, Known, sessionVars, hubVars
  <2> QED
    BY <2>2, <2>3, <2>4, ShrinkStep
<1> QED
  BY <1>5, <1>6

LEMMA DiesStep ==
  ASSUME FixInv, NEW s \in Sessions, ServerDies(s),
         UNCHANGED <<toolCall, toolCalls, hubVars, fixRow>>
  PROVE  FixInv'
<1> DEFINE dead == [session[s] EXCEPT !.alive = FALSE]
<1>1. /\ session \in [Sessions -> SessionRecords] /\ session[s] \in SessionRecords
      /\ session[s].open /\ session' = [session EXCEPT ![s] = dead]
      /\ UNCHANGED <<second, worktrees, branches, leftover, unseen>>
  BY DEF FixInv, FixTyped, ServerDies, Usable, Known
<1>2. /\ dead \in SessionRecords /\ ~dead.alive /\ dead.open = session[s].open
      /\ dead.mode = session[s].mode /\ dead.name = session[s].name
  BY <1>1 DEF SessionRecords
<1> HIDE DEF dead
<1>3. /\ session' \in [Sessions -> SessionRecords] /\ session'[s] = dead
      /\ \A t \in Sessions : t # s => session'[t] = session[t]
  BY <1>1, <1>2
<1>4. FixTyped'
  BY <1>1, <1>3 DEF FixInv, FixTyped, hubVars
<1>5. \A t \in Sessions : (Editing(t)' <=> Editing(t)) /\ (Known(t)' <=> Known(t))
                          /\ session'[t].name = session[t].name
  BY <1>2, <1>3 DEF Editing, Known
<1>6. \A n \in Seconds : Accounted(n)'
  BY <1>1, <1>5 DEF FixInv, Accounted, Opening, At
<1>7. session[s] # NoSession
  BY <1>1 DEF NoSession
<1>8. Shrunk
  BY <1>1, <1>2, <1>3, <1>7 DEF Shrunk, Usable, Known, hubVars
<1> QED
  BY <1>4, <1>6, <1>8, ShrinkStep

LEMMA RestartStep ==
  ASSUME FixInv, Restart
  PROVE  FixInv'
<1>1. /\ session \in [Sessions -> SessionRecords]
      /\ UNCHANGED <<second, worktrees, branches, unseen, hubVars, fixRow>>
      /\ session' = [s \in Sessions |-> Gone(session[s])]
      /\ toolCall' = [c \in ToolCalls |-> NoToolCall]
      /\ leftover' = [n \in Seconds |->
           IF worktrees[n].there /\ leftover[n] = "none" THEN "restart" ELSE leftover[n]]
  BY DEF FixInv, FixTyped, Restart, PodRestarts
<1>2. ASSUME NEW s \in Sessions
      PROVE  /\ Gone(session[s]) \in SessionRecords /\ ~Gone(session[s]).alive
             /\ Gone(session[s]).mode = session[s].mode /\ Gone(session[s]).name = session[s].name
    BY <1>1 DEF SessionRecords, Gone
<1>3. Gone(NoSession) = NoSession
  <2>1. NoSession \in SessionRecords
    BY SessionsAssumption DEF NoSession, SessionRecords, Seconds
  <2>2. /\ Gone(NoSession) \in SessionRecords
        /\ Gone(NoSession).mode = NoSession.mode /\ Gone(NoSession).name = NoSession.name
        /\ Gone(NoSession).started = NoSession.started
        /\ Gone(NoSession).alive = FALSE /\ Gone(NoSession).open = FALSE
    BY <2>1 DEF Gone, SessionRecords
  <2>3. NoSession.alive = FALSE /\ NoSession.open = FALSE
    BY DEF NoSession
  <2>4. \A r, q \in SessionRecords :
          /\ r.mode = q.mode /\ r.name = q.name /\ r.started = q.started
          /\ r.alive = q.alive /\ r.open = q.open
          => r = q
    BY DEF SessionRecords
  <2> QED
    BY <2>1, <2>2, <2>3, <2>4
<1>4. 0 \in Seconds
  BY SessionsAssumption DEF Seconds
<1>5. NoToolCall \in CallRecords /\ NoToolCall.pc = "idle"
  BY <1>4 DEF NoToolCall, CallRecords, TestVerdicts
<1>6. FixTyped'
  BY <1>1, <1>2, <1>5 DEF FixInv, FixTyped, hubVars
<1>7. \A n \in Seconds : Accounted(n)'
  BY <1>1 DEF Accounted
<1>8. Shrunk
  BY <1>1, <1>2, <1>3, <1>5 DEF Shrunk, Usable, hubVars
<1> QED
  BY <1>6, <1>7, <1>8, ShrinkStep

LEMMA UnmovedStep ==
  ASSUME FixInv, Still, toolCall' = toolCall, second' \in Seconds, fixRow' \in FixRows
  PROVE  FixInv'
<1>1. FixTyped'
  BY StillTyped DEF FixInv, FixTyped
<1>2. \A n \in Seconds : Accounted(n)'
  BY DEF FixInv, Accounted, Editing, Known, Opening, At, Still
<1>3. Shrunk
  BY DEF Shrunk, Usable, Known, Still, hubVars
<1> QED
  BY <1>1, <1>2, <1>3, ShrinkStep

LEMMA UpStep ==
  ASSUME FixInv, NEW c \in ToolCalls, ServerUp(c)
  PROVE  FixInv'
<1> DEFINE mode == toolCall[c].mode
           name == toolCall[c].name
           new == [mode |-> mode, name |-> name, started |-> second, alive |-> TRUE, open |-> TRUE]
<1>1. PICK s \in Sessions : Register(s, mode, name)
  BY DEF ServerUp
<1>2. CallMoves(c) /\ toolCall'[c] = NoToolCall
  BY Answering DEF ServerUp
<1>3. /\ toolCall[c] \in CallRecords /\ toolCall[c].pc = "serve" /\ name \in Seconds
      /\ mode \in {"read", "edit"} /\ second \in Nat
      /\ session \in [Sessions -> SessionRecords] /\ session[s] = NoSession
      /\ session' = [session EXCEPT ![s] = new]
      /\ UNCHANGED <<second, worktrees, branches, leftover, unseen, hubVars, fixRow>>
  <2>1. /\ toolCall[c] \in CallRecords /\ second \in Seconds /\ toolCall[c].mode # "none"
        /\ session \in [Sessions -> SessionRecords] /\ toolCall[c].pc = "serve"
    BY DEF ServerUp, At, FixInv, FixTyped, OpensAlone
  <2>2. name \in Seconds /\ mode \in {"read", "edit"} /\ second \in Nat
    BY <2>1, SessionsAssumption DEF CallRecords, Seconds
  <2> QED
    BY <1>1, <2>1, <2>2 DEF ServerUp, Register
<1>4. /\ new \in SessionRecords /\ new.mode = mode /\ new.name = name /\ new.open
  BY <1>3 DEF SessionRecords
<1> HIDE DEF new
<1>5. /\ session' \in [Sessions -> SessionRecords] /\ session'[s] = new
      /\ \A t \in Sessions : t # s => session'[t] = session[t]
  BY <1>3, <1>4
<1>6. FixTyped'
  BY <1>2, <1>3, <1>5 DEF FixInv, FixTyped, CallMoves, hubVars
<1>7. session[s].mode = "none" /\ ~session[s].open
  BY <1>3 DEF NoSession
<1>8. /\ \A n \in Seconds : Opening(c, n) <=> mode = "edit" /\ n = name
      /\ \A n \in Seconds : ~Opening(c, n)'
      /\ \A d \in ToolCalls : d # c => \A n \in Seconds : Opening(d, n)' <=> Opening(d, n)
  BY <1>2, <1>3 DEF Opening, At, CallMoves, NoToolCall
<1>9. /\ \A t \in Sessions : t # s => (Editing(t)' <=> Editing(t)) /\ (Known(t)' <=> Known(t))
      /\ Editing(s)' <=> mode = "edit"
      /\ Known(s)' /\ ~Editing(s)
  BY <1>4, <1>5, <1>7 DEF Editing, Known
<1>10. mode = "edit" => /\ name \in branches /\ worktrees[name].commits = <<>>
                        /\ \A t \in Sessions : Editing(t) => session[t].name # name
                        /\ \A d \in ToolCalls : Opening(d, name) => d = c
  BY <1>3, <1>8 DEF FixInv, OpensAlone
<1>11. ASSUME NEW d \in ToolCalls
       PROVE  OpensAlone(d)'
  <2>1. CASE d = c
    BY <1>2, <1>8, <2>1 DEF OpensAlone, At, NoToolCall
  <2>2. CASE d # c
    <3>1. OpensAlone(d) /\ toolCall'[d] = toolCall[d]
      BY <1>2, <2>2 DEF FixInv, CallMoves
    <3>2. \A n \in Seconds : Opening(d, n)' => n # name \/ mode # "edit"
      BY <1>8, <1>10, <2>2
    <3>3. \A e \in ToolCalls, n \in Seconds : Opening(e, n)' => Opening(e, n)
      BY <1>8
    <3> QED
      BY <1>3, <1>4, <1>5, <1>9, <3>1, <3>2, <3>3 DEF OpensAlone, At
  <2> QED
    BY <2>1, <2>2
<1>12. ASSUME NEW d \in ToolCalls
       PROVE  Holds(d)'
  <2>1. CASE d = c
    BY <1>2, <2>1 DEF Holds, NoToolCall, Handling, Proposed
  <2>2. CASE d # c
    <3>1. Holds(d) /\ toolCall'[d] = toolCall[d]
      BY <1>2, <2>2 DEF FixInv, CallMoves
    <3>2. toolCall[d].pc \in Handling => Sid(d) # s
      BY <1>7, <3>1 DEF Holds
    <3> QED
      BY <1>3, <1>5, <3>1, <3>2 DEF Holds, Sid, Editing
  <2> QED
    BY <2>1, <2>2
<1>13. ASSUME NEW t \in Sessions
       PROVE  OwnsTree(t)'
  <2>1. session'[t].mode = "none" => session'[t] = NoSession
    BY <1>3, <1>4, <1>5 DEF FixInv, OwnsTree
  <2>2. ASSUME Editing(t)'
        PROVE  /\ session'[t].name \in branches
               /\ \A r \in Sessions : Editing(r)' /\ session'[r].name = session'[t].name => r = t
    BY <2>2, <1>4, <1>5, <1>9, <1>10 DEF FixInv, OwnsTree
  <2> QED
    BY <1>3, <2>1, <2>2 DEF OwnsTree
<1>14. ASSUME NEW n \in Seconds
       PROVE  Accounted(n)'
  <2>1. Accounted(n) /\ worktrees' = worktrees /\ leftover' = leftover
    BY <1>3 DEF FixInv
  <2>2. CASE \E t \in Sessions : Editing(t) /\ Known(t) /\ session[t].name = n
    BY <1>5, <1>9, <2>1, <2>2 DEF Accounted
  <2>3. CASE \E d \in ToolCalls : Opening(d, n)
    BY <1>4, <1>5, <1>8, <1>9, <2>1, <2>3 DEF Accounted
  <2> QED
    BY <2>1, <2>2, <2>3 DEF Accounted
<1>15. \A d \in ToolCalls, n \in Seconds : Proposes(d, n)' => Proposes(d, n) /\ d # c
  BY <1>2 DEF Proposes, CallMoves, NoToolCall, Proposed
<1>16. ASSUME NEW n \in Seconds, n \notin unseen
       PROVE  Scored(n)'
  <2>1. Scored(n) /\ branches' = branches /\ worktrees' = worktrees /\ heads' = heads /\ prs' = prs
    BY <1>3, <1>16 DEF FixInv, hubVars
  <2>2. Untouched(n) => Untouched(n)'
    BY <1>15, <1>16, <2>1 DEF Untouched
  <2>3. ASSUME NEW t \in Sessions, Editing(t)', session'[t].name = n, Usable(t)',
               worktrees[n].there, worktrees[n].commits # <<>>
        PROVE  \E d \in ToolCalls : Sid(d)' = t /\ toolCall'[d].pc \in Proposed \cup {"drop"}
    <3>1. t # s
      BY <1>4, <1>5, <1>9, <1>10, <2>3
    <3>2. PICK d \in ToolCalls : Sid(d) = t /\ toolCall[d].pc \in Proposed \cup {"drop"}
      BY <1>5, <2>1, <2>3, <3>1 DEF Scored, Editing, Usable, Known
    <3>3. d # c
      BY <1>3, <3>2 DEF Proposed
    <3> QED
      BY <1>2, <3>2, <3>3 DEF CallMoves, Sid
  <2>4. ASSUME NEW d \in ToolCalls, Proposes(d, n)'
        PROVE  Follows(d, n)'
    <3>1. Follows(d, n) /\ toolCall'[d] = toolCall[d]
      BY <1>2, <1>15, <1>16, <2>1, <2>4 DEF Scored, CallMoves
    <3> QED
      BY <2>1, <3>1 DEF Follows
  <2> QED
    BY <1>15, <1>16, <2>1, <2>2, <2>3, <2>4 DEF Scored
<1> QED
  BY <1>3, <1>6, <1>11, <1>12, <1>13, <1>14, <1>16 DEF FixInv

(* Only the commits and the edits of one worktree change, and no session.  *)
TreeMoves(n, new) ==
  /\ worktrees' \in [Seconds -> Trees] /\ worktrees'[n] = new
  /\ new.there = worktrees[n].there
  /\ \A m \in Seconds : m # n => worktrees'[m] = worktrees[m]
  /\ UNCHANGED <<second, branches, session, leftover, hubVars, fixRow>>

(* What such a step keeps, whatever is committed: the worktree has a       *)
(* session, and the call, if one moves, is on that session.                *)
LEMMA TreeKeeps ==
  ASSUME FixInv, NEW s \in Sessions, Editing(s), NEW new \in Trees,
         TreeMoves(session[s].name, new), new.commits # <<>> \/ worktrees[session[s].name].commits = <<>>,
         toolCall' \in [ToolCalls -> CallRecords],
         \A d \in ToolCalls : toolCall'[d] = toolCall[d] \/
           (Sid(d) = s /\ toolCall[d].pc \in Handling /\ toolCall'[d].pc \in Proposed
             /\ toolCall'[d].sid = s /\ toolCall'[d].name = toolCall[d].name /\ new.commits # <<>>)
  PROVE  /\ FixTyped'
         /\ \A d \in ToolCalls : OpensAlone(d)' /\ Holds(d)'
         /\ \A t \in Sessions : OwnsTree(t)'
         /\ \A m \in Seconds : Accounted(m)'
<1> DEFINE n == session[s].name
<1>1. /\ n \in Seconds /\ n \in branches
      /\ \A t \in Sessions : Editing(t) /\ session[t].name = n => t = s
  BY DEF FixInv, FixTyped, SessionRecords, OwnsTree
<1>2. /\ worktrees' \in [Seconds -> Trees] /\ worktrees'[n] = new
      /\ new.there = worktrees[n].there
      /\ \A m \in Seconds : m # n => worktrees'[m] = worktrees[m]
      /\ UNCHANGED <<second, branches, session, leftover, hubVars, fixRow>>
  BY DEF TreeMoves
<1>3. \A t \in Sessions : (Editing(t)' <=> Editing(t)) /\ (Known(t)' <=> Known(t))
  BY <1>2 DEF Editing, Known
<1>4. \A d \in ToolCalls, m \in Seconds : Opening(d, m)' <=> Opening(d, m)
  BY DEF Opening, At, Handling, Proposed
<1>5. FixTyped'
  BY <1>2 DEF FixInv, FixTyped, hubVars
<1>6. ASSUME NEW d \in ToolCalls
      PROVE  OpensAlone(d)'
  <2>1. At(d, "serve")' => toolCall'[d] = toolCall[d] /\ At(d, "serve")
    BY DEF At, Proposed
  <2>2. ~Opening(d, n)
    BY <1>1 DEF FixInv, OpensAlone
  <2> HIDE DEF n
  <2> QED
    BY <1>2, <1>3, <1>4, <2>1, <2>2 DEF FixInv, OpensAlone
<1>7. ASSUME NEW d \in ToolCalls
      PROVE  Holds(d)'
  <2>1. Holds(d) /\ toolCall[d].name \in Seconds
    BY DEF FixInv, FixTyped, CallRecords
  <2>2. CASE toolCall'[d] = toolCall[d]
    <3>1. \A m \in Seconds : worktrees'[m].there /\ worktrees[m].commits # <<>> =>
            worktrees[m].there /\ worktrees'[m].commits # <<>>
      BY <1>1, <1>2
    <3> QED
      BY <1>2, <1>3, <2>1, <2>2, <3>1 DEF Holds, Sid
  <2>3. CASE toolCall'[d] # toolCall[d]
    <3>1. /\ Sid(d) = s /\ toolCall[d].pc \in Handling /\ toolCall'[d].pc \in Proposed
          /\ toolCall'[d].sid = s /\ toolCall'[d].name = toolCall[d].name /\ new.commits # <<>>
      BY <2>3
    <3>2. toolCall[d].name = n /\ session[s].mode # "none"
      BY <2>1, <3>1 DEF Holds
    <3> QED
      BY <1>2, <1>3, <3>1, <3>2 DEF Holds, Sid
  <2> QED
    BY <2>2, <2>3
<1>8. \A t \in Sessions : OwnsTree(t)'
  BY <1>2, <1>3 DEF FixInv, OwnsTree
<1>9. \A m \in Seconds : Accounted(m)'
  BY <1>2, <1>3, <1>4 DEF FixInv, Accounted
<1> QED
  BY <1>5, <1>6, <1>7, <1>8, <1>9

(* The other branches are as they were. *)
LEMMA OtherBranches ==
  ASSUME FixInv, NEW n \in Seconds, NEW m \in Seconds \ unseen, m # n,
         worktrees'[m] = worktrees[m], heads'[m] = heads[m], session' = session,
         \A pr \in prs' : pr.name = m => pr \in prs,
         m \in branches' <=> m \in branches,
         \A d \in ToolCalls : toolCall'[d] = toolCall[d] \/
           ((toolCall[d].pc \in Handling => toolCall[d].name = n)
             /\ (toolCall'[d].pc \in Handling => toolCall'[d].name = n))
  PROVE  Scored(m)'
<1>1. Scored(m)
  BY DEF FixInv
<1>2. \A d \in ToolCalls : Proposes(d, m)' => Proposes(d, m) /\ toolCall'[d] = toolCall[d]
  BY DEF Proposes, Handling
<1>3. Untouched(m) => Untouched(m)'
  BY <1>2 DEF Untouched
<1>4. ASSUME NEW t \in Sessions, Editing(t)', session'[t].name = m, Usable(t)',
             worktrees'[m].there, worktrees'[m].commits # <<>>
      PROVE  \E d \in ToolCalls : Sid(d)' = t /\ toolCall'[d].pc \in Proposed \cup {"drop"}
  <2>1. PICK d \in ToolCalls : Sid(d) = t /\ toolCall[d].pc \in Proposed \cup {"drop"}
    BY <1>1, <1>4 DEF Scored, Editing, Usable, Known
  <2>2. toolCall[d].name = m
    BY <1>4, <2>1 DEF FixInv, Holds, Handling
  <2>3. toolCall'[d] = toolCall[d]
    BY <2>1, <2>2 DEF Handling
  <2> QED
    BY <2>1, <2>3 DEF Sid
<1>5. ASSUME NEW d \in ToolCalls, Proposes(d, m)'
      PROVE  Follows(d, m)'
  <2>1. Follows(d, m) /\ toolCall'[d] = toolCall[d]
    BY <1>1, <1>2, <1>5 DEF Scored
  <2> QED
    BY <2>1 DEF Follows
<1> QED
  BY <1>1, <1>2, <1>3, <1>4, <1>5 DEF Scored

LEMMA Committing ==
  ASSUME NEW tree \in Trees
  PROVE  /\ Committed(tree) \in Trees /\ Committed(tree).there = tree.there
         /\ Committed(tree).commits # <<>>
         /\ tree.commits = <<>> => Len(Committed(tree).commits) = 1
<1>1. tree.commits \in Seq(Nat) /\ tree.dirty \in Nat
  BY DEF Trees
<1> DEFINE more == Append(tree.commits, tree.dirty)
<1>2. /\ more \in Seq(Nat) /\ more # <<>>
      /\ tree.commits = <<>> => Len(more) = 1
  BY <1>1
<1> HIDE DEF more
<1>3. PICK grown \in Trees : grown = [tree EXCEPT !.commits = more]
  BY <1>2 DEF Trees
<1>4. grown.there = tree.there /\ grown.commits = more
  BY <1>3 DEF Trees
<1>5. Committed(tree) = [grown EXCEPT !.dirty = 0]
  BY <1>3 DEF Committed, more, Trees
<1>6. /\ Committed(tree) \in Trees
      /\ Committed(tree).there = tree.there /\ Committed(tree).commits = more
  BY <1>4, <1>5 DEF Trees
<1> QED
  BY <1>2, <1>6

LEMMA CommitStep ==
  ASSUME FixInv, NEW c \in ToolCalls, CommitFix(c)
  PROVE  FixInv'
<1>1. PICK s \in Sessions : s = Sid(c)
  BY DEF CommitFix, At, FixInv, Holds, Handling
<1>2. PICK n \in Seconds : n = session[s].name
  BY DEF FixInv, FixTyped, SessionRecords
<1>3. PICK new \in Trees : new = Committed(worktrees[n])
  BY Committing DEF FixInv, FixTyped
<1>4. /\ toolCall[c].pc = "commit" /\ toolCall[c].name = n /\ Editing(s) /\ Usable(s)
      /\ worktrees[n].there /\ worktrees \in [Seconds -> Trees]
      /\ worktrees' = [worktrees EXCEPT ![n] = new]
      /\ UNCHANGED <<second, branches, session, leftover, hubVars, fixRow>>
      /\ unseen' = IF Overlapped(c) THEN unseen \cup {n} ELSE unseen
  BY <1>1, <1>2, <1>3
     DEF CommitFix, CommitTree, TreeOf, At, FixInv, FixTyped, Holds, Handling, Proposing
<1>5. CallMoves(c) /\ toolCall'[c] = [toolCall[c] EXCEPT !.pc = "measure"]
  BY Moving DEF CommitFix, FixInv, Handling, Proposed
<1>6. /\ toolCall'[c].pc = "measure" /\ toolCall'[c].sid = s
      /\ toolCall'[c].name = n
  BY <1>1, <1>4, <1>5 DEF FixInv, FixTyped, CallRecords, Sid
<1>7. /\ new.there = worktrees[n].there /\ new.commits # <<>>
      /\ worktrees[n].commits = <<>> => Len(new.commits) = 1
  BY <1>3, <1>4, Committing
<1>8. TreeMoves(n, new)
  BY <1>4, <1>7 DEF TreeMoves
<1>9. /\ FixTyped'
      /\ \A d \in ToolCalls : OpensAlone(d)' /\ Holds(d)'
      /\ \A t \in Sessions : OwnsTree(t)'
      /\ \A m \in Seconds : Accounted(m)'
  <2>1. \A d \in ToolCalls : toolCall'[d] = toolCall[d] \/
          (Sid(d) = s /\ toolCall[d].pc \in Handling /\ toolCall'[d].pc \in Proposed
            /\ toolCall'[d].sid = s /\ toolCall'[d].name = toolCall[d].name /\ new.commits # <<>>)
    BY <1>1, <1>4, <1>5, <1>6, <1>7 DEF CallMoves, Handling, Proposed
  <2>2. toolCall' \in [ToolCalls -> CallRecords]
    BY <1>5 DEF CallMoves
  <2> QED
    BY <1>2, <1>4, <1>7, <1>8, <2>1, <2>2, TreeKeeps
<1>10. ASSUME NEW m \in Seconds, m # n, m \notin unseen
       PROVE  Scored(m)'
  <2>1. \A d \in ToolCalls : toolCall'[d] = toolCall[d] \/
          ((toolCall[d].pc \in Handling => toolCall[d].name = n)
            /\ (toolCall'[d].pc \in Handling => toolCall'[d].name = n))
    BY <1>4, <1>5, <1>6 DEF CallMoves
  <2>2. worktrees'[m] = worktrees[m] /\ session' = session /\ heads' = heads /\ prs' = prs
        /\ branches' = branches
    BY <1>8, <1>10 DEF TreeMoves, hubVars
  <2> QED
    BY <1>10, <2>1, <2>2, OtherBranches
<1>11. ASSUME n \notin unseen'
       PROVE  Scored(n)'
  <2>1. ~Overlapped(c) /\ n \notin unseen
    BY <1>4, <1>11
  <2>2. \A d \in ToolCalls : d # c /\ Sid(d) = s => toolCall[d].pc \notin Proposing
    BY <1>1, <2>1 DEF Overlapped
  <2>3. \A d \in ToolCalls : Proposes(d, n) => Sid(d) = s
    BY <1>2, <1>4 DEF FixInv, Holds, OwnsTree, Proposes, Proposed, Proposing, Handling
  <2>4. \A d \in ToolCalls : Proposes(d, n)' => d = c
    BY <1>5, <2>2, <2>3 DEF CallMoves, Proposes, Proposed, Proposing
  <2>5. Scored(n)
    BY <2>1 DEF FixInv
  <2>6. worktrees[n].commits = <<>>
    BY <1>2, <1>4, <2>2, <2>5 DEF Scored, Proposed, Proposing
  <2>7. Untouched(n)
    BY <1>4, <2>5, <2>6 DEF Scored
  <2>8. \A pr \in prs' : pr.name # n
    BY <1>4, <2>7 DEF Untouched, hubVars
  <2>9. n \in branches'
    BY <1>2, <1>4 DEF FixInv, OwnsTree
  <2>10. worktrees'[n] = new
    BY <1>8 DEF TreeMoves
  <2>11. \A t \in Sessions : Editing(t)' /\ session'[t].name = n => t = s
    BY <1>2, <1>4, <1>9 DEF OwnsTree, Editing
  <2>12. Sid(c)' = s
    BY <1>6 DEF Sid
  <2>13. Follows(c, n)'
    BY <1>6, <1>7, <2>6, <2>10 DEF Follows, Proposed
  <2> QED
    BY <1>6, <1>7, <2>4, <2>8, <2>9, <2>10, <2>11, <2>12, <2>13 DEF Scored, Proposed
<1> QED
  BY <1>4, <1>9, <1>10, <1>11 DEF FixInv

LEMMA AgentCommitStep ==
  ASSUME FixInv, NEW s \in Sessions, AgentCommit(s),
         UNCHANGED <<toolCall, toolCalls, hubVars, fixRow>>
  PROVE  FixInv'
<1>1. PICK n \in Seconds : n = session[s].name
  BY DEF FixInv, FixTyped, SessionRecords
<1>2. PICK new \in Trees : new = Committed(worktrees[n])
  BY Committing DEF FixInv, FixTyped
<1>3. /\ Editing(s) /\ worktrees \in [Seconds -> Trees]
      /\ worktrees' = [worktrees EXCEPT ![n] = new]
      /\ UNCHANGED <<second, branches, session, leftover, hubVars, fixRow>>
      /\ unseen' = unseen \cup {n}
  BY <1>1, <1>2 DEF AgentCommit, CommitTree, FixInv, FixTyped
<1>4. new.there = worktrees[n].there /\ new.commits # <<>>
  BY <1>2, <1>3, Committing
<1>5. TreeMoves(n, new)
  BY <1>3, <1>4 DEF TreeMoves
<1>6. /\ FixTyped'
      /\ \A d \in ToolCalls : OpensAlone(d)' /\ Holds(d)'
      /\ \A t \in Sessions : OwnsTree(t)'
      /\ \A m \in Seconds : Accounted(m)'
  BY <1>1, <1>3, <1>4, <1>5, TreeKeeps DEF FixInv, FixTyped
<1>7. ASSUME NEW m \in Seconds, m # n, m \notin unseen
      PROVE  Scored(m)'
  BY <1>3, <1>5, <1>7, OtherBranches DEF TreeMoves, hubVars
<1> QED
  BY <1>3, <1>6, <1>7 DEF FixInv

LEMMA EditStep ==
  ASSUME FixInv, NEW s \in Sessions, Edit(s),
         UNCHANGED <<toolCall, toolCalls, hubVars, fixRow>>
  PROVE  FixInv'
<1>1. PICK n \in Seconds : n = session[s].name
  BY DEF FixInv, FixTyped, SessionRecords
<1>2. PICK more \in Nat : more = worktrees[n].dirty + 1
  BY DEF FixInv, FixTyped, Trees
<1>3. PICK new \in Trees : new = [worktrees[n] EXCEPT !.dirty = more]
  BY DEF FixInv, FixTyped, Trees
<1>4. /\ Editing(s) /\ worktrees \in [Seconds -> Trees]
      /\ worktrees' = [worktrees EXCEPT ![n] = new]
      /\ UNCHANGED <<second, branches, session, leftover, unseen, hubVars, fixRow>>
  BY <1>1, <1>2, <1>3 DEF Edit, FixInv, FixTyped
<1>5. new.there = worktrees[n].there /\ new.commits = worktrees[n].commits
  BY <1>3, <1>4 DEF Trees
<1>6. TreeMoves(n, new)
  BY <1>4, <1>5 DEF TreeMoves
<1>7. /\ FixTyped'
      /\ \A d \in ToolCalls : OpensAlone(d)' /\ Holds(d)'
      /\ \A t \in Sessions : OwnsTree(t)'
      /\ \A m \in Seconds : Accounted(m)'
  BY <1>1, <1>4, <1>5, <1>6, TreeKeeps DEF FixInv, FixTyped
<1>8. ASSUME NEW m \in Seconds, m \notin unseen
      PROVE  Scored(m)'
  <2>1. CASE m = n
    <3>1. Scored(n)
      BY <1>8, <2>1 DEF FixInv
    <3>2. worktrees'[n].there = worktrees[n].there /\ worktrees'[n].commits = worktrees[n].commits
      BY <1>5, <1>6 DEF TreeMoves
    <3>3. \A d \in ToolCalls : (Proposes(d, n)' <=> Proposes(d, n)) /\ (Follows(d, n) => Follows(d, n)')
      BY <1>4, <3>2 DEF Proposes, Follows, hubVars
    <3>4. Untouched(n) => Untouched(n)'
      BY <1>4, <3>3 DEF Untouched, hubVars
    <3>5. \A t \in Sessions : (Editing(t)' <=> Editing(t)) /\ (Usable(t)' <=> Usable(t))
      BY <1>4 DEF Editing, Usable, Known
    <3> QED
      BY <1>4, <2>1, <3>1, <3>2, <3>3, <3>4, <3>5 DEF Scored, Sid, hubVars
  <2>2. CASE m # n
    BY <1>4, <1>6, <1>8, <2>2, OtherBranches DEF TreeMoves, hubVars
  <2> QED
    BY <2>1, <2>2
<1> QED
  BY <1>4, <1>7, <1>8 DEF FixInv

LEMMA TimesOutStep ==
  ASSUME FixInv, NEW c \in ToolCalls, MeasureTimesOut(c)
  PROVE  FixInv'
<1>1. PICK n \in Seconds : n = toolCall[c].name
  BY DEF FixInv, FixTyped, CallRecords
<1>2. /\ toolCall[c].pc = "measure"
      /\ UNCHANGED <<second, worktrees, branches, session, leftover, hubVars, fixRow>>
      /\ unseen' = unseen \cup {n}
  BY <1>1 DEF MeasureTimesOut, At
<1>3. CallMoves(c) /\ toolCall'[c] = NoToolCall
  BY Answering DEF MeasureTimesOut
<1>4. toolCall'[c].pc = "idle"
  BY <1>3 DEF NoToolCall
<1>5. FixTyped'
  BY <1>2, <1>3 DEF FixInv, FixTyped, CallMoves, hubVars
<1>6. \A d \in ToolCalls, m \in Seconds : Opening(d, m)' <=> Opening(d, m)
  BY <1>2, <1>3, <1>4 DEF Opening, At, CallMoves
<1>7. \A d \in ToolCalls : OpensAlone(d)'
  BY <1>2, <1>3, <1>4, <1>6 DEF FixInv, OpensAlone, Editing, At, CallMoves
<1>8. \A d \in ToolCalls : Holds(d)'
  BY <1>2, <1>3, <1>4 DEF FixInv, Holds, Sid, Editing, CallMoves, Handling, Proposed
<1>9. \A t \in Sessions : OwnsTree(t)'
  BY <1>2 DEF FixInv, OwnsTree, Editing
<1>10. \A m \in Seconds : Accounted(m)'
  BY <1>2, <1>6 DEF FixInv, Accounted, Editing, Known
<1>11. ASSUME NEW m \in Seconds, m # n, m \notin unseen
       PROVE  Scored(m)'
  <2>1. \A d \in ToolCalls : toolCall'[d] = toolCall[d] \/
          ((toolCall[d].pc \in Handling => toolCall[d].name = n)
            /\ (toolCall'[d].pc \in Handling => toolCall'[d].name = n))
    BY <1>1, <1>3, <1>4 DEF CallMoves, Handling, Proposed
  <2> QED
    BY <1>2, <1>11, <2>1, OtherBranches DEF hubVars
<1> QED
  BY <1>2, <1>5, <1>7, <1>8, <1>9, <1>10, <1>11 DEF FixInv

(* A proposal writes to GitHub, and its call goes on. *)
LEMMA HubStep ==
  ASSUME FixInv, NEW c \in ToolCalls, NEW pc \in {"create", "drop"}, Goto(c, pc),
         NEW n \in Seconds, n = toolCall[c].name,
         toolCall[c].pc \in Proposed, UNCHANGED <<sessionVars, fixRow>>,
         heads' \in [Seconds -> Seq(Nat)], prs' \subseteq PrRecords,
         \A m \in Seconds : m # n => heads'[m] = heads[m],
         \A pr \in prs' : pr.name # n => pr \in prs,
         n \notin unseen => Scored(n)'
  PROVE  FixInv'
<1> USE DEF sessionVars
<1>2. CallMoves(c) /\ toolCall'[c] = [toolCall[c] EXCEPT !.pc = pc]
  BY Moving DEF FixInv, Handling, Proposed
<1>3. /\ toolCall'[c].pc = pc /\ toolCall'[c].sid = toolCall[c].sid
      /\ toolCall'[c].name = n
  BY <1>2 DEF FixInv, FixTyped, CallRecords
<1>4. FixTyped'
  BY <1>2 DEF FixInv, FixTyped, CallMoves
<1>5. \A d \in ToolCalls, m \in Seconds : Opening(d, m)' <=> Opening(d, m)
  BY <1>2, <1>3 DEF Opening, At, CallMoves, Proposed
<1>6. \A d \in ToolCalls : OpensAlone(d)'
  BY <1>2, <1>3, <1>5 DEF FixInv, OpensAlone, Editing, At, CallMoves
<1>7. \A d \in ToolCalls : Holds(d)'
  <2>1. Holds(c)'
    BY <1>3 DEF FixInv, Holds, Sid, Editing, Handling, Proposed, Proposing
  <2>2. ASSUME NEW d \in ToolCalls, d # c PROVE Holds(d)'
    BY <1>2, <2>2 DEF FixInv, Holds, Sid, Editing, CallMoves
  <2> QED
    BY <2>1, <2>2
<1>8. \A t \in Sessions : OwnsTree(t)'
  BY DEF FixInv, OwnsTree, Editing
<1>9. \A m \in Seconds : Accounted(m)'
  BY <1>5 DEF FixInv, Accounted, Editing, Known
<1>10. ASSUME NEW m \in Seconds, m # n, m \notin unseen
       PROVE  Scored(m)'
  <2>1. \A d \in ToolCalls : toolCall'[d] = toolCall[d] \/
          ((toolCall[d].pc \in Handling => toolCall[d].name = n)
            /\ (toolCall'[d].pc \in Handling => toolCall'[d].name = n))
    BY <1>2, <1>3 DEF CallMoves
  <2> QED
    BY <1>10, <2>1, OtherBranches
<1> QED
  BY <1>4, <1>6, <1>7, <1>8, <1>9, <1>10 DEF FixInv

(* What holds of a branch whose fix is being proposed.                     *)
LEMMA Proposer ==
  ASSUME FixInv, NEW c \in ToolCalls, NEW n \in Seconds \ unseen, Proposes(c, n)
  PROVE  /\ Follows(c, n) /\ n \in branches /\ Scored(n)
         /\ \A d \in ToolCalls : Proposes(d, n) => d = c
         /\ \A pr \in prs : pr.name # n
         /\ worktrees[n].there => worktrees[n].commits # <<>>
  BY DEF FixInv, Scored, Untouched

LEMMA PushStep ==
  ASSUME FixInv, NEW c \in ToolCalls, PushBranch(c)
  PROVE  FixInv'
<1>1. PICK n \in Seconds : n = toolCall[c].name
  BY DEF FixInv, FixTyped, CallRecords
<1>2. /\ toolCall[c].pc = "push" /\ worktrees[n].there
      /\ heads' = [heads EXCEPT ![n] = worktrees[n].commits]
      /\ prs' = prs /\ fixRow' = fixRow /\ UNCHANGED sessionVars
      /\ Goto(c, "create")
  BY <1>1 DEF PushBranch, At
<1>3. heads \in [Seconds -> Seq(Nat)] /\ worktrees[n].commits \in Seq(Nat) /\ prs \subseteq PrRecords
  BY DEF FixInv, FixTyped, Trees
<1>4. /\ heads' \in [Seconds -> Seq(Nat)] /\ heads'[n] = worktrees[n].commits
      /\ \A m \in Seconds : m # n => heads'[m] = heads[m]
  BY <1>2, <1>3
<1>5. CallMoves(c) /\ toolCall'[c] = [toolCall[c] EXCEPT !.pc = "create"]
  BY <1>2, Moving DEF FixInv, Handling, Proposed
<1>6. /\ toolCall'[c].pc = "create" /\ toolCall'[c].sid = toolCall[c].sid
      /\ toolCall'[c].name = n /\ toolCall'[c].size = toolCall[c].size
      /\ toolCall'[c].tests = toolCall[c].tests /\ toolCall[c].size \in Nat
  BY <1>1, <1>5 DEF FixInv, FixTyped, CallRecords
<1>7. Proposes(c, n)
  BY <1>1, <1>2 DEF Proposes, Proposed
<1>8. ASSUME n \notin unseen
      PROVE  Scored(n)'
  <2>1. /\ Follows(c, n) /\ n \in branches /\ Scored(n)
        /\ \A d \in ToolCalls : Proposes(d, n) => d = c
        /\ \A pr \in prs : pr.name # n
        /\ worktrees[n].there => worktrees[n].commits # <<>>
    BY <1>7, <1>8, Proposer
  <2>2. \A d \in ToolCalls : Proposes(d, n)' => d = c
    BY <1>5, <2>1 DEF Proposes, CallMoves
  <2>3. Localized(toolCall[c].size, EditLines * toolCall[c].size) /\ toolCall[c].tests # "failed"
    BY <1>2, <2>1 DEF Follows
  <2>4. worktrees[n].commits = <<toolCall[c].size>>
    <3>1. toolCall[c].size # 0
      BY <2>3 DEF Localized
    <3> QED
      BY <1>2, <2>1, <3>1 DEF Follows, Proposed
  <2>5. Follows(c, n)'
    BY <1>2, <1>4, <1>6, <2>3, <2>4 DEF Follows, Proposed, sessionVars
  <2>6. \A d \in ToolCalls : toolCall[d].pc \in Proposed \cup {"drop"} =>
          toolCall'[d].pc \in Proposed \cup {"drop"} /\ Sid(d)' = Sid(d)
    BY <1>5, <1>6 DEF CallMoves, Sid, Proposed
  <2>7. \A t \in Sessions : Editing(t)' /\ session'[t].name = n /\ Usable(t)' =>
          \E d \in ToolCalls : Sid(d)' = t /\ toolCall'[d].pc \in Proposed \cup {"drop"}
    BY <1>2, <2>1, <2>6 DEF Scored, Editing, Usable, Known, sessionVars
  <2> QED
    BY <1>2, <2>1, <2>2, <2>5, <2>7 DEF Scored, sessionVars
<1> QED
  BY <1>1, <1>2, <1>3, <1>4, <1>8, HubStep DEF Proposed

LEMMA CreateStep ==
  ASSUME FixInv, NEW c \in ToolCalls, CreatePr(c)
  PROVE  FixInv'
<1>1. PICK n \in Seconds : n = toolCall[c].name
  BY DEF FixInv, FixTyped, CallRecords
<1> DEFINE new == [name |-> n, size |-> toolCall[c].size, tests |-> toolCall[c].tests]
<1>2. /\ toolCall[c].pc = "create" /\ prs' = prs \cup {new}
      /\ heads' = heads /\ fixRow' = fixRow /\ UNCHANGED sessionVars
      /\ Goto(c, "drop")
  BY <1>1 DEF CreatePr, At
<1>3. heads \in [Seconds -> Seq(Nat)] /\ prs \subseteq PrRecords
  BY DEF FixInv, FixTyped
<1>4. /\ new \in PrRecords /\ new.name = n /\ new.size = toolCall[c].size
      /\ new.tests = toolCall[c].tests
  BY DEF FixInv, FixTyped, CallRecords, PrRecords
<1> HIDE DEF new
<1>5. CallMoves(c) /\ toolCall'[c] = [toolCall[c] EXCEPT !.pc = "drop"]
  BY <1>2, Moving DEF FixInv, Handling
<1>6. /\ toolCall'[c].pc = "drop" /\ toolCall'[c].sid = toolCall[c].sid
  BY <1>5 DEF FixInv, FixTyped, CallRecords
<1>7. Proposes(c, n)
  BY <1>1, <1>2 DEF Proposes, Proposed
<1>8. ASSUME n \notin unseen
      PROVE  Scored(n)'
  <2>1. /\ Follows(c, n) /\ n \in branches /\ Scored(n)
        /\ \A d \in ToolCalls : Proposes(d, n) => d = c
        /\ \A pr \in prs : pr.name # n
        /\ worktrees[n].there => worktrees[n].commits # <<>>
    BY <1>7, <1>8, Proposer
  <2>2. \A d \in ToolCalls : ~Proposes(d, n)'
    BY <1>5, <1>6, <2>1 DEF Proposes, CallMoves, Proposed
  <2>3. /\ heads[n] = <<toolCall[c].size>> /\ toolCall[c].tests # "failed"
        /\ Localized(toolCall[c].size, EditLines * toolCall[c].size)
    BY <1>2, <2>1 DEF Follows
  <2>4. \A d \in ToolCalls : toolCall[d].pc \in Proposed \cup {"drop"} =>
          toolCall'[d].pc \in Proposed \cup {"drop"} /\ Sid(d)' = Sid(d)
    BY <1>5, <1>6 DEF CallMoves, Sid
  <2>5. \A t \in Sessions : Editing(t)' /\ session'[t].name = n /\ Usable(t)' =>
          \E d \in ToolCalls : Sid(d)' = t /\ toolCall'[d].pc \in Proposed \cup {"drop"}
    BY <1>2, <1>7, <2>1, <2>4 DEF Scored, Editing, Usable, Known, sessionVars, Proposes, FixInv, Holds, OwnsTree, Handling, Proposed, Proposing
  <2>6. \A pr \in prs' : pr.name = n => pr = new
    BY <1>2, <2>1
  <2> QED
    BY <1>2, <1>4, <2>1, <2>2, <2>3, <2>5, <2>6 DEF Scored, sessionVars
<1> QED
  BY <1>1, <1>2, <1>3, <1>4, <1>8, HubStep DEF Proposed

-----------------------------------------------------------------------------
(* The theorems. *)

LEMMA FixInitially == FixInit => FixInv
<1>1. 0 \in Seconds /\ <<>> \in Seq(Nat)
  BY SessionsAssumption DEF Seconds
<1>2. NoTree \in Trees /\ ~NoTree.there
  BY <1>1 DEF NoTree, Trees
<1>3. NoSession \in SessionRecords /\ NoSession.mode = "none"
  BY <1>1 DEF NoSession, SessionRecords
<1>4. NoToolCall \in CallRecords /\ NoToolCall.pc = "idle"
  BY <1>1 DEF NoToolCall, CallRecords, TestVerdicts
<1> SUFFICES ASSUME FixInit PROVE FixInv
  OBVIOUS
<1> USE DEF FixInit, SessionsInit
<1>5. FixTyped
  BY <1>1, <1>2, <1>3, <1>4 DEF FixTyped, FixRows
<1>6. \A c \in ToolCalls : OpensAlone(c) /\ Holds(c)
  BY <1>4 DEF OpensAlone, Holds, Opening, At, Handling, Proposed
<1>7. \A s \in Sessions : OwnsTree(s)
  BY <1>3 DEF OwnsTree, Editing
<1>8. \A n \in Seconds : Accounted(n)
  BY <1>2 DEF Accounted
<1>9. \A n \in Seconds : Scored(n)
  BY <1>2, <1>4 DEF Scored, Untouched, Proposes, Proposed
<1> QED
  BY <1>5, <1>6, <1>7, <1>8, <1>9 DEF FixInv

LEMMA FixStep == FixInv /\ [FixNext]_fixVars => FixInv'
<1> SUFFICES ASSUME FixInv, [FixNext]_fixVars PROVE FixInv'
  OBVIOUS
<1>0. second \in Seconds /\ fixRow \in FixRows
  BY DEF FixInv, FixTyped
<1>1. ASSUME NEW c \in ToolCalls, CallSteps(c) PROVE FixInv'
  BY <1>1, IssueStep, AddStep, StartStep, UpStep, FailsStep, SendStep, EndStep, CloseStep,
     ProposeStep, CommitStep, MeasureStep, TimesOutStep, ScoreStep, FindStep, PushStep,
     CreateStep, DropStep DEF CallSteps
<1>2. ASSUME NEW s \in Sessions, Coding(s),
             UNCHANGED <<toolCall, toolCalls, hubVars, fixRow>>
      PROVE  FixInv'
  <2>1. CASE WorkEnds(s)
    BY <1>0, <1>2, <2>1, UnmovedStep DEF WorkEnds, Still
  <2> QED
    BY <1>2, <2>1, EditStep, AgentCommitStep, DiesStep DEF Coding
<1>3. CASE Tick /\ UNCHANGED <<toolCall, toolCalls, hubVars, fixRow>>
  <2>1. second' \in Seconds
    BY <1>0, <1>3, SessionsAssumption DEF Tick, Seconds
  <2> QED
    BY <1>0, <1>3, <2>1, UnmovedStep DEF Tick, Still
<1>4. CASE FlowEnds
  <2>1. fixRow' \in FixRows
    BY <1>0, <1>4 DEF FlowEnds, FixRows
  <2> QED
    BY <1>0, <1>4, <2>1, UnmovedStep DEF FlowEnds, Still, sessionVars, hubVars
<1>5. CASE UNCHANGED fixVars
  BY <1>0, <1>5, UnmovedStep DEF fixVars, Still, sessionVars, hubVars
<1> QED
  BY <1>1, <1>2, <1>3, <1>4, <1>5, RestartStep DEF FixNext

LEMMA FixInvariant == FixSpec => []FixInv
  BY FixInitially, FixStep, PTL DEF FixSpec

(* A worktree on disk has a session that ends it, or was left behind by a  *)
(* restart or by git, whatever the sessions, calls and bounds.             *)
THEOREM WorktreesHaveAnEnd == FixSpec => []WorktreesAccounted
<1>1. FixInv => WorktreesAccounted
  BY DEF FixInv, Accounted, WorktreesAccounted
<1> QED
  BY FixInvariant, <1>1, PTL

(* The branch of a draft pull request is the one small commit that was     *)
(* scored, unless a commit was made that no score saw.                     *)
THEOREM DraftsAreScored == FixSpec => []PrsAreScored
<1>1. FixInv => PrsAreScored
  BY DEF FixInv, FixTyped, PrRecords, Scored, PrsAreScored
<1> QED
  BY FixInvariant, <1>1, PTL
====
