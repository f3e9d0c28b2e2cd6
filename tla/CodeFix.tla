------------------------------ MODULE CodeFix -------------------------------
(***************************************************************************)
(* The code_session tools one investigation calls (code_session.py), down  *)
(* to the score of a fix (core/fix_scorer.py) and the draft pull request   *)
(* (core/pr_creator.py).  A call runs on a tool thread: the calls of one   *)
(* turn run together, and one given up at the tool's deadline goes on      *)
(* beside those of the next turn.  Every command and request of a call is  *)
(* a step of its own.                                                      *)
(*                                                                         *)
(* GitHub is external: a branch on it is what was last pushed, a pull      *)
(* request shows its branch, and there is one open request per branch.     *)
(***************************************************************************)
EXTENDS CodeSessions

CONSTANTS
  ToolCalls,       (* tool threads *)
  MaxToolCalls,    (* bound: calls in all *)
  EditLines,       (* lines an edit changes; each edit is a file of its own *)
  GitHubConfigured

ASSUME FixAssumption == EditLines \in Nat \ {0} /\ MaxToolCalls \in Nat

VARIABLES
  toolCall,     (* the thread's call *)
  toolCalls,    (* history: calls made *)
  heads,        (* GitHub: the commits of each fix branch *)
  prs,          (* GitHub: pull requests, with what was known when it was opened *)
  fixRow        (* the investigation: its status and checkpointed sessions *)

hubVars == <<heads, prs>>
fixVars == <<sessionVars, toolCall, toolCalls, heads, prs, fixRow>>

NoToolCall ==
  [pc |-> "idle", sid |-> "none", mode |-> "none", name |-> 0, size |-> 0,
   read |-> {}, tests |-> "unknown"]

FixInit ==
  /\ SessionsInit
  /\ toolCall = [c \in ToolCalls |-> NoToolCall]
  /\ toolCalls = 0
  /\ heads = [n \in Seconds |-> <<>>]
  /\ prs = {}
  /\ fixRow = [status |-> "running", sessions |-> {}]

At(c, pc) == toolCall[c].pc = pc
Sid(c) == toolCall[c].sid
Goto(c, pc) == toolCall' = [toolCall EXCEPT ![c].pc = pc]
Answered(c) == toolCall' = [toolCall EXCEPT ![c] = NoToolCall]

(* The exception or error result of a handler; the model reads it.         *)
Fails(c) == Answered(c) /\ UNCHANGED <<sessionVars, hubVars, toolCalls, fixRow>>

-----------------------------------------------------------------------------
(* execute: the four tools.  The model may name any handle it was given.   *)

Handles == {s \in Sessions : session[s] # NoSession}

Issue(c) ==
  /\ At(c, "idle") /\ toolCalls < MaxToolCalls
  /\ toolCalls' = toolCalls + 1
  /\ \/ \E mode \in {"read", "edit"} :
          toolCall' = [toolCall EXCEPT ![c] =
            [NoToolCall EXCEPT !.pc = "start", !.mode = mode]]
     \/ \E tool \in {"send", "end", "propose"}, s \in Handles :
          toolCall' = [toolCall EXCEPT ![c] =
            [NoToolCall EXCEPT !.pc = tool, !.sid = s, !.name = session[s].name]]
  /\ UNCHANGED <<sessionVars, hubVars, fixRow>>

(* code_session_start; the worktree is named for the second it is.         *)
AddWorktree(c) ==
  /\ At(c, "start") /\ toolCall[c].mode = "edit" /\ AddTree(second)
  /\ toolCall' = [toolCall EXCEPT ![c].pc = "serve", ![c].name = second]
  /\ UNCHANGED <<hubVars, toolCalls, fixRow>>

WorktreeRefused(c) ==
  At(c, "start") /\ toolCall[c].mode = "edit" /\ ~CanAddTree(second) /\ Fails(c)

ReadInPlace(c) ==
  /\ At(c, "start") /\ toolCall[c].mode = "read"
  /\ Goto(c, "serve")
  /\ UNCHANGED <<sessionVars, hubVars, toolCalls, fixRow>>

ServerUp(c) ==
  /\ At(c, "serve")
  /\ \E s \in Sessions : Register(s, toolCall[c].mode, toolCall[c].name)
  /\ Answered(c) /\ UNCHANGED <<hubVars, toolCalls, fixRow>>

ServerFails(c) ==
  /\ At(c, "serve") /\ StartFailed(toolCall[c].mode, toolCall[c].name)
  /\ Answered(c) /\ UNCHANGED <<hubVars, toolCalls, fixRow>>

(* code_session_send *)
Send(c) ==
  /\ At(c, "send") /\ Usable(Sid(c)) /\ WithinBudget(Sid(c))
  /\ Message(Sid(c))
  /\ Goto(c, "wait") /\ UNCHANGED <<hubVars, toolCalls, fixRow>>

SendRefused(c) ==
  At(c, "send") /\ ~(Usable(Sid(c)) /\ WithinBudget(Sid(c))) /\ Fails(c)

GotReply(c) ==
  /\ At(c, "wait")
  /\ \E answered \in BOOLEAN : Reply(Sid(c), answered)
  /\ Answered(c) /\ UNCHANGED <<hubVars, toolCalls, fixRow>>

(* code_session_end: _get, then close, then the checkpoint: the row's      *)
(* sessions are read, this one is added, the list is written back.         *)
End(c) ==
  /\ At(c, "end") /\ Usable(Sid(c))
  /\ Goto(c, "close") /\ UNCHANGED <<sessionVars, hubVars, toolCalls, fixRow>>

EndRefused(c) == At(c, "end") /\ ~Usable(Sid(c)) /\ Fails(c)

CloseSession(c) ==
  /\ At(c, "close") /\ Close(Sid(c))
  /\ Goto(c, "get") /\ UNCHANGED <<hubVars, toolCalls, fixRow>>

GetSessions(c) ==
  /\ At(c, "get")
  /\ toolCall' = [toolCall EXCEPT ![c].pc = "checkpoint", ![c].read = fixRow.sessions]
  /\ UNCHANGED <<sessionVars, hubVars, toolCalls, fixRow>>

CheckpointSession(c) ==
  /\ At(c, "checkpoint")
  /\ fixRow' = [fixRow EXCEPT !.sessions = toolCall[c].read \cup {Sid(c)}]
  /\ Answered(c) /\ UNCHANGED <<sessionVars, hubVars, toolCalls>>
-----------------------------------------------------------------------------
(* The score of a proposed fix, in hundredths, and what is done with it.   *)

LocalizedMaxFiles == 3
LocalizedMaxLines == 120
DraftPrThreshold == 70

TestVerdicts == {"passed", "failed", "unknown"}
RcaLevels == {"HIGH", "MEDIUM", "LOW"}

Weight(yes, points) == IF yes THEN points ELSE 0

Localized(files, lines) ==
  /\ 0 < files /\ files <= LocalizedMaxFiles
  /\ 0 < lines /\ lines <= LocalizedMaxLines

(* fix: [rca, exactLine, pattern, files, lines, tests] *)
Score(fix) ==
  Weight(fix.rca = "HIGH", 30) + Weight(fix.rca = "MEDIUM", 12)
  + Weight(fix.exactLine, 20) + Weight(fix.pattern, 15)
  + Weight(Localized(fix.files, fix.lines), 20) + Weight(fix.tests = "passed", 15)

(* Mutant: the size of the diff only counts towards the score. *)
ActionOnScore(fix) ==
  IF Score(fix) >= DraftPrThreshold /\ fix.tests # "failed"
  THEN "draft_pr" ELSE "propose_only"

Action(fix) ==
  IF /\ Score(fix) >= DraftPrThreshold
     /\ Localized(fix.files, fix.lines)
     /\ fix.tests # "failed"
  THEN "draft_pr"
  ELSE "propose_only"
-----------------------------------------------------------------------------
(* propose_fix *)

Proposing == {"commit", "measure", "mark", "find", "push", "create", "drop"}
Overlapped(c) == \E d \in ToolCalls \ {c} :
  Sid(d) = Sid(c) /\ toolCall[d].pc \in Proposing

Propose(c) ==
  /\ At(c, "propose") /\ Usable(Sid(c)) /\ Editing(Sid(c))
  /\ Goto(c, "commit") /\ UNCHANGED <<sessionVars, hubVars, toolCalls, fixRow>>

ProposeRefused(c) ==
  At(c, "propose") /\ ~(Usable(Sid(c)) /\ Editing(Sid(c))) /\ Fails(c)

(* commit_fix: everything that is staged becomes one commit.               *)
CommitFix(c) ==
  /\ At(c, "commit") /\ Usable(Sid(c))
  /\ TreeOf(Sid(c)).there /\ TreeOf(Sid(c)).dirty > 0
  /\ CommitTree(toolCall[c].name)
  /\ unseen' = IF Overlapped(c) THEN unseen \cup {toolCall[c].name} ELSE unseen
  /\ Goto(c, "measure")
  /\ UNCHANGED <<second, branches, session, working, edits, leftover>>
  /\ UNCHANGED <<hubVars, toolCalls, fixRow>>

(* Nothing is staged, or git refuses the commit: the session is ended.     *)
NothingCommitted(c) ==
  /\ At(c, "commit") /\ Usable(Sid(c))
  /\ Goto(c, "drop") /\ UNCHANGED <<sessionVars, hubVars, toolCalls, fixRow>>

CommitRefused(c) == At(c, "commit") /\ ~Usable(Sid(c)) /\ Fails(c)

(* git diff --numstat HEAD~1 HEAD: the last commit.                        *)
Measured(t) == IF t.there THEN t.commits[Len(t.commits)] ELSE 0

Measure(c) ==
  /\ At(c, "measure")
  /\ toolCall' = [toolCall EXCEPT ![c].pc = "mark",
                                  ![c].size = Measured(worktrees[toolCall[c].name])]
  /\ UNCHANGED <<sessionVars, hubVars, toolCalls, fixRow>>

(* git takes more than its 60 seconds: the exception leaves the handler,   *)
(* the commit and the session stay.                                        *)
MeasureTimesOut(c) ==
  /\ At(c, "measure")
  /\ unseen' = unseen \cup {toolCall[c].name}
  /\ Answered(c)
  /\ UNCHANGED <<second, worktrees, branches, session, working, edits, leftover>>
  /\ UNCHANGED <<hubVars, toolCalls, fixRow>>

(* The score, from what the model says of its own fix and the diff's size; *)
(* the row is marked whatever the decision.                                *)
ScoreFix(c) ==
  /\ At(c, "mark")
  /\ \E rca \in RcaLevels, exactLine, pattern \in BOOLEAN, tests \in TestVerdicts :
       LET fix == [rca |-> rca, exactLine |-> exactLine, pattern |-> pattern,
                   tests |-> tests, files |-> toolCall[c].size,
                   lines |-> EditLines * toolCall[c].size]
           pr == Action(fix) = "draft_pr" /\ GitHubConfigured
       IN toolCall' = [toolCall EXCEPT ![c].pc = IF pr THEN "find" ELSE "drop",
                                       ![c].tests = tests]
  /\ fixRow' = IF fixRow.status = "aborted" THEN fixRow
               ELSE [fixRow EXCEPT !.status = "awaiting_fix_review"]
  /\ UNCHANGED <<sessionVars, hubVars, toolCalls>>

OpenPr(n) == {pr \in prs : pr.name = n}

(* _find_pr: a lookup that fails is taken for no request.                  *)
FindPr(c) ==
  /\ At(c, "find")
  /\ \/ OpenPr(toolCall[c].name) # {} /\ Goto(c, "drop")
     \/ Goto(c, "push")
  /\ UNCHANGED <<sessionVars, hubVars, toolCalls, fixRow>>

(* git push HEAD:refs/heads/<branch>: what the branch is by now.           *)
PushBranch(c) ==
  /\ At(c, "push") /\ worktrees[toolCall[c].name].there
  /\ heads' = [heads EXCEPT ![toolCall[c].name] = worktrees[toolCall[c].name].commits]
  /\ Goto(c, "create") /\ UNCHANGED <<sessionVars, prs, toolCalls, fixRow>>

PushFails(c) ==
  /\ At(c, "push")
  /\ Goto(c, "drop") /\ UNCHANGED <<sessionVars, hubVars, toolCalls, fixRow>>

(* The request is opened (the answer may be lost), or GitHub refuses it.   *)
CreatePr(c) ==
  /\ At(c, "create") /\ OpenPr(toolCall[c].name) = {}
  /\ prs' = prs \cup {[name |-> toolCall[c].name, size |-> toolCall[c].size,
                       tests |-> toolCall[c].tests]}
  /\ Goto(c, "drop") /\ UNCHANGED <<sessionVars, heads, toolCalls, fixRow>>

CreateFails(c) ==
  /\ At(c, "create")
  /\ Goto(c, "drop") /\ UNCHANGED <<sessionVars, hubVars, toolCalls, fixRow>>

(* agent.end, last: it raises when the session is closed or its server is  *)
(* dead, and then the result is the error whatever was done.               *)
DropSession(c) ==
  /\ At(c, "drop")
  /\ IF Usable(Sid(c)) THEN Close(Sid(c)) ELSE UNCHANGED sessionVars
  /\ Answered(c) /\ UNCHANGED <<hubVars, toolCalls, fixRow>>
-----------------------------------------------------------------------------
(* The investigation ends or is aborted; a tool thread may still run.      *)
FlowEnds ==
  /\ fixRow.status \in {"running", "awaiting_fix_review"}
  /\ \E status \in {"done", "aborted"} : fixRow' = [fixRow EXCEPT !.status = status]
  /\ UNCHANGED <<sessionVars, toolCall, toolCalls, hubVars>>

Restart ==
  /\ PodRestarts
  /\ toolCall' = [c \in ToolCalls |-> NoToolCall]
  /\ UNCHANGED <<toolCalls, hubVars, fixRow>>

CallSteps(c) ==
  \/ Issue(c)
  \/ AddWorktree(c) \/ WorktreeRefused(c) \/ ReadInPlace(c)
  \/ ServerUp(c) \/ ServerFails(c)
  \/ Send(c) \/ SendRefused(c) \/ GotReply(c)
  \/ End(c) \/ EndRefused(c) \/ CloseSession(c)
  \/ GetSessions(c) \/ CheckpointSession(c)
  \/ Propose(c) \/ ProposeRefused(c)
  \/ CommitFix(c) \/ NothingCommitted(c) \/ CommitRefused(c)
  \/ Measure(c) \/ MeasureTimesOut(c) \/ ScoreFix(c)
  \/ FindPr(c) \/ PushBranch(c) \/ PushFails(c)
  \/ CreatePr(c) \/ CreateFails(c) \/ DropSession(c)

Coding(s) == Edit(s) \/ AgentCommit(s) \/ WorkEnds(s) \/ ServerDies(s)

FixNext ==
  \/ \E c \in ToolCalls : CallSteps(c)
  \/ (\E s \in Sessions : Coding(s))
       /\ UNCHANGED <<toolCall, toolCalls, hubVars, fixRow>>
  \/ Tick /\ UNCHANGED <<toolCall, toolCalls, hubVars, fixRow>>
  \/ FlowEnds
  \/ Restart

FixSpec == FixInit /\ [][FixNext]_fixVars
-----------------------------------------------------------------------------
(* What the fix path promises.                                             *)

(* The branch of a draft pull request is, as a whole, one small commit,    *)
(* the one that was scored, and its tests did not fail (propose_fix: "the  *)
(* system scores the fix and either opens a DRAFT PR (high confidence +    *)
(* localized + tests pass)"), unless the branch got a commit that no score *)
(* was taken of.                                                           *)
PrsAreScored ==
  \A pr \in prs : pr.name \notin unseen =>
    /\ heads[pr.name] = <<pr.size>>
    /\ Localized(pr.size, EditLines * pr.size)
    /\ pr.tests # "failed"

(* A worktree on disk belongs to an edit session that is open or being     *)
(* opened or closed; one that outlives it was left by a restart of the pod *)
(* or by a git that would not remove it ("worktree removed on end()").     *)
Opening(c, n) == At(c, "serve") /\ toolCall[c].mode = "edit" /\ toolCall[c].name = n

WorktreesAccounted ==
  \A n \in Seconds : worktrees[n].there =>
    \/ leftover[n] # "none"
    \/ \E s \in Sessions : Editing(s) /\ Known(s) /\ session[s].name = n
    \/ \E c \in ToolCalls : Opening(c, n)
=============================================================================
