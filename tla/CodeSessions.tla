---------------------------- MODULE CodeSessions ----------------------------
(***************************************************************************)
(* The coding-agent sessions of one pod (core/code_agent.py): a server     *)
(* process per session and, in edit mode, a git worktree of the cached     *)
(* clone on a fix branch of its own.  A worktree is the sizes of the       *)
(* commits its branch has beyond its base, and the edits not committed.    *)
(*                                                                         *)
(* OpenCode itself is external: while it works on a message of an edit     *)
(* session it edits files, and it may commit them ("full tools").  It      *)
(* goes on working when the client has given up waiting.                   *)
(***************************************************************************)
EXTENDS Naturals, Sequences

CONSTANTS
  Sessions,       (* identifiers OpenCode hands out *)
  MaxSecond,      (* bound: seconds the clock shows; a worktree is named for one *)
  SessionBudget,  (* seconds after which a session takes no message *)
  MaxEdits,       (* bound: edits in all *)
  AgentCommits    (* may the coding agent commit by itself? *)

ASSUME SessionsAssumption == {MaxSecond, SessionBudget, MaxEdits} \subseteq Nat

VARIABLES
  second,     (* int(time.time()) *)
  worktrees,  (* on disk, by the second they are named for *)
  branches,   (* argus/fix-s<second>: the branches the clone has; none is deleted *)
  session,    (* _sessions *)
  working,    (* sessions whose server works on a message *)
  edits,      (* history: edits made so far *)
  leftover,   (* history: worktrees the pod left behind, and why *)
  unseen      (* history: branches with a commit that no score was taken of *)

sessionVars ==
  <<second, worktrees, branches, session, working, edits, leftover, unseen>>

Seconds == 0 .. MaxSecond
NoTree == [commits |-> <<>>, dirty |-> 0, there |-> FALSE]
FreshTree == [NoTree EXCEPT !.there = TRUE]
NoSession ==
  [mode |-> "none", name |-> 0, started |-> 0, alive |-> FALSE, open |-> FALSE]

SessionsInit ==
  /\ second = 0
  /\ worktrees = [n \in Seconds |-> NoTree]
  /\ branches = {}
  /\ session = [s \in Sessions |-> NoSession]
  /\ working = {}
  /\ edits = 0
  /\ leftover = [n \in Seconds |-> "none"]
  /\ unseen = {}

Known(s) == session[s].open   (* its handle is in _sessions *)
Editing(s) == session[s].mode = "edit"
TreeOf(s) == worktrees[session[s].name]

(* _get: the session is known and its server runs; otherwise it raises.    *)
Usable(s) == Known(s) /\ session[s].alive

(* git worktree add -b: refused when the branch or the directory is there. *)
CanAddTree(n) == n \notin branches /\ ~worktrees[n].there

AddTree(n) ==
  /\ CanAddTree(n)
  /\ worktrees' = [worktrees EXCEPT ![n] = FreshTree]
  /\ branches' = branches \cup {n}
  /\ UNCHANGED <<second, session, working, edits, leftover, unseen>>

(* _remove_worktree: a failure is logged and the directory stays.          *)
RemoveTree(n) ==
  \/ /\ worktrees' = [worktrees EXCEPT ![n] = NoTree]
     /\ UNCHANGED leftover
  \/ /\ worktrees' = worktrees
     /\ leftover' = [leftover EXCEPT ![n] = "failed"]

(* The server came up: the session is entered under the identifier it gave.*)
Register(s, mode, n) ==
  /\ session[s] = NoSession
  /\ session' = [session EXCEPT ![s] =
       [mode |-> mode, name |-> n, started |-> second, alive |-> TRUE, open |-> TRUE]]
  /\ UNCHANGED <<second, worktrees, branches, working, edits, leftover, unseen>>

(* Mutant: the exception handler forgets the worktree. *)
StartFailedKept(mode, n) == UNCHANGED sessionVars

(* It did not: the process is killed and the worktree goes.                *)
StartFailed(mode, n) ==
  /\ IF mode = "edit" THEN RemoveTree(n) ELSE UNCHANGED <<worktrees, leftover>>
  /\ UNCHANGED <<second, branches, session, working, edits, unseen>>

WithinBudget(s) == second - session[s].started <= SessionBudget

Message(s) ==
  /\ working' = working \cup {s}
  /\ UNCHANGED <<second, worktrees, branches, session, edits, leftover, unseen>>

(* The client has its answer, the provider's error, or has waited          *)
(* send_timeout; in the last case the server works on.                     *)
Reply(s, answered) ==
  /\ working' = IF answered THEN working \ {s} ELSE working
  /\ UNCHANGED <<second, worktrees, branches, session, edits, leftover, unseen>>

Edit(s) ==
  /\ s \in working /\ Editing(s) /\ TreeOf(s).there
  /\ edits < MaxEdits
  /\ edits' = edits + 1
  /\ worktrees' = [worktrees EXCEPT ![session[s].name].dirty = @ + 1]
  /\ UNCHANGED <<second, branches, session, working, leftover, unseen>>

Committed(t) == [t EXCEPT !.commits = Append(@, t.dirty), !.dirty = 0]

CommitTree(n) == worktrees' = [worktrees EXCEPT ![n] = Committed(@)]

(* The coding agent commits what it did so far.                            *)
AgentCommit(s) ==
  /\ AgentCommits
  /\ s \in working /\ Editing(s) /\ TreeOf(s).there /\ TreeOf(s).dirty > 0
  /\ CommitTree(session[s].name)
  /\ unseen' = unseen \cup {session[s].name}
  /\ UNCHANGED <<second, branches, session, working, edits, leftover>>

(* The work for a message that nobody waits for any more is done.          *)
WorkEnds(s) ==
  /\ s \in working
  /\ working' = working \ {s}
  /\ UNCHANGED <<second, worktrees, branches, session, edits, leftover, unseen>>

Gone(r) == [r EXCEPT !.alive = FALSE, !.open = FALSE]

(* end(), once _get has returned: the process is killed, the worktree      *)
(* removed and the session forgotten.  The branch stays.                   *)
Close(s) ==
  /\ IF Editing(s) THEN RemoveTree(session[s].name)
     ELSE UNCHANGED <<worktrees, leftover>>
  /\ session' = [session EXCEPT ![s] = Gone(@)]
  /\ working' = working \ {s}
  /\ UNCHANGED <<second, branches, edits, unseen>>

ServerDies(s) ==
  /\ Usable(s)
  /\ session' = [session EXCEPT ![s].alive = FALSE]
  /\ working' = working \ {s}
  /\ UNCHANGED <<second, worktrees, branches, edits, leftover, unseen>>

(* The pod restarts: _sessions is empty, the disk is as it was.            *)
PodRestarts ==
  /\ session' = [s \in Sessions |-> Gone(session[s])]
  /\ working' = {}
  /\ leftover' = [n \in Seconds |->
       IF worktrees[n].there /\ leftover[n] = "none" THEN "restart" ELSE leftover[n]]
  /\ UNCHANGED <<second, worktrees, branches, edits, unseen>>

Tick ==
  /\ second < MaxSecond
  /\ second' = second + 1
  /\ UNCHANGED <<worktrees, branches, session, working, edits, leftover, unseen>>
=============================================================================
