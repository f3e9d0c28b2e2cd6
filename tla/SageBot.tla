------------------------------ MODULE SageBot -------------------------------
(***************************************************************************)
(* The Slack bot (bot/slack.py) and the interactive terminal.  A mention   *)
(* is handled on one of Bolt's threads; `debug' and `oracle' questions run *)
(* on a thread of their own, at most InvestigationLimit at a time.  Every  *)
(* lock section is a step, and so is every call of Slack or of the         *)
(* database that the code may survive.  Slack is external: a call may fail.*)
(***************************************************************************)
EXTENDS Naturals, Sequences, SequencesExt, FiniteSets

CONSTANTS
  Threads,                (* thread_ts *)
  SessionIds,
  InvestigationLimit,     (* _investigation_limit *)
  MaxQuestions,           (* bounds the questions asked *)
  MaxSlackFaults,         (* bounds failed calls of Slack and of the table *)
  MaxBotRestarts          (* bounds restarts of the server *)

ASSUME SageAssumption ==
  /\ {InvestigationLimit, MaxQuestions, MaxSlackFaults, MaxBotRestarts} \subseteq Nat
  /\ "none" \notin SessionIds

Questions == 1 .. MaxQuestions

VARIABLES
  live,        (* per thread the session it holds *)
  resuming,    (* per thread what `oracle resume' has loaded and not yet put there *)
  savedTurns,  (* per id the row's messages; empty when there is none *)
  issued,      (* history: ids given to a session *)
  slots,       (* _active_investigations *)
  run,         (* per question, its thread *)
  terminal,    (* the InteractiveSession *)
  asked,
  contested,   (* history: sessions used from two sides, or in a busy thread *)
  slackFaults, botRestarts

sessionVars == <<live, resuming, savedTurns, issued, contested>>
sageVars == <<sessionVars, slots, run, terminal, asked, slackFaults, botRestarts>>

-----------------------------------------------------------------------------
(* Oracle sessions: conversations of several questions, kept in memory by  *)
(* Slack thread (_oracle_sessions of bot/slack.py) or by the terminal      *)
(* (interactive.py), and in the table oracle_sessions (storage/queries.py) *)
(* under their id.  A question stands for the turn that answered it.       *)

NoSession == [sid |-> "none", turns |-> <<>>]

SessionsInit ==
  /\ live = [t \in Threads |-> NoSession]
  /\ resuming = [t \in Threads |-> NoSession]
  /\ savedTurns = [s \in SessionIds |-> <<>>]
  /\ issued = {}

Open(t) == live[t] # NoSession

(* The session a question in t belongs to; a uuid4 if it opens one.        *)
SessionFor(t) == IF Open(t) THEN {live[t].sid} ELSE SessionIds \ issued

Enter(t, s) ==
  /\ live' = IF Open(t) THEN live ELSE [live EXCEPT ![t] = [NoSession EXCEPT !.sid = s]]
  /\ issued' = issued \cup {s}

(* run_oracle copies the thread's history when it starts, whatever session *)
(* the thread holds by then.                                               *)
Base(t) == live[t].turns

(* Mutant: the conversation starts over with each question. *)
NewHistoryFresh(base, q) == <<q>>

(* The engine's messages without the system prompt: the history it was     *)
(* given, the question and what answered it.                               *)
NewHistory(base, q) == Append(base, q)

Keep(t, s, turns) == live' = [live EXCEPT ![t] = [sid |-> s, turns |-> turns]]

SaveSession(s, turns) == savedTurns' = [savedTurns EXCEPT ![s] = turns]

LoadSession(s) == savedTurns[s]

(* `oracle stop', or two hours without an answer. *)
Drop(t) == live' = [live EXCEPT ![t] = NoSession]
-----------------------------------------------------------------------------

NoRun == [at |-> "none", kind |-> "none", thread |-> "none", sid |-> "none",
          base |-> <<>>, pdf |-> FALSE, told |-> "nothing", failed |-> 0]

Closed == [at |-> "closed", sid |-> "none", turns |-> <<>>, snapshot |-> <<>>]

SageInit ==
  /\ SessionsInit
  /\ slots = 0 /\ run = [q \in Questions |-> NoRun]
  /\ terminal = Closed /\ asked = 0 /\ contested = {}
  /\ slackFaults = 0 /\ botRestarts = 0

Over == {"none", "over"}

Running(s) == \E q \in Questions : run[q].sid = s /\ run[q].at \notin Over
InThread(t) == {run[q].sid : q \in {p \in Questions : run[p].thread = t /\ run[p].at \notin Over}}
               \ {"none"}
HeldBy(s) == {t \in Threads : live[t].sid = s}

Contest(S) == contested' = contested \cup S

Fault == slackFaults < MaxSlackFaults /\ slackFaults' = slackFaults + 1

Step(q, from, to) == run[q].at = from /\ run' = [run EXCEPT ![q] = [@ EXCEPT !.at = to]]

Ends(q) == run' = [run EXCEPT ![q] = [NoRun EXCEPT !.at = "over"]]

-----------------------------------------------------------------------------
(* handle_mention.  Telling the user comes before the thread is started.   *)

NewRun(t, kind, s) ==
  /\ asked < MaxQuestions
  /\ asked' = asked + 1
  /\ \/ run' = [run EXCEPT ![asked + 1] = [NoRun EXCEPT !.at = "queued", !.kind = kind,
                                                       !.thread = t, !.sid = s]]
        /\ UNCHANGED slackFaults
     \/ Fault /\ Ends(asked + 1)
  /\ UNCHANGED <<slots, terminal, botRestarts>>

(* `oracle ...', or any question in a thread that holds a session. *)
AskOracle(t) ==
  \E s \in SessionFor(t) :
    /\ Enter(t, s)
    /\ Contest(IF Running(s) \/ InThread(t) # {} THEN {s} \cup InThread(t) ELSE {})
    /\ NewRun(t, "oracle", s)
    /\ UNCHANGED <<resuming, savedTurns>>

AskDebug(t) ==
  /\ ~Open(t)
  /\ NewRun(t, "debug", "none")
  /\ UNCHANGED sessionVars

(* Anything else is answered without tools, and without a slot. *)
AskChat(t) ==
  /\ ~Open(t)
  /\ asked < MaxQuestions /\ asked' = asked + 1
  /\ Ends(asked + 1)
  /\ UNCHANGED <<sessionVars, slots, terminal, slackFaults, botRestarts>>

rest == <<slots, run, terminal, asked, slackFaults, botRestarts>>

OracleStop(t) ==
  /\ Open(t)
  /\ Drop(t)
  /\ Contest(InThread(t))
  /\ UNCHANGED <<resuming, savedTurns, issued, rest>>

(* The row is read before the lock is taken. *)
ResumeLoads(t) ==
  /\ resuming[t] = NoSession
  /\ \E s \in issued : resuming' = [resuming EXCEPT ![t] = [sid |-> s, turns |-> LoadSession(s)]]
  /\ UNCHANGED <<live, savedTurns, issued, contested, rest>>

ResumeSets(t) ==
  LET s == resuming[t].sid IN
  /\ resuming[t] # NoSession
  /\ Keep(t, s, resuming[t].turns)
  /\ resuming' = [resuming EXCEPT ![t] = NoSession]
  /\ Contest(InThread(t) \cup
             IF \/ Running(s) \/ InThread(t) # {} \/ HeldBy(s) \ {t} # {}
                \/ terminal.sid = s \/ resuming[t].turns # savedTurns[s]
             THEN {s} ELSE {})
  /\ UNCHANGED <<savedTurns, issued, rest>>

-----------------------------------------------------------------------------
(* run_oracle and run_investigation.                                       *)

others == <<terminal, asked, botRestarts>>

(* Mutant: a question that is turned away gives back a slot as well. *)
TurnAwayReleasing(q) == Ends(q) /\ slots' = slots - 1

(* "Investigation queue full, try again in a few minutes." *)
TurnAway(q) == Ends(q) /\ UNCHANGED slots

TakeSlot(q) ==
  /\ run[q].at = "queued"
  /\ IF slots < InvestigationLimit
     THEN Step(q, "queued", "ready") /\ slots' = slots + 1
     ELSE TurnAway(q)
  /\ UNCHANGED <<sessionVars, slackFaults, others>>

CopyHistory(q) ==
  /\ run[q].at = "ready"
  /\ run' = [run EXCEPT ![q] =
                [@ EXCEPT !.at = "asking",
                          !.base = IF run[q].kind = "oracle" THEN Base(run[q].thread) ELSE <<>>]]
  /\ UNCHANGED <<sessionVars, slots, slackFaults, others>>

(* The engine is done or out of steps. *)
OracleAnswers(q) ==
  /\ run[q].kind = "oracle" /\ Step(q, "asking", "saving")
  /\ Keep(run[q].thread, run[q].sid, NewHistory(run[q].base, q))
  /\ UNCHANGED <<resuming, savedTurns, issued, contested, slots, slackFaults, others>>

SaveTurn(q) ==
  /\ Step(q, "saving", "posting")
  /\ \/ SaveSession(run[q].sid, NewHistory(run[q].base, q)) /\ UNCHANGED slackFaults
     \/ Fault /\ UNCHANGED savedTurns
  /\ UNCHANGED <<live, resuming, issued, contested, slots, others>>

(* The PDF is made, or that fails too. *)
DebugAnswers(q) ==
  /\ run[q].kind = "debug" /\ run[q].at = "asking"
  /\ \E pdf \in BOOLEAN :
       run' = [run EXCEPT ![q] = [@ EXCEPT !.at = "posting", !.pdf = pdf]]
  /\ UNCHANGED <<sessionVars, slots, slackFaults, others>>

Failed(r, to) == [r EXCEPT !.at = to, !.failed = r.failed + 1]

Told(r, what) == [r EXCEPT !.at = "closing", !.told = what]

(* Whatever is raised by the engine, or by the first post. *)
Raises(q) ==
  /\ run[q].at = "asking"
  /\ run' = [run EXCEPT ![q] = Failed(@, "failing")]
  /\ UNCHANGED <<sessionVars, slots, slackFaults, others>>

(* Mutant: the path of the PDF that could not be uploaded is kept. *)
NoUploadKeeping(q) == Failed(run[q], "closing")

NoUpload(q) == [Failed(run[q], "posting") EXCEPT !.pdf = FALSE]

Upload(q) ==
  /\ run[q].at = "posting" /\ run[q].pdf
  /\ \/ run' = [run EXCEPT ![q] = Told(@, "pdf")] /\ UNCHANGED slackFaults
     \/ Fault /\ run' = [run EXCEPT ![q] = NoUpload(q)]
  /\ UNCHANGED <<sessionVars, slots, others>>

PostText(q) ==
  /\ run[q].at = "posting" /\ ~run[q].pdf
  /\ \/ run' = [run EXCEPT ![q] = Told(@, "text")] /\ UNCHANGED slackFaults
     \/ Fault /\ run' = [run EXCEPT ![q] = Failed(@, "failing")]
  /\ UNCHANGED <<sessionVars, slots, others>>

SayFailed(q) ==
  /\ run[q].at = "failing"
  /\ \/ run' = [run EXCEPT ![q] = Told(@, "error")] /\ UNCHANGED slackFaults
     \/ Fault /\ run' = [run EXCEPT ![q] = Failed(@, "closing")]
  /\ UNCHANGED <<sessionVars, slots, others>>

ReleaseSlot(q) ==
  /\ run[q].at = "closing" /\ Ends(q)
  /\ slots' = slots - 1
  /\ UNCHANGED <<sessionVars, slackFaults, others>>

-----------------------------------------------------------------------------
(* The terminal: one person, one question at a time.                       *)

TerminalOnly == UNCHANGED <<live, resuming, slots, run, slackFaults, botRestarts>>

TerminalOpens ==
  /\ terminal = Closed
  /\ \E s \in SessionIds :
       /\ terminal' = [Closed EXCEPT !.at = "prompt", !.sid = s, !.turns = LoadSession(s)]
       /\ issued' = issued \cup {s}
       /\ Contest(IF Running(s) \/ HeldBy(s) # {} THEN {s} ELSE {})
  /\ UNCHANGED <<savedTurns, asked>> /\ TerminalOnly

TerminalAsks ==
  /\ terminal.at = "prompt" /\ asked < MaxQuestions
  /\ asked' = asked + 1
  /\ terminal' = [terminal EXCEPT !.at = "asking", !.snapshot = terminal.turns]
  /\ UNCHANGED <<savedTurns, issued, contested>> /\ TerminalOnly

(* A failure to save is logged and forgotten. *)
TerminalAnswers ==
  LET turns == NewHistory(terminal.turns, asked) IN
  /\ terminal.at = "asking"
  /\ terminal' = [terminal EXCEPT !.at = "prompt", !.turns = turns]
  /\ SaveSession(terminal.sid, turns) \/ UNCHANGED savedTurns
  /\ UNCHANGED <<asked, issued, contested>> /\ TerminalOnly

(* Ctrl-C, or an exception. *)
TerminalRollsBack ==
  /\ terminal.at = "asking"
  /\ terminal' = [terminal EXCEPT !.at = "prompt", !.turns = terminal.snapshot]
  /\ UNCHANGED <<savedTurns, asked, issued, contested>> /\ TerminalOnly

TerminalClears ==
  /\ terminal.at = "prompt"
  /\ \E s \in SessionIds \ issued :
       /\ terminal' = [Closed EXCEPT !.at = "prompt", !.sid = s]
       /\ issued' = issued \cup {s}
  /\ UNCHANGED <<savedTurns, asked, contested>> /\ TerminalOnly

TerminalCloses ==
  /\ terminal.at = "prompt" /\ terminal' = Closed
  /\ UNCHANGED <<savedTurns, asked, issued, contested>> /\ TerminalOnly

-----------------------------------------------------------------------------
BotRestarts ==
  /\ botRestarts < MaxBotRestarts /\ botRestarts' = botRestarts + 1
  /\ live' = [t \in Threads |-> NoSession] /\ resuming' = [t \in Threads |-> NoSession]
  /\ run' = [q \in Questions |-> IF run[q].at \in Over THEN run[q] ELSE NoRun]
  /\ slots' = 0
  /\ UNCHANGED <<savedTurns, issued, contested, terminal, asked, slackFaults>>

SageNext ==
  \/ \E t \in Threads :
       \/ AskOracle(t) \/ AskDebug(t) \/ AskChat(t) \/ OracleStop(t)
       \/ ResumeLoads(t) \/ ResumeSets(t)
  \/ \E q \in Questions :
       \/ TakeSlot(q) \/ CopyHistory(q) \/ OracleAnswers(q) \/ SaveTurn(q)
       \/ DebugAnswers(q) \/ Raises(q) \/ Upload(q) \/ PostText(q)
       \/ SayFailed(q) \/ ReleaseSlot(q)
  \/ TerminalOpens \/ TerminalAsks \/ TerminalAnswers \/ TerminalRollsBack
  \/ TerminalClears \/ TerminalCloses \/ BotRestarts

SageSpec == SageInit /\ [][SageNext]_sageVars
-----------------------------------------------------------------------------
(* "I'll remember context across your follow-up questions in this thread": *)
(* what is saved of a session only grows, through stops, resumptions,      *)
(* restarts and failures, unless it is used from two sides at once, or     *)
(* asked or resumed in a thread that still runs a question.                *)
SessionsOnlyGrow ==
  [][\A s \in SessionIds \ contested' : IsPrefix(savedTurns[s], savedTurns'[s])]_sageVars

(* An investigation that got a slot reaches the person who asked for it as *)
(* long as one thing at most goes wrong, be it the engine or a call to     *)
(* Slack: the PDF, else the text, else the error.                          *)
AnswersDelivered ==
  \A q \in Questions :
    run[q].at = "closing" /\ run[q].told = "nothing" => run[q].failed >= 2

(* The counter of investigations is the number of threads that run one:    *)
(* it neither leaks away the capacity nor exceeds it.                      *)
SlotsHeldByRuns ==
  /\ slots <= InvestigationLimit
  /\ slots = Cardinality({q \in Questions : run[q].at \notin Over \cup {"queued"}})

(* An investigation that is asked for ends for both sides. *)
RunsEndForBoth == AnswersDelivered /\ SlotsHeldByRuns
=============================================================================
