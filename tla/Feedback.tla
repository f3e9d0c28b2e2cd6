------------------------------ MODULE Feedback ------------------------------
(***************************************************************************)
(* The learning loop: an investigation recalls runbooks and replays the    *)
(* best pattern (server.py), people confirm or reject its RCA in Slack     *)
(* (bot/slack.py) or on the console (ui/console_api.py), and both change   *)
(* what the next one recalls.  Composes Patterns, Runbooks and Learnings.  *)
(*                                                                         *)
(* A handler has a thread of its own.  It reads the category's text, asks  *)
(* an LLM, reads again and writes, so handlers interleave between any two  *)
(* of these.  In get, a text that is not cached is read (got = "filling")  *)
(* and put into the cache later.                                           *)
(***************************************************************************)
EXTENDS Naturals, Sequences, FiniteSets

CONSTANTS
  AlertNames, CauseTypes, Keywords, RunbookIds,
  Incidents,
  AlertOf,        (* the alert name of an incident *)
  Handlers,       (* handler threads; the fact a handler learns is named after it *)
  MayDo,          (* what a handler may be asked to do *)
  OldFacts,       (* facts learned before *)
  NotCached, Nothing,
  CompactSize,    (* facts above which a category is compacted; 50 in the code *)
  MaxPatterns,    (* bounds the rows of the store of patterns *)
  MaxCount,       (* bounds hits and misses of a runbook *)
  MaxEdits,       (* bounds edits and verdicts on the console *)
  MaxFaults       (* bounds failed calls to the database *)

HandlerKinds == {"confirm", "reject", "learn", "forget", "recall"}
Facts   == Handlers \cup OldFacts

ASSUME FeedbackAssumption ==
  /\ AlertOf \in [Incidents -> AlertNames]
  /\ MayDo \in [Handlers -> SUBSET HandlerKinds]
  /\ Keywords \subseteq Nat
  /\ {CompactSize, MaxPatterns, MaxCount, MaxEdits, MaxFaults} \subseteq Nat
  /\ Nothing \notin Incidents
  /\ \A S \in SUBSET Facts : S # NotCached

VARIABLES
  pattern, runbook, mapped, stored, cached,
  flow,      (* per incident, its investigation *)
  thread,    (* per handler, where it is *)
  rejected,  (* history: incidents whose last verdict on patterns is a no *)
  told,      (* history: facts whose handler said it had saved them *)
  alone,     (* history: no two handlers have been busy at once *)
  edits, faultsOfStore

P == INSTANCE Patterns
R == INSTANCE Runbooks
L == INSTANCE Learnings

flowVars    == <<flow, pattern>>
runbookVars == <<runbook, mapped>>
textVars    == <<stored, cached>>
feedbackVars == <<flowVars, runbookVars, textVars, thread, rejected, told,
                  alone, edits, faultsOfStore>>

NotStarted == [at |-> "new", tried |-> 0, by |-> "nobody", books |-> {}]

Waiting == [at |-> "idle", kind |-> "none", incident |-> Nothing, text |-> {}, got |-> "no"]

FeedbackInit ==
  /\ P!PatternsInit
  /\ runbook = [r \in RunbookIds |-> [R!NoRunbook EXCEPT !.status = "active"]]
  /\ mapped = {}
  /\ stored = OldFacts /\ cached = NotCached
  /\ flow = [i \in Incidents |-> NotStarted]
  /\ thread = [h \in Handlers |-> Waiting]
  /\ rejected = {} /\ told = {} /\ alone = TRUE
  /\ edits = 0 /\ faultsOfStore = 0

-----------------------------------------------------------------------------
(* An investigation, as far as it reads and moves confidence.              *)

flowOnly == UNCHANGED <<runbookVars, textVars, thread, rejected, told, alone,
                        edits, faultsOfStore>>

(* match_runbooks, whose answer becomes the incident's matched_runbook_ids. *)
Recall(i) ==
  /\ flow[i].at = "new"
  /\ \E S \in R!Matches(AlertOf[i]) :
       flow' = [flow EXCEPT ![i] = [@ EXCEPT !.at = "recalled", !.books = S]]
  /\ UNCHANGED pattern /\ flowOnly

(* The engine answers, with outputs of tools or (rarely) without any. *)
Investigated(i) == \E by \in {"tools", "talk"} :
                 flow' = [flow EXCEPT ![i] = [@ EXCEPT !.at = "posted", !.by = by]]

FetchPatterns(i) ==
  /\ flow[i].at = "recalled"
  /\ IF P!Candidates(AlertOf[i]) = {}
     THEN Investigated(i)
     ELSE \E p \in P!Best(AlertOf[i]) :
            flow' = [flow EXCEPT ![i] = [@ EXCEPT !.at = "replaying", !.tried = p]]
  /\ UNCHANGED pattern /\ flowOnly

(* The replay takes a while, and the pattern may change meanwhile.  A      *)
(* pattern without steps gives no verdict and is not counted as missed.    *)
Replay(i) ==
  LET p == flow[i].tried IN
  /\ flow[i].at = "replaying"
  /\ \/ /\ "matched" \in P!ReplayVerdicts(p)
        /\ P!MarkHit(p, i)
        /\ flow' = [flow EXCEPT ![i] = [@ EXCEPT !.at = "posted", !.by = "pattern"]]
     \/ /\ "differs" \in P!ReplayVerdicts(p)
        /\ P!MarkMiss(p)
        /\ Investigated(i)
     \/ Investigated(i) /\ UNCHANGED pattern
  /\ flowOnly

MonthPasses ==
  /\ \E p \in DOMAIN pattern : P!Age(p)
  /\ UNCHANGED flow /\ flowOnly

-----------------------------------------------------------------------------
(* A handler: start, then get, use, get, use, ...                          *)

handlerOnly == UNCHANGED <<flow, runbookVars, edits>>

FirstPhase == [confirm |-> "distilling", reject |-> "distilling",
               learn |-> "appending", forget |-> "forgetting",
               recall |-> "recalling"]

ReadingPhases == {"distilling", "appending", "compacting", "forgetting", "recalling"}

Busy(h) == thread[h].at \notin {"idle", "done", "known"}

Goto(h, phase) ==
  thread' = [thread EXCEPT ![h] = [@ EXCEPT !.at = phase, !.got = "no", !.text = {}]]

(* The buttons under a posted RCA.  A rejection opens a form first, and    *)
(* comes with what the person submits.                                     *)
CanBeJudged(i) == i \in Incidents /\ flow[i].at = "posted"

Start(h) ==
  /\ thread[h].at = "idle"
  /\ \E i \in Incidents \cup {Nothing}, kind \in MayDo[h] :
       /\ IF kind \in {"confirm", "reject"} THEN CanBeJudged(i) ELSE i = Nothing
       /\ thread' = [thread EXCEPT ![h] = [@ EXCEPT !.at = FirstPhase[kind], !.kind = kind,
                                                     !.incident = i]]
  /\ alone' = (alone /\ \A g \in Handlers : ~Busy(g))
  /\ UNCHANGED <<pattern, textVars, rejected, told, faultsOfStore>> /\ handlerOnly

Get(h) ==
  /\ thread[h].at \in ReadingPhases /\ thread[h].got = "no"
  /\ thread' = [thread EXCEPT ![h] = [@ EXCEPT !.text = L!Read,
                                                !.got = IF L!Hit THEN "yes" ELSE "filling"]]
  /\ UNCHANGED <<alone, pattern, textVars, rejected, told, faultsOfStore>> /\ handlerOnly

FillCache(h) ==
  /\ thread[h].got = "filling"
  /\ L!Fill(thread[h].text)
  /\ thread' = [thread EXCEPT ![h] = [@ EXCEPT !.got = "yes"]]
  /\ UNCHANGED <<alone, pattern, rejected, told, faultsOfStore>> /\ handlerOnly

Has(h, phase) == thread[h].at = phase /\ thread[h].got = "yes"

(* _distill_fact: nothing when the text holds a fact that says the same,   *)
(* or when there is nothing to distil.  The handler then returns; a        *)
(* rejection leaves the patterns as they are.                              *)
Distill(h) ==
  /\ Has(h, "distilling")
  /\ Goto(h, "appending") \/ Goto(h, "known")
  /\ UNCHANGED <<alone, pattern, textVars, rejected, told, faultsOfStore>> /\ handlerOnly

(* LearningsManager.append, after its get. *)
AppendFact(h) ==
  /\ Has(h, "appending")
  /\ L!Set(thread[h].text \cup {h})
  /\ IF thread[h].kind = "learn"
     THEN Goto(h, "done") /\ told' = told \cup {h}
     ELSE Goto(h, "compacting") /\ UNCHANGED told
  /\ UNCHANGED <<alone, pattern, rejected, faultsOfStore>> /\ handlerOnly

AfterLearning(h) == IF thread[h].kind = "confirm" THEN "crediting" ELSE "invalidating"

(* compact: a text that is large is replaced by the LLM's summary of what  *)
(* was read, which at best says the same; if the LLM fails it is kept.     *)
Compact(h) ==
  /\ Has(h, "compacting")
  /\ Goto(h, AfterLearning(h))
  /\ \/ Cardinality(thread[h].text) > CompactSize /\ L!Set(thread[h].text)
     \/ UNCHANGED textVars
  /\ UNCHANGED <<alone, pattern, rejected, told, faultsOfStore>> /\ handlerOnly

(* LearningsManager.forget of the word that one fact has. *)
Forget(h) ==
  /\ Has(h, "forgetting")
  /\ \E f \in Facts :
       /\ told' = told \ {f}
       /\ IF f \in thread[h].text
          THEN L!Set(thread[h].text \ {f})
          ELSE UNCHANGED textVars
  /\ Goto(h, "done")
  /\ UNCHANGED <<alone, pattern, rejected, faultsOfStore>> /\ handlerOnly

(* for_alert: the text goes into an investigation's prompt. *)
UseFacts(h) ==
  /\ Has(h, "recalling")
  /\ Goto(h, "done")
  /\ UNCHANGED <<alone, pattern, textVars, rejected, told, faultsOfStore>> /\ handlerOnly

(* Crediting the runbooks and the toolsets: get_incident has decoded meta  *)
(* and tool_outputs, and the handler decodes them again, which raises.     *)
(* Both exceptions are logged and nothing is credited.                     *)
Credit(h) ==
  /\ thread[h].at = "crediting"
  /\ Goto(h, "saving")
  /\ UNCHANGED <<alone, pattern, textVars, rejected, told, faultsOfStore>> /\ handlerOnly

(* The outputs of tools are decoded twice here too, so that only an RCA    *)
(* without any, a replayed one above all, becomes a pattern.  The LLM may  *)
(* find none in it.                                                        *)
SaveLearned(h) ==
  LET i == thread[h].incident IN
  /\ thread[h].at = "saving"
  /\ \/ /\ flow[i].by # "tools"
        /\ \E x \in P!Extractions :
             /\ Len(pattern) < MaxPatterns \/ P!Known(AlertOf[i], x[1]) # {}
             /\ P!SavePattern(AlertOf[i], x[1], x[2], i)
        /\ rejected' = rejected \ {i}
     \/ UNCHANGED <<pattern, rejected>>
  /\ Goto(h, "done") /\ told' = told \cup {h}
  /\ UNCHANGED <<alone, textVars, faultsOfStore>> /\ handlerOnly

(* Then the runbooks would be penalized, which raises as in Credit. *)
InvalidateLearned(h) ==
  LET i == thread[h].incident IN
  /\ thread[h].at = "invalidating"
  /\ \/ /\ P!Invalidate(i) /\ rejected' = rejected \cup {i}
        /\ UNCHANGED faultsOfStore
     \/ /\ faultsOfStore < MaxFaults /\ faultsOfStore' = faultsOfStore + 1
        /\ UNCHANGED <<pattern, rejected>>
  /\ Goto(h, "done") /\ told' = told \cup {h}
  /\ UNCHANGED <<alone, textVars>> /\ handlerOnly

CopyExpires ==
  /\ L!ExpireCopy
  /\ UNCHANGED <<alone, pattern, thread, rejected, told, faultsOfStore>> /\ handlerOnly

-----------------------------------------------------------------------------
(* The console: verdicts name the runbooks themselves, and the studio edits *)
(* them.                                                                   *)

Console ==
  /\ edits < MaxEdits /\ edits' = edits + 1
  /\ \E r \in RunbookIds, a \in AlertNames :
       \/ R!SaveRunbook(r)
       \/ R!Exists(r) /\ R!DeleteRunbook(r)
       \/ R!Exists(r) /\ R!MapAlert(a, r)
       \/ runbook[r].hits < MaxCount /\ R!MarkRunbookHit(r, a)
       \/ runbook[r].misses < MaxCount /\ R!MarkRunbookMiss(r)
  /\ UNCHANGED <<flowVars, textVars, thread, rejected, told, alone, faultsOfStore>>

FeedbackNext ==
  \/ \E i \in Incidents : Recall(i) \/ FetchPatterns(i) \/ Replay(i)
  \/ \E h \in Handlers :
       \/ Start(h) \/ Get(h) \/ FillCache(h) \/ Distill(h) \/ AppendFact(h)
       \/ Compact(h) \/ Forget(h) \/ UseFacts(h) \/ Credit(h)
       \/ SaveLearned(h) \/ InvalidateLearned(h)
  \/ MonthPasses \/ CopyExpires \/ Console

FeedbackSpec == FeedbackInit /\ [][FeedbackNext]_feedbackVars

-----------------------------------------------------------------------------
(* What the learning loop promises.                                        *)

(* A rejection reaches the patterns: one that may be replayed is not       *)
(* linked to an incident whose last verdict was a rejection, however       *)
(* confirmations, replays and rejections of several incidents overlap.     *)
(* (A rejection whose fact is already known never gets that far, and a     *)
(* pattern that a later incident has used is out of its reach.)            *)
RejectedNotReplayable ==
  \A p \in DOMAIN pattern : P!Active(p) => pattern[p].last \notin rejected

(* A fact that a handler reported as saved stays until someone forgets it, *)
(* also when the category is compacted or cached meanwhile, as long as the *)
(* handlers take turns.  (Two at once overwrite each other, and one that   *)
(* only reads may cache what another is replacing.)                        *)
SavedFactsKept == alone => told \subseteq stored

(* Demotion lasts: neither edits of the runbook, nor hits, nor a           *)
(* concurrent verdict bring it back into recall; only deleting it and      *)
(* writing it anew does.                                                   *)
DemotionSticks ==
  \A r \in RunbookIds :
    runbook[r].status = "demoted" => runbook'[r].status \in {"demoted", "absent"}

(* No step loses what people said: their rejections, what they taught, or  *)
(* the demotions their verdicts led to.                                    *)
FeedbackKept ==
  [][(RejectedNotReplayable /\ SavedFactsKept)' /\ DemotionSticks]_feedbackVars

(* Once a confirmation is through, the runbooks the confirmed RCA was      *)
(* built with have been credited.                                          *)
ConfirmedRunbooksCredited ==
  \A h \in Handlers :
    thread[h].kind = "confirm" /\ thread[h].at = "done" =>
      \A r \in flow[thread[h].incident].books : runbook[r].hits > 0
=============================================================================
