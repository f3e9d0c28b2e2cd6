# Vishwakarma: a verification project

Vishwakarma receives production alerts, lets an LLM with tools investigate
each, and posts a root-cause analysis (RCA). This directory holds TLA+ models of the
parts of it in which steps of several actors interleave or fail, the TLC
configurations that check them on small instances, and theorems checked by TLAPS.
Paths below are relative to `src/`, and `vishwakarma/` is left out of those of Python
files.

1. [The system](#1-the-system)
2. [Modules and their code](#2-modules-and-their-code)
3. [Runs](#3-runs)
4. [Proofs](#4-proofs)
5. [Where the code and its documents disagree](#5-where-the-code-and-its-documents-disagree)
6. [What is not modelled](#6-what-is-not-modelled)
7. [Plan](#7-plan)

## 1. The system

Two topologies run the same code. *All in one*: a single pod whose webhook starts
investigations itself. *Multi-pod* (`docs/ARCHITECTURE.md`): an orchestrator whose webhook
adds jobs to Redis streams, one per cloud, and pools of executors, one per cloud, that
take them.

```
 alertmanager --> webhook --lock--> correlation --window--> router --XADD--> jobs:aws
 (server.py)      AlertGate         AlertGate               Route            jobs:gcp
                                                                               |  JobStream
 console --abort--> investigations <--create, claim,----- executor <--XREADGROUP, XAUTOCLAIM
 (console_api.py)   (durable table)    checkpoint, finish  (executor.py)
                                                               |
              sub-agents --findings--> engine (stream_investigate) --calls--> pool of tools
              SubAgents                Engine, LoopGuard, Transcript          ToolPool
                                                               |
                   post, save, release lock, close window <----+----> cross-cloud join
                                                                      CrossCloud
```

### Components

| component | state | operations | what is hard | what makes it correct |
|---|---|---|---|---|
| webhook (`server.py`) | none of its own between calls | lock, correlate, link or open a window, route, enqueue | each call may fail and nothing is undone; calls interleave with executors that release and unlink | an alert has one investigation at a time; an accepted alert has its jobs |
| alert gate (`storage/dedup.py`, `core/correlation.py`) | dedup locks, correlation windows, both with a TTL | try_acquire, release, find_parent, link, unlink | release and unlink check no owner; the clock takes entries away | a lock that outlives its investigation has a failure to show for it |
| job streams (`core/jobstream.py`) | per cloud a stream, a consumer group and its pending list | enqueue, consume, ack, claim_stale | at-least-once delivery by idle time alone; lost replies | no job is lost or doubled; each is settled in the end |
| executor (`executor.py`) | the job in hand, the batch of reclaimed ones | sweep, read, skip duplicates, run, ack | dies anywhere; keeps a job longer than `min_idle_ms` | outcomes are not run again |
| investigations table (`storage/investigations.py`) | per incident and cloud a row: status, attempts, step, owner, conversation | create, claim, checkpoint, finish, mark_aborted | reads and writes are separate statements, verdicts are ignored, writers of several pods and the console | a settled job's row has an outcome, and it agrees with what was posted |
| cross-cloud join (`core/cross_cloud.py`) | findings per cloud, a claim to synthesize | write finding, look for the other's, claim, post | two halves finish in any order | one unified RCA, with both findings, and not none |
| engine (`core/engine.py`) | conversation, step, futures, list of outputs, checkpoint | steps: compact, ask, stream, dispatch, collect, reply, checkpoint | tools start while the LLM streams, streams fail half-way, tools outlive their deadline, the process dies | a well-formed conversation, each reply its call's, bounded work, an end |
| loop guard (`core/safeguards.py`) | counts, outputs of this run | is_allowed, record, reset | resets at compaction, lost at resumption | an answered call is not run twice |
| compaction (`core/compaction.py`) | none | summarize, or cut replies | must keep calls and replies together | replies stay with their calls |
| sub-agents (`core/sub_agents.py`) | per domain a thread | launch, read findings, deadline | the deadline raises out of the loop; the pool's exit waits | a barrier: nothing runs beside the main investigation |
| all-in-one server (`server.py`) | running tasks, in-memory gates | webhook, reaper, resume | restarts at any step; a late heartbeat looks like a death | orphans are resumed, by one thread, or failed; no alert has two tasks |
| concurrency limit (`server.py`, `bot/argus.py`) | a semaphore's permits and waiters | enter, wait, leave | it serves several event loops and threads | permits are kept; alerts wait for their turn |
| learning stores (`storage/patterns.py`, `runbooks.py`, `core/learnings.py`) | patterns, runbooks and the map of alerts to them, facts and their cached copy | confirm, reject, teach, forget, recall, replay, edit | each handler reads, asks an LLM and writes later; a cache of five minutes; links to the last incident only | a rejected RCA is not replayed, a fact that was saved stays, a demotion lasts |
| Sage (`bot/slack.py`, `interactive.py`) | a limit on runs, sessions in memory and in a table | ask, stop, resume, upload, post | questions of a thread overlap; each call of Slack may fail | who asks gets an answer, slots come back, conversations keep their turns |
| Argus (`bot/argus.py`, `bot/cloudwatch.py`) | the table of seen events, dedup locks | filter, dispatch, relay an alarm | a message comes as several events, looked up and marked in two steps | a report is investigated once at a time |
| cost report (`scheduler/cost_report.py`) | a PDF per day, the flag of a running investigation | fetch, find anomalies, post, investigate | the daily and the requested ones share the file; post and upload fail | each report is what it says and reaches who asked |
| chat engine (`core/engine.py`, `investigate`) | a conversation that the client keeps | ask, check calls, run or hold back, stop for approval | calls are refused, fail, time out or wait for a person | what has no reply is what waits for approval |
| live display (`core/eventbus.py`, status drain of `server.py`) | bounded queues per browser; one pending status | publish, subscribe; post, drain | full queues, a worker that leaves as work arrives | what is shown never goes back in time |
| code agent (`core/code_agent.py`, `plugins/toolsets/code_session`, `core/fix_scorer.py`, `core/pr_creator.py`) | sessions, worktrees, branches, pull requests | start, send, end, commit, score, push, propose | sends outlive their tool's timeout; every command fails; the pod restarts | what is proposed was measured; no worktree is left behind |
| LLM client and keys (`core/llm.py`, `core/keypool.py`) | penalties per key, a budget of time | complete, summarize, stream, fall back, wait, rotate | rate limits race the budget | each model is tried, none for ever |
| database connection (`storage/db.py`) | one connection, one lock | execute, commit, roll back, reconnect | readers take no lock, and roll back or reconnect under a writer | a write reported as done is stored |
| toolsets (`core/toolset_manager.py`, `core/tool_selection.py`, `plugins/toolsets/database`, `bash`) | loaded toolsets, health, cached connections, one shell | select, execute, query, run a command | investigations share a connection and a shell | each gets its own output; no connection is lost sight of |
| code search (`core/code_index.py`, `core/lsp_client.py`) | vectors, hashes of files; open documents of a language server | index, sync, search; open, ask | overlapping or killed runs, a checkout that moves; a server that dies | a file that is skipped is indexed; an answer is its question's |

The other parts (PDF layout, evaluation, metrics, deployment, web console) keep no state that
several actors share; they are listed with their reason in `PROJECT.json`.

## 2. Modules and their code

### Multi-pod topology

| module | models | state and actions |
|---|---|---|
| `JobStream` | `core/jobstream.py` | `queue` is a stream's unread part, `owner` the group's pending list, `stale` the entries idle for `min_idle_ms`, `acked` the acknowledged ones. `Enqueue` is XADD, `Consume` XREADGROUP, `ClaimStale` XAUTOCLAIM, `Ack` XACK |
| `Investigations` | `storage/investigations.py` | `row` per job. Reading for a claim (`ClaimVerdict`) and writing it (`WriteClaim`) are two operations, as in the code |
| `AlertGate` | `storage/dedup.py`, `core/correlation.py` | `locked`, `window`, and `grouped`, what a parent was told of |
| `CrossCloud` | `core/cross_cloud.py` | `finding`, `claimed`, and `unified`, the posts |
| `Dispatch` | the composition: webhook, executors, `_do_investigation`, console abort, pods, clocks | `at[e]` names the call executor `e` makes next |
| `JobDelivery` | the promise: at-least-once delivery | a job is absent, waiting, pending or settled, and moves one place at a time |
| `DispatchProperties` | the properties | |

In `Dispatch` every call to Redis or to the database is one step, so that webhook, executors and
console interleave, and a pod may die, between any two. The webhook is `Fire`,
`FindParent`, `JoinParent`, `OpenIncident`, `EnqueueJob`, `HookDies`; the loop of
`executor.py` is `Reap`, `RunReclaimed`, `Take`, `LoseReply`, `SkipDuplicate`, `Begin` and
`Settle`; `_do_investigation` is `ReplayPattern`, `CreateRow`, `ReadClaim`, `ClaimAndStart`,
`StartUndurable`, `EngineStep`, `ProposeFix`, `EngineAnswers`, `EngineAborts`, `FinishDone`,
`RunFails`, `Report`, `ReleaseLock`, `CloseWindow` and, for one half of an alert that is
routed to both clouds, `WriteFinding`, `FinishHalf`, `LookForOther`, `ClaimSynthesis`,
`Synthesize`, `FlowRaises`. The webhook is one handler at a time: it is the only one that
sets locks and windows, and the code runs it in one event loop without an await
between those calls.

`FlowRaises` is what nothing catches inside the flow: a half that fails after its RCA, or a
pattern's hit that cannot be counted. The executor logs it and acknowledges the job.

Where the code catches an exception of a call, the action has a disjunct in which the call
has no effect and a fault is counted (`Slip`). The dedup store's fallback to the
process's own table is one of them. Alerts are values; their correlation key and the cloud
router's answer are constant functions. Steps of the engine are reduced to what they do to
the table; `Engine` has the rest.

### One investigation

| module | models | state and actions |
|---|---|---|
| `Transcript` | messages, and `core/compaction.py` | operators on sequences of messages; a text is its role, a reply keeps the call it answers and whose output it holds |
| `LoopGuard` | `core/safeguards.py` | `counts` (until compaction) and `recorded` (until the process's run ends) |
| `ToolPool` | the engine's `overlap_pool`, `core/tools.py` | `pool`, a FIFO of tools that are queued, running or finished, and the position that waits for each |
| `SubAgents` | `core/sub_agents.py` | `scan` is the barrier, `agent` and `turns` the threads, `findings` what the barrier has read |
| `Engine` | `stream_investigate`, and resumption by `server.py _resume_investigation` | `pc` is `before`, `top` (of a step), `asking` (the LLM streams), `collecting`, `dead` or an end |
| `EngineProperties` | the properties | |

A call's id is its position in its answer: LLMs number the calls of a retried stream
alike, and the code files futures by id, so that a late result could meet a new
call. `CallArrives` starts a tool as soon as its arguments are complete, or leaves it for
`DispatchLeft`, as providers differ in whether they say so. The LLM may answer anything and fail
anywhere. A tool ends or not. `Compaction` is taken at any step (it depends on
sizes, which are not modelled) and yields the summary or, for a conversation with images,
of which no summary can be made, any reordering of the replies that sorting
by size can give.

### Single pod

| module | models | state and actions |
|---|---|---|
| `LoopSemaphore` | `asyncio.Semaphore` of Python 3.11 (the version of the Dockerfile), a library, as `server.py` uses it | `value`, `waiters`, `woken` (futures that are done and whose task has not run), `bound` (the loop of the first task that had to wait) |
| `AllInOne` | the webhook, the tasks, the reaper and its threads, console abort, restarts; composes `LoopSemaphore`, `Investigations` and `AlertGate` | `pc` per run: an incident's own task, or its resumption |
| `AllInOneProperties` | the properties | |
| `AllInOneProofs` | the theorems | |

The server's event loop handles one thing at a time up to its next await, so the webhook is
one step per alert (`Fire`, `Join`). A report from Slack has a thread and an event loop of its
own (`bot/argus.py:270`), and so have a reaper's resumption and an engine: their steps come between
any two of the main loop's (`MainFree`, `OnLoop` say which tasks wait for that loop). A task asks the semaphore
(`FindFree`, `Pass`, or `Wait`, `Proceed`; `TurnAway` is the RuntimeError of a task of
another loop) and then runs `_do_investigation`, whose actions are those of `Dispatch` without
the cross-cloud half. `Park` is a report's loop that blocks in `select` before its future
is done: what sets the future later is another thread's `release`, which does not wake that
loop. The main loop is never parked: uvicorn's periodic tick wakes it. `Sweep` starts a thread per
orphan, `GiveUp`, `ClaimOrphan`, `ResumeFails`, `SaveResumed` and `FinishResumed` are that
thread's. `Crash` loses everything but the table of investigations and of correlated alerts; `SameHost` says
whether the new process has the old one's host name.

### Learning

| module | models | state and actions |
|---|---|---|
| `Patterns` | `storage/patterns.py` | `pattern`, in the order of saving: hits, misses, status and the last incident that used it |
| `Runbooks` | `storage/runbooks.py`, `core/runbook_match.py` | `runbook` with its counters, `mapped`, and which runbooks are recalled for an alert |
| `Learnings` | `core/learnings.py`, `storage/site_content.py` | `stored` text of a category and the process's `cached` copy |
| `Feedback` | the handlers of `bot/slack.py`, the studio of `ui/console_api.py`, and what an investigation recalls (`server.py`) | `thread` per handler: it reads, asks an LLM, reads again and writes, each a step |

### People

| module | models | state and actions |
|---|---|---|
| `SageBot` | a mention, a run in a thread of its own, the terminal (`bot/slack.py`, `interactive.py`), and the table of sessions in `storage/queries.py` | `live` and `resuming` per Slack thread, `savedTurns` per session; `run` per question with what it has told, `slots`; every call of Slack or of the table may fail |
| `ArgusBot` | `bot/argus.py`, and the alarms of `bot/cloudwatch.py` | `event` per delivery, `seen` with its clean-up in two steps, locks and runs |
| `CostReport` | `scheduler/cost_report.py`, `post_investigation` of `relays/slack` | `report` per asker and day, the anomalies of a history of costs, `inquiry` for the investigation it starts |
| `ChatEngine` | `investigate()` of `core/engine.py`, behind `POST /api/investigate` | `chat`, the request, and `history`, what the client has got back |
| `LiveEvents` | `core/eventbus.py`, the stream of `ui/console_api.py`, `_post_status` and `_drain_status` of `server.py` | `wire` (Redis), `inbox` per browser, `delivery` per publishing thread; `drain` |

### Workshop

| module | models | state and actions |
|---|---|---|
| `CodeSessions` | `core/code_agent.py` | `session`, `worktrees` (sizes of commits, and edits), `branches`, and `leftover`, why a tree outlives its session |
| `CodeFix` | the tools of `plugins/toolsets/code_session`, `core/fix_scorer.py`, `core/pr_creator.py` | `toolCall` per call: the command or request it makes next; the score and its thresholds, as operators; `heads` and `prs` on GitHub; the row's status |
| `LlmCalls` | `core/keypool.py`, `core/llm.py` | the ring of keys and their benches; `llm` per caller: model, attempt, budget |
| `Database` | `PGConnection` of `storage/db.py` with the lock of the writers in `storage/` | `link`, `pending` and `stored` statements, `client` per thread |
| `Toolsets` | `core/toolset_manager.py`, `core/tool_selection.py`, `core/tools.py`, `storage/tool_effectiveness.py`, `plugins/toolsets/database` | what is loaded, healthy, credited and offered; the shared connection |
| `PersistentShell` | `plugins/toolsets/bash` | the lines of one bash that all commands share, and their delimiters |
| `CodeIndex` | `core/code_index.py`, `storage/vectors.py`, `storage/code_index_state.py`, `repo_sync` | `content`, `vectors`, `hashes`, `indexer` per run |
| `LspClient` | `core/lsp_client.py`, `plugins/toolsets/lsp` | clients, their servers, requests, replies, opened documents |

None of these modules shares state with another (`Feedback` and `CodeFix` apart, which extend
their parts). `MCConversations` and `MCWorkshop` check each group
in one run: `moving` says whose behaviour it is, and only that module takes steps.

## 3. Runs

All bounds are constants of the configurations. `CHECK_DEADLOCK` is off in all of them: a
system out of alerts, and an investigation that is over, stop.

| run | instance | what it shows |
|---|---|---|
| `DispatchCalm` | two alerts of one entity, two incidents, two executors of aws, one abort, fixes proposed, one alert with a confirmed pattern; nothing fails | `TypeOK`; `OneIncidentPerAlert`: investigations under way for an alert of one cloud are of one incident; `PostsMatchOutcome`: a settled job's row agrees with what was posted. Both are stated of behaviours without crashes and lost calls |
| `DispatchCrash` | one alert, two executors, four pod deaths, one lost call, one abort, attempt budget 2 | `OneRunPerJob`; `NoStrandedRow`: unless a call was lost, what is settled has an outcome (a replayed pattern apart, which never looks at the table); `RunsBounded`, `LeaksAccounted`, `NoRunAfterOutcome` |
| `DispatchSlow` | an alert routed to both clouds, two executors of aws and one of gcp, jobs kept past `min_idle_ms` | `NoJobLost`, `UnifiedAtMostOnce`, and `ImplementsDelivery`: the streams and executors implement `JobDelivery` |
| `DispatchLive` | both clouds, one executor each, a death and a lost call, under fairness | `EveryJobSettles`; `SecondFinisherSynthesizes` |
| `Engine` | two calls, two sub-agents, two steps, two calls per answer, one worker, two retries, any two of: failed stream, compaction, death, failed checkpoint; under fairness | `EngineTypeOK`, `ConversationSound`, `RepliesAnswerTheirCall`, `StartsBounded`, `CheckpointCurrent`, `ScanIsBarrier`, `NeverTwiceOnceAnswered`, `EngineEnds` |
| `AllInOne` | two alerts, one report from Slack, three incidents, one permit; nothing fails | `AlertsWait`, `PermitsAccounted`, `LocksHaveOwner`, `OneTaskPerAlert` |
| `AllInOneReaper` | one alert with a confirmed pattern, three deaths, a lost call, an abort, fixes proposed, two steps, attempt budget 2; under fairness | `ResumesOnlyOrphans`; `OrphansSettle`: no row stays `running` for ever |
| `Conversations` | the behaviours of `Feedback`, `SageBot`, `ArgusBot`, `CostReport`, `ChatEngine` and `LiveEvents`, each with the faults of its calls | `FeedbackKept`: rejected RCAs are not replayed, saved facts stay, demotions last; `RunsEndForBoth`: who asks is told, slots are those of runs; `SessionsOnlyGrow`; `OneRunPerReport`; `CostReportsSound`: each PDF is its own, one investigation at a time, askers are answered; `UnansweredArePending`; `NeverBackInTime` |
| `Workshop` | the behaviours of `CodeFix`, `LlmCalls`, `Database`, `Toolsets`, `PersistentShell`, `CodeIndex` and `LspClient`, each with its faults | `PrsAreScored`: a proposed branch is the small diff that was scored; `WorktreesAccounted`; `ChainsSound`: a chain of models neither gives up early nor runs on; `ReportedWritesStored`; `SharedToolsSound`: own output, own reply, no lost connection; `SkippedIsIndexed` |
| `AllInOneQueue` | three tasks of two kinds of loop, one permit | a violation: `QueuesAndWaits` (section 5) |
| `LearningCredit` | as `Conversations`, the learning loop alone, no edits | a violation: `ConfirmedRunbooksCredited` (section 5) |
| `ShellAnswers` | two commands, two shells | a violation: `FinishedAnswers` (section 5) |

### Why the bounds are enough

- *Alerts and incidents.* Two alerts that share a correlation key meet every branch of the
  gate, and the second incident is what can violate `OneIncidentPerAlert`. Jobs of different
  incidents share nothing but an executor and the gate.
- *Executors.* Two of a pool are a holder and one that reclaims. A third, in `DispatchSlow`,
  is the other cloud's, so that a half is reclaimed while the other half is joined.
- *Attempts.* `MaxAttempts` is 2, 3 in the code: the first claim, a reclaim within the
  budget, and the refused one. Four deaths use the budget up and kill the run after.
- *Steps.* One engine step is one checkpoint between claim and answer; more repeat the same
  writes.
- *Engine.* Two calls and answers of up to two allow a repeated call within an answer,
  across answers and across retries; one worker (16 in the code) makes the queue fill with
  the second call; `MaxIdentical` is 1 (2 in the code) and `MaxRetries` 2 (3), the smallest
  at which a limit is met after a call that was let through, and a retry is followed by a
  last failure; `VerifyAfter` 1 and `VerifyEvery` 2 (8 and 6) let a prompt be
  inserted in one of the steps. `MaxToolTurns` bounds the conversation, since a resumed
  run starts at step 0 again. Two mishaps are any ordered pair, such as a death after
  a compaction, or a death in the run that resumed.

- *Single pod.* One permit (2 in the code) and three tasks make one hold it, one wait and one
  come while another waits; with the alerts' tasks and a report's, each order of the two kinds of
  loop occurs. Three deaths use up the attempt budget of 2 and kill the resumption after it.
  In `AllInOneReaper` one incident is enough: rows of different incidents share nothing.

`Conversations` and `Workshop` are unions: a behaviour is one of a single module, named by
`moving`, while the others stay in an initial state. No state is shared between them, so nothing is
lost by that. Two constraints (`Bounded`) keep `Conversations` small: the studio edits before
anyone judges (`StudioFirst`; what races a judgement is another judgement), and the terminal is
used beside one thread of questions that no fault disturbs (`TerminalApart`; faults and
two threads are explored without it).

- *Learning.* Two people, who each may judge, and one who teaches or forgets and one who teaches or
  recalls, are a writer and what it races. Two incidents of one alert make a pattern be
  rediscovered and linked to the newer one; counters end at 3, past the thresholds that matter.
- *Sage.* Two threads, two sessions, two questions, one slot (2 in the code): one question runs while
  another is turned away or follows up. One fault and one restart; a second fault may leave the asker
  without a word, which `AnswersDelivered` says.
- *Argus.* One message that comes as two events and one alarm or report of its own; the
  table's capacity is 0 (512 in the code), so that each event cleans up.
- *Costs.* Five histories of ten days: nothing odd, a spike yesterday, one today, a creep, and a new
  service. Two report days, an asker beside the daily report, two faults.
- *Chat.* Two requests of two steps of two calls: the second request answers what the first
  left pending.
- *Live display.* A queue of two (1000 in the code) is full after two events; two publishers, one
  browser that comes and goes.
- *Coding agent.* One session and two tools at once are a send that outlives its tool's timeout and
  whatever comes next; four calls open, send, send or end, propose. `EditLines` is 70: one edit is a
  small diff and three are not.
- *Keys and models.* Two keys, chains of one and of two models, budgets of one attempt per model: each
  order of rate limits, expiries and fall-backs. Time is counted to 4, past both budgets.
- *Connection.* Two writers, one of them of two statements, and two readers; two drops, one outage, two
  refused statements.
- *Toolsets and shell.* Two investigations and three connections; three commands, so that one
  starts on the shell another left behind, and three shells.
- *Code search.* One path with three versions (hashes are by path), two indexers of two runs each: one
  overlaps the other, is killed, and runs again after the checkout went back. Two clients and
  one death of a server.

### Fairness

`DispatchLive` assumes that an executor that can make a call makes it (its loop has no other
guard), that the sweep runs (every `REAP_INTERVAL`), that dead pods are replaced (Kubernetes),
that idle time passes, and that a webhook that has begun goes on. It does not assume that
alerts come, that aborts are asked for, that a reply arrives, or that a pod lives.

`Engine` assumes that the engine's own thread and the sub-agents' take their next step: LLM
calls and a sub-agent's tools have timeouts, and a wait for a future has one. Nothing is
assumed of tools: `EngineEnds` holds though all hang. That the dead process is replaced is
part of it (`Resume`).

`AllInOneReaper` assumes that tasks, threads and engines take their next step, that a silent
row grows old, and that sweeps come (the reaper's loop catches what a sweep raises). It does not
assume that alerts come or that pods live. `OrphansSettle` is about pods that are replaced
under another name and histories without a lost call: a `finish_investigation` that fails at the
end of a resumed run leaves the row running under a name that lives.

The other runs assume no fairness: their properties are of states and steps. What must end there
(a question to Sage, a chain of models) is stated of the state it ends in, or of its time.

Every property of a passing run has a mutant in `PROJECT.json`: an operator, next to the one it
replaces and marked `Mutant:`, with a plausible bug, under which the run finds the
property violated.

## 4. Proofs

TLAPS checks the theorems for every value of the constants, from the assumptions stated in
the modules (`AlertsAssumption`, `ExecutorsAssumption`, `BoundsAssumption`, `EngineAssumption`,
`AllInOneAssumption`, `ArgusAssumption`, `ChatAssumption`, `SageAssumption`, `CostReportAssumption`,
`LiveEventsAssumption`, `FeedbackAssumption`, `FixAssumption`, `SessionsAssumption`,
`KeyPoolAssumption`, `LlmAssumption`, `DatabaseAssumption`, `CodeIndexAssumption`, `ToolsetsAssumption`,
`ShellAssumption`, `LspAssumption`: keys, routes and pools are functions of the right sort, null values
are not members, bounds are naturals, writers are not readers). The theorems have modules of their
own: `DispatchProofs` and, extending it, `OutcomeProofs` for the multi-pod topology, `EngineProofs`,
`AllInOneProofs`, `PeopleProofs`, `FixProofs` and `WorkshopProofs`.

Some theorems assume one of three constants of `Dispatch`, which the runs set either way:

- `JobsFitIdle`: no live executor keeps a job past `min_idle_ms`. The code does not see to it (the
  default of five minutes, `core/jobstream.py:26`, is shorter than some investigations): without it a
  job may be run by two executors at once, so that these theorems say what is promised of the
  investigations that are fast enough. `NoJobLost`, `UnifiedAtMostOnce` and the refinement are proved
  without it, and `DispatchSlow` checks them so.
- `LocksFitTtl`: a dedup lock outlives the job it was taken for. Without it the clock lets a second incident in.
- `~FixProposals`: `propose_fix` reopens a row whatever its status, so that a failed one gets
  its attempts again and `RunsBounded` has no bound to offer.

| theorem | states | argument |
|---|---|---|
| `DispatchProofs!TypeCorrect` | `Spec => []TypeOK` | `TypeOK` is not inductive: to take a job's row the executor must have a job. `TypeInv` adds that an executor at work has a job, and a webhook at work an alert and, once correlated, an incident |
| `DispatchProofs!OneUnifiedRca` | `Spec => []UnifiedAtMostOnce` | `SynthesisInv`: a synthesis is posted only by an executor that won the claim, claims are never given back, at most one executor is merging an incident, and none once it is posted; findings are never deleted |
| `DispatchProofs!JobsKept` | `Spec => []NoJobLost` | `DeliveryInv` counts, per job, its places among stream, pending list and acknowledged, and relates them to where the webhook is; it has to know that an executor that works on a job took one that had been enqueued |
| `DispatchProofs!Refinement` | `Spec => ImplementsDelivery` | each step of `Dispatch` is a step of `JobDelivery` or a stutter, by `DeliveryInv`: a late XACK of a settled job, or of one that was given away, moves nothing back |
| `DispatchProofs!OneExecutorPerJob` | `JobsFitIdle` assumed, `Spec => []OneRunPerJob` | `HolderOwns`: what an executor has in hand or in its batch is pending under its name and not stale |
| `OutcomeProofs!BudgetKept` | `JobsFitIdle`, `~FixProposals` assumed, `Spec => []RunsBounded` | `RunsInv`: the budget is kept with every start that is not covered by a claim paid in advance, by the outcome the row still lacks (`Open`), by the run that follows a refused claim or a lost look at the row (`Owed`), or by an abort under way (`Asked`) |
| `OutcomeProofs!NoRerun` | `JobsFitIdle` assumed, `Spec => NoRunAfterOutcome` | `EarlyInv`: with no call lost, an executor before its first engine step has a job without an outcome: it looked, and by `HolderOwns` nobody else could write one |
| `OutcomeProofs!RowsClosed` | `JobsFitIdle` assumed, `Spec => []NoStrandedRow` | `StrandInv`: a run past its end has closed its row, and so has whatever run settled the job |
| `OutcomeProofs!PostsAgree` | `JobsFitIdle` assumed, `Spec => []PostsMatchOutcome` | `InHandInv` (without crashes a job stays with who took it), `HalfInv` (the two paths after the answer do not mix) and `PostingInv`, which says for each place in the flow what the row and the posts are |
| `OutcomeProofs!OneAtATime` | `JobsFitIdle`, `LocksFitTtl` assumed, `Spec => []OneIncidentPerAlert` | `CarrierInv`: a job carries its alert's lock from when it is added until its executor releases it; an alert of one cloud is with the webhook, carried by one job, or by nobody |
| `OutcomeProofs!HalvesAreMerged` | `JobsFitIdle` assumed, `Spec => []SecondFinisherSynthesizes` | `JoinInv`: two findings that are not merged have somebody who has yet to look or to claim, and a claim has its holder or its post |
| `OutcomeProofs!LeaksPaidFor` | `JobsFitIdle` assumed, `Spec => []LeaksAccounted` | `LeakInv` counts locks that are *abandoned*: each job that might release one is doomed not to, being past the release or sure to be skipped. A step abandons one lock at most, and none without a crash or a lost call; a leaked lock is abandoned |
| `EngineProofs!NeverTwice` | `Spec => NeverTwiceOnceAnswered` | `OutputsKnown`: an output in the conversation, or on its way there in `turn`, is in the guard's list; a new process starts with neither |
| `EngineProofs!EngineTyped` | `Spec => []EngineTypeOK` | `Shapes`: the pool is a sequence of tools, and each step of it leaves some of those that were there, in order (`Comes`); a position that is waited for is one of the answer's |
| `EngineProofs!StartsAreBounded` | `Spec => []StartsBounded` | `StartsPaid`: the starts of a call and its tools in the queue are no more than the guard's count and the counts that compactions and deaths have cleared. Tools in the queue have to be counted: they start after the guard has forgotten them |
| `EngineProofs!ConversationKept` | `Spec => []ConversationSound` | `Placed`: the conversation is sound (`Sound`), and while results are collected it is a sound one with the answer's calls at its end; turns are numbered by the calls before them, so that nothing older answers a new call. Cut replies are a permutation, by counting |
| `EngineProofs!RepliesOwn` | `Spec => []RepliesAnswerTheirCall` | `Waits`: the tool that is waited for at a position runs the call of that position, and there is one; a failed attempt leaves none behind |
| `EngineProofs!CheckpointKept` | `Spec => []CheckpointCurrent` | `Saved`: also in the middle of a step every reply is in the checkpoint, since replies and checkpoint are written in one action |
| `EngineProofs!ScanBarrier` | `Spec => []ScanIsBarrier` | the state of the barrier bounds the states of the agents; findings are read of agents that are done |
| `AllInOneProofs!AlertsQueue` | `Spec => []AlertsWait` | `LoopInv`: the semaphore is bound to no loop, to the server's, or to that of a task that is a report's; an incident's alert never changes |
| `AllInOneProofs!LocksOwned` | `Spec => []LocksHaveOwner` | `LockInv`: each step carries a task on, ends it with its lock, takes a lock for a new one, or loses all locks (`NextTyped` sorts the steps so) |
| `AllInOneProofs!OneTask` | `LocksFitTtl` assumed, `Spec => []OneTaskPerAlert` | the same: a task that lives holds its lock, and a lock is taken once |
| `AllInOneProofs!PermitsKept` | `Spec => []PermitsAccounted` | `PermitInv`: the permits are counted with the finite sets of the tasks woken and inside; a release or a leave wakes the first sleeper, who is one (`FirstIsOne`), and a task moves between at most two of the three counts |
| `AllInOneProofs!OnlyOrphans` | `Spec => ResumesOnlyOrphans` | `RowInv`: a running row of an incident that is being run bears this pod's name, since the claim comes before the first step and a new name comes only with the death of all runs |
| `PeopleProofs!OneRun` | `ArgusSpec => []OneRunPerReport` | `LockInv`: an event is active from when it takes the lock until its run ends; active events hold their keys, and no two the same. The table of seen events plays no part: it saves work, the lock keeps the promise |
| `PeopleProofs!EndsForBoth` | `SageSpec => []RunsEndForBoth` | `RunsInv`: the slots are counted with the finite set of the runs that hold one, and for each place in a run, what it still lacks of telling the person is paid for by what has failed |
| `PeopleProofs!SessionsGrow` | `SageSpec => SessionsOnlyGrow` | `GrowInv`: a session that was never used from two sides has one holder, a thread, a resumption on its way or the terminal, and what that one holds begins with the turns that were saved |
| `PeopleProofs!ReportsSound` | `CostSpec => []CostReportsSound` | `ReportsInv`: reports between two places in the code are those that hold the lock, hence one, and the day's file is its own once it is made; `InquiriesInv`: as long as `raced` is false one thread at most is under way, and the event is set from when it begins |
| `PeopleProofs!ShownInOrder` | `BusSpec => NeverBackInTime` | `BusOrder`: what a browser was shown comes before what is in its queue, that before what is being delivered, that before what Redis holds, and that before what is yet to be published; a delivery of an investigation is its publisher's or the listener's, never both. `StatusInv`: the worker is idle once the final text is there |
| `PeopleProofs!PendingShown` | `ChatSpec => []UnansweredArePending` | `ChatInv`: `CallsPlaced` says for each phase of a request which calls may be without a reply, `IdsFresh` that ids name the request and step, so that a reply is never that of an earlier answer |
| `PeopleProofs!LearningKept` | `FeedbackSpec => FeedbackKept` | `VerdictsInv`: only posted incidents are judged, so that a replay, which links a pattern to an incident that has yet to be posted, never links it to a rejected one. `TextsInv`: of handlers that take turns, the busy one has read what is stored, nothing else is cached, and its own fact is there from the append on |
| `FixProofs!WorktreesHaveAnEnd` | `FixSpec => []WorktreesAccounted` | `FixInv`: an edit session has its branch and its second to itself (`OpensAlone`, `OwnsTree`), and a call keeps the name of its session through all its steps (`Holds`), so that whoever removes a worktree removes its own; each worktree on disk has a known session, a call that opens it, or a reason why nobody does (`Accounted`) |
| `FixProofs!DraftsAreScored` | `FixSpec => []PrsAreScored` | `Scored`, for the branches that have no commit behind the score's back (`unseen` holds those: commits of the coding agent itself, of proposals that overlap, or whose measurement timed out): one call at a time proposes a branch, what it measured is the branch's only commit until it is pushed, and nothing of a branch has left the pod before (`Untouched`) or changes after |
| `WorkshopProofs!WritesStored` | `DatabaseSpec => []ReportedWritesStored` | `DatabaseInv`: writers take turns (`InTurn`), and until something ends the session a writer's statements are pending (`Kept`); what ends it under a writer is a reader's doing, and is counted in `lost` |
| `WorkshopProofs!SkippedStored` | `IndexSpec => []SkippedIsIndexed` | `IndexInv`: a run that stores a file has stored all but what it has left, the hash comes after the last vector, and until one begins to store, what is known by its hash stays indexed |
| `WorkshopProofs!ChainsKept` | `LlmSpec => []ChainsSound` | `InChain`: the models before the one that is tried have failed, and an attempt or a wait ends in time; time that passes keeps it, since it does not pass the end of either |
| `WorkshopProofs!OutputsOwn` | `ShellSpec => []OwnOutputOnce` | `ShellInv`: a shell is vacant, with no input left and no line begun, or serves the one command that holds its lock: both pieces of its input, the second alone or neither are still to be read, and what it printed is that command's (`Serving`) |
| `WorkshopProofs!AnswersOwn` | `LspSpec => []QueriesSound` | `ClientSound`: a number is given to one request, so that a reply bears the number of the one question it answers; `AskerSound`: whoever asks about a document sent `didOpen` before, or found that somebody had, and the pipe keeps the order |
| `WorkshopProofs!SharedToolsKept` | `WorkshopSpec => []SharedToolsSound` | the workshop's modules move one at a time and share no state (`ModulesMove`), so that a behaviour of all is a behaviour of each; then the two above and `ConnectionKept` |

A step that changes several fields of a record, one of them by arithmetic on its old value, is
written as an operator that yields the whole record (`Claimed`, `NextStatement`, `Passed`, `Asked`): version
1.4.5 of the prover encodes the nested form `![x].n = @ + 1` among other clauses wrongly, and would
accept too much.

Only model-checked is liveness (`EveryJobSettles`, `EngineEnds`, `OrphansSettle`), which is out of the
prover's reach, as is `ENABLED`: every other property of a passing run is a theorem. What a fold over
data yields for every input (the statistics of `CostReport`, for one) would need induction that the
prover cannot instantiate: the theorems treat such a value as any value of its type.

## 5. Where the code and its documents disagree

Each of these three has a run whose counterexample shows it.

| run | document | code |
|---|---|---|
| `AllInOneQueue` | `server.py:33`: "Alerts beyond this limit queue and wait rather than running in parallel." | one semaphore serves several event loops, but belongs to the loop of the first task that had to wait. A task of another loop that has to wait gets a RuntimeError before its own `try`: nothing is posted and its dedup lock stays for an hour. Moreover, a report that waits is woken from another thread and does not notice: it stays among the waiters, `locked()` is true from then on, and every alert after it is turned away until the process restarts |
| `LearningCredit` | `bot/slack.py:784`: "Credit the runbooks used (hit + self-populate alert→runbook map)" | `bot/slack.py:787` decodes the JSON of a field that `storage/queries.py:266-274` has decoded already: it raises, the handler logs that at debug level, and no runbook is ever credited. The routing of tools, learned at `:800` in the same way, is not either |
| `ShellAnswers` | `bash.py:37` of the bash toolset: commands end with a "delimiter to detect when output is complete" | `bash.py:138` looks for the delimiter at the start of a line. Output without a final newline (`printf`, `curl`, `jq -j`) has it at the end of its last line: the call waits for its timeout, kills the shell of all investigations and reports a failure |

Met while modelling, without a run. Of investigations:

- `docs/ARCHITECTURE.md:71`: a reclaimed job "resumes from the last step"; `server.py:1087`
  starts the engine without `resume_messages`, at step 0.
- `storage/investigations.py:140`: "aborted stays aborted forever"; `:64` refuses a claim of
  `done` and `failed` rows only, so that an aborted one goes back to running.
- `core/sub_agents.py:418`: domains that timed out "will have partial or error results"; the
  deadline (`:462`) raises past the loop that fills them in, and all findings are lost.
- `server.py:544`: killed runs resume "instead of being stranded at 'running' forever"; `:632`
  skips rows of the pod's own name, which a container restarted in its pod (out of memory, a
  failed probe) keeps.
- `executor.py:167`: redelivery covers "crash-before-ack"; the row is `done` before the post
  (`server.py:1150`), so that after a crash in between the redelivery is acknowledged as a duplicate
  and nobody posts.
- `docs/ARCHITECTURE.md:42`: "One investigation per alert at a time."; the first half of a
  cross-cloud incident to finish releases the lock (`server.py:1205`), and the alert's next
  firing starts a second incident. (`OneIncidentPerAlert` exempts such alerts.)
- `core/engine.py:718`: "Allow retries after compaction"; the guard's list of outputs,
  `core/safeguards.py:70`, is not reset: the call is refused and the model told to reuse an
  output the summary replaced.
- `core/compaction.py:274`: "Rebuild messages in original order"; replies come back in the order
  of their sizes. (`ConversationSound` asks for the order of those that were not cut.)
- `server.py:848` counts a pattern's hit inside the `try` that guards the replay, after the flow
  has decided to skip the engine: when it raises, `result` is unbound at `server.py:1180`, the task dies
  and the dedup lock stays.
- the reaper's docstring says "then post + finish" (`server.py:544`); an incident's record exists
  only after its first RCA, so that a resumed one is saved as "Resumed RCA" without labels and
  posted nowhere.
- a resumed run takes no permit of the semaphore and no dedup lock; an accepted alert that waits for
  the semaphore has no row, and a crash loses it, though `storage/investigations.py:4` calls an
  investigation "not a fire-and-forget coroutine".
- rows that are `queued` or `awaiting_fix_review` when their pod dies are never resumed: the reaper
  looks for `running` ones.
- the console's retry (`ui/console_api.py:175`) calls its own server and blocks the event loop
  that would answer: it times out after 30 s and reports a failure, and the alert fires afterwards.
- `docs/ARCHITECTURE.md:73` bounds attempts by the claim; `server.py:1057` ignores its verdict, so
  one run follows the refused claim (`RunsBounded` has the `+ 1`).
- `core/jobstream.py:96` speaks of dead consumers; `:99` claims by idle time, whoever lives.
- `core/correlation.py:9` and `:25` describe grouping under a live parent; a window is
  closed only on the plain success path (`server.py:1204`), so that an alert may join an
  incident that is over.
- `core/jobstream.py:11` asks consumers to be idempotent; an investigation answered from a
  pattern (`server.py:1165`) does not look at the table and posts again.
- the engine records a run that lost the LLM as `done` (`core/engine.py:791`), and the event at
  `max_steps` has no content.
- a resumed run that is aborted is posted as "Investigation aborted by user."; a resumed run
  starts at step 0 with a fresh guard and an empty list of outputs.
- `propose_fix` reopens a row whatever its status, so that a failed one gets attempts again.
- `_build_prior_context` slices `created_at`, a number (`server.py:1562`), inside a `try` that
  returns "": investigations never get the findings of earlier ones.

Of learning and people:

- ❌ with a fact that is known already returns (`bot/slack.py:907`) before it invalidates the
  patterns. Facts are read, merged by an LLM and written back: of two writers one's are lost, and a
  reader's late write to the cache hides a fact for five minutes.
- `store_evidence` (`storage/evidence.py:199`) has no caller and no runbook gets an embedding: nothing is
  recalled by either.
- Two follow-ups in a thread, or a session resumed in two threads, lose turns of each other
  (`contested` exempts them). An investigation of Sage that runs out of steps ends without text.
- `cost_report.py:1722` deletes the PDF "after successful upload"; `post_investigation` returns `{}` when
  its headline fails (`relays/slack/plugin.py:191`), without an upload, and the PDF is deleted.
- `cost_report.py:1030` takes the last fetched day for yesterday; the fetch includes today's partial
  day (`:86`). A spike of yesterday is listed as critical and starts no investigation, against
  `:1733`. A service without history is never flagged. A second report asked for during one is dropped
  without a word. `_investigation_running` is looked at and set in two steps.
- Approvals are kept by call ids, which each answer makes anew: what was approved is asked again. A
  denied call with a `remember_prefix` approves the prefix.

Of what an investigation works with:

- `fix_scorer.py:49` says what untested fixes get; `:86` does otherwise. The score covers the last
  commit only, the pull request the branch.
- `stream()` and a chain of one model never bench a key that got a 429. `complete()` over a chain drops
  `response_format`.
- `db.py:236`: "Reconnects once on a dropped connection."; a closed one is not noticed so, and one
  failed query of a toolset closes the connection other threads are using. Connections to
  MySQL, which are not safe for threads, are shared by them. Identifiers are sanitized before
  they are validated, so that none is refused.
- A tool that takes longer than 300 s makes `as_completed` (`core/engine.py:482`) raise out of the whole
  chat request. `load_mcp_toolsets` has no caller: MCP servers are configured in vain.
- Indexers that overlap (a schedule and a request), or one killed while it stores followed by a
  checkout that goes back, leave vectors of another version behind a hash that says they are
  current. Queries of a language server may be sent before its handshake is done, and a
  server that is silent keeps its lock.

## 6. What is not modelled

- Of the multi-pod topology: MAXLEN trimming of streams (a queue of that length is
  out of TLC's reach and a small one would be another program); auto-resolution of
  cleared alerts; statements that the database itself tears apart.
- Of the single pod: a resumed run's own engine state, which is `Engine`'s; two pods that overlap
  during a rolling update; the console's retry, which is one more alert; cancellation.
- Of the engine: a death between the conclusion's checkpoint and the row's `done` (in `Dispatch`);
  sizes of conversations; the content of answers.
- Of people: rendering, the read-only commands and pages, Slack's own retries (an event twice is
  modelled, its transport is not), similarity of texts (a recall may return any subset that its
  code can select).
- Of the workshop: what git, a language server, a database or bash do beyond what the code
  relies on (each may fail at each call); chunking of files; MySQL's and other dialects; cancellation.
- Whole components: learned evidence (nothing calls it), reports in PDF (layout), evaluation and metrics
  (batch scripts, counters), deployment, web console and tests. The remaining toolsets are single
  requests to an API without state; SQLite, migrations and audit are statements in one thread. The
  components marked `partly` in `PROJECT.json` say there what of them is left.

The modules of section 2 that `Conversations` and `Workshop` check have no type invariant among the
runs' properties: theirs are conjuncts of the invariants that are proved (`LearnTyped`, `BusTyped`,
`ReportsInv` and so on).

## 7. Plan

Modules, in order of what could go wrong:

1. *(done)* `Dispatch` and its parts, `JobDelivery`; `Engine` and its parts.
2. *(done)* `AllInOne` and `LoopSemaphore`.
3. *(done)* Learning: `Patterns`, `Runbooks`, `Learnings`, `Feedback`.
4. *(done)* Fixes: `CodeSessions`, `CodeFix`.
5. *(done)* People and tools: `LiveEvents`, `ArgusBot`, `SageBot`, `ChatEngine`, `CostReport`, `LlmCalls`,
   `Database`, `Toolsets`, `PersistentShell`, `CodeIndex`, `LspClient`.

Left:

- an abstract specification of a run's ownership (nobody, a pod's task, a pod's resumption) that
  `AllInOne` and the executors' half of `Dispatch` both implement;
- runs for the divergences of section 5 that have none yet, in place of weaker ones.
