------------------------------ MODULE LlmCalls ------------------------------
(***************************************************************************)
(* The calls to the LLM gateway (core/llm.py): complete, summarize and the *)
(* opening of stream, each over its chain of models; what happens once a   *)
(* stream flows is a matter of the engine.  The gateway is external: an    *)
(* attempt succeeds, fails or is rate-limited at any time up to its        *)
(* timeout, which the client enforces.  Time is in units of the clock.     *)
(***************************************************************************)
EXTENDS Naturals

CONSTANTS
  KeyCount,       (* _keys, by position *)
  BenchSeconds,   (* how long a key that got a 429 sits out *)
  Callers,
  MainModels,     (* models in _get_main_chain: model and its fallbacks *)
  FastModels,     (* in _get_fast_chain: the fast ones, the main one last *)
  ModelTimeout, CallBudget,    (* complete: 90 and cfg.timeout *)
  FastTimeout, FastBudget,     (* summarize: 30 and 60 *)
  MinAttempt,     (* 5 seconds *)
  MaxWait,        (* the longest wait for a rate limit to be reset, 10 *)
  MaxNow          (* bound: the clock *)

ASSUME KeyPoolAssumption == KeyCount \in Nat \ {0} /\ BenchSeconds \in Nat

ASSUME LlmAssumption ==
  /\ {ModelTimeout, CallBudget, FastTimeout, FastBudget, MaxWait, MaxNow} \subseteq Nat
  /\ {MinAttempt, MainModels, FastModels} \subseteq Nat \ {0}
  /\ MinAttempt <= ModelTimeout /\ MinAttempt <= FastTimeout

VARIABLES
  ring,       (* _i of the pool, modulo the number of keys *)
  benched,    (* per key its bench-until, 0 for never *)
  llmNow, llm

keyVars == <<ring, benched>>
llmVars == <<llmNow, llm, keyVars>>

-----------------------------------------------------------------------------
(* The pool of gateway keys (core/keypool.py), shared by every LLM call of *)
(* the process: round-robin over the keys that are not sitting out.        *)

Keys == 0 .. KeyCount - 1

KeysInit == ring = 0 /\ benched = [k \in Keys |-> 0]

Free(now) == {k \in Keys : benched[k] <= now}

(* How far round the ring a key is.                                        *)
Ahead(k) == (k + KeyCount - ring) % KeyCount

(* The next key that is not benched; if all are, the one free soonest.     *)
Pick(now) ==
  IF Free(now) # {}
  THEN {k \in Free(now) : \A l \in Free(now) : Ahead(k) <= Ahead(l)}
  ELSE {k \in Keys : \A l \in Keys :
          benched[k] < benched[l] \/ (benched[k] = benched[l] /\ k <= l)}

(* get *)
TakeKey(now, k) ==
  /\ k \in Pick(now)
  /\ ring' = IF Free(now) = {} THEN ring ELSE (k + 1) % KeyCount
  /\ UNCHANGED benched

Penalize(now, k) ==
  /\ benched' = [benched EXCEPT ![k] = now + BenchSeconds]
  /\ UNCHANGED ring
-----------------------------------------------------------------------------
Resting == [pc |-> "idle", op |-> "none", i |-> 1, start |-> 0, until |-> 0,
            key |-> 0, waited |-> {}, failed |-> {}]

LlmInit == KeysInit /\ llmNow = 0 /\ llm = [c \in Callers |-> Resting]

Chain(op) == IF op = "summarize" THEN FastModels ELSE MainModels
Timeout(op) == IF op = "summarize" THEN FastTimeout ELSE ModelTimeout
Budget(op) == IF op = "summarize" THEN FastBudget ELSE CallBudget

(* complete with one model, and stream, call the gateway without the       *)
(* budget, the waiting and the benching of _call_with_fallback.            *)
Budgeted(op) == op = "summarize" \/ (op = "complete" /\ MainModels > 1)

Smaller(a, b) == IF a < b THEN a ELSE b

Elapsed(c) == llmNow - llm[c].start

(* Mutant: every model of the chain has its whole timeout. *)
LeftWhole(c) == IF Budgeted(llm[c].op) /\ Elapsed(c) > Budget(llm[c].op)
                THEN 0 ELSE Timeout(llm[c].op)

(* What an attempt that starts now may take; nothing once the budget is    *)
(* used up.                                                                *)
Left(c) ==
  LET op == llm[c].op
  IN IF ~Budgeted(op) THEN CallBudget
     ELSE IF Elapsed(c) > Budget(op) THEN 0
     ELSE Smaller(Timeout(op), Budget(op) - Elapsed(c))

MayTry(c) ==
  /\ llm[c].i <= Chain(llm[c].op)
  /\ Budgeted(llm[c].op) => Left(c) >= MinAttempt

(* complete takes a key for its own request before it looks at the chain.  *)
CallLlm(c) ==
  /\ llm[c].pc = "idle"
  /\ \E op \in {"complete", "summarize", "stream"} :
       /\ llm' = [llm EXCEPT ![c] = [Resting EXCEPT !.pc = "try", !.op = op,
                                                    !.start = llmNow]]
       /\ IF op = "complete" /\ Budgeted(op) THEN \E k \in Keys : TakeKey(llmNow, k)
          ELSE UNCHANGED keyVars
  /\ UNCHANGED llmNow

Asking(r, k, until) == [r EXCEPT !.pc = "asking", !.key = k, !.until = until]

Attempt(c) ==
  /\ llm[c].pc = "try" /\ MayTry(c)
  /\ \E k \in Keys :
       /\ TakeKey(llmNow, k)
       /\ llm' = [llm EXCEPT ![c] = Asking(@, k, llmNow + Left(c))]
  /\ UNCHANGED llmNow

(* The last error is raised; summarize returns the text cut short instead. *)
GiveUp(c) ==
  /\ llm[c].pc = "try" /\ ~MayTry(c)
  /\ llm' = [llm EXCEPT ![c].pc = "failed"]
  /\ UNCHANGED <<llmNow, keyVars>>

Succeeds(c) ==
  /\ llm[c].pc = "asking"
  /\ llm' = [llm EXCEPT ![c] = [Resting EXCEPT !.pc = "done"]]
  /\ UNCHANGED <<llmNow, keyVars>>

Passed(r) ==
  [r EXCEPT !.pc = "try", !.i = r.i + 1, !.failed = @ \cup {r.i}]

NextModel(c) == llm' = [llm EXCEPT ![c] = Passed(@)]

AttemptFails(c) ==
  /\ llm[c].pc = "asking" /\ NextModel(c)
  /\ UNCHANGED <<llmNow, keyVars>>

(* Mutant: after the wait the next model is tried (the loop this replaced).*)
WaitAndAdvance(r, until) ==
  [r EXCEPT !.pc = "sleeping", !.until = until, !.waited = @ \cup {r.i}, !.i = r.i + 1]

WaitForReset(r, until) ==
  [r EXCEPT !.pc = "sleeping", !.until = until, !.waited = @ \cup {r.i}]

(* A 429 benches the key; if it says that the limit is reset soon, the     *)
(* same model is tried once more after that.                               *)
RateLimited(c) ==
  /\ llm[c].pc = "asking" /\ Budgeted(llm[c].op)
  /\ Penalize(llmNow, llm[c].key)
  /\ \/ /\ llm[c].i \notin llm[c].waited
        /\ \E wait \in 1 .. MaxWait :
             llm' = [llm EXCEPT ![c] = WaitForReset(@, llmNow + wait)]
     \/ NextModel(c)
  /\ UNCHANGED llmNow

WakesUp(c) ==
  /\ llm[c].pc = "sleeping" /\ llm[c].until <= llmNow
  /\ llm' = [llm EXCEPT ![c].pc = "try"]
  /\ UNCHANGED <<llmNow, keyVars>>

(* The clock waits for whoever is due.                                     *)
Due(c) == \/ llm[c].pc = "try"
          \/ llm[c].pc \in {"asking", "sleeping"} /\ llm[c].until <= llmNow

ClockTicks ==
  /\ llmNow < MaxNow
  /\ \A c \in Callers : ~Due(c)
  /\ llmNow' = llmNow + 1
  /\ UNCHANGED <<llm, keyVars>>

LlmNext ==
  \/ \E c \in Callers :
       \/ CallLlm(c) \/ Attempt(c) \/ GiveUp(c)
       \/ Succeeds(c) \/ AttemptFails(c) \/ RateLimited(c) \/ WakesUp(c)
  \/ ClockTicks

LlmSpec == LlmInit /\ [][LlmNext]_llmVars
-----------------------------------------------------------------------------
(* A call over a chain that raises has had an answer no model could give:  *)
(* each one has failed for good, after its retry if it was promised one,   *)
(* or there is no time left for another attempt (_call_with_fallback, "so  *)
(* a rate-limit wait can retry the SAME model").                           *)
RaisesOnlyExhausted ==
  \A c \in Callers : llm[c].pc = "failed" =>
    \/ llm[c].failed = 1 .. Chain(llm[c].op)
    \/ Budgeted(llm[c].op) /\ Elapsed(c) > Budget(llm[c].op) - MinAttempt

(* The models of a chain share one budget: no call is still going when it  *)
(* is over, but for one last wait ("Total time across all models capped    *)
(* at total_budget", _call_with_fallback).                                 *)
ChainsEndInTime ==
  \A c \in Callers :
    llm[c].pc \in {"try", "asking", "sleeping"} /\ Budgeted(llm[c].op) =>
      Elapsed(c) <= Budget(llm[c].op) + MaxWait

(* A chain of models neither gives up early nor runs on. *)
ChainsSound == RaisesOnlyExhausted /\ ChainsEndInTime
=============================================================================
