--------------------------- MODULE LoopSemaphore ---------------------------
(***************************************************************************)
(* asyncio.Semaphore (Python 3.11), which server.py keeps in a module      *)
(* global and uses from several event loops: the server's, and one of its  *)
(* own for each report that comes from Slack (bot/argus.py).               *)
(*                                                                         *)
(* It is made for one loop.  The first task that has to wait binds it to   *)
(* that task's loop, for ever; a task of another loop that has to wait     *)
(* gets a RuntimeError.  A waiter counts as waiting until it has run.      *)
(***************************************************************************)
EXTENDS Integers, Sequences, SequencesExt

CONSTANTS Limit,     (* MAX_CONCURRENT_INVESTIGATIONS *)
          NoLoop

VARIABLES value,     (* free permits; a race may take it below 0 *)
          waiters,   (* futures in _waiters, the done ones included *)
          woken,     (* waiters whose future is done: they own a permit *)
          bound      (* the loop it is bound to *)

semVars == <<value, waiters, woken, bound>>

SemaphoreInit == value = Limit /\ waiters = <<>> /\ woken = {} /\ bound = NoLoop

(* A new process makes a new one. *)
Renew == value' = Limit /\ waiters' = <<>> /\ woken' = {} /\ bound' = NoLoop

Locked == value = 0 \/ waiters # <<>>

TakePermit == value' = value - 1 /\ UNCHANGED <<waiters, woken, bound>>

Fits(loop) == bound \in {NoLoop, loop}

Enqueue(task, loop) ==
  /\ bound' = loop
  /\ waiters' = Append(waiters, task)
  /\ UNCHANGED <<value, woken>>

(* The first waiter whose future is not done, if there is one. *)
FirstAsleep(queue, awake) ==
  {queue[k] : k \in {k \in DOMAIN queue :
                       queue[k] \notin awake /\ \A l \in 1 .. k - 1 : queue[l] \in awake}}

(* It gets the permit. *)
Release ==
  LET next == FirstAsleep(waiters, woken) IN
  /\ value' = IF next = {} THEN value + 1 ELSE value
  /\ woken' = woken \cup next
  /\ UNCHANGED <<waiters, bound>>

(* A waiter runs: it leaves, and hands on a permit that is free. *)
Leave(task) ==
  \E k \in DOMAIN waiters :
    LET others == RemoveAt(waiters, k)
        next   == IF value > 0 THEN FirstAsleep(others, woken) ELSE {}
    IN
    /\ task \in woken /\ waiters[k] = task
    /\ waiters' = others
    /\ value' = IF next = {} THEN value ELSE value - 1
    /\ woken' = (woken \ {task}) \cup next
    /\ bound' = bound
=============================================================================
