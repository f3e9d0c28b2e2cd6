------------------------------ MODULE ToolPool ------------------------------
(***************************************************************************)
(* The thread pool a run's tools execute in (core/engine.py overlap_pool): *)
(* a FIFO of submitted tools and a number of workers; a free worker starts *)
(* the next tool at once.  A tool may run for ever.  A cancelled tool that *)
(* already runs goes on running; one given up at the deadline is not       *)
(* cancelled: if it had not started it does so when a worker is free.      *)
(***************************************************************************)
EXTENDS Naturals, Sequences, FiniteSets

CONSTANTS Calls, Workers

VARIABLES
  pool,    (* in order of submission: the call, the position in the current
              turn that waits for it (0: nobody), its state *)
  starts   (* history: times a call was started *)

States == {"queued", "running", "finished"}

IsTool(t) == t.call \in Calls /\ t.pos \in Nat /\ t.st \in States

PoolTypeOK ==
  /\ \A k \in DOMAIN pool : IsTool(pool[k])
  /\ starts \in [Calls -> Nat]

PoolInit ==
  /\ pool = <<>>
  /\ starts = [c \in Calls |-> 0]

InState(st) == {k \in DOMAIN pool : pool[k].st = st}

WaitedFor(i) == {k \in DOMAIN pool : pool[k].pos = i}

Without(s, k) == SubSeq(s, 1, k - 1) \o SubSeq(s, k + 1, Len(s))

Started(c) == starts' = [starts EXCEPT ![c] = @ + 1]

Submit(c, i) ==
  LET free == Cardinality(InState("running")) < Workers
      tool == [call |-> c, pos |-> i, st |-> IF free THEN "running" ELSE "queued"]
  IN /\ pool' = Append(pool, tool)
     /\ IF free THEN Started(c) ELSE UNCHANGED starts

(* A tool ends, and its worker takes the next one from the queue. *)
EndTool(k) ==
  LET ended == [pool EXCEPT ![k].st = "finished"]
      After(s) == IF pool[k].pos = 0 THEN Without(s, k) ELSE s
  IN /\ k \in InState("running")
     /\ IF InState("queued") = {}
        THEN pool' = After(ended) /\ UNCHANGED starts
        ELSE \E l \in InState("queued") :
               /\ \A n \in InState("queued") : l <= n
               /\ pool' = After([ended EXCEPT ![l].st = "running"])
               /\ Started(pool[l].call)

(* The futures of a failed attempt are cancelled and forgotten: only the   *)
(* tools that run, and the older ones nobody waits for, remain, in order.  *)
CancelTurn ==
  LET stay == {k \in DOMAIN pool : pool[k].pos = 0 \/ pool[k].st = "running"} IN
  /\ \E old \in [1 .. Cardinality(stay) -> stay] :
       /\ \A k, l \in DOMAIN old : k < l => old[k] < old[l]
       /\ pool' = [k \in DOMAIN old |-> [pool[old[k]] EXCEPT !.pos = 0]]
  /\ UNCHANGED starts

TakeResult(k) ==
  /\ k \in InState("finished")
  /\ pool' = Without(pool, k)
  /\ UNCHANGED starts

(* The wait for a future times out. *)
GiveUp(k) ==
  /\ k \notin InState("finished")
  /\ pool' = [pool EXCEPT ![k].pos = 0]
  /\ UNCHANGED starts
=============================================================================
