---------------------------- MODULE JobDelivery ----------------------------
(***************************************************************************)
(* What core/jobstream.py promises in its docstring, at-least-once         *)
(* delivery, without streams, groups, consumers or sweeps: a job is added  *)
(* once, waits to be delivered, stays pending however often it is handed   *)
(* out, and is settled once and for good.  Dispatch implements this.       *)
(***************************************************************************)
CONSTANT Jobs

VARIABLE place

Init == place = [j \in Jobs |-> "absent"]

Move(j, from, to) ==
  /\ place[j] = from
  /\ place' = [place EXCEPT ![j] = to]

Add(j)     == Move(j, "absent", "waiting")
Deliver(j) == Move(j, "waiting", "pending")
Settle(j)  == Move(j, "pending", "settled")

Next == \E j \in Jobs : Add(j) \/ Deliver(j) \/ Settle(j)

Spec == Init /\ [][Next]_place
=============================================================================
