----------------------------- MODULE Transcript -----------------------------
(***************************************************************************)
(* The conversation the engine keeps and what compaction makes of it       *)
(* (core/engine.py, core/compaction.py), as operators on sequences of      *)
(* messages.  Texts are abstracted to a message's role; a reply keeps which *)
(* call it answers and whose output it holds.                              *)
(***************************************************************************)
EXTENDS Naturals, Sequences, FiniteSets

CONSTANTS Calls,   (* a tool's name with its parameters *)
          NoCall   (* a reply that holds no tool's output *)

Ask  == [role |-> "ask"]     (* the system prompt and question; a prompt *)
Text == [role |-> "text"]    (* an assistant message without tool calls *)

(* The n-th assistant message with tool calls, and a reply to its i-th.    *)
CallsMsg(n, cs)    == [role |-> "calls", turn |-> n, calls |-> cs]
ReplyMsg(n, i, c)  == [role |-> "reply", turn |-> n, pos |-> i, from |-> c]

Slots(m, role) == {k \in DOMAIN m : m[k].role = role}

NextTurn(m) == Cardinality(Slots(m, "calls")) + 1

(* _llm_compact: system prompt and first question, summary, a prompt to    *)
(* continue.                                                               *)
Summarized == <<Ask, Text, Ask>>

(* _proportional_truncate: replies are sorted by size, cut, and put back   *)
(* into the places of replies in that order.  Sizes are not modelled: any  *)
(* order may be the one by size.                                           *)
Refilled(m) ==
  LET R == Slots(m, "reply") IN
  {[k \in DOMAIN m |-> IF k \in R THEN m[p[k]] ELSE m[k]] :
     p \in {f \in [R -> R] : \A k \in R : \E l \in R : f[l] = k}}

-----------------------------------------------------------------------------
(* What the LLM's API asks of a conversation.                              *)

Answers(r, c, i) == r.role = "reply" /\ r.turn = c.turn /\ r.pos = i

(* Every tool call has exactly one reply. *)
AllAnswered(m) ==
  \A k \in Slots(m, "calls") : \A i \in DOMAIN m[k].calls :
    Cardinality({l \in DOMAIN m : Answers(m[l], m[k], i)}) = 1

(* ... and the replies follow their calls, in order. *)
InOrder(m) ==
  \A k \in Slots(m, "calls") : \A i \in DOMAIN m[k].calls :
    k + i \in DOMAIN m /\ Answers(m[k + i], m[k], i)
=============================================================================
