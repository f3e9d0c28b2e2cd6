----------------------------- MODULE SubAgents -----------------------------
(***************************************************************************)
(* core/sub_agents.py: agents that look into one domain each, in parallel, *)
(* before the main investigation starts; a barrier with a deadline.        *)
(*                                                                         *)
(* When the deadline passes as_completed raises, out of the loop and past  *)
(* the code that fills in the missing domains; the thread pool's exit      *)
(* still waits for every agent, and all findings are lost with the         *)
(* exception (server.py goes on without them).                             *)
(***************************************************************************)
EXTENDS Naturals

CONSTANTS Domains,
          MaxTurns    (* an agent's max_steps *)

VARIABLES scan,       (* the barrier *)
          agent,      (* per domain: off, running, done *)
          turns,      (* LLM calls an agent has made *)
          findings    (* domains whose result the barrier has read *)

scanVars == <<scan, agent, turns, findings>>

Finished == {"skipped", "returned", "raised"}

ScanTypeOK ==
  /\ scan \in {"off", "waiting", "raising", "over"} \cup Finished
  /\ agent \in [Domains -> {"off", "running", "done"}]
  /\ turns \in [Domains -> 0..MaxTurns]
  /\ findings \subseteq Domains

NoAgents == /\ agent = [d \in Domains |-> "off"]
            /\ turns = [d \in Domains |-> 0]
            /\ findings = {}

ScanInit == scan = "off" /\ NoAgents

(* A runbook matched, or sub-agents are not enabled. *)
Skip == /\ scan = "off"
        /\ scan' = "skipped"
        /\ UNCHANGED <<agent, turns, findings>>

Launch == /\ scan = "off"
          /\ scan' = "waiting"
          /\ agent' = [d \in Domains |-> "running"]
          /\ UNCHANGED <<turns, findings>>

(* An LLM call that asks for tools, and those tools. *)
AgentTurn(d) ==
  /\ agent[d] = "running"
  /\ turns[d] < MaxTurns
  /\ turns' = [turns EXCEPT ![d] = @ + 1]
  /\ UNCHANGED <<scan, agent, findings>>

(* Its answer; or the synthesis forced after its last step, after a failed *)
(* LLM call or near the deadline.                                          *)
AgentEnds(d) ==
  /\ agent[d] = "running"
  /\ agent' = [agent EXCEPT ![d] = "done"]
  /\ UNCHANGED <<scan, turns, findings>>

ReadFinding(d) ==
  /\ scan = "waiting"
  /\ agent[d] = "done"
  /\ d \notin findings
  /\ findings' = findings \cup {d}
  /\ UNCHANGED <<scan, agent, turns>>

Deadline ==
  /\ scan = "waiting"
  /\ findings # Domains
  /\ scan' = "raising"
  /\ UNCHANGED <<agent, turns, findings>>

(* Mutant: shutdown(wait=False). *)
LeaveAtOnce ==
  /\ scan \in {"waiting", "raising"}
  /\ scan = "waiting" => findings = Domains
  /\ scan' = IF scan = "raising" THEN "raised" ELSE "returned"
  /\ UNCHANGED <<agent, turns, findings>>

(* The end of the with-block: the pool waits for its threads. *)
Leave ==
  /\ scan \in {"waiting", "raising"}
  /\ scan = "waiting" => findings = Domains
  /\ \A d \in Domains : agent[d] = "done"
  /\ scan' = IF scan = "raising" THEN "raised" ELSE "returned"
  /\ UNCHANGED <<agent, turns, findings>>

(* The main investigation starts, with findings unless they were lost. *)
Hand ==
  /\ scan \in Finished
  /\ scan' = "over"
  /\ agent' = [d \in Domains |-> "off"]
  /\ turns' = [d \in Domains |-> 0]
  /\ findings' = {}
=============================================================================
