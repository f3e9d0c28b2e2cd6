------------------------------ MODULE Toolsets ------------------------------
(***************************************************************************)
(* The tools of an investigation: which toolsets are loaded                *)
(* (core/toolset_manager.py), which of their tools the LLM is offered      *)
(* (core/tool_selection.py, storage/tool_effectiveness.py), how a call is  *)
(* executed (core/tools.py), and the toolset that all investigations share *)
(* the connections of, the one for databases                               *)
(* (plugins/toolsets/database/database.py).  What a command or a database  *)
(* answers is external.                                                    *)
(***************************************************************************)
EXTENDS Naturals, FiniteSets

CONSTANTS
  ToolsetNames,     (* toolsets that may be configured; "database" is one *)
  CoreToolsets,     (* CORE_TOOLSETS *)
  OfDomain,         (* _DOMAIN_TOOLSETS: per domain its toolsets *)
  Workers,          (* threads that run tools, of any investigation *)
  MaxConnections,   (* bounds the connections opened *)
  MaxHits           (* bounds the credits of a toolset *)

ASSUME ToolsetsAssumption ==
  /\ CoreToolsets \subseteq ToolsetNames
  /\ \A d \in DOMAIN OfDomain : OfDomain[d] \subseteq ToolsetNames
  /\ {MaxConnections, MaxHits} \subseteq Nat

MinHits == 2

VARIABLES
  loaded,       (* toolsets that are enabled and could be made *)
  health,       (* _status_cache *)
  credits,      (* tool_effectiveness, of one class of alerts *)
  offered,      (* per worker, the toolsets whose tools its investigation is offered *)
  toolRun,      (* per worker, its call *)
  connection,   (* _connections: the one to the database; 0 if there is none *)
  opened,       (* connections opened and not closed by the toolset *)
  connections   (* how many have been opened *)

toolsetVars == <<loaded, health, credits, offered, toolRun, connection, opened, connections>>

NoToolRun == [at |-> "none", using |-> 0, status |-> "none"]

(* A toolset that is not enabled or cannot be made is left out. *)
ToolsetsInit ==
  /\ loaded \in SUBSET ToolsetNames
  /\ health = [n \in ToolsetNames |-> "unchecked"]
  /\ credits = [n \in ToolsetNames |-> 0]
  /\ offered = [w \in Workers |-> {}]
  /\ toolRun = [w \in Workers |-> NoToolRun]
  /\ connection = 0 /\ opened = {} /\ connections = 0

connectionsStay == UNCHANGED <<connection, opened, connections>>

(* check_all, once every five minutes.  Its outcome is shown, and keeps no *)
(* toolset from being used.                                                *)
CheckToolset(n) ==
  /\ n \in loaded /\ health[n] = "unchecked"
  /\ \E h \in {"ready", "failed"} : health' = [health EXCEPT ![n] = h]
  /\ UNCHANGED <<loaded, credits, offered, toolRun>> /\ connectionsStay

HealthExpires(n) ==
  /\ health[n] # "unchecked"
  /\ health' = [health EXCEPT ![n] = "unchecked"]
  /\ UNCHANGED <<loaded, credits, offered, toolRun>> /\ connectionsStay

(* What repeatedly helped this class of alerts. *)
Learned == {n \in ToolsetNames : credits[n] >= MinHits}

(* Everything, if the alert's words match no domain and nothing learned is *)
(* at hand, or if what they match is not.                                  *)
Selected(domains) ==
  LET chosen == (CoreToolsets \cup Learned \cup UNION {OfDomain[d] : d \in domains}) \cap loaded IN
  IF (domains = {} /\ Learned \cap loaded = {}) \/ chosen = {} THEN loaded ELSE chosen

(* A selection that fails is one of everything. *)
OfferTools(w) ==
  /\ toolRun[w].at = "none"
  /\ \/ \E domains \in SUBSET DOMAIN OfDomain :
          offered' = [offered EXCEPT ![w] = Selected(domains)]
     \/ offered' = [offered EXCEPT ![w] = loaded]
  /\ UNCHANGED <<loaded, health, credits, toolRun>> /\ connectionsStay

Returns(w, status) ==
  toolRun' = [toolRun EXCEPT ![w] = [NoToolRun EXCEPT !.at = "done", !.status = status]]

(* A tool the LLM makes up is an error, and so is whatever a handler       *)
(* raises, or a command that misses a parameter, fails or takes a minute.  *)
ExecuteTool(w) ==
  /\ toolRun[w].at = "none" /\ offered[w] # {}
  /\ \E status \in {"success", "no_data", "error"} : Returns(w, status)
  /\ UNCHANGED <<loaded, health, credits, offered>> /\ connectionsStay

(* A tool of the database's, which need not be among those offered. *)
AskDatabase(w, valid) ==
  /\ toolRun[w].at = "none" /\ "database" \in loaded /\ offered[w] # {}
  /\ IF valid THEN toolRun' = [toolRun EXCEPT ![w].at = "connecting"] ELSE Returns(w, "error")
  /\ UNCHANGED <<loaded, health, credits, offered>> /\ connectionsStay

(* A query that may write, or looks cut off, is refused. *)
QueryDatabase(w) == \E q \in {"read", "write", "cut off"} : AskDatabase(w, q = "read")

(* db_list_tables, db_describe_table: of a name the odd characters are     *)
(* removed, and it is refused if none are left.                            *)
InspectTables(w) == \E name \in {"odd", "empty"} : AskDatabase(w, name # "empty")

(* Connecting happens under the lock. *)
GetConnection(w) ==
  /\ toolRun[w].at = "connecting"
  /\ IF connection # 0
     THEN /\ toolRun' = [toolRun EXCEPT ![w].at = "querying", ![w].using = connection]
          /\ connectionsStay
     ELSE \/ /\ connections < MaxConnections
             /\ connections' = connections + 1
             /\ connection' = connections' /\ opened' = opened \cup {connections'}
             /\ toolRun' = [toolRun EXCEPT ![w].at = "querying", ![w].using = connections']
          \/ toolRun' = [toolRun EXCEPT ![w].at = "closing"] /\ connectionsStay
  /\ UNCHANGED <<loaded, health, credits, offered>>

(* A connection that another thread has closed raises. *)
RunQuery(w) ==
  /\ toolRun[w].at = "querying"
  /\ \/ toolRun[w].using \in opened /\ \E status \in {"success", "no_data"} : Returns(w, status)
     \/ toolRun' = [toolRun EXCEPT ![w].at = "closing"]
  /\ UNCHANGED <<loaded, health, credits, offered>> /\ connectionsStay

(* Mutant: the connection is forgotten and stays open. *)
CloseConnectionForgetting ==
  connection' = 0 /\ UNCHANGED <<opened, connections>>

(* Whatever is cached by now, be it the one that failed or its successor.  *)
CloseConnection ==
  connection' = 0 /\ opened' = opened \ {connection} /\ UNCHANGED connections

QueryFails(w) ==
  /\ toolRun[w].at = "closing"
  /\ CloseConnection
  /\ Returns(w, "error")
  /\ UNCHANGED <<loaded, health, credits, offered>>

(* The output goes back to the LLM. *)
CollectTool(w) ==
  /\ toolRun[w].at = "done"
  /\ toolRun' = [toolRun EXCEPT ![w] = NoToolRun]
  /\ UNCHANGED <<loaded, health, credits, offered>> /\ connectionsStay

(* A confirmed RCA credits the toolsets whose tools it was made with. *)
RecordEffective ==
  \E n \in loaded :
    /\ credits[n] < MaxHits
    /\ credits' = [credits EXCEPT ![n] = @ + 1]
    /\ UNCHANGED <<loaded, health, offered, toolRun>> /\ connectionsStay

ToolsetsNext ==
  \/ \E n \in ToolsetNames : CheckToolset(n) \/ HealthExpires(n)
  \/ \E w \in Workers :
       \/ OfferTools(w) \/ ExecuteTool(w) \/ QueryDatabase(w) \/ InspectTables(w)
       \/ GetConnection(w) \/ RunQuery(w) \/ QueryFails(w) \/ CollectTool(w)
  \/ RecordEffective

ToolsetsSpec == ToolsetsInit /\ [][ToolsetsNext]_toolsetVars
-----------------------------------------------------------------------------
(* However investigations share and close one connection, the toolset      *)
(* never loses sight of one that is open: all but the cached one have been *)
(* closed, so that failing queries use up none of the database's.          *)
NoConnectionLost == opened = {connection} \ {0}
=============================================================================
