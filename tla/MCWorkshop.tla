----------------------------- MODULE MCWorkshop -----------------------------
(***************************************************************************)
(* An instance for TLC of what an investigation works with: the coding     *)
(* agent, the LLM's chains and keys, the database's connection, the        *)
(* toolsets, the shell, the index of code and the language server.  They   *)
(* share no state, so each behaviour is one of a single module, which Init *)
(* picks; the others are in one of their initial states.                   *)
(***************************************************************************)
EXTENDS CodeFix, LlmCalls, Database, Toolsets, PersistentShell, CodeIndex, LspClient, TLC

VARIABLE moving   (* the module that takes the steps *)

WorkshopInit ==
  /\ moving \in {"fix", "llm", "database", "tools", "shell", "index", "lsp"}
  /\ FixInit /\ LlmInit /\ DatabaseInit /\ ToolsetsInit /\ ShellInit /\ IndexInit /\ LspInit
  /\ moving # "tools" => loaded = ToolsetNames
  /\ moving # "shell" => \A c \in Commands : command[c].does = "lines"
  /\ moving # "lsp" => \A t \in Askers : asker[t].doc = CHOOSE d \in Documents : TRUE

WorkshopNext ==
  /\ UNCHANGED moving
  /\ \/ moving = "fix" /\ FixNext
          /\ UNCHANGED <<llmVars, databaseVars, toolsetVars, shellVars, indexVars, lspVars>>
     \/ moving = "llm" /\ LlmNext
          /\ UNCHANGED <<fixVars, databaseVars, toolsetVars, shellVars, indexVars, lspVars>>
     \/ moving = "database" /\ DatabaseNext
          /\ UNCHANGED <<fixVars, llmVars, toolsetVars, shellVars, indexVars, lspVars>>
     \/ moving = "tools" /\ ToolsetsNext
          /\ UNCHANGED <<fixVars, llmVars, databaseVars, shellVars, indexVars, lspVars>>
     \/ moving = "shell" /\ ShellNext
          /\ UNCHANGED <<fixVars, llmVars, databaseVars, toolsetVars, indexVars, lspVars>>
     \/ moving = "index" /\ IndexNext
          /\ UNCHANGED <<fixVars, llmVars, databaseVars, toolsetVars, shellVars, lspVars>>
     \/ moving = "lsp" /\ LspNext
          /\ UNCHANGED <<fixVars, llmVars, databaseVars, toolsetVars, shellVars, indexVars>>

WorkshopSpec ==
  WorkshopInit
    /\ [][WorkshopNext]_<<moving, fixVars, llmVars, databaseVars, toolsetVars, shellVars, indexVars, lspVars>>

(* The symbols in the versions of a file. *)
Versions123 == <<{"f", "g"}, {"f"}, {"g"}>>

(* The toolsets of the domains of an alert; those of metrics are not       *)
(* configured.                                                             *)
Domains == ("metrics" :> {}) @@ ("data" :> {"database"})

(* Threads that share a shell, a language server or the connection to a    *)
(* database each get their own answer, a command is run once, and no       *)
(* connection that is open is lost sight of.                               *)
SharedToolsSound == OwnOutputOnce /\ QueriesSound /\ NoConnectionLost
=============================================================================
