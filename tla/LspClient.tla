----------------------------- MODULE LspClient -----------------------------
(***************************************************************************)
(* Code navigation with a language server (core/lsp_client.py and the lsp  *)
(* toolset).  The tool calls of all investigations share one client, made  *)
(* when there is none alive.  A client numbers its requests, holds its     *)
(* lock from a request to the reply with its number, and opens a document  *)
(* before it asks about it.  The deadline is looked at between two         *)
(* messages only.  The server is external: it takes what it is sent in     *)
(* order, and may reply late, never, send notifications, or die.  It sends *)
(* no requests of its own: the client declares no capability for any.      *)
(***************************************************************************)
EXTENDS Naturals, Sequences, FiniteSets

CONSTANTS
  Askers,          (* threads, one tool call each *)
  Documents,
  MaxClients,      (* bounds the clients made *)
  MaxNotices,      (* bounds the notifications of the servers *)
  MaxServerDeaths  (* bounds the servers that die *)

ASSUME LspAssumption == {MaxClients, MaxNotices, MaxServerDeaths} \subseteq Nat

LspClients == 1 .. MaxClients

VARIABLES
  made,        (* clients made; the last one is the toolset's _client *)
  lsp,         (* per client, its state and its server's *)
  asker,       (* per thread, its tool call *)
  unopened,    (* history: questions that a server took about a closed document *)
  notices, serverDeaths

lspVars == <<made, lsp, asker, unopened, notices, serverDeaths>>

NewClient == [proc |-> "none", holder |-> "nobody", ids |-> 0, opened |-> {},
              toServer |-> <<>>, fromServer |-> <<>>, open |-> {}]

LspInit ==
  /\ made = 0 /\ lsp = [k \in LspClients |-> NewClient]
  /\ asker \in [Askers -> {[at |-> "new", on |-> 0, doc |-> d, id |-> 0, answer |-> "none"] : d \in Documents}]
  /\ unopened = {} /\ notices = 0 /\ serverDeaths = 0

Go(t, phase) == asker' = [asker EXCEPT ![t].at = phase]

ServerAlive(k) == k # 0 /\ lsp[k].proc = "alive"

Sent(k, message) == [lsp EXCEPT ![k].toServer = Append(@, message)]

Uses(call, phase, k) == [call EXCEPT !.at = phase, !.on = k]

callOnly == UNCHANGED <<made, unopened, notices, serverDeaths>>

-----------------------------------------------------------------------------
(* _get_client takes no lock: a client is the toolset's before it is       *)
(* started, and in use by others before its handshake is over.             *)
GetClient(t) ==
  /\ asker[t].at = "new"
  /\ IF ServerAlive(made)
     THEN /\ asker' = [asker EXCEPT ![t] = Uses(@, "checking", made)]
          /\ UNCHANGED made
     ELSE /\ made < MaxClients /\ made' = made + 1
          /\ asker' = [asker EXCEPT ![t] = Uses(@, "starting", made')]
  /\ UNCHANGED <<lsp, unopened, notices, serverDeaths>>

StartServer(t) ==
  /\ asker[t].at = "starting"
  /\ lsp' = [lsp EXCEPT ![asker[t].on].proc = "alive"]
  /\ Go(t, "initialize") /\ callOnly

(* _request: number the request and send it, under the lock. *)
Asked(client, t, message) ==
  [client EXCEPT !.ids = message.id, !.holder = t, !.toServer = Append(@, message)]

Asks(call, phase, number) == [call EXCEPT !.at = phase, !.id = number]

Request(t) ==
  LET k == asker[t].on
      number == lsp[k].ids + 1
      what == IF asker[t].at = "initialize" THEN "initialize" ELSE "query"
      phase == IF asker[t].at = "initialize" THEN "handshake" ELSE "reading" IN
  /\ asker[t].at \in {"initialize", "asking"} /\ lsp[k].holder = "nobody"
  /\ IF ServerAlive(k)
     THEN /\ lsp' = [lsp EXCEPT ![k] =
               Asked(@, t, [what |-> what, id |-> number, doc |-> asker[t].doc])]
          /\ asker' = [asker EXCEPT ![t] = Asks(@, phase, number)]
     ELSE Go(t, "failed") /\ UNCHANGED lsp
  /\ callOnly

IsReply(t, message) == message.id = asker[t].id

(* The reply: after the handshake the caller uses the toolset's client of  *)
(* that moment, which may be a newer one that is not started.              *)
ReadReply(t) ==
  LET k == asker[t].on
      message == Head(lsp[k].fromServer) IN
  /\ asker[t].at \in {"handshake", "reading"} /\ lsp[k].fromServer # <<>>
  /\ IsReply(t, message)
  /\ lsp' = [lsp EXCEPT ![k].fromServer = Tail(@), ![k].holder = "nobody"]
  /\ asker' = [asker EXCEPT ![t] =
       IF @.at = "reading" THEN [@ EXCEPT !.at = "answered", !.answer = message.doc]
                           ELSE Uses(@, "checking", made)]
  /\ callOnly

(* Anything else is skipped; then the deadline may have passed. *)
SkipMessage(t) ==
  LET k == asker[t].on
      message == Head(lsp[k].fromServer) IN
  /\ asker[t].at \in {"handshake", "reading"} /\ lsp[k].fromServer # <<>>
  /\ ~IsReply(t, message)
  /\ \/ /\ lsp' = [lsp EXCEPT ![k].fromServer = Tail(@)]
        /\ UNCHANGED asker
     \/ /\ lsp' = [lsp EXCEPT ![k].fromServer = Tail(@), ![k].holder = "nobody"]
        /\ Go(t, "failed")
  /\ callOnly

ReadEnd(t) ==
  LET k == asker[t].on IN
  /\ asker[t].at \in {"handshake", "reading"} /\ lsp[k].fromServer = <<>> /\ ~ServerAlive(k)
  /\ lsp' = [lsp EXCEPT ![k].holder = "nobody"]
  /\ Go(t, "failed") /\ callOnly

-----------------------------------------------------------------------------
(* _ensure_open: look, tell the server, note; none of it under the lock.   *)
(* Mutant: the document is noted as open before the server is told. *)
CheckOpenNoting(t) ==
  LET k == asker[t].on IN
  /\ asker[t].at = "checking"
  /\ Go(t, IF asker[t].doc \in lsp[k].opened THEN "asking" ELSE "opening")
  /\ lsp' = [lsp EXCEPT ![k].opened = @ \cup {asker[t].doc}] /\ callOnly

CheckOpen(t) ==
  LET k == asker[t].on IN
  /\ asker[t].at = "checking"
  /\ Go(t, IF asker[t].doc \in lsp[k].opened THEN "asking" ELSE "opening")
  /\ UNCHANGED lsp /\ callOnly

DidOpen(t) ==
  LET k == asker[t].on IN
  /\ asker[t].at = "opening"
  /\ IF ServerAlive(k)
     THEN lsp' = Sent(k, [what |-> "open", id |-> 0, doc |-> asker[t].doc]) /\ Go(t, "noting")
     ELSE Go(t, "failed") /\ UNCHANGED lsp
  /\ callOnly

NoteOpen(t) ==
  LET k == asker[t].on IN
  /\ asker[t].at = "noting"
  /\ lsp' = [lsp EXCEPT ![k].opened = @ \cup {asker[t].doc}]
  /\ Go(t, "asking") /\ callOnly

-----------------------------------------------------------------------------
(* The server. *)
Served(client) ==
  LET message == Head(client.toServer) IN
  IF message.what = "open"
  THEN [client EXCEPT !.toServer = Tail(@), !.open = @ \cup {message.doc}]
  ELSE [client EXCEPT !.toServer = Tail(@),
                      !.fromServer = Append(@, [id |-> message.id, doc |-> message.doc])]

Serve(k) ==
  LET message == Head(lsp[k].toServer) IN
  /\ ServerAlive(k) /\ lsp[k].toServer # <<>>
  /\ lsp' = [lsp EXCEPT ![k] = Served(@)]
  /\ unopened' = IF message.what = "query" /\ message.doc \notin lsp[k].open
                 THEN unopened \cup {message.doc} ELSE unopened
  /\ UNCHANGED <<made, asker, notices, serverDeaths>>

Notify(k) ==
  /\ ServerAlive(k) /\ notices < MaxNotices /\ notices' = notices + 1
  /\ lsp' = [lsp EXCEPT ![k].fromServer = Append(@, [id |-> 0, doc |-> "none"])]
  /\ UNCHANGED <<made, asker, unopened, serverDeaths>>

LspServerDies(k) ==
  /\ ServerAlive(k) /\ serverDeaths < MaxServerDeaths /\ serverDeaths' = serverDeaths + 1
  /\ lsp' = [lsp EXCEPT ![k].proc = "dead"]
  /\ UNCHANGED <<made, asker, unopened, notices>>

LspNext ==
  \/ \E t \in Askers :
       \/ GetClient(t) \/ StartServer(t) \/ Request(t) \/ ReadReply(t) \/ SkipMessage(t)
       \/ ReadEnd(t) \/ CheckOpen(t) \/ DidOpen(t) \/ NoteOpen(t)
  \/ \E k \in LspClients : Serve(k) \/ Notify(k) \/ LspServerDies(k)

LspSpec == LspInit /\ [][LspNext]_lspVars
-----------------------------------------------------------------------------
(* Threads that share a client, whose replies may come after their         *)
(* deadline, get the answer to their own question, and a server is never   *)
(* asked about a document that it has not been given.                      *)
QueriesSound ==
  /\ \A t \in Askers : asker[t].at = "answered" => asker[t].answer = asker[t].doc
  /\ unopened = {}
=============================================================================
