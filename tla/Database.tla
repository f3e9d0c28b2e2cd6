------------------------------ MODULE Database ------------------------------
(***************************************************************************)
(* The one Postgres connection of a process (storage/db.py, PGConnection), *)
(* shared by all its threads.  A writer (the functions of storage/ that    *)
(* change rows) holds the module's lock around its statements and their    *)
(* commit; a reader takes no lock.  Nobody but the server knows at first   *)
(* that a connection has dropped.  psycopg2 and Postgres are external: a   *)
(* session that ends, or is rolled back, forgets what was not committed.   *)
(***************************************************************************)
EXTENDS Naturals, FiniteSets

CONSTANTS
  Writers, Readers,
  TwoStatements,      (* the writers with two statements before the commit *)
  Unlocked,           (* the lock is free *)
  MaxDrops,           (* bounds dropped connections *)
  MaxOutages,         (* bounds reconnects that find no server *)
  MaxBadStatements    (* bounds statements that fail of themselves *)

Clients == Writers \cup Readers
LastStatement(c) == IF c \in TwoStatements THEN 2 ELSE 1

ASSUME DatabaseAssumption ==
  /\ Writers \cap Readers = {} /\ TwoStatements \subseteq Writers
  /\ Unlocked \notin Clients
  /\ {MaxDrops, MaxOutages, MaxBadStatements} \subseteq Nat

VARIABLES
  link,        (* _pg: open, dropped (unnoticed), or closed *)
  pending,     (* statements since the last commit; gone with a dropped session *)
  stored,      (* committed statements *)
  lockedBy,
  client,      (* per thread, where it is in which statement *)
  outcome,     (* per thread, how its call ended *)
  lost,        (* history: writers under whom a reader or a reconnect ended the session *)
  drops, outages, badStatements

databaseVars == <<link, pending, stored, lockedBy, client, outcome, lost, drops,
                  outages, badStatements>>
faultCounts == <<drops, outages, badStatements>>

DatabaseInit ==
  /\ link = "open" /\ pending = {} /\ stored = {} /\ lockedBy = Unlocked
  /\ client = [c \in Clients |-> [at |-> "out", statement |-> 1, attempt |-> 1]]
  /\ outcome = [c \in Clients |-> "none"]
  /\ lost = {}
  /\ drops = 0 /\ outages = 0 /\ badStatements = 0

ClientAt(c, phase) == client[c].at = phase
Move(c, phase) == client' = [client EXCEPT ![c].at = phase]

(* The session with its open transaction is gone. *)
EndSession ==
  /\ pending' = {}
  /\ lost' = lost \cup {w \in Writers : \E k \in {1, 2} : <<w, k>> \in pending}

-----------------------------------------------------------------------------
(* Mutant: writers do not take the lock. *)
EnterUnlocked(c) ==
  /\ ClientAt(c, "out") /\ outcome[c] = "none"
  /\ Move(c, "executing")
  /\ UNCHANGED <<lockedBy, link, pending, stored, outcome, lost, faultCounts>>

Enter(c) ==
  /\ ClientAt(c, "out") /\ outcome[c] = "none"
  /\ c \in Writers => lockedBy = Unlocked
  /\ lockedBy' = IF c \in Writers THEN c ELSE lockedBy
  /\ Move(c, "executing")
  /\ UNCHANGED <<link, pending, stored, outcome, lost, faultCounts>>

(* Leaving the lock section, by return or by an exception. *)
Leave(c, how) ==
  /\ Move(c, "out")
  /\ outcome' = [outcome EXCEPT ![c] = how]
  /\ lockedBy' = IF lockedBy = c THEN Unlocked ELSE lockedBy

(* cursor() of a connection known to be closed raises an InterfaceError;   *)
(* so does the rollback that every exception but OperationalError leads to.*)
ExecuteOnClosed(c) ==
  /\ ClientAt(c, "executing") /\ link = "closed"
  /\ Leave(c, "raised")
  /\ UNCHANGED <<link, pending, stored, lost, faultCounts>>

(* OperationalError: the first time the client reconnects, the second time *)
(* it raises. *)
ExecuteOnDropped(c) ==
  /\ ClientAt(c, "executing") /\ link = "dropped"
  /\ link' = "closed"
  /\ IF client[c].attempt = 1
     THEN Move(c, "reconnecting") /\ UNCHANGED <<outcome, lockedBy>>
     ELSE Leave(c, "raised")
  /\ UNCHANGED <<pending, stored, lost, faultCounts>>

NextStatement(c) ==
  [at |-> "executing", statement |-> client[c].statement + 1, attempt |-> 1]

ExecuteOnOpen(c) ==
  /\ ClientAt(c, "executing") /\ link = "open"
  /\ IF c \in Writers
     THEN /\ pending' = pending \cup {<<c, client[c].statement>>}
          /\ client' = IF client[c].statement < LastStatement(c)
                       THEN [client EXCEPT ![c] = NextStatement(c)]
                       ELSE [client EXCEPT ![c].at = "committing"]
          /\ UNCHANGED <<outcome, lockedBy>>
     ELSE Leave(c, "done") /\ UNCHANGED pending
  /\ UNCHANGED <<link, stored, lost, faultCounts>>

(* A statement fails: the transaction of everybody is rolled back. *)
StatementFails(c) ==
  /\ ClientAt(c, "executing") /\ link = "open"
  /\ badStatements < MaxBadStatements /\ badStatements' = badStatements + 1
  /\ IF c \in Readers THEN EndSession ELSE pending' = {} /\ UNCHANGED lost
  /\ Leave(c, "raised")
  /\ UNCHANGED <<link, stored, drops, outages>>

(* It closes whatever connection there is by now. *)
Reconnect(c) ==
  /\ ClientAt(c, "reconnecting")
  /\ EndSession
  /\ \/ /\ link' = "open"
        /\ client' = [client EXCEPT ![c].at = "executing", ![c].attempt = 2]
        /\ UNCHANGED <<outcome, lockedBy, outages>>
     \/ /\ outages < MaxOutages /\ outages' = outages + 1
        /\ link' = "closed"
        /\ Leave(c, "raised")
  /\ UNCHANGED <<stored, drops, badStatements>>

Commit(c) ==
  /\ ClientAt(c, "committing") /\ link = "open"
  /\ stored' = stored \cup pending /\ pending' = {}
  /\ Leave(c, "done")
  /\ UNCHANGED <<link, lost, faultCounts>>

(* Nothing reconnects here. *)
CommitFails(c) ==
  /\ ClientAt(c, "committing") /\ link # "open"
  /\ link' = "closed"
  /\ Leave(c, "raised")
  /\ pending' = {}
  /\ UNCHANGED <<stored, lost, faultCounts>>

Drop ==
  /\ link = "open" /\ drops < MaxDrops /\ drops' = drops + 1
  /\ link' = "dropped"
  /\ UNCHANGED <<pending, stored, lockedBy, client, outcome, lost, outages, badStatements>>

DatabaseNext ==
  \/ \E c \in Clients :
       \/ Enter(c) \/ ExecuteOnClosed(c) \/ ExecuteOnDropped(c) \/ ExecuteOnOpen(c)
       \/ StatementFails(c) \/ Reconnect(c) \/ Commit(c) \/ CommitFails(c)
  \/ Drop

DatabaseSpec == DatabaseInit /\ [][DatabaseNext]_databaseVars
-----------------------------------------------------------------------------
(* A write that was reported as done is in the database as a whole, unless *)
(* a reader's rollback or somebody's reconnect ended the session that held *)
(* its statements: the lock keeps writers, but only writers, from losing   *)
(* each other's statements.                                                *)
ReportedWritesStored ==
  \A w \in Writers \ lost :
    outcome[w] = "done" => \A k \in 1 .. LastStatement(w) : <<w, k>> \in stored
=============================================================================
