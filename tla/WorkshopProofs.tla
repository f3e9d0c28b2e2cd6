--------------------------- MODULE WorkshopProofs ----------------------------
(***************************************************************************)
(* Proofs about what an investigation works with: the database, the index  *)
(* of code, the LLM's chains, and the tools that threads share.  Those     *)
(* about the coding agent are in FixProofs.                                *)
(***************************************************************************)
EXTENDS MCWorkshop, TLAPS

-----------------------------------------------------------------------------
(* Database: the writes that are reported are stored. *)

(* Writers take turns, so that whatever ends a session under a writer is   *)
(* not another writer; and until something does, the statements it has     *)
(* made are pending.                                                       *)
Phases == {"out", "executing", "reconnecting", "committing"}

Places == [at : Phases, statement : {1, 2}, attempt : {1, 2}]

(* The writer whose call is under way has the lock, and commits after its  *)
(* last statement; readers never commit.                                   *)
InTurn(c) ==
  /\ client[c].statement <= LastStatement(c)
  /\ c \in Writers /\ client[c].at # "out" => lockedBy = c
  /\ client[c].at = "committing" => c \in Writers /\ client[c].statement = LastStatement(c)
  /\ client[c].at = "out" /\ outcome[c] = "none" => client[c].statement = 1

(* The statements a writer has made are pending, and stored once reported. *)
Kept(w) ==
  /\ client[w].at # "out" =>
       \A k \in {1, 2} :
         k < client[w].statement \/ (client[w].at = "committing" /\ k = client[w].statement)
           => <<w, k>> \in pending
  /\ outcome[w] = "done" => \A k \in 1 .. LastStatement(w) : <<w, k>> \in stored

DatabaseInv ==
  /\ client \in [Clients -> Places] /\ outcome \in [Clients -> {"none", "done", "raised"}]
  /\ \A c \in Clients : InTurn(c)
  /\ \A w \in Writers \ lost : Kept(w)

(* One thread moves, to an entry of its own. *)
ClientMoves(c, entry) ==
  /\ client' \in [Clients -> Places] /\ client'[c] = entry
  /\ \A d \in Clients : d # c => client'[d] = client[d]

Ends(c, how) ==
  /\ outcome' \in [Clients -> {"none", "done", "raised"}] /\ outcome'[c] = how
  /\ \A d \in Clients : d # c => outcome'[d] = outcome[d]

(* What Move changes. *)
LEMMA Moving ==
  ASSUME DatabaseInv, NEW c \in Clients, NEW phase \in Phases, Move(c, phase)
  PROVE  /\ ClientMoves(c, client'[c])
         /\ client'[c].at = phase /\ client'[c].statement = client[c].statement
  BY DEF DatabaseInv, Places, Move, ClientMoves

(* What Leave changes. *)
LEMMA Leaving ==
  ASSUME DatabaseInv, NEW c \in Clients, NEW how \in {"done", "raised"}, Leave(c, how)
  PROVE  /\ ClientMoves(c, client'[c]) /\ Ends(c, how)
         /\ client'[c].at = "out" /\ client'[c].statement = client[c].statement
         /\ lockedBy' = IF lockedBy = c THEN Unlocked ELSE lockedBy
<1>1. "out" \in Phases
  BY DEF Phases
<1> QED
  BY <1>1, Moving DEF Leave, Ends, DatabaseInv

(* A thread that leaves disturbs nobody's turn; and if it is the writer    *)
(* whose turn it is, nothing but its own statements were pending.          *)
LEMMA AfterLeaving ==
  ASSUME DatabaseInv, NEW c \in Clients, NEW how \in {"done", "raised"}, Leave(c, how),
         client[c].at # "out", stored \subseteq stored', lost \subseteq lost',
         \A w \in Writers \ lost' : w # c => client[w].at = "out" \/ \A k \in {1, 2} :
            <<w, k>> \in pending => <<w, k>> \in pending',
         c \in Writers \ lost' /\ how = "done" => \A k \in 1 .. LastStatement(c) : <<c, k>> \in stored'
  PROVE  DatabaseInv'
<1>1. /\ ClientMoves(c, client'[c]) /\ Ends(c, how)
      /\ client'[c].at = "out" /\ client'[c].statement = client[c].statement
      /\ lockedBy' = IF lockedBy = c THEN Unlocked ELSE lockedBy
  BY Leaving
<1>2. InTurn(c)'
  BY <1>1 DEF DatabaseInv, InTurn, Ends, LastStatement
<1>3. ASSUME NEW d \in Clients, d # c PROVE InTurn(d)'
  BY <1>1, <1>3 DEF DatabaseInv, InTurn, Ends, ClientMoves, LastStatement
<1>4. ASSUME NEW w \in Writers \ lost', w # c PROVE Kept(w)'
  BY <1>1, <1>4 DEF DatabaseInv, Kept, Ends, ClientMoves, Clients, LastStatement
<1>5. c \in Writers \ lost' => Kept(c)'
  BY <1>1 DEF Kept, Ends, LastStatement
<1> QED
  BY <1>1, <1>2, <1>3, <1>4, <1>5 DEF DatabaseInv, ClientMoves, Ends

(* One that goes on, having lost none of its pending statements.           *)
LEMMA AfterMoving ==
  ASSUME DatabaseInv, NEW c \in Clients, ClientMoves(c, client'[c]), UNCHANGED <<outcome, stored>>,
         InTurn(c)', lost \subseteq lost',
         \A d \in Writers : d # c /\ client[d].at # "out" => lockedBy' = lockedBy,
         \A w \in Writers \ lost' : \A k \in {1, 2} : <<w, k>> \in pending => <<w, k>> \in pending',
         c \in Writers \ lost' => Kept(c)'
  PROVE  DatabaseInv'
<1>1. ASSUME NEW d \in Clients, d # c PROVE InTurn(d)'
  BY <1>1 DEF DatabaseInv, InTurn, ClientMoves, LastStatement
<1>2. ASSUME NEW w \in Writers \ lost', w # c PROVE Kept(w)'
  BY <1>2 DEF DatabaseInv, Kept, ClientMoves, Clients, LastStatement
<1> QED
  BY <1>1, <1>2 DEF DatabaseInv, ClientMoves

(* What EndSession loses, it counts. *)
LEMMA SessionEnds ==
  ASSUME EndSession
  PROVE  /\ lost \subseteq lost'
         /\ \A w \in Writers \ lost' : \A k \in {1, 2} : <<w, k>> \notin pending
  BY DEF EndSession

(* Each step of a client. *)
LEMMA ClientStep ==
  ASSUME DatabaseInv, NEW c \in Clients,
         \/ Enter(c) \/ ExecuteOnClosed(c) \/ ExecuteOnDropped(c) \/ ExecuteOnOpen(c)
         \/ StatementFails(c) \/ Reconnect(c) \/ Commit(c) \/ CommitFails(c)
  PROVE  DatabaseInv'
<1>c. /\ client[c] \in Places /\ InTurn(c) /\ (c \in Writers \ lost => Kept(c))
      /\ Writers \subseteq Clients
  BY DEF DatabaseInv, Clients
<1>p. Phases = {"out", "executing", "reconnecting", "committing"}
  BY DEF Phases
<1>w. c \in Writers /\ client[c].at # "out" => \A w \in Writers : w # c => client[w].at = "out"
  BY DEF DatabaseInv, InTurn, Clients
<1>1. CASE Enter(c)
  <2>1. /\ ClientMoves(c, client'[c]) /\ client'[c].at = "executing" /\ client'[c].statement = 1
        /\ UNCHANGED <<outcome, stored, pending, lost>>
        /\ c \in Writers => lockedBy' = c /\ lockedBy = Unlocked
        /\ c \notin Writers => lockedBy' = lockedBy
    BY <1>1, <1>c, <1>p, Moving DEF Enter, ClientAt, InTurn
  <2>2. \A d \in Writers : d # c /\ client[d].at # "out" => lockedBy' = lockedBy
    BY <2>1, DatabaseAssumption DEF DatabaseInv, InTurn, Clients
  <2>3. InTurn(c)' /\ (c \in Writers \ lost => Kept(c)')
    BY <1>1, <1>c, <2>1 DEF InTurn, Kept, LastStatement, Enter
  <2> QED
    BY <2>1, <2>2, <2>3, AfterMoving
<1>2. CASE ExecuteOnClosed(c)
  BY <1>2, AfterLeaving DEF ExecuteOnClosed, ClientAt
<1>3. CASE ExecuteOnDropped(c)
  <2>1. CASE Move(c, "reconnecting") /\ UNCHANGED <<outcome, lockedBy>>
    <3>1. /\ ClientMoves(c, client'[c]) /\ client'[c].at = "reconnecting"
          /\ client'[c].statement = client[c].statement /\ client[c].at = "executing"
          /\ UNCHANGED <<outcome, stored, pending, lost, lockedBy>>
      BY <1>3, <2>1, <1>p, Moving DEF ExecuteOnDropped, ClientAt
    <3>2. InTurn(c)' /\ (c \in Writers \ lost => Kept(c)')
      BY <1>c, <3>1 DEF InTurn, Kept, LastStatement
    <3> QED
      BY <3>1, <3>2, AfterMoving
  <2>2. CASE Leave(c, "raised")
    BY <1>3, <2>2, AfterLeaving DEF ExecuteOnDropped, ClientAt
  <2> QED
    BY <1>3, <2>1, <2>2 DEF ExecuteOnDropped
<1>4. CASE ExecuteOnOpen(c)
  <2>1. CASE c \in Writers
    <3>1. /\ pending' = pending \cup {<<c, client[c].statement>>} /\ client[c].at = "executing"
          /\ UNCHANGED <<outcome, stored, lost, lockedBy>>
      BY <1>4, <2>1 DEF ExecuteOnOpen, ClientAt
    <3>2. CASE client[c].statement < LastStatement(c)
      <4>1. client' = [client EXCEPT ![c] = NextStatement(c)]
        BY <1>4, <2>1, <3>2 DEF ExecuteOnOpen
      <4>2. client[c].statement = 1 /\ LastStatement(c) = 2
        BY <1>c, <3>2 DEF LastStatement, Places
      <4>3. /\ ClientMoves(c, client'[c]) /\ client'[c].at = "executing" /\ client'[c].statement = 2
        BY <4>1, <4>2, <1>p DEF NextStatement, ClientMoves, DatabaseInv, Places
      <4>4. InTurn(c)' /\ (c \in Writers \ lost => Kept(c)')
        BY <1>c, <3>1, <4>2, <4>3 DEF InTurn, Kept, LastStatement
      <4> QED
        BY <3>1, <4>3, <4>4, AfterMoving
    <3>3. CASE ~(client[c].statement < LastStatement(c))
      <4>1. client' = [client EXCEPT ![c] = [client[c] EXCEPT !.at = "committing"]]
        BY <1>4, <2>1, <3>3 DEF ExecuteOnOpen
      <4>2. client[c].statement = LastStatement(c)
        BY <1>c, <3>3 DEF LastStatement, Places, InTurn
      <4>3. /\ ClientMoves(c, client'[c]) /\ client'[c].at = "committing"
            /\ client'[c].statement = client[c].statement
        BY <4>1, <3>1, <1>c, <1>p DEF ClientMoves, DatabaseInv, Places
      <4>4. InTurn(c)' /\ (c \in Writers \ lost => Kept(c)')
        BY <1>c, <2>1, <3>1, <4>2, <4>3 DEF InTurn, Kept, LastStatement
      <4> QED
        BY <3>1, <4>3, <4>4, AfterMoving
    <3> QED
      BY <3>2, <3>3
  <2>2. CASE c \notin Writers
    BY <1>4, <2>2, AfterLeaving DEF ExecuteOnOpen, ClientAt
  <2> QED
    BY <2>1, <2>2
<1>5. CASE StatementFails(c)
  <2>1. CASE c \in Readers
    BY <1>5, <2>1, AfterLeaving, SessionEnds DEF StatementFails, ClientAt
  <2>2. CASE c \in Writers
    BY <1>5, <2>2, <1>w, DatabaseAssumption, AfterLeaving DEF StatementFails, ClientAt
  <2> QED
    BY <2>1, <2>2 DEF Clients
<1>6. CASE Reconnect(c)
  <2>0. EndSession /\ client[c].at = "reconnecting" /\ UNCHANGED stored
    BY <1>6 DEF Reconnect, ClientAt
  <2>1. CASE Leave(c, "raised")
    BY <2>0, <2>1, AfterLeaving, SessionEnds
  <2>2. CASE /\ client' = [client EXCEPT ![c].at = "executing", ![c].attempt = 2]
             /\ UNCHANGED <<outcome, lockedBy, outages>>
    <3>1. /\ ClientMoves(c, client'[c]) /\ client'[c].at = "executing"
          /\ client'[c].statement = client[c].statement
      BY <2>2, <1>c, <1>p DEF ClientMoves, DatabaseInv, Places
    <3>2. InTurn(c)' /\ (c \in Writers \ lost' => Kept(c)')
      BY <1>c, <2>0, <2>2, <3>1, SessionEnds DEF InTurn, Kept, LastStatement, Places
    <3> QED
      BY <2>0, <2>2, <3>1, <3>2, SessionEnds, AfterMoving
  <2> QED
    BY <1>6, <2>1, <2>2 DEF Reconnect
<1>7. CASE Commit(c)
  <2>1. c \in Writers /\ client[c].at = "committing" /\ client[c].statement = LastStatement(c)
    BY <1>7, <1>c DEF Commit, ClientAt, InTurn
  <2>2. c \in Writers \ lost => \A k \in 1 .. LastStatement(c) : <<c, k>> \in pending
    BY <1>c, <2>1 DEF Kept, LastStatement
  <2> QED
    BY <1>7, <2>1, <2>2, <1>w, AfterLeaving DEF Commit
<1>8. CASE CommitFails(c)
  <2>1. c \in Writers /\ client[c].at = "committing"
    BY <1>8, <1>c DEF CommitFails, ClientAt, InTurn
  <2> QED
    BY <1>8, <2>1, <1>w, AfterLeaving DEF CommitFails
<1> QED
  BY <1>1, <1>2, <1>3, <1>4, <1>5, <1>6, <1>7, <1>8

(* What writers report as done is stored. *)
THEOREM WritesStored == DatabaseSpec => []ReportedWritesStored
<1>1. DatabaseInit => DatabaseInv
  BY DEF DatabaseInit, DatabaseInv, InTurn, Kept, Phases, Places, LastStatement, Clients
<1>2. ASSUME DatabaseInv, [DatabaseNext]_databaseVars PROVE DatabaseInv'
  <2>1. CASE Drop \/ UNCHANGED databaseVars
    BY <1>2, <2>1 DEF Drop, databaseVars, DatabaseInv, InTurn, Kept
  <2> QED
    BY <1>2, <2>1, ClientStep DEF DatabaseNext
<1>3. DatabaseInv => ReportedWritesStored
  BY DEF DatabaseInv, Kept, ReportedWritesStored
<1> QED
  BY <1>1, <1>2, <1>3, PTL DEF DatabaseSpec
-----------------------------------------------------------------------------
(* CodeIndex: the files that are skipped are indexed. *)

(* A run that stores a file has stored what it does not have left, unless  *)
(* another has the file in hand; until one begins to store, what is known  *)
(* by its hash stays indexed.                                              *)
Entries == [at : {"off", "scanning", "embedding", "storing"}, todo : SUBSET Paths,
            path : Paths \cup {"none"}, read : Nat, left : SUBSET Symbols,
            indexed : Nat, runs : Nat]

Indexed(p) == hashes[p] # 0 => \A s \in SymbolsIn[hashes[p]] : vectors[<<p, s>>] = hashes[p]

IndexTyped ==
  /\ content \in [Paths -> Versions] /\ vectors \in [Chunks -> Nat]
  /\ hashes \in [Paths -> Versions \cup {0}]
  /\ indexer \in [Indexers -> Entries]

InHandSound(x) ==
  LET p == indexer[x].path
      v == indexer[x].read IN
  /\ indexer[x].at \in {"embedding", "storing"} <=> p # "none"
  /\ p # "none" => v \in Versions
  /\ indexer[x].at = "embedding" => indexer[x].left = SymbolsIn[v]
  /\ indexer[x].at = "storing" /\ p \notin overlapped =>
       \A s \in SymbolsIn[v] \ indexer[x].left : vectors[<<p, s>>] = v

IndexInv ==
  /\ IndexTyped
  /\ \A x \in Indexers : InHandSound(x)
  /\ \A p \in Paths \ overlapped : \A x, y \in InHand(p) : x = y
  /\ \A p \in Paths \ (overlapped \cup cutShort) :
       (\A x \in InHand(p) : indexer[x].at = "embedding") => Indexed(p)

(* The blank run. *)
LEMMA OffDutyTyped ==
  /\ OffDuty \in Entries /\ OffDuty.at = "off" /\ OffDuty.path = "none"
  BY DEF OffDuty, Entries

(* The steps that leave the stores alone. *)
LEMMA KeepsStores ==
  ASSUME IndexInv, NEW x \in Indexers, NEW entry \in Entries,
         indexer' = [indexer EXCEPT ![x] = entry],
         UNCHANGED <<content, vectors, hashes>>, overlapped \subseteq overlapped',
         cutShort \subseteq cutShort', InHandSound(x)',
         entry.path # "none" /\ entry.path # indexer[x].path =>
           InHand(entry.path) = {} \/ entry.path \in overlapped',
         entry.at # "storing" /\ indexer[x].at = "storing" => indexer[x].path \in cutShort',
         entry.at = "scanning" \/ entry.at = "off" => entry.path = "none",
         entry.at = "storing" => indexer[x].at = "embedding" /\ indexer[x].path = entry.path
  PROVE  IndexInv'
<1>1. /\ indexer'[x] = entry
      /\ \A y \in Indexers : y # x => indexer'[y] = indexer[y]
      /\ IndexTyped'
  BY DEF IndexInv, IndexTyped
<1>2. \A y \in Indexers : InHandSound(y)'
  BY <1>1 DEF IndexInv, InHandSound
<1>3. ASSUME NEW p \in Paths \ overlapped', NEW y \in InHand(p)', NEW z \in InHand(p)'
      PROVE  y = z
  <2>1. p \in Paths /\ p # "none" /\ p \notin overlapped
    BY <1>3, CodeIndexAssumption
  <2>2. \A u, v \in Indexers : indexer[u].path = p /\ indexer[v].path = p => u = v
    BY <2>1 DEF IndexInv, InHand
  <2>3. \A u \in Indexers : u # x /\ entry.path = p /\ indexer[u].path = p => indexer[x].path = p
    BY <2>1, <1>3 DEF InHand
  <2>4. y \in Indexers /\ z \in Indexers /\ indexer'[y].path = p /\ indexer'[z].path = p
    BY <1>3 DEF InHand
  <2> QED
    BY <1>1, <2>2, <2>3, <2>4
<1>4. ASSUME NEW p \in Paths \ (overlapped' \cup cutShort'),
             \A y \in InHand(p)' : indexer'[y].at = "embedding"
      PROVE  Indexed(p)'
  <2>1. \A y \in InHand(p) : indexer[y].at = "embedding"
    <3>1. ASSUME NEW y \in InHand(p), y # x PROVE indexer[y].at = "embedding"
      BY <1>1, <1>4, <3>1 DEF InHand
    <3>2. ASSUME x \in InHand(p) PROVE indexer[x].at = "embedding"
      <4>1. indexer[x].path = p /\ p \in Paths /\ p # "none" /\ p \notin cutShort'
        BY <1>4, <3>2, CodeIndexAssumption DEF InHand
      <4>2. indexer[x].at \in {"embedding", "storing"}
        BY <4>1 DEF IndexInv, InHandSound
      <4>3. entry.at = "storing" => indexer[x].at = "embedding"
        OBVIOUS
      <4> QED
        BY <4>1, <4>2, <4>3
    <3> QED
      BY <3>1, <3>2
  <2> QED
    BY <1>4, <2>1 DEF IndexInv, Indexed
<1> QED
  BY <1>1, <1>2, <1>3, <1>4 DEF IndexInv

(* The steps of one run. *)
LEMMA IndexerStep ==
  ASSUME IndexInv, NEW x \in Indexers,
         \/ StartIndexing(x) \/ ReadFile(x) \/ EmbedFile(x) \/ UpsertEmbedding(x)
         \/ Mark(x) \/ StopIndexing(x)
  PROVE  IndexInv'
<1>x. /\ indexer[x] \in Entries /\ InHandSound(x)
      /\ DOMAIN indexer = Indexers
      /\ \A v \in Versions : v \in Nat /\ SymbolsIn[v] \subseteq Symbols
  BY CodeIndexAssumption DEF IndexInv, IndexTyped
<1>1. CASE StartIndexing(x)
  <2>1. PICK entry \in Entries :
          /\ indexer' = [indexer EXCEPT ![x] = entry]
          /\ entry.at = "scanning" /\ entry.path = "none"
    <3> DEFINE entry == [OffDuty EXCEPT !.at = "scanning", !.todo = Paths,
                                        !.runs = indexer[x].runs + 1]
    <3>1. indexer[x].runs + 1 \in Nat
      BY <1>x DEF Entries
    <3>2. entry \in Entries /\ entry.at = "scanning" /\ entry.path = "none"
      BY <3>1, OffDutyTyped DEF Entries
    <3> QED
      BY <1>1, <3>2 DEF StartIndexing
  <2>2. InHandSound(x)'
    BY <1>x, <2>1 DEF InHandSound
  <2> QED
    BY <1>1, <1>x, <2>1, <2>2, KeepsStores DEF StartIndexing
<1>6. CASE StopIndexing(x)
  <2>1. PICK entry \in Entries :
          /\ indexer' = [indexer EXCEPT ![x] = entry]
          /\ entry.at = "off" /\ entry.path = "none"
    <3> DEFINE entry == [OffDuty EXCEPT !.runs = indexer[x].runs]
    <3>1. entry \in Entries /\ entry.at = "off" /\ entry.path = "none"
      BY <1>x, OffDutyTyped DEF Entries
    <3> QED
      BY <1>6, <3>1 DEF StopIndexing
  <2>2. InHandSound(x)'
    BY <1>x, <2>1 DEF InHandSound
  <2> QED
    BY <1>6, <1>x, <2>1, <2>2, KeepsStores DEF StopIndexing
<1>2. CASE ReadFile(x)
  <2>1. PICK p \in indexer[x].todo :
          LET v == content[p]
              changed == hashes[p] # v /\ SymbolsIn[v] # {} IN
          /\ indexer[x].at = "scanning"
          /\ indexer' = [indexer EXCEPT ![x] =
               [indexer[x] EXCEPT !.todo = indexer[x].todo \ {p},
                                  !.at = IF changed THEN "embedding" ELSE "scanning",
                                  !.path = IF changed THEN p ELSE "none",
                                  !.read = v, !.left = SymbolsIn[v]]]
          /\ overlapped' = IF changed /\ InHand(p) # {} THEN overlapped \cup {p} ELSE overlapped
          /\ UNCHANGED <<content, vectors, hashes, hits, cutShort>>
    BY <1>2 DEF ReadFile
  <2>2. p \in Paths /\ p # "none" /\ content[p] \in Versions
    BY <1>x, CodeIndexAssumption DEF IndexInv, IndexTyped, Entries
  <2> DEFINE v == content[p]
             changed == hashes[p] # v /\ SymbolsIn[v] # {}
             at == IF changed THEN "embedding" ELSE "scanning"
             path == IF changed THEN p ELSE "none"
             entry == [indexer[x] EXCEPT !.todo = indexer[x].todo \ {p}, !.at = at,
                                         !.path = path, !.read = v, !.left = SymbolsIn[v]]
  <2>3. /\ indexer[x].at = "scanning" /\ indexer' = [indexer EXCEPT ![x] = entry]
        /\ overlapped' = IF changed /\ InHand(p) # {} THEN overlapped \cup {p} ELSE overlapped
        /\ UNCHANGED <<content, vectors, hashes, hits, cutShort>>
    BY <2>1
  <2>4. /\ at \in {"embedding", "scanning"} /\ path \in {p, "none"}
        /\ at = "embedding" <=> path # "none"
        /\ path # "none" => changed
        /\ v \in Versions
    BY <2>2
  <2>5. entry \in Entries /\ entry.at = at /\ entry.path = path /\ entry.read = v
        /\ entry.left = SymbolsIn[v]
    <3> HIDE DEF at, path, v
    <3> QED
      BY <1>x, <2>2, <2>4 DEF Entries
  <2>6. path # "none" => InHand(path) = {} \/ path \in overlapped'
    BY <2>3, <2>4
  <2> HIDE DEF entry, at, path, changed, v
  <2>7. InHandSound(x)'
    BY <1>x, <2>3, <2>4, <2>5 DEF InHandSound
  <2>8. overlapped \subseteq overlapped'
    BY <2>3
  <2> QED
    BY <1>x, <2>3, <2>4, <2>5, <2>6, <2>7, <2>8, KeepsStores
<1>3. CASE EmbedFile(x)
  <2>1. CASE indexer' = [indexer EXCEPT ![x].at = "storing"]
    <3> DEFINE entry == [indexer[x] EXCEPT !.at = "storing"]
    <3>1. entry \in Entries /\ entry.at = "storing" /\ entry.path = indexer[x].path
          /\ entry.read = indexer[x].read /\ entry.left = indexer[x].left
      BY <1>x DEF Entries
    <3>2. indexer' = [indexer EXCEPT ![x] = entry] /\ indexer[x].at = "embedding"
      BY <1>3, <2>1 DEF EmbedFile
    <3> HIDE DEF entry
    <3>3. InHandSound(x)'
      BY <1>3, <1>x, <3>1, <3>2 DEF EmbedFile, InHandSound
    <3> QED
      BY <1>3, <3>1, <3>2, <3>3, KeepsStores DEF EmbedFile
  <2>2. CASE indexer' = [indexer EXCEPT ![x].at = "scanning", ![x].path = "none"]
    <3> DEFINE entry == [indexer[x] EXCEPT !.at = "scanning", !.path = "none"]
    <3>1. entry \in Entries /\ entry.at = "scanning" /\ entry.path = "none"
      BY <1>x DEF Entries
    <3>2. indexer' = [indexer EXCEPT ![x] = entry] /\ indexer[x].at = "embedding"
      BY <1>3, <1>x, <2>2 DEF EmbedFile
    <3> HIDE DEF entry
    <3>3. InHandSound(x)'
      BY <1>x, <3>1, <3>2 DEF InHandSound
    <3> QED
      BY <1>3, <3>1, <3>2, <3>3, KeepsStores DEF EmbedFile
  <2> QED
    BY <1>3, <2>1, <2>2 DEF EmbedFile
<1>p. indexer[x].at = "storing" =>
        /\ indexer[x].path \in Paths /\ indexer[x].read \in Versions
        /\ indexer[x].left \subseteq Symbols
  BY <1>x DEF InHandSound, Entries
<1>u. \A y \in Indexers :
        y # x /\ indexer[x].at = "storing" /\ indexer[y].path = indexer[x].path
          => indexer[x].path \in overlapped
  BY <1>p DEF IndexInv, InHand
<1>4. CASE UpsertEmbedding(x)
  <2>1. PICK s \in indexer[x].left :
          /\ vectors' = [vectors EXCEPT ![<<indexer[x].path, s>>] = indexer[x].read]
          /\ indexer' = [indexer EXCEPT ![x].left = indexer[x].left \ {s}]
    BY <1>4 DEF UpsertEmbedding
  <2> DEFINE p == indexer[x].path
             v == indexer[x].read
             entry == [indexer[x] EXCEPT !.left = indexer[x].left \ {s}]
  <2>2. /\ entry \in Entries /\ entry.at = "storing" /\ entry.path = p /\ entry.read = v
        /\ entry.left = indexer[x].left \ {s}
    BY <1>4, <1>x DEF UpsertEmbedding, Entries
  <2>3. indexer' = [indexer EXCEPT ![x] = entry] /\ indexer[x].at = "storing"
    BY <1>4, <1>x, <2>1 DEF UpsertEmbedding
  <2> HIDE DEF entry
  <2>4. /\ indexer'[x] = entry /\ \A y \in Indexers : y # x => indexer'[y] = indexer[y]
        /\ indexer' \in [Indexers -> Entries]
    BY <2>2, <2>3 DEF IndexInv, IndexTyped
  <2>5. /\ vectors' \in [Chunks -> Nat] /\ vectors'[<<p, s>>] = v
        /\ \A q \in Paths, t \in Symbols :
             <<q, t>> # <<p, s>> => vectors'[<<q, t>>] = vectors[<<q, t>>]
    BY <1>p, <1>x, <2>1, <2>3 DEF IndexInv, IndexTyped, Chunks
  <2>6. /\ p \in Paths /\ v \in Versions /\ s \in Symbols
        /\ UNCHANGED <<content, hashes, hits, overlapped, cutShort>>
    BY <1>4, <1>p, <2>1, <2>3 DEF UpsertEmbedding
  <2>7. InHandSound(x)'
    BY <1>x, <2>2, <2>3, <2>4, <2>5, <2>6 DEF InHandSound
  <2>8. ASSUME NEW y \in Indexers, y # x PROVE InHandSound(y)'
    <3>1. indexer'[y] = indexer[y] /\ InHandSound(y) /\ indexer[y] \in Entries
      BY <2>4, <2>8 DEF IndexInv, IndexTyped
    <3>2. indexer[y].path = p => p \in overlapped
      BY <1>u, <2>3, <2>8
    <3> HIDE DEF p, v
    <3> QED
      BY <1>x, <2>5, <2>6, <3>1, <3>2 DEF InHandSound, Entries
  <2>9. ASSUME NEW q \in Paths, NEW y \in Indexers PROVE y \in InHand(q)' <=> y \in InHand(q)
    BY <2>2, <2>4 DEF InHand
  <2>10. ASSUME NEW q \in Paths \ (overlapped' \cup cutShort'),
                \A y \in InHand(q)' : indexer'[y].at = "embedding"
         PROVE  Indexed(q)'
    <3>1. q # p
      BY <2>2, <2>4, <2>6, <2>10 DEF InHand
    <3>2. \A y \in InHand(q) : indexer[y].at = "embedding"
      BY <2>3, <2>4, <2>10, <3>1 DEF InHand
    <3>3. Indexed(q) /\ hashes[q] \in Versions \cup {0}
      BY <2>6, <2>10, <3>2 DEF IndexInv, IndexTyped
    <3> HIDE DEF p, v
    <3> QED
      BY <1>x, <2>5, <2>6, <3>1, <3>3 DEF Indexed
  <2>11. ASSUME NEW q \in Paths \ overlapped', NEW y \in InHand(q)', NEW z \in InHand(q)'
         PROVE  y = z
    BY <2>6, <2>9, <2>11 DEF IndexInv, InHand
  <2> QED
    BY <2>4, <2>5, <2>6, <2>7, <2>8, <2>10, <2>11 DEF IndexInv, IndexTyped
<1>5. CASE Mark(x)
  <2> DEFINE p == indexer[x].path
             v == indexer[x].read
             entry == [indexer[x] EXCEPT !.at = "scanning", !.path = "none",
                                         !.indexed = indexer[x].indexed + 1]
  <2>1. /\ indexer[x].at = "storing" /\ indexer[x].left = {}
        /\ hashes' = [hashes EXCEPT ![p] = v] /\ cutShort' = cutShort \ {p}
        /\ UNCHANGED <<content, vectors, hits, overlapped>>
        /\ p \in Paths /\ v \in Versions
    BY <1>5, <1>p DEF Mark
  <2>2. indexer' = [indexer EXCEPT ![x] = entry]
    BY <1>5, <1>x DEF Mark
  <2>3. entry \in Entries /\ entry.at = "scanning" /\ entry.path = "none"
    <3>1. indexer[x].indexed + 1 \in Nat
      BY <1>x DEF Entries
    <3> QED
      BY <1>x, <3>1 DEF Entries
  <2>h. p \notin overlapped => \A s \in SymbolsIn[v] : vectors[<<p, s>>] = v
    BY <1>x, <2>1 DEF InHandSound
  <2> HIDE DEF entry
  <2>4. /\ indexer'[x] = entry /\ \A y \in Indexers : y # x => indexer'[y] = indexer[y]
        /\ indexer' \in [Indexers -> Entries]
    BY <2>2, <2>3 DEF IndexInv, IndexTyped
  <2> HIDE DEF p, v
  <2>5. /\ hashes' \in [Paths -> Versions \cup {0}] /\ hashes'[p] = v
        /\ \A q \in Paths : q # p => hashes'[q] = hashes[q]
    BY <2>1 DEF IndexInv, IndexTyped
  <2>6. \A y \in Indexers : InHandSound(y)'
    BY <2>1, <2>3, <2>4 DEF IndexInv, InHandSound
  <2>7. ASSUME NEW q \in Paths \ overlapped', NEW y \in InHand(q)', NEW z \in InHand(q)'
        PROVE  y = z
    <3>1. y # x /\ z # x
      BY <2>3, <2>4, <2>7, CodeIndexAssumption DEF InHand
    <3> QED
      BY <2>1, <2>4, <2>7, <3>1 DEF IndexInv, InHand
  <2>8. ASSUME NEW q \in Paths \ (overlapped' \cup cutShort'),
               \A y \in InHand(q)' : indexer'[y].at = "embedding"
        PROVE  Indexed(q)'
    <3>1. CASE q = p
      BY <2>1, <2>5, <2>8, <2>h, <3>1 DEF Indexed
    <3>2. CASE q # p
      <4>1. \A y \in InHand(q) : y \in InHand(q)' /\ indexer'[y] = indexer[y]
        BY <2>4, <3>2 DEF InHand, p
      <4>2. Indexed(q)
        BY <2>1, <2>8, <3>2, <4>1 DEF IndexInv
      <4> QED
        BY <2>1, <2>5, <3>2, <4>2 DEF Indexed
    <3> QED
      BY <3>1, <3>2
  <2> QED
    BY <2>1, <2>4, <2>5, <2>6, <2>7, <2>8 DEF IndexInv, IndexTyped
<1> QED
  BY <1>1, <1>2, <1>3, <1>4, <1>5, <1>6

(* A file that is skipped is indexed as it is. *)
THEOREM SkippedStored == IndexSpec => []SkippedIsIndexed
<1>1. IndexInit => IndexInv
  <2> SUFFICES ASSUME IndexInit PROVE IndexInv
    OBVIOUS
  <2>1. IndexTyped
    BY CodeIndexAssumption, OffDutyTyped DEF IndexInit, IndexTyped
  <2> QED
    BY <2>1, OffDutyTyped, CodeIndexAssumption DEF IndexInit, IndexInv, InHandSound, InHand, Indexed
<1>2. ASSUME IndexInv, [IndexNext]_indexVars PROVE IndexInv'
  <2>1. CASE Sync
    <3>1. IndexTyped'
      BY <1>2, <2>1 DEF Sync, IndexInv, IndexTyped
    <3> QED
      BY <1>2, <2>1, <3>1 DEF Sync, IndexInv, InHandSound, InHand, Indexed
  <2>2. CASE SearchCode \/ UNCHANGED indexVars
    BY <1>2, <2>2 DEF SearchCode, indexVars, IndexInv, IndexTyped, InHandSound, InHand, Indexed
  <2> QED
    BY <1>2, <2>1, <2>2, IndexerStep DEF IndexNext
<1>3. IndexInv => SkippedIsIndexed
  BY DEF IndexInv, Indexed, SkippedIsIndexed
<1> QED
  BY <1>1, <1>2, <1>3, PTL DEF IndexSpec

-----------------------------------------------------------------------------
(* LlmCalls: a chain of models neither gives up early nor runs on. *)

Under == {"try", "asking", "sleeping"}

CallsOfLlm ==
  [pc : {"idle", "failed", "done"} \cup Under,
   op : {"none", "complete", "summarize", "stream"},
   i : Nat, start : Nat, until : Nat, key : Nat, waited : SUBSET Nat, failed : SUBSET Nat]

(* The models before the one that is tried have failed; the attempt or the *)
(* wait ends in time, and the clock has not gone past its end.             *)
InChain(r, now) ==
  /\ r.start <= now
  /\ r.pc \in Under \cup {"failed"} => 0 < r.i /\ r.i <= Chain(r.op) + 1
  /\ r.pc \in Under => r.failed = 1 .. (r.i - 1)
  /\ r.pc \in {"asking", "sleeping"} => r.i <= Chain(r.op) /\ now <= r.until
  /\ r.pc = "sleeping" => Budgeted(r.op)
  /\ Budgeted(r.op) =>
       /\ r.pc = "try" => now <= r.start + Budget(r.op) + MaxWait
       /\ r.pc = "asking" => r.until <= r.start + Budget(r.op)
       /\ r.pc = "sleeping" => r.until <= r.start + Budget(r.op) + MaxWait
  /\ r.pc = "failed" =>
       \/ r.failed = 1 .. Chain(r.op)
       \/ Budgeted(r.op) /\ now - r.start > Budget(r.op) - MinAttempt

LlmInv ==
  /\ llmNow \in Nat
  /\ llm \in [Callers -> CallsOfLlm]
  /\ \A c \in Callers : InChain(llm[c], llmNow)

LEMMA LlmNumbers ==
  ASSUME NEW op
  PROVE  /\ Chain(op) \in Nat \ {0} /\ Budget(op) \in Nat /\ Timeout(op) \in Nat
         /\ MinAttempt \in Nat \ {0} /\ MinAttempt <= Timeout(op)
         /\ MaxWait \in Nat /\ CallBudget \in Nat /\ MaxNow \in Nat
  BY LlmAssumption DEF Chain, Budget, Timeout

(* A step of one caller, that leaves it in its chain. *)
LEMMA CallerMoves ==
  ASSUME LlmInv, NEW c \in Callers, NEW r \in CallsOfLlm,
         llm' = [llm EXCEPT ![c] = r], llmNow' = llmNow, InChain(r, llmNow)
  PROVE  LlmInv'
<1>1. /\ llm' \in [Callers -> CallsOfLlm] /\ llm'[c] = r
      /\ \A d \in Callers : d # c => llm'[d] = llm[d]
  BY DEF LlmInv
<1>2. ASSUME NEW d \in Callers PROVE InChain(llm'[d], llmNow')
  BY <1>1 DEF LlmInv
<1> QED
  BY <1>1, <1>2 DEF LlmInv

LEMMA CallStep ==
  ASSUME LlmInv, NEW c \in Callers, CallLlm(c)
  PROVE  LlmInv'
<1>1. PICK op \in {"complete", "summarize", "stream"} :
        llm' = [llm EXCEPT ![c] = [Resting EXCEPT !.pc = "try", !.op = op, !.start = llmNow]]
  BY DEF CallLlm
<1>2. PICK now \in Nat : now = llmNow /\ llmNow' = llmNow
  BY DEF LlmInv, CallLlm
<1>3. PICK r : r = [Resting EXCEPT !.pc = "try", !.op = op, !.start = now]
  OBVIOUS
<1>4. /\ r \in CallsOfLlm /\ r.pc = "try" /\ r.op = op /\ r.start = now /\ r.i = 1
      /\ r.failed = {}
  BY <1>3 DEF Resting, CallsOfLlm, Under
<1>5. 1 .. (r.i - 1) = {}
  BY <1>4
<1>6. InChain(r, now)
  BY <1>4, <1>5, LlmNumbers DEF InChain, Under
<1> QED
  BY <1>1, <1>2, <1>3, <1>4, <1>6, CallerMoves

(* What an attempt may take. *)
LEMMA LeftOver ==
  ASSUME LlmInv, NEW c \in Callers, MayTry(c)
  PROVE  /\ Left(c) \in Nat
         /\ Budgeted(llm[c].op) => llmNow + Left(c) <= llm[c].start + Budget(llm[c].op)
<1>1. /\ llmNow \in Nat /\ llm[c].start \in Nat /\ llm[c].start <= llmNow
  BY DEF LlmInv, CallsOfLlm, InChain
<1>2. /\ Budget(llm[c].op) \in Nat /\ Timeout(llm[c].op) \in Nat
      /\ MinAttempt \in Nat \ {0} /\ CallBudget \in Nat
  BY LlmNumbers
<1>3. Elapsed(c) = llmNow - llm[c].start
  BY DEF Elapsed
<1>4. CASE ~Budgeted(llm[c].op)
  BY <1>2, <1>4 DEF Left
<1>5. CASE Budgeted(llm[c].op)
  <2>1. Left(c) >= MinAttempt
    BY <1>5 DEF MayTry
  <2>2. CASE Elapsed(c) > Budget(llm[c].op)
    BY <1>2, <1>5, <2>1, <2>2 DEF Left
  <2>3. CASE ~(Elapsed(c) > Budget(llm[c].op))
    <3>1. Left(c) = Smaller(Timeout(llm[c].op), Budget(llm[c].op) - Elapsed(c))
      BY <1>5, <2>3 DEF Left
    <3> QED
      BY <1>1, <1>2, <1>3, <2>3, <3>1 DEF Smaller
  <2> QED
    BY <2>2, <2>3
<1> QED
  BY <1>4, <1>5

LEMMA AttemptStep ==
  ASSUME LlmInv, NEW c \in Callers, Attempt(c)
  PROVE  LlmInv'
<1>1. PICK k \in Keys : llm' = [llm EXCEPT ![c] = Asking(@, k, llmNow + Left(c))]
  BY DEF Attempt
<1>2. PICK now \in Nat : now = llmNow /\ llmNow' = llmNow
  BY DEF LlmInv, Attempt
<1>3. PICK left \in Nat : left = Left(c) /\ (Budgeted(llm[c].op) => now + left <= llm[c].start + Budget(llm[c].op))
  BY <1>2, LeftOver DEF Attempt
<1>4. PICK was \in CallsOfLlm : was = llm[c] /\ was.pc = "try" /\ InChain(was, now) /\ was.i <= Chain(was.op)
  BY <1>2 DEF LlmInv, Attempt, MayTry
<1>5. k \in Nat
  BY KeyPoolAssumption DEF Keys
<1>6. PICK until \in Nat : until = now + left
  OBVIOUS
<1>7. PICK r : r = Asking(was, k, until)
  OBVIOUS
<1>8. /\ r \in CallsOfLlm /\ r.pc = "asking" /\ r.until = until
      /\ r.op = was.op /\ r.i = was.i /\ r.start = was.start /\ r.failed = was.failed
  BY <1>5, <1>7 DEF Asking, CallsOfLlm, Under
<1>9. InChain(r, now)
  BY <1>3, <1>4, <1>6, <1>8, LlmNumbers DEF InChain, Under
<1>10. llm' = [llm EXCEPT ![c] = r]
  BY <1>1, <1>2, <1>3, <1>4, <1>6, <1>7
<1> QED
  BY <1>2, <1>8, <1>9, <1>10, CallerMoves

LEMMA GiveUpStep ==
  ASSUME LlmInv, NEW c \in Callers, GiveUp(c)
  PROVE  LlmInv'
<1>1. PICK now \in Nat : now = llmNow /\ llmNow' = llmNow
  BY DEF LlmInv, GiveUp
<1>2. PICK was \in CallsOfLlm : was = llm[c] /\ was.pc = "try" /\ InChain(was, now)
  BY <1>1 DEF LlmInv, GiveUp
<1>3. PICK r : r = [was EXCEPT !.pc = "failed"]
  OBVIOUS
<1>4. /\ r \in CallsOfLlm /\ r.pc = "failed"
      /\ r.op = was.op /\ r.i = was.i /\ r.start = was.start /\ r.failed = was.failed
  BY <1>3 DEF CallsOfLlm, Under
<1>5. /\ was.i \in Nat /\ was.start \in Nat /\ was.start <= now
      /\ was.i <= Chain(was.op) + 1 /\ was.failed = 1 .. (was.i - 1)
      /\ 0 < was.i
  BY <1>2 DEF CallsOfLlm, InChain, Under
<1>6. /\ Chain(was.op) \in Nat /\ Budget(was.op) \in Nat /\ Timeout(was.op) \in Nat
      /\ MinAttempt \in Nat \ {0} /\ MinAttempt <= Timeout(was.op)
  BY LlmNumbers
<1>7. was.failed = 1 .. Chain(was.op) \/ (Budgeted(was.op) /\ now - was.start > Budget(was.op) - MinAttempt)
  <2>1. CASE was.i > Chain(was.op)
    <3>1. was.i - 1 = Chain(was.op)
      BY <1>5, <1>6, <2>1
    <3> QED
      BY <1>5, <3>1
  <2>2. CASE was.i <= Chain(was.op)
    <3>1. Budgeted(was.op) /\ ~(Left(c) >= MinAttempt)
      BY <1>2, <2>2 DEF GiveUp, MayTry
    <3>2. Elapsed(c) = now - was.start
      BY <1>1, <1>2 DEF Elapsed
    <3>3. CASE Elapsed(c) > Budget(was.op)
      BY <1>5, <1>6, <3>1, <3>2, <3>3
    <3>4. CASE ~(Elapsed(c) > Budget(was.op))
      <4>1. Left(c) = Smaller(Timeout(was.op), Budget(was.op) - Elapsed(c))
        BY <1>2, <3>1, <3>4 DEF Left
      <4> QED
        BY <1>5, <1>6, <3>1, <3>2, <3>4, <4>1 DEF Smaller
    <3> QED
      BY <3>3, <3>4
  <2> QED
    BY <1>5, <1>6, <2>1, <2>2
<1>8. InChain(r, now)
  BY <1>4, <1>5, <1>7 DEF InChain, Under
<1>9. llm' = [llm EXCEPT ![c] = r]
  BY <1>2, <1>3 DEF GiveUp
<1> QED
  BY <1>1, <1>4, <1>8, <1>9, CallerMoves

LEMMA SuccessStep ==
  ASSUME LlmInv, NEW c \in Callers, Succeeds(c)
  PROVE  LlmInv'
<1>1. PICK now \in Nat : now = llmNow /\ llmNow' = llmNow
  BY DEF LlmInv, Succeeds
<1>2. PICK r : r = [Resting EXCEPT !.pc = "done"]
  OBVIOUS
<1>3. r \in CallsOfLlm /\ r.pc = "done" /\ r.start = 0
  BY <1>2 DEF Resting, CallsOfLlm, Under
<1>4. InChain(r, now)
  BY <1>3 DEF InChain, Under
<1> QED
  BY <1>1, <1>2, <1>3, <1>4, CallerMoves DEF Succeeds

(* The model has failed for good; the next one's turn comes in time. *)
LEMMA NextModelStep ==
  ASSUME LlmInv, NEW c \in Callers, llm[c].pc = "asking", NextModel(c), llmNow' = llmNow
  PROVE  LlmInv'
<1>1. PICK now \in Nat : now = llmNow
  BY DEF LlmInv
<1>2. PICK was \in CallsOfLlm : was = llm[c] /\ was.pc = "asking" /\ InChain(was, now)
  BY <1>1 DEF LlmInv
<1>3. PICK next \in Nat : next = was.i + 1
  BY <1>2 DEF CallsOfLlm
<1>4. PICK all \in SUBSET Nat : all = was.failed \cup {was.i}
  BY <1>2 DEF CallsOfLlm
<1>5. PICK r : r = [was EXCEPT !.pc = "try", !.i = next, !.failed = all]
  OBVIOUS
<1>6. /\ r \in CallsOfLlm /\ r.pc = "try" /\ r.i = next /\ r.failed = all
      /\ r.op = was.op /\ r.start = was.start
  BY <1>5 DEF CallsOfLlm, Under
<1>7. Passed(was) = r
  BY <1>3, <1>4, <1>5 DEF Passed
<1>8. /\ was.i \in Nat /\ was.start \in Nat /\ was.until \in Nat
      /\ 0 < was.i /\ was.i <= Chain(was.op) /\ was.failed = 1 .. (was.i - 1)
      /\ was.start <= now /\ now <= was.until
      /\ Budgeted(was.op) => was.until <= was.start + Budget(was.op)
  BY <1>2 DEF CallsOfLlm, InChain, Under
<1>9. all = 1 .. (next - 1)
  BY <1>3, <1>4, <1>8
<1>10. /\ 0 < next /\ next <= Chain(was.op) + 1
       /\ Budgeted(was.op) => now <= was.start + Budget(was.op) + MaxWait
  <2>1. Chain(was.op) \in Nat /\ Budget(was.op) \in Nat /\ MaxWait \in Nat
    BY LlmNumbers
  <2> QED
    BY <1>3, <1>8, <2>1
<1>11. InChain(r, now)
  BY <1>6, <1>8, <1>9, <1>10 DEF InChain, Under
<1> QED
  BY <1>1, <1>2, <1>6, <1>7, <1>11, CallerMoves DEF NextModel

LEMMA RateLimitedStep ==
  ASSUME LlmInv, NEW c \in Callers, RateLimited(c)
  PROVE  LlmInv'
<1>1. CASE NextModel(c)
  BY <1>1, NextModelStep DEF RateLimited
<1>2. CASE \E wait \in 1 .. MaxWait :
             llm' = [llm EXCEPT ![c] = WaitForReset(@, llmNow + wait)]
  <2>1. PICK wait \in 1 .. MaxWait : llm' = [llm EXCEPT ![c] = WaitForReset(@, llmNow + wait)]
    BY <1>2
  <2>2. PICK now \in Nat : now = llmNow /\ llmNow' = llmNow
    BY DEF LlmInv, RateLimited
  <2>3. PICK was \in CallsOfLlm :
          was = llm[c] /\ was.pc = "asking" /\ InChain(was, now) /\ Budgeted(was.op)
    BY <2>2 DEF LlmInv, RateLimited
  <2>4. PICK until \in Nat : until = now + wait
    BY LlmNumbers
  <2>5. PICK all \in SUBSET Nat : all = was.waited \cup {was.i}
    BY <2>3 DEF CallsOfLlm
  <2>6. PICK r : r = [was EXCEPT !.pc = "sleeping", !.until = until, !.waited = all]
    OBVIOUS
  <2>7. /\ r \in CallsOfLlm /\ r.pc = "sleeping" /\ r.until = until
        /\ r.i = was.i /\ r.failed = was.failed /\ r.op = was.op /\ r.start = was.start
    BY <2>6 DEF CallsOfLlm, Under
  <2>8. WaitForReset(was, until) = r
    BY <2>5, <2>6 DEF WaitForReset
  <2>9. /\ was.i \in Nat /\ was.start \in Nat /\ was.until \in Nat
        /\ 0 < was.i /\ was.i <= Chain(was.op) /\ was.failed = 1 .. (was.i - 1)
        /\ was.start <= now /\ now <= was.until
        /\ was.until <= was.start + Budget(was.op)
    BY <2>3 DEF CallsOfLlm, InChain, Under
  <2>10. /\ now <= until /\ until <= was.start + Budget(was.op) + MaxWait
         /\ was.i <= Chain(was.op) + 1
    BY <2>4, <2>9, LlmNumbers
  <2>11. InChain(r, now)
    BY <2>3, <2>7, <2>9, <2>10 DEF InChain, Under
  <2>12. llm' = [llm EXCEPT ![c] = r]
    BY <2>1, <2>2, <2>3, <2>4, <2>8
  <2> QED
    BY <2>2, <2>7, <2>11, <2>12, CallerMoves
<1> QED
  BY <1>1, <1>2 DEF RateLimited

LEMMA WakeStep ==
  ASSUME LlmInv, NEW c \in Callers, WakesUp(c)
  PROVE  LlmInv'
<1>1. PICK now \in Nat : now = llmNow /\ llmNow' = llmNow
  BY DEF LlmInv, WakesUp
<1>2. PICK was \in CallsOfLlm :
        was = llm[c] /\ was.pc = "sleeping" /\ was.until <= now /\ InChain(was, now)
  BY <1>1 DEF LlmInv, WakesUp
<1>3. PICK r : r = [was EXCEPT !.pc = "try"]
  OBVIOUS
<1>4. /\ r \in CallsOfLlm /\ r.pc = "try" /\ r.i = was.i /\ r.failed = was.failed
      /\ r.op = was.op /\ r.start = was.start /\ was.until \in Nat /\ was.start \in Nat
  BY <1>2, <1>3 DEF CallsOfLlm, Under
<1>5. Budgeted(was.op) => now <= was.start + Budget(was.op) + MaxWait
  BY <1>2, <1>4, LlmNumbers DEF InChain
<1>6. InChain(r, now)
  BY <1>2, <1>4, <1>5 DEF InChain, Under
<1> QED
  BY <1>1, <1>2, <1>3, <1>4, <1>6, CallerMoves DEF WakesUp

(* The clock passes nobody's end. *)
LEMMA TickStep ==
  ASSUME LlmInv, ClockTicks
  PROVE  LlmInv'
<1>1. PICK now \in Nat : now = llmNow /\ llmNow' = now + 1 /\ now < MaxNow
  BY DEF LlmInv, ClockTicks
<1>2. ASSUME NEW c \in Callers
      PROVE  InChain(llm[c], now + 1)
  <2>1. PICK r \in CallsOfLlm : r = llm[c] /\ InChain(r, now)
    BY <1>1 DEF LlmInv
  <2>2. /\ r.pc # "try"
        /\ r.pc \in {"asking", "sleeping"} => ~(r.until <= now)
    BY <1>1, <2>1 DEF ClockTicks, Due
  <2>3. r.start \in Nat /\ r.until \in Nat /\ r.i \in Nat
    BY DEF CallsOfLlm
  <2>4. /\ Budget(r.op) \in Nat /\ MinAttempt \in Nat
    BY LlmNumbers
  <2>5. InChain(r, now + 1)
    BY <2>1, <2>2, <2>3, <2>4 DEF InChain, Under
  <2> QED
    BY <2>1, <2>5
<1> QED
  BY <1>1, <1>2 DEF LlmInv, ClockTicks

LEMMA LlmInvariant == LlmSpec => []LlmInv
<1>1. LlmInit => LlmInv
  <2> SUFFICES ASSUME LlmInit PROVE LlmInv
    OBVIOUS
  <2>1. Resting \in CallsOfLlm /\ Resting.pc = "idle" /\ Resting.start = 0
    BY DEF Resting, CallsOfLlm, Under
  <2>2. InChain(Resting, 0)
    BY <2>1 DEF InChain, Under
  <2> QED
    BY <2>1, <2>2 DEF LlmInit, LlmInv
<1>2. LlmInv /\ [LlmNext]_llmVars => LlmInv'
  <2> SUFFICES ASSUME LlmInv, [LlmNext]_llmVars PROVE LlmInv'
    OBVIOUS
  <2>1. CASE \E c \in Callers : AttemptFails(c)
    BY <2>1, NextModelStep DEF AttemptFails
  <2>2. CASE UNCHANGED llmVars
    BY <2>2 DEF llmVars, LlmInv
  <2> QED
    BY <2>1, <2>2, CallStep, AttemptStep, GiveUpStep, SuccessStep, RateLimitedStep,
       WakeStep, TickStep DEF LlmNext
<1> QED
  BY <1>1, <1>2, PTL DEF LlmSpec

(* A call over a chain of models raises only when every model has failed   *)
(* or no time is left, and none goes on past the budget and one last wait, *)
(* whatever the chains, budgets, timeouts and callers.                     *)
THEOREM ChainsKept == LlmSpec => []ChainsSound
<1>1. LlmInv => RaisesOnlyExhausted
  BY DEF LlmInv, InChain, RaisesOnlyExhausted, Elapsed
<1>2. ASSUME LlmInv, NEW c \in Callers, llm[c].pc \in Under, Budgeted(llm[c].op)
      PROVE  Elapsed(c) <= Budget(llm[c].op) + MaxWait
  <2>1. /\ llmNow \in Nat /\ llm[c].start \in Nat /\ llm[c].until \in Nat
        /\ InChain(llm[c], llmNow)
    BY <1>2 DEF LlmInv, CallsOfLlm
  <2>2. Budget(llm[c].op) \in Nat /\ MaxWait \in Nat
    BY LlmNumbers
  <2>3. llmNow <= llm[c].start + Budget(llm[c].op) + MaxWait
    BY <1>2, <2>1, <2>2 DEF InChain, Under
  <2> QED
    BY <2>1, <2>2, <2>3 DEF Elapsed
<1>3. LlmInv => ChainsSound
  BY <1>1, <1>2 DEF ChainsSound, ChainsEndInTime, Under
<1> QED
  BY LlmInvariant, <1>3, PTL

-----------------------------------------------------------------------------
(* Toolsets: no connection that is open is lost sight of. *)

ConnectionInv == connections \in Nat /\ connection \in 0 .. connections /\ NoConnectionLost

LEMMA ConnectionKept == ToolsetsSpec => []NoConnectionLost
<1>1. ToolsetsInit => ConnectionInv
  BY DEF ToolsetsInit, ConnectionInv, NoConnectionLost
<1>2. ConnectionInv /\ [ToolsetsNext]_toolsetVars => ConnectionInv'
  <2> SUFFICES ASSUME ConnectionInv, [ToolsetsNext]_toolsetVars PROVE ConnectionInv'
    OBVIOUS
  <2> USE DEF ConnectionInv, NoConnectionLost
  <2>1. CASE connectionsStay
    BY <2>1 DEF connectionsStay
  <2>2. ASSUME NEW w \in Workers, GetConnection(w) PROVE ConnectionInv'
    <3>1. CASE connection # 0
      BY <2>1, <2>2, <3>1 DEF GetConnection
    <3>2. CASE connections' = connections + 1 /\ connection' = connections' /\ opened' = opened \cup {connections'}
               /\ connection = 0
      BY <3>2
    <3> QED
      BY <2>1, <2>2, <3>1, <3>2 DEF GetConnection
  <2>3. ASSUME NEW w \in Workers, QueryFails(w) PROVE ConnectionInv'
    BY <2>3 DEF QueryFails, CloseConnection
  <2>4. CASE UNCHANGED toolsetVars
    BY <2>1, <2>4 DEF toolsetVars, connectionsStay
  <2>5. ASSUME NEW w \in Workers,
               \/ OfferTools(w) \/ ExecuteTool(w) \/ QueryDatabase(w) \/ InspectTables(w)
               \/ RunQuery(w) \/ CollectTool(w)
        PROVE  connectionsStay
    BY <2>5 DEF OfferTools, ExecuteTool, QueryDatabase, InspectTables, AskDatabase, RunQuery, CollectTool
  <2>6. ASSUME NEW n \in ToolsetNames, CheckToolset(n) \/ HealthExpires(n) PROVE connectionsStay
    BY <2>6 DEF CheckToolset, HealthExpires
  <2>7. ASSUME RecordEffective PROVE connectionsStay
    BY <2>7 DEF RecordEffective
  <2> QED
    BY <2>1, <2>2, <2>3, <2>4, <2>5, <2>6, <2>7 DEF ToolsetsNext
<1>3. ConnectionInv => NoConnectionLost
  BY DEF ConnectionInv
<1> QED
  BY <1>1, <1>2, <1>3, PTL DEF ToolsetsSpec

-----------------------------------------------------------------------------
(* PersistentShell: a command is run once, and gets its own output. *)

OwnPrints(c) == {Prints(c), Delimiter(c)}

Printed == UNION {OwnPrints(c) : c \in Commands}

Pieces == [what : {"run", "echo"}, of : Commands]

ShellRecords ==
  [proc : {"unborn", "alive", "dead", "gone"}, holder : Commands \cup {"nobody"},
   input : Seq(Pieces), line : SUBSET Printed, lines : Seq(SUBSET Printed)]

Early == {"new", "got", "waiting", "fallback"}   (* the command is not written yet *)

CommandRecords ==
  [at : Early \cup {"reading", "over"}, does : Behaviours, on : Nat,
   out : SUBSET Printed, code : {"none", "exit", "timeout", "died"}, times : {0, 1}]

(* A shell that nobody holds has nothing to do, and no line begun. *)
Vacant(sh) ==
  /\ sh.holder = "nobody" /\ sh.input = <<>>
  /\ sh.proc \in {"unborn", "alive"} => sh.line = {}

(* A shell that is held has run the command, unless it has both pieces of  *)
(* input ahead, and prints nothing but its output; the delimiter is last.  *)
Serving(sh, c, times) ==
  /\ sh.holder = c /\ sh.proc # "unborn"
  /\ sh.line \subseteq OwnPrints(c)
  /\ \A p \in DOMAIN sh.lines : sh.lines[p] \subseteq OwnPrints(c)
  /\ sh.input # <<>> => sh.proc = "alive"
  /\ \/ sh.input = <<Piece("run", c), Piece("echo", c)>> /\ times = 0 /\ sh.lines = <<>> /\ sh.line = {}
     \/ /\ sh.input = <<Piece("echo", c)>> /\ times = 1
        /\ sh.line \subseteq {Prints(c)}
        /\ \A p \in DOMAIN sh.lines : sh.lines[p] \subseteq {Prints(c)}
     \/ sh.input = <<>> /\ times = 1 /\ (sh.proc = "alive" => sh.line = {})

(* The call of a command, apart from the shell it reads from. *)
CallSound(call, c) ==
  /\ call.at # "new" => call.on \in Shells
  /\ call.at \in Early => call.times = 0 /\ call.out = {}
  /\ call.out \subseteq OwnPrints(c)

ShellInv ==
  /\ instance \in 0 .. MaxShells
  /\ shell \in [Shells -> ShellRecords]
  /\ command \in [Commands -> CommandRecords]
  /\ \A s \in Shells : s > instance => shell[s].proc = "unborn"
  /\ \A s \in Shells :
       \/ Vacant(shell[s])
       \/ /\ shell[s].holder \in Commands
          /\ command[shell[s].holder].at = "reading" /\ command[shell[s].holder].on = s
          /\ Serving(shell[s], shell[s].holder, command[shell[s].holder].times)
  /\ \A c \in Commands :
       /\ CallSound(command[c], c)
       /\ command[c].at = "reading" => shell[command[c].on].holder = c

(* A command without a shell in hand goes on. *)
LEMMA AloneStep ==
  ASSUME ShellInv, shell' = shell, instance' = instance,
         NEW c \in Commands, command[c].at # "reading",
         NEW call \in CommandRecords, command' = [command EXCEPT ![c] = call],
         call.at # "reading", CallSound(call, c)
  PROVE  ShellInv'
<1>1. /\ command' \in [Commands -> CommandRecords] /\ command'[c] = call
      /\ \A d \in Commands : d # c => command'[d] = command[d]
  BY DEF ShellInv
<1>2. ASSUME NEW s \in Shells
      PROVE  \/ Vacant(shell[s])
             \/ /\ shell[s].holder \in Commands
                /\ command'[shell[s].holder].at = "reading" /\ command'[shell[s].holder].on = s
                /\ Serving(shell[s], shell[s].holder, command'[shell[s].holder].times)
  <2>1. shell[s].holder = c => Vacant(shell[s])
    BY DEF ShellInv
  <2> QED
    BY <1>1, <2>1 DEF ShellInv
<1>3. ASSUME NEW d \in Commands
      PROVE  /\ CallSound(command'[d], d)
             /\ command'[d].at = "reading" => shell[command'[d].on].holder = d
  BY <1>1 DEF ShellInv
<1> QED
  BY <1>1, <1>2, <1>3 DEF ShellInv

(* A command and the shell that it has, takes or gives back. *)
LEMMA HolderStep ==
  ASSUME ShellInv, instance' = instance,
         NEW c \in Commands, NEW s \in Shells, command[c].at \in {"waiting", "reading"},
         command[c].on = s, shell[s].holder \in {c, "nobody"}, s <= instance,
         NEW new \in ShellRecords, shell' = [shell EXCEPT ![s] = new],
         NEW call \in CommandRecords, command' = [command EXCEPT ![c] = call],
         CallSound(call, c), call.on = s,
         \/ call.at = "reading" /\ Serving(new, c, call.times)
         \/ call.at # "reading" /\ Vacant(new)
  PROVE  ShellInv'
<1>1. /\ command' \in [Commands -> CommandRecords] /\ command'[c] = call
      /\ \A d \in Commands : d # c => command'[d] = command[d]
  BY DEF ShellInv
<1>2. /\ shell' \in [Shells -> ShellRecords] /\ shell'[s] = new
      /\ \A u \in Shells : u # s => shell'[u] = shell[u]
  BY DEF ShellInv
<1>3. ASSUME NEW u \in Shells
      PROVE  \/ Vacant(shell'[u])
             \/ /\ shell'[u].holder \in Commands
                /\ command'[shell'[u].holder].at = "reading" /\ command'[shell'[u].holder].on = u
                /\ Serving(shell'[u], shell'[u].holder, command'[shell'[u].holder].times)
  <2>1. CASE u = s
    <3>1. Serving(new, c, call.times) => new.holder = c
      BY DEF Serving
    <3> QED
      BY <1>1, <1>2, <2>1, <3>1
  <2>2. CASE u # s
    <3>1. Vacant(shell[u]) \/ shell[u].holder # c
      BY <2>2 DEF ShellInv
    <3> QED
      BY <1>1, <1>2, <2>2, <3>1 DEF ShellInv
  <2> QED
    BY <2>1, <2>2
<1>4. ASSUME NEW d \in Commands
      PROVE  /\ CallSound(command'[d], d)
             /\ command'[d].at = "reading" => shell'[command'[d].on].holder = d
  <2>1. CASE d = c
    BY <1>1, <1>2, <2>1 DEF Serving
  <2>2. CASE d # c
    <3>1. CallSound(command[d], d) /\ command'[d] = command[d]
      BY <1>1, <2>2 DEF ShellInv
    <3>2. command[d].at = "reading" => command[d].on # s /\ command[d].on \in Shells
      BY <2>2, ShellAssumption DEF ShellInv, CallSound
    <3> QED
      BY <1>2, <3>1, <3>2 DEF ShellInv
  <2> QED
    BY <2>1, <2>2
<1>5. \A u \in Shells : u > instance' => shell'[u].proc = "unborn"
  BY <1>2 DEF ShellInv, Shells
<1> QED
  BY <1>1, <1>2, <1>3, <1>4, <1>5 DEF ShellInv

(* Where a command that reads stands with its shell. *)
LEMMA Holder ==
  ASSUME ShellInv, NEW c \in Commands, command[c].at = "reading"
  PROVE  /\ command[c].on \in Shells /\ command[c].on <= instance
         /\ command[c] \in CommandRecords /\ CallSound(command[c], c)
         /\ shell[command[c].on] \in ShellRecords
         /\ shell[command[c].on].holder = c
         /\ Serving(shell[command[c].on], c, command[c].times)
<1>1. PICK s \in Shells : s = command[c].on
  BY DEF ShellInv, CallSound
<1>2. shell[s].holder = c /\ ~Vacant(shell[s])
  BY <1>1, ShellAssumption DEF ShellInv, Vacant
<1>3. Serving(shell[s], c, command[c].times)
  BY <1>2 DEF ShellInv
<1>4. ~ (s > instance)
  BY <1>3 DEF ShellInv, Serving
<1> QED
  BY <1>1, <1>2, <1>3, <1>4 DEF ShellInv, Shells

LEMMA GetShellStep ==
  ASSUME ShellInv, NEW c \in Commands, GetShell(c)
  PROVE  ShellInv'
<1>1. command[c].at = "new" /\ command[c] \in CommandRecords /\ CallSound(command[c], c)
  BY DEF GetShell, ShellInv
<1>2. instance \in Nat /\ MaxShells \in Nat
  BY ShellAssumption DEF ShellInv
<1>3. PICK latest \in Shells : /\ latest = instance'
                               /\ \/ Alive(instance) /\ instance' = instance /\ shell' = shell
                                  \/ /\ ~Alive(instance) /\ instance' = instance + 1
                                     /\ shell' = [shell EXCEPT ![latest].proc = "alive"]
  <2>1. CASE Alive(instance)
    BY <1>2, <2>1 DEF GetShell, Alive, ShellInv, Shells
  <2>2. CASE ~Alive(instance)
    <3>1. PICK latest : latest = instance + 1
      OBVIOUS
    <3>2. latest \in Shells
      BY <1>2, <2>2, <3>1 DEF GetShell, Shells
    <3> QED
      BY <2>2, <3>1, <3>2 DEF GetShell
  <2> QED
    BY <2>1, <2>2
<1>4. PICK call : call = Has(command[c], latest)
  OBVIOUS
<1>5. call \in CommandRecords /\ call.at = "got" /\ CallSound(call, c)
  <2>1. latest \in Nat
    BY DEF Shells
  <2> QED
    BY <1>1, <1>4, <2>1 DEF Has, CommandRecords, CallSound, Early
<1>6. command' = [command EXCEPT ![c] = call]
  BY <1>3, <1>4 DEF GetShell, ShellInv
<1>7. CASE instance' = instance /\ shell' = shell
  BY <1>1, <1>5, <1>6, <1>7, AloneStep
<1>8. CASE instance' = instance + 1 /\ shell' = [shell EXCEPT ![latest].proc = "alive"]
  <2>1. PICK old \in ShellRecords : old = shell[latest]
    BY DEF ShellInv
  <2>2. latest > instance
    BY <1>2, <1>3, <1>8
  <2>3. Vacant(old) /\ old.proc = "unborn"
    BY <2>1, <2>2 DEF ShellInv, Serving
  <2>4. PICK new : new = [old EXCEPT !.proc = "alive"]
    OBVIOUS
  <2>5. new \in ShellRecords /\ Vacant(new)
    BY <2>3, <2>4 DEF Vacant, ShellRecords
  <2>6. /\ shell' \in [Shells -> ShellRecords] /\ shell'[latest] = new
        /\ \A s \in Shells : s # latest => shell'[s] = shell[s]
    BY <1>8, <2>1, <2>4, <2>5 DEF ShellInv
  <2>7. /\ command' \in [Commands -> CommandRecords] /\ command'[c] = call
        /\ \A d \in Commands : d # c => command'[d] = command[d]
    BY <1>5, <1>6 DEF ShellInv
  <2>8. ASSUME NEW s \in Shells
        PROVE  \/ Vacant(shell'[s])
               \/ /\ shell'[s].holder \in Commands
                  /\ command'[shell'[s].holder].at = "reading" /\ command'[shell'[s].holder].on = s
                  /\ Serving(shell'[s], shell'[s].holder, command'[shell'[s].holder].times)
    <3>1. CASE s = latest
      BY <2>5, <2>6, <3>1
    <3>2. CASE s # latest
      <4>1. Vacant(shell[s]) \/ shell[s].holder # c
        BY <1>1 DEF ShellInv
      <4> QED
        BY <2>6, <2>7, <3>2, <4>1 DEF ShellInv
    <3> QED
      BY <3>1, <3>2
  <2>9. ASSUME NEW d \in Commands
        PROVE  /\ CallSound(command'[d], d)
               /\ command'[d].at = "reading" => shell'[command'[d].on].holder = d
    <3>1. CASE d = c
      BY <1>5, <2>7, <3>1
    <3>2. CASE d # c
      <4>1. command'[d] = command[d] /\ CallSound(command[d], d)
        BY <2>7, <3>2 DEF ShellInv
      <4>2. ASSUME command[d].at = "reading"
            PROVE  command[d].on \in Shells /\ command[d].on # latest /\ shell[command[d].on].holder = d
        BY <2>1, <2>3, <4>2, ShellAssumption DEF ShellInv, CallSound, Vacant
      <4> QED
        BY <2>6, <4>1, <4>2
    <3> QED
      BY <3>1, <3>2
  <2>10. instance' \in 0 .. MaxShells
    BY <1>3 DEF Shells
  <2>11. \A s \in Shells : s > instance' => shell'[s].proc = "unborn"
    BY <1>2, <1>3, <1>8, <2>6 DEF ShellInv, Shells
  <2> QED
    BY <2>6, <2>7, <2>8, <2>9, <2>10, <2>11 DEF ShellInv
<1> QED
  BY <1>3, <1>7, <1>8

(* A command that is not written yet goes to where it writes, or runs      *)
(* outside.                                                                *)
LEMMA EarlyStep ==
  ASSUME ShellInv, NEW c \in Commands, command[c].at \in {"got", "waiting"},
         NEW phase \in {"waiting", "fallback"}, Proceed(c, phase),
         shell' = shell, instance' = instance
  PROVE  ShellInv'
<1>1. PICK call : call = [command[c] EXCEPT !.at = phase]
  OBVIOUS
<1>2. command[c] \in CommandRecords /\ CallSound(command[c], c)
  BY DEF ShellInv
<1>3. call \in CommandRecords /\ call.at = phase /\ CallSound(call, c)
  BY <1>1, <1>2 DEF CommandRecords, CallSound, Early
<1>4. command' = [command EXCEPT ![c] = call]
  BY <1>1 DEF Proceed, ShellInv
<1> QED
  BY <1>3, <1>4, AloneStep

LEMMA RunStartsStep ==
  ASSUME ShellInv, NEW c \in Commands, RunStarts(c)
  PROVE  ShellInv'
<1>1. PICK phase : phase = IF Alive(command[c].on) THEN "waiting" ELSE "fallback"
  OBVIOUS
<1>2. phase \in {"waiting", "fallback"} /\ Proceed(c, phase)
  BY <1>1 DEF RunStarts
<1> QED
  BY <1>2, EarlyStep DEF RunStarts

LEMMA WriteStep ==
  ASSUME ShellInv, NEW c \in Commands, Write(c)
  PROVE  ShellInv'
<1>1. /\ command[c].at = "waiting" /\ command[c] \in CommandRecords /\ CallSound(command[c], c)
      /\ instance' = instance
  BY DEF Write, ShellInv
<1>2. PICK s \in Shells : s = command[c].on
  BY <1>1 DEF CallSound, Early
<1>3. PICK old \in ShellRecords : old = shell[s] /\ old.holder = "nobody"
  BY <1>2 DEF Write, ShellInv
<1>4. CASE old.proc # "alive"
  <2>1. Proceed(c, "fallback") /\ shell' = shell
    BY <1>2, <1>3, <1>4 DEF Write
  <2> QED
    BY <1>1, <2>1, EarlyStep
<1>5. CASE old.proc = "alive"
  <2>1. Vacant(old) /\ s <= instance
    BY <1>3, <1>5, ShellAssumption DEF ShellInv, Shells
  <2>2. PICK pieces : pieces = <<Piece("run", c), Piece("echo", c)>>
    OBVIOUS
  <2>3. pieces \in Seq(Pieces) /\ <<>> \o pieces = pieces
    <3>1. Piece("run", c) \in Pieces /\ Piece("echo", c) \in Pieces
      BY DEF Piece, Pieces
    <3> QED
      BY <2>2, <3>1
  <2>4. PICK new : new = [old EXCEPT !.holder = c, !.lines = <<>>, !.input = pieces]
    OBVIOUS
  <2>5. <<>> \in Seq(SUBSET Printed)
    OBVIOUS
  <2>6. /\ new \in ShellRecords /\ new.holder = c /\ new.proc = "alive" /\ new.line = {}
        /\ new.input = pieces /\ new.lines = <<>>
    BY <1>5, <2>1, <2>3, <2>4, <2>5 DEF ShellRecords, Vacant
  <2>7. PICK call : call = [command[c] EXCEPT !.at = "reading"]
    OBVIOUS
  <2>8. /\ call \in CommandRecords /\ call.at = "reading" /\ call.on = s /\ call.times = 0
        /\ CallSound(call, c)
    BY <1>1, <1>2, <2>7 DEF CommandRecords, CallSound, Early
  <2>9. Serving(new, c, call.times)
    BY <2>2, <2>6, <2>8 DEF Serving
  <2>10. command' = [command EXCEPT ![c] = call]
    BY <1>2, <1>3, <1>5, <2>7 DEF Write, Proceed, ShellInv
  <2>11. shell' = [shell EXCEPT ![s] = new]
    <3>1. shell' = [shell EXCEPT ![s].holder = c, ![s].lines = <<>>,
                                 ![s].input = @ \o <<Piece("run", c), Piece("echo", c)>>]
      BY <1>2, <1>3, <1>5 DEF Write
    <3>2. shell[s].input = <<>>
      BY <1>3, <2>1 DEF Vacant
    <3>3. shell' = [shell EXCEPT ![s].holder = c, ![s].lines = <<>>, ![s].input = pieces]
      BY <2>2, <2>3, <3>1, <3>2 DEF ShellInv, ShellRecords
    <3> QED
      BY <1>3, <2>4, <3>3 DEF ShellInv
  <2> QED
    BY <1>1, <1>2, <1>3, <2>1, <2>6, <2>8, <2>9, <2>10, <2>11, HolderStep
<1> QED
  BY <1>4, <1>5

LEMMA FallbackStep ==
  ASSUME ShellInv, NEW c \in Commands, Fallback(c)
  PROVE  ShellInv'
<1>1. /\ command[c].at = "fallback" /\ command[c] \in CommandRecords /\ CallSound(command[c], c)
      /\ shell' = shell /\ instance' = instance
  BY DEF Fallback, ShellInv
<1>2. command[c].times = 0 /\ command[c].times + 1 = 1
  BY <1>1 DEF CallSound, Early
<1>3. PICK call : call = RunOutside(command[c], c, 1)
  OBVIOUS
<1>4. {Prints(c)} \subseteq Printed
  BY DEF Printed, OwnPrints
<1>5. call \in CommandRecords /\ call.at = "over" /\ CallSound(call, c)
  BY <1>1, <1>3, <1>4 DEF RunOutside, CommandRecords, CallSound, Early, OwnPrints
<1>6. command' = [command EXCEPT ![c] = call]
  BY <1>2, <1>3 DEF Fallback, ShellInv
<1> QED
  BY <1>1, <1>5, <1>6, AloneStep

(* The shell ends a line, or does not. *)
LEMMA PutEnds ==
  ASSUME NEW old \in ShellRecords, NEW printed \in SUBSET Printed, old.input # <<>>
  PROVE  /\ Put(old, printed, TRUE) \in ShellRecords
         /\ Put(old, printed, TRUE).proc = old.proc /\ Put(old, printed, TRUE).holder = old.holder
         /\ Put(old, printed, TRUE).input = Tail(old.input)
         /\ Put(old, printed, TRUE).lines = Append(old.lines, old.line \cup printed)
         /\ Put(old, printed, TRUE).line = {}
<1>0. Tail(old.input) \in Seq(Pieces) /\ old.line \cup printed \in SUBSET Printed
  BY DEF ShellRecords
<1>1. PICK input \in Seq(Pieces) : input = Tail(old.input)
  BY <1>0
<1>2. PICK lines \in Seq(SUBSET Printed) : lines = Append(old.lines, old.line \cup printed)
  <2>1. Append(old.lines, old.line \cup printed) \in Seq(SUBSET Printed)
    BY <1>0 DEF ShellRecords
  <2> QED
    BY <2>1
<1>3. Put(old, printed, TRUE) = [old EXCEPT !.input = input, !.lines = lines, !.line = {}]
  BY <1>1, <1>2 DEF Put
<1> QED
  BY <1>1, <1>2, <1>3 DEF ShellRecords

LEMMA PutOn ==
  ASSUME NEW old \in ShellRecords, NEW printed \in SUBSET Printed, old.input # <<>>
  PROVE  /\ Put(old, printed, FALSE) \in ShellRecords
         /\ Put(old, printed, FALSE).proc = old.proc /\ Put(old, printed, FALSE).holder = old.holder
         /\ Put(old, printed, FALSE).input = Tail(old.input)
         /\ Put(old, printed, FALSE).lines = old.lines
         /\ Put(old, printed, FALSE).line = old.line \cup printed
<1>0. Tail(old.input) \in Seq(Pieces) /\ old.line \cup printed \in SUBSET Printed
  BY DEF ShellRecords
<1>1. PICK input \in Seq(Pieces) : input = Tail(old.input)
  BY <1>0
<1>2. PICK line \in SUBSET Printed : line = old.line \cup printed
  BY DEF ShellRecords
<1>3. Put(old, printed, FALSE) = [old EXCEPT !.input = input, !.line = line]
  BY <1>1, <1>2 DEF Put
<1> QED
  BY <1>1, <1>2, <1>3 DEF ShellRecords

(* Names that are told apart. *)
LEMMA OwnNames ==
  ASSUME NEW c \in Commands
  PROVE  /\ Prints(c) # Delimiter(c)
         /\ {Prints(c)} \in SUBSET Printed /\ {Delimiter(c)} \in SUBSET Printed
         /\ Piece("run", c).what = "run" /\ Piece("run", c).of = c
         /\ Piece("echo", c).what = "echo" /\ Piece("echo", c).of = c
  BY DEF Prints, Delimiter, OwnPrints, Printed, Piece

(* The shell runs the command that holds it. *)
LEMMA RunServes ==
  ASSUME NEW c \in Commands, NEW old \in ShellRecords, Serving(old, c, 0),
         NEW does
  PROVE  Ran(old, c, does) \in ShellRecords /\ Serving(Ran(old, c, does), c, 1)
<1>1. /\ old.input = <<Piece("run", c), Piece("echo", c)>> /\ old.lines = <<>> /\ old.line = {}
      /\ old.holder = c /\ old.proc # "unborn" /\ old.input # <<>> /\ old.proc = "alive"
  BY DEF Serving
<1>2. Tail(old.input) = <<Piece("echo", c)>>
  BY <1>1
<1>3. PICK prints \in SUBSET Printed : prints = {Prints(c)}
  BY OwnNames
<1>4. ASSUME NEW new \in ShellRecords, new.proc = "alive", new.holder = c,
             new.input = Tail(old.input),
             \/ new.line = {} /\ new.lines = <<prints>>
             \/ new.line \in {{}, prints} /\ new.lines = <<>>
      PROVE  Serving(new, c, 1)
  <2>1. \A p \in DOMAIN new.lines : new.lines[p] \subseteq {Prints(c)}
    BY <1>3, <1>4
  <2>2. new.line \subseteq {Prints(c)}
    BY <1>3, <1>4
  <2> QED
    BY <1>2, <1>4, <2>1, <2>2 DEF Serving, OwnPrints
<1>5. CASE Ran(old, c, does) = Put(old, prints, TRUE)
  <2>1. Append(old.lines, old.line \cup prints) = <<prints>>
    <3>1. old.line \cup prints = prints
      BY <1>1
    <3> QED
      BY <1>1, <3>1
  <2>2. PICK new : new = Put(old, prints, TRUE)
    OBVIOUS
  <2>3. /\ new \in ShellRecords /\ new.proc = "alive" /\ new.holder = c
        /\ new.input = Tail(old.input) /\ new.lines = <<prints>> /\ new.line = {}
    BY <1>1, <2>1, <2>2, PutEnds
  <2> QED
    BY <1>4, <1>5, <2>2, <2>3
<1>6. CASE Ran(old, c, does) = Put(old, prints, FALSE)
  <2>1. old.line \cup prints = prints
    BY <1>1
  <2> QED
    BY <1>1, <1>4, <1>6, <2>1, PutOn
<1>7. CASE Ran(old, c, does) = Put(old, {}, FALSE)
  <2>1. old.line \cup {} = {} /\ {} \in SUBSET Printed
    BY <1>1
  <2> QED
    BY <1>1, <1>4, <1>7, <2>1, PutOn
<1>8. CASE Ran(old, c, does) = [old EXCEPT !.proc = "dead", !.input = <<>>]
  <2>1. PICK new : new = Ran(old, c, does)
    OBVIOUS
  <2>2. <<>> \in Seq(Pieces)
    OBVIOUS
  <2>3. /\ new \in ShellRecords /\ new.proc = "dead" /\ new.input = <<>> /\ new.holder = c
        /\ new.line = {} /\ new.lines = <<>>
    BY <1>1, <1>8, <2>1, <2>2 DEF ShellRecords
  <2>4. Serving(new, c, 1)
    BY <2>3 DEF Serving
  <2> QED
    BY <2>1, <2>3, <2>4
<1> QED
  BY <1>3, <1>5, <1>6, <1>7, <1>8 DEF Ran

(* Then it echoes the delimiter. *)
LEMMA EchoServes ==
  ASSUME NEW c \in Commands, NEW old \in ShellRecords, Serving(old, c, 1), old.input # <<>>
  PROVE  /\ Put(old, {Delimiter(c)}, TRUE) \in ShellRecords
         /\ Serving(Put(old, {Delimiter(c)}, TRUE), c, 1)
<1>1. /\ old.input = <<Piece("echo", c)>> /\ old.holder = c /\ old.proc # "unborn"
      /\ old.line \subseteq {Prints(c)}
      /\ \A p \in DOMAIN old.lines : old.lines[p] \subseteq {Prints(c)}
  BY DEF Serving
<1>2. PICK new : new = Put(old, {Delimiter(c)}, TRUE)
  OBVIOUS
<1>3. /\ new \in ShellRecords /\ new.proc = old.proc /\ new.holder = c
      /\ new.input = Tail(old.input)
      /\ new.lines = Append(old.lines, old.line \cup {Delimiter(c)}) /\ new.line = {}
  BY <1>1, <1>2, OwnNames, PutEnds
<1>4. new.input = <<>>
  <2>1. PICK x : old.input = <<x>>
    BY <1>1
  <2>2. Tail(<<x>>) = <<>>
    OBVIOUS
  <2> QED
    BY <1>3, <2>1, <2>2
<1>5. ASSUME NEW p \in DOMAIN new.lines PROVE new.lines[p] \subseteq OwnPrints(c)
  <2>1. PICK end \in SUBSET Printed : end = old.line \cup {Delimiter(c)}
    BY OwnNames DEF ShellRecords
  <2>2. old.lines \in Seq(SUBSET Printed) /\ new.lines = Append(old.lines, end)
    BY <1>3, <2>1 DEF ShellRecords
  <2>3. CASE p \in DOMAIN old.lines
    <3>1. new.lines[p] = old.lines[p]
      BY <2>2, <2>3
    <3> QED
      BY <1>1, <2>3, <3>1 DEF OwnPrints
  <2>4. CASE p \notin DOMAIN old.lines
    <3>1. new.lines[p] = end
      BY <1>5, <2>2, <2>4
    <3> QED
      BY <1>1, <2>1, <3>1 DEF OwnPrints
  <2> QED
    BY <2>3, <2>4
<1>6. Serving(new, c, 1)
  BY <1>1, <1>3, <1>4, <1>5 DEF Serving
<1> QED
  BY <1>2, <1>3, <1>6

LEMMA BashRunsStep ==
  ASSUME ShellInv, NEW s \in Shells, BashRuns(s)
  PROVE  ShellInv'
<1>1. PICK old \in ShellRecords : old = shell[s] /\ old.input # <<>>
  BY DEF BashRuns, ShellInv
<1>2. PICK c \in Commands : c = old.holder /\ command[c].at = "reading" /\ command[c].on = s
                            /\ Serving(old, c, command[c].times)
  BY <1>1 DEF ShellInv, Vacant
<1>3. PICK call \in CommandRecords : call = command[c] /\ CallSound(call, c)
  BY DEF ShellInv
<1>4. s <= instance /\ instance' = instance
  BY <1>2, Holder DEF BashRuns
<1>5. PICK next : next = Head(old.input)
  OBVIOUS
<1>6. CASE call.times = 0
  <2>1. next = Piece("run", c)
    BY <1>1, <1>2, <1>3, <1>5, <1>6 DEF Serving
  <2>2. next.of = c /\ next.what # "echo"
    BY <2>1, OwnNames
  <2>3. PICK new : new = Ran(old, c, call.does)
    OBVIOUS
  <2>4. new \in ShellRecords /\ Serving(new, c, 1)
    BY <1>2, <1>3, <1>6, <2>3, RunServes
  <2>5. shell' = [shell EXCEPT ![s] = new] /\ command' = [command EXCEPT ![c].times = @ + 1]
    BY <1>1, <1>3, <1>5, <2>2, <2>3 DEF BashRuns, ShellInv
  <2>6. PICK ran : ran = [call EXCEPT !.times = 1]
    OBVIOUS
  <2>7. /\ ran \in CommandRecords /\ ran.at = "reading" /\ ran.on = s /\ ran.times = 1
        /\ CallSound(ran, c)
    BY <1>2, <1>3, <2>6 DEF CommandRecords, CallSound, Early
  <2>8. command[c].times + 1 = 1
    BY <1>3, <1>6
  <2>9. command' = [command EXCEPT ![c] = ran]
    BY <1>3, <2>5, <2>6, <2>8 DEF ShellInv
  <2> QED
    BY <1>1, <1>2, <1>4, <2>4, <2>5, <2>7, <2>9, HolderStep
<1>7. CASE call.times # 0
  <2>1. call.times = 1
    BY <1>3, <1>7 DEF CommandRecords
  <2>2. Serving(old, c, 1)
    BY <1>2, <1>3, <2>1
  <2>3. next = Piece("echo", c)
    BY <1>1, <1>5, <2>2 DEF Serving
  <2>4. next.of = c /\ next.what = "echo"
    BY <2>3, OwnNames
  <2>5. PICK new : new = Put(old, {Delimiter(c)}, TRUE)
    OBVIOUS
  <2>6. new \in ShellRecords /\ Serving(new, c, 1)
    BY <1>1, <2>2, <2>5, EchoServes
  <2>7. shell' = [shell EXCEPT ![s] = new] /\ command' = command
    BY <1>1, <1>5, <2>4, <2>5 DEF BashRuns, ShellInv
  <2>8. command' = [command EXCEPT ![c] = call]
    BY <1>3, <2>7 DEF ShellInv
  <2>9. call.at = "reading" /\ call.on = s
    BY <1>2, <1>3
  <2> QED
    BY <1>1, <1>2, <1>3, <1>4, <2>1, <2>6, <2>7, <2>8, <2>9, HolderStep
<1> QED
  BY <1>6, <1>7

LEMMA ReadLineStep ==
  ASSUME ShellInv, NEW c \in Commands, ReadLine(c)
  PROVE  ShellInv'
<1>1. command[c].at = "reading" /\ instance' = instance
  BY DEF ReadLine
<1>2. PICK s \in Shells : s = command[c].on /\ s <= instance
  BY <1>1, Holder
<1>3. PICK old \in ShellRecords : old = shell[s] /\ old.holder = c
                                  /\ Serving(old, c, command[c].times)
  BY <1>1, <1>2, Holder
<1>4. PICK call \in CommandRecords : call = command[c] /\ CallSound(call, c)
  BY <1>1, Holder
<1>5. PICK line : line = Head(old.lines)
  OBVIOUS
<1>6. /\ old.lines # <<>> /\ old.lines \in Seq(SUBSET Printed)
      /\ Tail(old.lines) \in Seq(SUBSET Printed)
  BY <1>2, <1>3 DEF ReadLine, ShellRecords
<1>7. 1 \in DOMAIN old.lines /\ line = old.lines[1]
  BY <1>5, <1>6
<1>8. line \in SUBSET Printed /\ line \subseteq OwnPrints(c)
  BY <1>3, <1>6, <1>7 DEF Serving
<1>9. CASE line = {Delimiter(c)}
  <2>1. old.input = <<>> /\ (old.proc = "alive" => old.line = {}) /\ old.proc # "unborn"
    BY <1>3, <1>6, <1>7, <1>9, OwnNames DEF Serving
  <2>2. PICK new : new = [old EXCEPT !.lines = Tail(old.lines), !.holder = "nobody"]
    OBVIOUS
  <2>3. new \in ShellRecords /\ Vacant(new)
    BY <1>6, <2>1, <2>2 DEF ShellRecords, Vacant
  <2>4. shell' = [shell EXCEPT ![s] = new]
    BY <1>2, <1>3, <1>5, <1>9, <2>2 DEF ReadLine, ShellInv
  <2>5. PICK done : done = [call EXCEPT !.at = "over", !.code = "exit"]
    OBVIOUS
  <2>6. done \in CommandRecords /\ done.at = "over" /\ done.on = s /\ CallSound(done, c)
    BY <1>1, <1>2, <1>4, <2>5 DEF CommandRecords, CallSound, Early
  <2>7. command' = [command EXCEPT ![c] = done]
    BY <1>2, <1>3, <1>4, <1>5, <1>9, <2>5 DEF ReadLine, Return, ShellInv
  <2> QED
    BY <1>1, <1>2, <1>3, <2>3, <2>4, <2>6, <2>7, HolderStep
<1>10. CASE line # {Delimiter(c)}
  <2>1. PICK new : new = [old EXCEPT !.lines = Tail(old.lines)]
    OBVIOUS
  <2>2. /\ new \in ShellRecords /\ new.holder = old.holder /\ new.proc = old.proc
        /\ new.input = old.input /\ new.line = old.line /\ new.lines = Tail(old.lines)
    BY <1>6, <2>1 DEF ShellRecords
  <2>3. \A p \in DOMAIN new.lines : p + 1 \in DOMAIN old.lines /\ new.lines[p] = old.lines[p + 1]
    BY <1>6, <2>2
  <2>4. Serving(new, c, command[c].times)
    BY <1>3, <1>6, <2>2, <2>3 DEF Serving
  <2>5. shell' = [shell EXCEPT ![s] = new]
    BY <1>2, <1>3, <1>5, <1>10, <2>1 DEF ReadLine, ShellInv
  <2>6. PICK reads : reads = [call EXCEPT !.out = call.out \cup line]
    OBVIOUS
  <2>7. /\ reads \in CommandRecords /\ reads.at = "reading" /\ reads.on = s
        /\ reads.times = command[c].times /\ CallSound(reads, c)
    BY <1>1, <1>2, <1>4, <1>8, <2>6 DEF CommandRecords, CallSound, Early
  <2>8. command' = [command EXCEPT ![c] = reads]
    BY <1>2, <1>3, <1>4, <1>5, <1>10, <2>6 DEF ReadLine, ShellInv
  <2> QED
    BY <1>1, <1>2, <1>3, <2>2, <2>4, <2>5, <2>7, <2>8, HolderStep
<1> QED
  BY <1>9, <1>10

(* The shell is forgotten with the command. *)
LEMMA ForgetStep ==
  ASSUME ShellInv, NEW c \in Commands, command[c].at = "reading", instance' = instance,
         NEW code \in {"timeout", "died"}, Return(c, code),
         shell' = [shell EXCEPT ![command[c].on] = Forget(@, "gone")]
  PROVE  ShellInv'
<1>1. PICK s \in Shells : s = command[c].on /\ s <= instance
  BY Holder
<1>2. PICK old \in ShellRecords : old = shell[s] /\ old.holder = c
  BY <1>1, Holder
<1>3. PICK new : new = Forget(old, "gone")
  OBVIOUS
<1>4. new \in ShellRecords /\ Vacant(new)
  <2>1. <<>> \in Seq(Pieces)
    OBVIOUS
  <2> QED
    BY <1>3, <2>1 DEF Forget, ShellRecords, Vacant
<1>5. shell' = [shell EXCEPT ![s] = new]
  BY <1>1, <1>2, <1>3 DEF ShellInv
<1>6. PICK call : call = [command[c] EXCEPT !.at = "over", !.code = code]
  OBVIOUS
<1>7. call \in CommandRecords /\ call.at = "over" /\ call.on = s /\ CallSound(call, c)
  <2>1. PICK was \in CommandRecords : was = command[c] /\ was.on = s /\ CallSound(was, c)
    BY <1>1, Holder
  <2>2. call = [was EXCEPT !.at = "over", !.code = code]
    BY <1>6, <2>1
  <2> QED
    BY <2>1, <2>2 DEF CommandRecords, CallSound, Early
<1>8. command' = [command EXCEPT ![c] = call]
  BY <1>6 DEF Return, ShellInv
<1> QED
  BY <1>1, <1>2, <1>4, <1>5, <1>7, <1>8, HolderStep

LEMMA ShellInvariant == ShellSpec => []ShellInv
<1>1. ShellInit => ShellInv
  <2> SUFFICES ASSUME ShellInit PROVE ShellInv
    OBVIOUS
  <2>1. Unborn \in ShellRecords /\ Vacant(Unborn) /\ Unborn.proc = "unborn"
    <3>1. <<>> \in Seq(Pieces) /\ <<>> \in Seq(SUBSET Printed)
      OBVIOUS
    <3> QED
      BY <3>1 DEF Unborn, ShellRecords, Vacant
  <2>2. shell \in [Shells -> ShellRecords] /\ \A s \in Shells : shell[s] = Unborn
    BY <2>1 DEF ShellInit
  <2>3. PICK f \in [Commands -> Behaviours] : command = [c \in Commands |-> [Blank EXCEPT !.does = f[c]]]
    BY DEF ShellInit
  <2>4. ASSUME NEW c \in Commands
        PROVE  /\ command[c] \in CommandRecords /\ command[c].at = "new"
               /\ command[c].times = 0 /\ command[c].out = {}
    BY <2>3 DEF Blank, CommandRecords, Early
  <2>5. command \in [Commands -> CommandRecords]
    BY <2>3, <2>4
  <2>6. \A c \in Commands : CallSound(command[c], c)
    BY <2>4 DEF CallSound
  <2> QED
    BY <2>1, <2>2, <2>4, <2>5, <2>6, ShellAssumption DEF ShellInit, ShellInv
<1>2. ShellInv /\ [ShellNext]_shellVars => ShellInv'
  <2> SUFFICES ASSUME ShellInv, [ShellNext]_shellVars PROVE ShellInv'
    OBVIOUS
  <2>1. CASE UNCHANGED shellVars
    BY <2>1 DEF shellVars, ShellInv
  <2>2. ASSUME NEW c \in Commands, CommandTimesOut(c) PROVE ShellInv'
    BY <2>2, ForgetStep DEF CommandTimesOut
  <2>3. ASSUME NEW c \in Commands, ShellDied(c) PROVE ShellInv'
    BY <2>3, ForgetStep DEF ShellDied
  <2> QED
    BY <2>1, <2>2, <2>3, GetShellStep, RunStartsStep, WriteStep, FallbackStep, ReadLineStep,
       BashRunsStep DEF ShellNext
<1> QED
  BY <1>1, <1>2, PTL DEF ShellSpec

(* Whatever commands share a shell, and whether they finish, hang or take  *)
(* it with them, each runs at most once and is returned its own output.    *)
THEOREM OutputsOwn == ShellSpec => []OwnOutputOnce
<1>1. ShellInv => OwnOutputOnce
  BY DEF ShellInv, CallSound, CommandRecords, OwnPrints, OwnOutputOnce
<1> QED
  BY <1>1, ShellInvariant, PTL

-----------------------------------------------------------------------------
(* LspClient: everyone gets the answer to their own question, and servers  *)
(* are asked about documents they were given.                              *)

Messages == [what : {"initialize", "query", "open"}, id : Nat, doc : Documents]
Replies == [id : Nat, doc : Documents \cup {"none"}]

ClientRecords ==
  [proc : {"none", "alive", "dead"}, holder : Askers \cup {"nobody"}, ids : Nat,
   opened : SUBSET Documents, toServer : Seq(Messages), fromServer : Seq(Replies),
   open : SUBSET Documents]

AskerPhases ==
  {"new", "starting", "initialize", "handshake", "checking", "opening", "noting",
   "asking", "reading", "answered", "failed"}

AskerRecords ==
  [at : AskerPhases, on : Nat, doc : Documents, id : Nat, answer : Documents \cup {"none"}]

(* The server of a client has a document, or gets it before anything that  *)
(* is sent from now on.                                                    *)
Given(cl, d) ==
  \/ d \in cl.open
  \/ \E q \in DOMAIN cl.toServer :
       cl.toServer[q].what = "open" /\ cl.toServer[q].doc = d

(* What is noted as open is, a question comes after its document, and no   *)
(* message has a number that is not given yet.                             *)
ClientSound(cl) ==
  /\ \A d \in cl.opened : Given(cl, d)
  /\ \A p \in DOMAIN cl.toServer : cl.toServer[p].what = "query" =>
       \/ cl.toServer[p].doc \in cl.open
       \/ \E q \in 1 .. (p - 1) :
            cl.toServer[q].what = "open" /\ cl.toServer[q].doc = cl.toServer[p].doc
  /\ \A p \in DOMAIN cl.toServer : cl.toServer[p].id <= cl.ids
  /\ \A p \in DOMAIN cl.fromServer : cl.fromServer[p].id <= cl.ids

(* Whoever waits for a reply has a number of its own, whose messages are   *)
(* about its document.                                                     *)
AskerSound(call, cl) ==
  /\ call.at \in {"noting", "asking"} => Given(cl, call.doc)
  /\ call.at \in {"handshake", "reading"} =>
       /\ 0 < call.id /\ call.id <= cl.ids
       /\ \A p \in DOMAIN cl.toServer :
            cl.toServer[p].id = call.id => cl.toServer[p].doc = call.doc
       /\ \A p \in DOMAIN cl.fromServer :
            cl.fromServer[p].id = call.id => cl.fromServer[p].doc = call.doc

LspInv ==
  /\ made \in 0 .. MaxClients /\ unopened = {}
  /\ lsp \in [LspClients -> ClientRecords]
  /\ asker \in [Askers -> AskerRecords]
  /\ \A k \in LspClients : ClientSound(lsp[k])
  /\ \A t \in Askers :
       /\ asker[t].at # "new" => asker[t].on \in LspClients /\ asker[t].on <= made
       /\ asker[t].at # "new" => AskerSound(asker[t], lsp[asker[t].on])
       /\ asker[t].at = "answered" => asker[t].answer = asker[t].doc

(* A client that changes so is as sound for everyone who uses it. *)
Serves(old, new) ==
  /\ new \in ClientRecords /\ ClientSound(new)
  /\ \A call \in AskerRecords : AskerSound(call, old) => AskerSound(call, new)

(* One client changes, and one call. *)
LEMMA LspStep ==
  ASSUME LspInv, NEW k \in LspClients, NEW new, Serves(lsp[k], new),
         lsp' = [lsp EXCEPT ![k] = new],
         NEW t \in Askers, NEW call \in AskerRecords, asker' = [asker EXCEPT ![t] = call],
         call.at # "new" => call.on \in LspClients /\ call.on <= made',
         call.at # "new" => AskerSound(call, IF call.on = k THEN new ELSE lsp[call.on]),
         call.at = "answered" => call.answer = call.doc,
         made' \in made .. MaxClients, unopened' = {}
  PROVE  LspInv'
<1>1. new \in ClientRecords /\ ClientSound(new)
  BY DEF Serves
<1>2. /\ lsp' \in [LspClients -> ClientRecords] /\ lsp'[k] = new
      /\ \A j \in LspClients : j # k => lsp'[j] = lsp[j]
  BY <1>1 DEF LspInv
<1>3. /\ asker' \in [Askers -> AskerRecords] /\ asker'[t] = call
      /\ \A u \in Askers : u # t => asker'[u] = asker[u]
  BY DEF LspInv
<1>4. \A j \in LspClients : ClientSound(lsp'[j])
  BY <1>1, <1>2 DEF LspInv
<1>5. made' \in 0 .. MaxClients /\ made <= made' /\ made \in Nat
  BY DEF LspInv
<1>6. ASSUME NEW u \in Askers
      PROVE  /\ asker'[u].at # "new" => asker'[u].on \in LspClients /\ asker'[u].on <= made'
             /\ asker'[u].at # "new" => AskerSound(asker'[u], lsp'[asker'[u].on])
             /\ asker'[u].at = "answered" => asker'[u].answer = asker'[u].doc
  <2>1. CASE u = t
    BY <1>2, <1>3, <2>1
  <2>2. CASE u # t
    <3>1. PICK a \in AskerRecords : a = asker[u] /\ asker'[u] = a
      BY <1>3, <2>2 DEF LspInv
    <3>2. /\ a.at # "new" => a.on \in LspClients /\ a.on <= made
          /\ a.at # "new" => AskerSound(a, lsp[a.on])
          /\ a.at = "answered" => a.answer = a.doc
      BY <3>1 DEF LspInv
    <3>3. a.at # "new" => AskerSound(a, lsp'[a.on])
      BY <1>2, <3>2 DEF Serves
    <3>4. a.at # "new" => a.on <= made'
      BY <1>5, <3>2 DEF LspClients
    <3> QED
      BY <3>1, <3>2, <3>3, <3>4
  <2> QED
    BY <2>1, <2>2
<1> QED
  BY <1>2, <1>3, <1>4, <1>5, <1>6 DEF LspInv

(* Only a client changes. *)
LEMMA ServerStep ==
  ASSUME LspInv, NEW k \in LspClients, NEW new, Serves(lsp[k], new),
         lsp' = [lsp EXCEPT ![k] = new],
         asker' = asker, made' = made, unopened' = {}
  PROVE  LspInv'
<1>1. new \in ClientRecords /\ ClientSound(new)
  BY DEF Serves
<1>2. /\ lsp' \in [LspClients -> ClientRecords] /\ lsp'[k] = new
      /\ \A j \in LspClients : j # k => lsp'[j] = lsp[j]
  BY <1>1 DEF LspInv
<1>3. \A j \in LspClients : ClientSound(lsp'[j])
  BY <1>1, <1>2 DEF LspInv
<1>4. ASSUME NEW u \in Askers, asker[u].at # "new"
      PROVE  AskerSound(asker[u], lsp'[asker[u].on])
  <2>1. PICK a \in AskerRecords : a = asker[u]
    BY DEF LspInv
  <2>2. a.on \in LspClients /\ AskerSound(a, lsp[a.on])
    BY <1>4, <2>1 DEF LspInv
  <2> QED
    BY <1>2, <2>1, <2>2 DEF Serves
<1> QED
  BY <1>2, <1>3, <1>4 DEF LspInv

(* Only a call changes. *)
LEMMA AskerStep ==
  ASSUME LspInv, lsp' = lsp,
         NEW t \in Askers, NEW call \in AskerRecords, asker' = [asker EXCEPT ![t] = call],
         call.at # "new" => call.on \in LspClients /\ call.on <= made',
         call.at # "new" => AskerSound(call, lsp[call.on]),
         call.at = "answered" => call.answer = call.doc,
         made' \in made .. MaxClients, unopened' = {}
  PROVE  LspInv'
<1>1. /\ asker' \in [Askers -> AskerRecords] /\ asker'[t] = call
      /\ \A u \in Askers : u # t => asker'[u] = asker[u]
  BY DEF LspInv
<1>2. made' \in 0 .. MaxClients /\ made <= made' /\ made \in Nat
  BY DEF LspInv
<1>3. ASSUME NEW u \in Askers
      PROVE  /\ asker'[u].at # "new" => asker'[u].on \in LspClients /\ asker'[u].on <= made'
             /\ asker'[u].at # "new" => AskerSound(asker'[u], lsp[asker'[u].on])
             /\ asker'[u].at = "answered" => asker'[u].answer = asker'[u].doc
  <2>1. CASE u = t
    BY <1>1, <2>1
  <2>2. CASE u # t
    <3>1. asker[u].at # "new" => asker[u].on <= made'
      BY <1>2 DEF LspInv, LspClients
    <3> QED
      BY <1>1, <2>2, <3>1 DEF LspInv
  <2> QED
    BY <2>1, <2>2
<1> QED
  BY <1>1, <1>2, <1>3 DEF LspInv

(* No message has a number that is not given yet. *)
LEMMA Numbers ==
  ASSUME NEW old \in ClientRecords, ClientSound(old)
  PROVE  /\ old.toServer \in Seq(Messages) /\ old.fromServer \in Seq(Replies) /\ old.ids \in Nat
         /\ \A p \in DOMAIN old.toServer : old.toServer[p].id \in Nat /\ old.toServer[p].id <= old.ids
         /\ \A p \in DOMAIN old.fromServer : old.fromServer[p].id \in Nat /\ old.fromServer[p].id <= old.ids
<1>1. old.toServer \in Seq(Messages) /\ old.fromServer \in Seq(Replies) /\ old.ids \in Nat
  BY DEF ClientRecords
<1>2. \A p \in DOMAIN old.toServer : old.toServer[p] \in Messages
  BY <1>1
<1>3. \A p \in DOMAIN old.fromServer : old.fromServer[p] \in Replies
  BY <1>1
<1>4. \A p \in DOMAIN old.toServer : old.toServer[p].id <= old.ids
  BY DEF ClientSound
<1>5. \A p \in DOMAIN old.fromServer : old.fromServer[p].id <= old.ids
  BY DEF ClientSound
<1> QED
  BY <1>1, <1>2, <1>3, <1>4, <1>5 DEF Messages, Replies

(* Nothing changes that anyone relies on. *)
LEMMA ServesSame ==
  ASSUME NEW old \in ClientRecords, ClientSound(old), NEW new \in ClientRecords,
         new.ids = old.ids, new.opened = old.opened, new.open = old.open,
         new.toServer = old.toServer, new.fromServer = old.fromServer
  PROVE  Serves(old, new)
  BY DEF Serves, ClientSound, AskerSound, Given

(* A message is read. *)
LEMMA ServesReader ==
  ASSUME NEW old \in ClientRecords, ClientSound(old), NEW new \in ClientRecords,
         old.fromServer # <<>>,
         new.ids = old.ids, new.opened = old.opened, new.open = old.open,
         new.toServer = old.toServer, new.fromServer = Tail(old.fromServer)
  PROVE  Serves(old, new)
<1>1. old.fromServer \in Seq(Replies)
  BY DEF ClientRecords
<1>2. \A p \in DOMAIN new.fromServer : p + 1 \in DOMAIN old.fromServer /\ new.fromServer[p] = old.fromServer[p + 1]
  BY <1>1
<1> QED
  BY <1>2 DEF Serves, ClientSound, AskerSound, Given

(* A message is sent, with a number not used before or a document. *)
LEMMA ServesSender ==
  ASSUME NEW old \in ClientRecords, ClientSound(old), NEW new \in ClientRecords,
         NEW message \in Messages,
         new.opened = old.opened, new.open = old.open,
         new.toServer = Append(old.toServer, message), new.fromServer = old.fromServer,
         \/ message.what = "open" /\ message.id = 0 /\ new.ids = old.ids
         \/ message.what = "initialize" /\ message.id = old.ids + 1 /\ new.ids = message.id
         \/ /\ message.what = "query" /\ message.id = old.ids + 1 /\ new.ids = message.id
            /\ Given(old, message.doc)
  PROVE  /\ Serves(old, new)
         /\ message.what = "open" => Given(new, message.doc)
<1>1. old.toServer \in Seq(Messages) /\ old.ids \in Nat /\ new.ids \in Nat /\ message.id \in Nat
  BY DEF ClientRecords, Messages
<1>2. PICK n \in Nat : n = Len(old.toServer)
  BY <1>1
<1>3. /\ DOMAIN old.toServer = 1 .. n /\ DOMAIN new.toServer = 1 .. (n + 1)
      /\ \A p \in 1 .. n : new.toServer[p] = old.toServer[p]
      /\ new.toServer[n + 1] = message
  BY <1>1, <1>2
<1>4. \A d : Given(old, d) => Given(new, d)
  BY <1>3 DEF Given
<1>5. message.what = "open" => Given(new, message.doc)
  BY <1>3 DEF Given
<1>6. ASSUME NEW p \in DOMAIN new.toServer, new.toServer[p].what = "query"
      PROVE  \/ new.toServer[p].doc \in new.open
             \/ \E q \in 1 .. (p - 1) :
                  new.toServer[q].what = "open" /\ new.toServer[q].doc = new.toServer[p].doc
  <2>1. CASE p = n + 1
    <3>1. Given(old, message.doc) /\ n + 1 - 1 = n
      BY <1>3, <1>6, <2>1
    <3> QED
      BY <1>3, <2>1, <3>1 DEF Given
  <2>2. CASE p # n + 1
    <3>1. p \in 1 .. n /\ new.toServer[p] = old.toServer[p]
      BY <1>3, <2>2
    <3>2. \A q \in 1 .. (p - 1) : q \in 1 .. n
      BY <3>1
    <3> QED
      BY <1>3, <1>6, <3>1, <3>2 DEF ClientSound
  <2> QED
    BY <2>1, <2>2
<1>7. /\ \A p \in DOMAIN new.toServer : new.toServer[p].id <= new.ids
      /\ \A p \in DOMAIN new.fromServer : new.fromServer[p].id <= new.ids
  <2>1. old.ids <= new.ids /\ message.id <= new.ids
    BY <1>1
  <2>2. \A p \in 1 .. n : old.toServer[p].id \in Nat /\ old.toServer[p].id <= old.ids
    BY <1>3, Numbers
  <2>3. \A p \in DOMAIN old.fromServer : old.fromServer[p].id \in Nat /\ old.fromServer[p].id <= old.ids
    BY Numbers
  <2> QED
    BY <1>1, <1>3, <2>1, <2>2, <2>3
<1>9. ClientSound(new)
  BY <1>4, <1>6, <1>7 DEF ClientSound
<1>10. ASSUME NEW call \in AskerRecords, AskerSound(call, old)
       PROVE  AskerSound(call, new)
  <2>1. CASE call.at \in {"handshake", "reading"}
    <3>1. call.id \in Nat /\ 0 < call.id /\ call.id <= old.ids
      BY <1>10, <2>1 DEF AskerSound, AskerRecords
    <3>2. message.id # call.id /\ call.id <= new.ids
      BY <1>1, <3>1
    <3> QED
      BY <1>3, <1>10, <2>1, <3>1, <3>2 DEF AskerSound
  <2>2. CASE call.at \notin {"handshake", "reading"}
    BY <1>4, <1>10, <2>2 DEF AskerSound
  <2> QED
    BY <2>1, <2>2
<1> QED
  BY <1>5, <1>9, <1>10 DEF Serves

(* The server takes the next message, and is asked about what it has.      *)
LEMMA ServesServer ==
  ASSUME NEW old \in ClientRecords, ClientSound(old), old.toServer # <<>>
  PROVE  /\ Serves(old, Served(old))
         /\ Head(old.toServer).what = "query" => Head(old.toServer).doc \in old.open
<1> DEFINE message == Head(old.toServer)
           new == Served(old)
<1>1. /\ old.toServer \in Seq(Messages) /\ old.fromServer \in Seq(Replies)
      /\ old.open \in SUBSET Documents /\ old.ids \in Nat
  BY DEF ClientRecords
<1>2. PICK n \in Nat : Len(old.toServer) = n + 1
  <2>1. Len(old.toServer) \in Nat /\ Len(old.toServer) # 0
    BY <1>1
  <2>2. Len(old.toServer) - 1 \in Nat /\ Len(old.toServer) = (Len(old.toServer) - 1) + 1
    BY <2>1
  <2> QED
    BY <2>2
<1>3. PICK m \in Nat : Len(old.fromServer) = m
  BY <1>1
<1>4. /\ message \in Messages /\ message = old.toServer[1]
      /\ DOMAIN old.toServer = 1 .. (n + 1) /\ DOMAIN old.fromServer = 1 .. m
  BY <1>1, <1>2, <1>3
<1>5. /\ message.id \in Nat /\ message.id <= old.ids /\ message.doc \in Documents
      /\ message.what = "query" => message.doc \in old.open
  BY <1>4 DEF ClientSound, Messages
<1> DEFINE rest == Tail(old.toServer)
           reply == [id |-> message.id, doc |-> message.doc]
           replies == IF message.what = "open" THEN old.fromServer ELSE Append(old.fromServer, reply)
           open == IF message.what = "open" THEN old.open \cup {message.doc} ELSE old.open
<1>6. /\ rest \in Seq(Messages) /\ DOMAIN rest = 1 .. n
      /\ \A p \in 1 .. n : rest[p] = old.toServer[p + 1]
  BY <1>1, <1>2
<1>7. reply \in Replies /\ reply.id = message.id /\ reply.doc = message.doc
  BY <1>5 DEF Replies
<1>8. /\ replies \in Seq(Replies)
      /\ \A p \in DOMAIN replies :
           \/ p \in DOMAIN old.fromServer /\ replies[p] = old.fromServer[p]
           \/ message.what # "open" /\ replies[p] = reply
  BY <1>1, <1>3, <1>4, <1>7
<1>9. /\ new \in ClientRecords /\ new.toServer = rest /\ new.fromServer = replies
      /\ new.open = open /\ new.ids = old.ids /\ new.opened = old.opened
  <2>1. CASE message.what = "open"
    <3>1. new = [old EXCEPT !.toServer = rest, !.open = open]
      BY <2>1 DEF Served
    <3>2. open \in SUBSET Documents /\ replies = old.fromServer
      BY <1>1, <1>5, <2>1
    <3> HIDE DEF new, rest, open, replies
    <3> QED
      BY <1>6, <3>1, <3>2 DEF ClientRecords
  <2>2. CASE message.what # "open"
    <3>1. new = [old EXCEPT !.toServer = rest, !.fromServer = replies]
      BY <2>2 DEF Served
    <3>2. open = old.open
      BY <2>2
    <3> HIDE DEF new, rest, open, replies
    <3> QED
      BY <1>6, <1>8, <3>1, <3>2 DEF ClientRecords
  <2> QED
    BY <2>1, <2>2
<1> HIDE DEF new, rest, replies, reply
<1>10. \A d : Given(old, d) => Given(new, d)
  <2>1. ASSUME NEW d, d \in old.open PROVE Given(new, d)
    BY <1>9, <2>1 DEF Given
  <2>2. ASSUME NEW d, NEW q \in 1 .. (n + 1), old.toServer[q].what = "open", old.toServer[q].doc = d
        PROVE  Given(new, d)
    <3>1. CASE q = 1
      BY <1>4, <1>9, <2>2, <3>1 DEF Given
    <3>2. CASE q # 1
      <4>1. q - 1 \in 1 .. n /\ rest[q - 1] = old.toServer[q]
        BY <1>6, <3>2
      <4> QED
        BY <1>6, <1>9, <2>2, <4>1 DEF Given
    <3> QED
      BY <3>1, <3>2
  <2> QED
    BY <1>4, <2>1, <2>2 DEF Given
<1>11. ASSUME NEW p \in 1 .. n, rest[p].what = "query"
       PROVE  \/ rest[p].doc \in open
              \/ \E q \in 1 .. (p - 1) : rest[q].what = "open" /\ rest[q].doc = rest[p].doc
  <2>1. p + 1 \in 1 .. (n + 1) /\ rest[p] = old.toServer[p + 1] /\ p + 1 - 1 = p
    BY <1>6
  <2>2. CASE rest[p].doc \in old.open
    BY <2>2
  <2>3. CASE \E q \in 1 .. p : old.toServer[q].what = "open" /\ old.toServer[q].doc = rest[p].doc
    <3>1. PICK q \in 1 .. p : old.toServer[q].what = "open" /\ old.toServer[q].doc = rest[p].doc
      BY <2>3
    <3>2. CASE q = 1
      BY <1>4, <3>1, <3>2
    <3>3. CASE q # 1
      <4>1. q - 1 \in 1 .. (p - 1) /\ q - 1 \in 1 .. n /\ rest[q - 1] = old.toServer[q]
        BY <1>6, <3>3
      <4> QED
        BY <3>1, <4>1
    <3> QED
      BY <3>2, <3>3
  <2> QED
    BY <1>4, <1>11, <2>1, <2>2, <2>3 DEF ClientSound
<1>12. /\ \A p \in 1 .. n : rest[p].id <= new.ids
       /\ \A p \in DOMAIN replies : replies[p].id <= new.ids
  <2>1. \A p \in 1 .. n : p + 1 \in DOMAIN old.toServer
    BY <1>4
  <2> QED
    BY <1>5, <1>6, <1>7, <1>8, <1>9, <2>1 DEF ClientSound
<1>13. ClientSound(new)
  BY <1>6, <1>9, <1>10, <1>11, <1>12 DEF ClientSound
<1>14. ASSUME NEW call \in AskerRecords, AskerSound(call, old)
       PROVE  AskerSound(call, new)
  <2>1. ASSUME call.at \in {"handshake", "reading"}, NEW p \in 1 .. n, rest[p].id = call.id
        PROVE  rest[p].doc = call.doc
    <3>1. p + 1 \in DOMAIN old.toServer /\ rest[p] = old.toServer[p + 1]
      BY <1>4, <1>6
    <3> QED
      BY <1>14, <2>1, <3>1 DEF AskerSound
  <2>2. ASSUME call.at \in {"handshake", "reading"}, NEW p \in DOMAIN replies, replies[p].id = call.id
        PROVE  replies[p].doc = call.doc
    <3>1. 1 \in DOMAIN old.toServer
      BY <1>4
    <3> QED
      BY <1>4, <1>7, <1>8, <1>14, <2>2, <3>1 DEF AskerSound
  <2> QED
    BY <1>6, <1>9, <1>10, <1>14, <2>1, <2>2 DEF AskerSound
<1>15. Serves(old, new)
  BY <1>9, <1>13, <1>14 DEF Serves
<1> QED
  BY <1>5, <1>15 DEF new

(* Whoever is at work has a client that was made. *)
LEMMA Client ==
  ASSUME LspInv, NEW t \in Askers, asker[t].at # "new"
  PROVE  /\ asker[t] \in AskerRecords /\ asker[t].on \in LspClients /\ asker[t].on <= made
         /\ AskerSound(asker[t], lsp[asker[t].on])
         /\ lsp[asker[t].on] \in ClientRecords /\ ClientSound(lsp[asker[t].on])
         /\ made \in LspClients
  BY LspAssumption DEF LspInv, LspClients

LEMMA GetClientStep ==
  ASSUME LspInv, NEW t \in Askers, GetClient(t)
  PROVE  LspInv'
<1>1. asker[t] \in AskerRecords /\ made \in Nat /\ MaxClients \in Nat
  BY LspAssumption DEF LspInv
<1>2. CASE ServerAlive(made)
  <2>1. PICK call : call = Uses(asker[t], "checking", made)
    OBVIOUS
  <2>2. made \in LspClients /\ made \in made .. MaxClients
    BY <1>1, <1>2 DEF ServerAlive, LspInv, LspClients
  <2>3. call \in AskerRecords /\ call.at = "checking" /\ call.on = made
    BY <1>1, <2>1 DEF Uses, AskerRecords, AskerPhases
  <2>4. AskerSound(call, lsp[call.on])
    BY <2>3 DEF AskerSound
  <2>5. asker' = [asker EXCEPT ![t] = call] /\ lsp' = lsp /\ made' = made /\ unopened' = {}
    BY <1>2, <2>1 DEF GetClient, LspInv
  <2>6. call.on \in LspClients /\ call.on <= made' /\ made' \in made .. MaxClients
    BY <1>1, <2>2, <2>3, <2>5
  <2> QED
    BY <2>3, <2>4, <2>5, <2>6, AskerStep
<1>3. CASE ~ServerAlive(made)
  <2>0. PICK k \in Nat : k = made + 1
    BY <1>1
  <2>1. PICK call : call = Uses(asker[t], "starting", k)
    OBVIOUS
  <2>2. /\ made < MaxClients /\ made' = k /\ asker' = [asker EXCEPT ![t] = call]
        /\ lsp' = lsp /\ unopened' = {}
    BY <1>3, <2>0, <2>1 DEF GetClient, LspInv
  <2>3. call \in AskerRecords /\ call.at = "starting" /\ call.on = k
    BY <1>1, <2>1 DEF Uses, AskerRecords, AskerPhases
  <2>4. AskerSound(call, lsp[call.on])
    BY <2>3 DEF AskerSound
  <2>5. call.on \in LspClients /\ call.on <= made' /\ made' \in made .. MaxClients
    BY <1>1, <2>0, <2>2, <2>3 DEF LspClients
  <2> QED
    BY <2>2, <2>3, <2>4, <2>5, AskerStep
<1> QED
  BY <1>2, <1>3

(* The call goes on with the same client, which does not change. *)
LEMMA GoStep ==
  ASSUME LspInv, NEW t \in Askers, asker[t].at # "new",
         NEW phase \in AskerPhases \ {"new", "handshake", "reading", "answered"}, Go(t, phase),
         phase \in {"noting", "asking"} => Given(lsp[asker[t].on], asker[t].doc),
         lsp' = lsp, callOnly
  PROVE  LspInv'
<1>1. PICK call : call = [asker[t] EXCEPT !.at = phase]
  OBVIOUS
<1>2. call \in AskerRecords /\ call.at = phase /\ call.on = asker[t].on /\ call.doc = asker[t].doc
  BY <1>1, Client DEF AskerRecords
<1>3. AskerSound(call, lsp[call.on])
  BY <1>2 DEF AskerSound
<1>4. asker' = [asker EXCEPT ![t] = call]
  BY <1>1, Client DEF Go, LspInv
<1>5. made' = made /\ unopened' = {} /\ made \in made .. MaxClients
  BY LspAssumption DEF LspInv, callOnly
<1>6. call.on \in LspClients /\ call.on <= made'
  BY <1>2, <1>5, Client
<1> QED
  BY <1>2, <1>3, <1>4, <1>5, <1>6, AskerStep

(* The call goes on with its client, which has changed. *)
LEMMA GoServedStep ==
  ASSUME LspInv, NEW t \in Askers, asker[t].at # "new",
         NEW phase \in AskerPhases \ {"new", "handshake", "reading", "answered"}, Go(t, phase),
         NEW new, Serves(lsp[asker[t].on], new), lsp' = [lsp EXCEPT ![asker[t].on] = new],
         phase \in {"noting", "asking"} => Given(new, asker[t].doc),
         callOnly
  PROVE  LspInv'
<1>1. PICK call : call = [asker[t] EXCEPT !.at = phase]
  OBVIOUS
<1>2. call \in AskerRecords /\ call.at = phase /\ call.on = asker[t].on /\ call.doc = asker[t].doc
  BY <1>1, Client DEF AskerRecords
<1>3. AskerSound(call, new)
  BY <1>2 DEF AskerSound
<1>4. asker' = [asker EXCEPT ![t] = call]
  BY <1>1, Client DEF Go, LspInv
<1>5. made' = made /\ unopened' = {} /\ made \in made .. MaxClients
  BY LspAssumption DEF LspInv, callOnly
<1>6. PICK k \in LspClients : k = asker[t].on
  BY Client
<1>7. call.on = k /\ k <= made' /\ lsp' = [lsp EXCEPT ![k] = new] /\ Serves(lsp[k], new)
  BY <1>2, <1>5, <1>6, Client
<1> QED
  BY <1>2, <1>3, <1>4, <1>5, <1>7, LspStep

LEMMA StartServerStep ==
  ASSUME LspInv, NEW t \in Askers, StartServer(t)
  PROVE  LspInv'
<1>1. asker[t].at # "new" /\ Go(t, "initialize") /\ callOnly
  BY DEF StartServer
<1>2. PICK old \in ClientRecords : old = lsp[asker[t].on] /\ ClientSound(old)
  BY <1>1, Client
<1>3. PICK new : new = [old EXCEPT !.proc = "alive"]
  OBVIOUS
<1>4. new \in ClientRecords /\ Serves(old, new)
  BY <1>2, <1>3, ServesSame DEF ClientRecords
<1>5. lsp' = [lsp EXCEPT ![asker[t].on] = new]
  BY <1>1, <1>2, <1>3, Client DEF StartServer, LspInv
<1>6. "initialize" \in AskerPhases \ {"new", "handshake", "reading", "answered"}
  BY DEF AskerPhases
<1>7. Serves(lsp[asker[t].on], new)
  BY <1>2, <1>4
<1> QED
  BY <1>1, <1>5, <1>6, <1>7, GoServedStep

LEMMA RequestStep ==
  ASSUME LspInv, NEW t \in Askers, Request(t)
  PROVE  LspInv'
<1>1. asker[t].at \in {"initialize", "asking"} /\ callOnly
  BY DEF Request
<1>2. PICK k \in LspClients : k = asker[t].on
  BY <1>1, Client
<1>3. PICK old \in ClientRecords : old = lsp[k] /\ ClientSound(old)
  BY <1>1, <1>2, Client
<1>4. CASE ~ServerAlive(k)
  <2>1. Go(t, "failed") /\ lsp' = lsp
    BY <1>2, <1>4 DEF Request
  <2> QED
    BY <1>1, <2>1, GoStep DEF AskerPhases
<1>5. CASE ServerAlive(k)
  <2>1. PICK number : number = old.ids + 1
    OBVIOUS
  <2>2. PICK what : what = IF asker[t].at = "initialize" THEN "initialize" ELSE "query"
    OBVIOUS
  <2>3. PICK phase : phase = IF asker[t].at = "initialize" THEN "handshake" ELSE "reading"
    OBVIOUS
  <2>4. PICK message : message = [what |-> what, id |-> number, doc |-> asker[t].doc]
    OBVIOUS
  <2>5. PICK new : new = Asked(old, t, message)
    OBVIOUS
  <2>6. PICK call : call = Asks(asker[t], phase, number)
    OBVIOUS
  <2>7. /\ asker[t] \in AskerRecords /\ asker[t].doc \in Documents /\ number \in Nat /\ old.ids \in Nat
        /\ AskerSound(asker[t], old)
    BY <1>1, <1>2, <1>3, <2>1, Client DEF AskerRecords, ClientRecords
  <2>8. /\ message \in Messages /\ message.what = what /\ message.id = number
        /\ message.doc = asker[t].doc
    BY <2>2, <2>4, <2>7 DEF Messages
  <2>9. lsp' = [lsp EXCEPT ![k] = new] /\ asker' = [asker EXCEPT ![t] = call]
    BY <1>2, <1>3, <1>5, <2>1, <2>2, <2>3, <2>4, <2>5, <2>6 DEF Request, LspInv
  <2>10. /\ new \in ClientRecords /\ new.opened = old.opened /\ new.open = old.open
         /\ new.ids = number /\ new.toServer = Append(old.toServer, message)
         /\ new.fromServer = old.fromServer
    <3>1. Append(old.toServer, message) \in Seq(Messages)
      BY <2>8 DEF ClientRecords
    <3> QED
      BY <2>5, <2>7, <2>8, <3>1 DEF Asked, ClientRecords
  <2>11. message.what = "query" => Given(old, message.doc)
    BY <1>1, <2>2, <2>7, <2>8 DEF AskerSound
  <2>12. Serves(old, new)
    BY <1>3, <2>1, <2>2, <2>8, <2>10, <2>11, ServesSender
  <2>13. /\ call \in AskerRecords /\ call.at = phase /\ call.on = k /\ call.id = number
         /\ call.doc = asker[t].doc
    BY <1>2, <2>3, <2>6, <2>7 DEF Asks, AskerRecords, AskerPhases
  <2>14. AskerSound(call, new)
    <3>1. old.toServer \in Seq(Messages) /\ old.fromServer \in Seq(Replies)
      BY DEF ClientRecords
    <3>2. ASSUME NEW p \in DOMAIN new.toServer, new.toServer[p].id = number
          PROVE  new.toServer[p].doc = call.doc
      <4>1. p \in DOMAIN old.toServer => old.toServer[p].id \in Nat /\ old.toServer[p].id <= old.ids
        BY <1>3, Numbers
      <4>2. p \notin DOMAIN old.toServer
        BY <2>1, <2>7, <2>8, <2>10, <3>1, <3>2, <4>1
      <4> QED
        BY <2>8, <2>10, <2>13, <3>1, <3>2, <4>2
    <3>3. ASSUME NEW p \in DOMAIN new.fromServer PROVE new.fromServer[p].id # number
      <4>1. old.fromServer[p].id \in Nat /\ old.fromServer[p].id <= old.ids
        BY <1>3, <2>10, <3>3, Numbers
      <4> QED
        BY <2>1, <2>7, <2>10, <4>1
    <3> QED
      BY <2>1, <2>3, <2>7, <2>10, <2>13, <3>2, <3>3 DEF AskerSound
  <2>15. made' = made /\ unopened' = {} /\ made \in made .. MaxClients /\ k <= made'
    BY <1>1, <1>2, LspAssumption, Client DEF LspInv, callOnly
  <2> QED
    BY <1>3, <2>3, <2>9, <2>12, <2>13, <2>14, <2>15, LspStep
<1> QED
  BY <1>4, <1>5

LEMMA ReadReplyStep ==
  ASSUME LspInv, NEW t \in Askers, ReadReply(t)
  PROVE  LspInv'
<1>1. asker[t].at \in {"handshake", "reading"} /\ callOnly
  BY DEF ReadReply
<1>2. PICK k \in LspClients : k = asker[t].on
  BY <1>1, Client
<1>3. PICK old \in ClientRecords : old = lsp[k] /\ ClientSound(old)
  BY <1>1, <1>2, Client
<1>4. PICK asks \in AskerRecords : asks = asker[t] /\ AskerSound(asks, old)
  BY <1>1, <1>2, <1>3, Client
<1>5. PICK message : message = Head(old.fromServer)
  OBVIOUS
<1>6. /\ old.fromServer # <<>> /\ message.id = asks.id
      /\ lsp' = [lsp EXCEPT ![k].fromServer = Tail(old.fromServer), ![k].holder = "nobody"]
  BY <1>2, <1>3, <1>4, <1>5 DEF ReadReply, IsReply, LspInv
<1>7. PICK new : new = [old EXCEPT !.fromServer = Tail(old.fromServer), !.holder = "nobody"]
  OBVIOUS
<1>8. lsp' = [lsp EXCEPT ![k] = new]
  BY <1>3, <1>6, <1>7 DEF LspInv
<1>9. old.fromServer \in Seq(Replies) /\ Tail(old.fromServer) \in Seq(Replies)
  BY <1>6 DEF ClientRecords
<1>10. new \in ClientRecords /\ Serves(old, new)
  <2>1. new \in ClientRecords
    BY <1>7, <1>9 DEF ClientRecords
  <2>2. /\ new.ids = old.ids /\ new.opened = old.opened /\ new.open = old.open
        /\ new.toServer = old.toServer /\ new.fromServer = Tail(old.fromServer)
    BY <1>7 DEF ClientRecords
  <2> QED
    BY <1>3, <1>6, <2>1, <2>2, ServesReader
<1>11. made' = made /\ unopened' = {} /\ made \in made .. MaxClients /\ k <= made' /\ made \in LspClients
  BY <1>1, <1>2, LspAssumption, Client DEF LspInv, callOnly
<1>12. CASE asks.at = "reading"
  <2>1. 1 \in DOMAIN old.fromServer /\ message = old.fromServer[1]
    BY <1>5, <1>6, <1>9
  <2>2. message.doc = asks.doc
    BY <1>4, <1>6, <1>12, <2>1 DEF AskerSound
  <2>3. PICK call : call = [asks EXCEPT !.at = "answered", !.answer = message.doc]
    OBVIOUS
  <2>4. asks.doc \in Documents
    BY DEF AskerRecords
  <2>5. /\ call \in AskerRecords /\ call.at = "answered" /\ call.on = k /\ call.answer = call.doc
    BY <1>2, <1>4, <2>2, <2>3, <2>4 DEF AskerRecords, AskerPhases
  <2>6. AskerSound(call, new)
    BY <2>5 DEF AskerSound
  <2>7. asker' = [asker EXCEPT ![t] = call]
    BY <1>2, <1>3, <1>4, <1>5, <1>12, <2>3 DEF ReadReply, LspInv
  <2> QED
    BY <1>3, <1>8, <1>10, <1>11, <2>5, <2>6, <2>7, LspStep
<1>13. CASE asks.at # "reading"
  <2>0. PICK latest \in Nat : latest = made
    BY DEF LspInv
  <2>1. PICK call : call = Uses(asks, "checking", latest)
    OBVIOUS
  <2>2. call \in AskerRecords /\ call.at = "checking" /\ call.on = latest
    BY <2>1 DEF Uses, AskerRecords, AskerPhases
  <2>3. AskerSound(call, IF call.on = k THEN new ELSE lsp[call.on])
    BY <2>2 DEF AskerSound
  <2>4. asker' = [asker EXCEPT ![t] = call]
    BY <1>4, <1>13, <2>0, <2>1 DEF ReadReply, LspInv
  <2>5. call.on \in LspClients /\ call.on <= made'
    BY <1>11, <2>0, <2>2 DEF LspClients
  <2> QED
    BY <1>3, <1>8, <1>10, <1>11, <2>2, <2>3, <2>4, <2>5, LspStep
<1> QED
  BY <1>12, <1>13

LEMMA SkipMessageStep ==
  ASSUME LspInv, NEW t \in Askers, SkipMessage(t)
  PROVE  LspInv'
<1>1. asker[t].at \in {"handshake", "reading"} /\ callOnly
  BY DEF SkipMessage
<1>2. PICK k \in LspClients : k = asker[t].on
  BY <1>1, Client
<1>3. PICK old \in ClientRecords : old = lsp[k] /\ ClientSound(old)
  BY <1>1, <1>2, Client
<1>4. old.fromServer # <<>>
  BY <1>2, <1>3 DEF SkipMessage
<1>5. Tail(old.fromServer) \in Seq(Replies)
  BY <1>4 DEF ClientRecords
<1>6. ASSUME NEW who \in {old.holder, "nobody"},
             lsp' = [lsp EXCEPT ![k].fromServer = Tail(old.fromServer), ![k].holder = who]
      PROVE  \E new : Serves(old, new) /\ lsp' = [lsp EXCEPT ![k] = new]
  <2>1. PICK new : new = [old EXCEPT !.fromServer = Tail(old.fromServer), !.holder = who]
    OBVIOUS
  <2>2. new \in ClientRecords
    BY <1>5, <2>1 DEF ClientRecords
  <2>3. /\ new.ids = old.ids /\ new.opened = old.opened /\ new.open = old.open
        /\ new.toServer = old.toServer /\ new.fromServer = Tail(old.fromServer)
    BY <2>1 DEF ClientRecords
  <2>4. Serves(old, new)
    BY <1>3, <1>4, <2>2, <2>3, ServesReader
  <2>5. lsp' = [lsp EXCEPT ![k] = new]
    BY <1>3, <1>6, <2>1 DEF LspInv
  <2> QED
    BY <2>4, <2>5
<1>7. CASE lsp' = [lsp EXCEPT ![k].fromServer = Tail(@)] /\ asker' = asker
  <2>1. lsp' = [lsp EXCEPT ![k].fromServer = Tail(old.fromServer), ![k].holder = old.holder]
    BY <1>3, <1>7 DEF LspInv, ClientRecords
  <2>2. PICK new : Serves(lsp[k], new) /\ lsp' = [lsp EXCEPT ![k] = new]
    BY <1>3, <1>6, <2>1
  <2>3. made' = made /\ unopened' = {}
    BY <1>1 DEF LspInv, callOnly
  <2> QED
    BY <1>7, <2>2, <2>3, ServerStep
<1>8. CASE lsp' = [lsp EXCEPT ![k].fromServer = Tail(@), ![k].holder = "nobody"] /\ Go(t, "failed")
  <2>1. lsp' = [lsp EXCEPT ![k].fromServer = Tail(old.fromServer), ![k].holder = "nobody"]
    BY <1>3, <1>8
  <2>2. PICK new : Serves(lsp[asker[t].on], new) /\ lsp' = [lsp EXCEPT ![asker[t].on] = new]
    BY <1>2, <1>3, <1>6, <2>1
  <2>3. "failed" \in AskerPhases \ {"new", "handshake", "reading", "answered"}
    BY DEF AskerPhases
  <2> QED
    BY <1>1, <1>8, <2>2, <2>3, GoServedStep
<1> QED
  BY <1>2, <1>7, <1>8 DEF SkipMessage

LEMMA ReadEndStep ==
  ASSUME LspInv, NEW t \in Askers, ReadEnd(t)
  PROVE  LspInv'
<1>1. asker[t].at # "new" /\ Go(t, "failed") /\ callOnly
  BY DEF ReadEnd
<1>2. PICK old \in ClientRecords : old = lsp[asker[t].on] /\ ClientSound(old)
  BY <1>1, Client
<1>3. PICK new : new = [old EXCEPT !.holder = "nobody"]
  OBVIOUS
<1>4. new \in ClientRecords /\ Serves(lsp[asker[t].on], new)
  BY <1>2, <1>3, ServesSame DEF ClientRecords
<1>5. lsp' = [lsp EXCEPT ![asker[t].on] = new]
  BY <1>1, <1>2, <1>3, Client DEF ReadEnd, LspInv
<1>6. "failed" \in AskerPhases \ {"new", "handshake", "reading", "answered"}
  BY DEF AskerPhases
<1> QED
  BY <1>1, <1>4, <1>5, <1>6, GoServedStep

LEMMA CheckOpenStep ==
  ASSUME LspInv, NEW t \in Askers, CheckOpen(t)
  PROVE  LspInv'
<1>1. asker[t].at # "new" /\ lsp' = lsp /\ callOnly
  BY DEF CheckOpen
<1>2. ClientSound(lsp[asker[t].on])
  BY <1>1, Client
<1>3. PICK phase : phase = IF asker[t].doc \in lsp[asker[t].on].opened THEN "asking" ELSE "opening"
  OBVIOUS
<1>4. phase \in AskerPhases \ {"new", "handshake", "reading", "answered"}
  BY <1>3 DEF AskerPhases
<1>5. phase \in {"noting", "asking"} => Given(lsp[asker[t].on], asker[t].doc)
  BY <1>2, <1>3 DEF ClientSound
<1>6. Go(t, phase)
  BY <1>3 DEF CheckOpen
<1> QED
  BY <1>1, <1>4, <1>5, <1>6, GoStep

LEMMA DidOpenStep ==
  ASSUME LspInv, NEW t \in Askers, DidOpen(t)
  PROVE  LspInv'
<1>1. asker[t].at # "new" /\ callOnly
  BY DEF DidOpen
<1>2. PICK old \in ClientRecords : old = lsp[asker[t].on] /\ ClientSound(old)
  BY <1>1, Client
<1>3. CASE ~ServerAlive(asker[t].on)
  <2>1. Go(t, "failed") /\ lsp' = lsp
    BY <1>3 DEF DidOpen
  <2> QED
    BY <1>1, <2>1, GoStep DEF AskerPhases
<1>4. CASE ServerAlive(asker[t].on)
  <2>1. PICK message : message = [what |-> "open", id |-> 0, doc |-> asker[t].doc]
    OBVIOUS
  <2>2. message \in Messages /\ message.what = "open" /\ message.id = 0 /\ message.doc = asker[t].doc
    BY <1>1, <2>1, Client DEF AskerRecords, Messages
  <2>3. PICK new : new = [old EXCEPT !.toServer = Append(old.toServer, message)]
    OBVIOUS
  <2>4. Append(old.toServer, message) \in Seq(Messages)
    BY <2>2 DEF ClientRecords
  <2>5. /\ new \in ClientRecords /\ new.opened = old.opened /\ new.open = old.open
        /\ new.ids = old.ids /\ new.toServer = Append(old.toServer, message)
        /\ new.fromServer = old.fromServer
    BY <2>3, <2>4 DEF ClientRecords
  <2>6. Serves(lsp[asker[t].on], new) /\ Given(new, asker[t].doc)
    BY <1>2, <2>2, <2>5, ServesSender
  <2>7. lsp' = [lsp EXCEPT ![asker[t].on] = new]
    BY <1>1, <1>2, <1>4, <2>1, <2>3, Client DEF DidOpen, Sent, LspInv
  <2>8. Go(t, "noting") /\ "noting" \in AskerPhases \ {"new", "handshake", "reading", "answered"}
    BY <1>4 DEF DidOpen, AskerPhases
  <2> QED
    BY <1>1, <2>6, <2>7, <2>8, GoServedStep
<1> QED
  BY <1>3, <1>4

LEMMA NoteOpenStep ==
  ASSUME LspInv, NEW t \in Askers, NoteOpen(t)
  PROVE  LspInv'
<1>1. asker[t].at = "noting" /\ Go(t, "asking") /\ callOnly
  BY DEF NoteOpen
<1>2. PICK old \in ClientRecords : old = lsp[asker[t].on] /\ ClientSound(old)
  BY <1>1, Client
<1>3. asker[t].doc \in Documents /\ Given(old, asker[t].doc)
  BY <1>1, <1>2, Client DEF AskerSound, AskerRecords
<1>4. PICK new : new = [old EXCEPT !.opened = old.opened \cup {asker[t].doc}]
  OBVIOUS
<1>5. /\ new \in ClientRecords /\ new.opened = old.opened \cup {asker[t].doc} /\ new.open = old.open
      /\ new.ids = old.ids /\ new.toServer = old.toServer /\ new.fromServer = old.fromServer
  BY <1>3, <1>4 DEF ClientRecords
<1>6. \A d : Given(old, d) => Given(new, d)
  BY <1>5 DEF Given
<1>7. Serves(lsp[asker[t].on], new)
  <2>1. ClientSound(new)
    <3>1. \A d \in new.opened : Given(new, d)
      BY <1>2, <1>3, <1>5, <1>6 DEF ClientSound
    <3> QED
      BY <1>2, <1>5, <3>1 DEF ClientSound
  <2>2. \A call \in AskerRecords : AskerSound(call, old) => AskerSound(call, new)
    BY <1>5, <1>6 DEF AskerSound
  <2> QED
    BY <1>2, <1>5, <2>1, <2>2 DEF Serves
<1>8. lsp' = [lsp EXCEPT ![asker[t].on] = new]
  BY <1>1, <1>2, <1>4, Client DEF NoteOpen, LspInv
<1>9. "asking" \in AskerPhases \ {"new", "handshake", "reading", "answered"}
  BY DEF AskerPhases
<1> QED
  BY <1>1, <1>3, <1>6, <1>7, <1>8, <1>9, GoServedStep

LEMMA ServeStep ==
  ASSUME LspInv, NEW k \in LspClients, Serve(k)
  PROVE  LspInv'
<1>1. PICK old \in ClientRecords : old = lsp[k] /\ ClientSound(old)
  BY DEF LspInv
<1>2. PICK new : new = Served(old)
  OBVIOUS
<1>3. PICK message : message = Head(old.toServer)
  OBVIOUS
<1>4. old.toServer # <<>> /\ lsp' = [lsp EXCEPT ![k] = new] /\ asker' = asker /\ made' = made
  BY <1>1, <1>2 DEF Serve, LspInv
<1>5. Serves(lsp[k], new) /\ (message.what = "query" => message.doc \in old.open)
  BY <1>1, <1>2, <1>3, <1>4, ServesServer
<1>6. unopened' = {}
  BY <1>1, <1>3, <1>5 DEF Serve, LspInv
<1> QED
  BY <1>4, <1>5, <1>6, ServerStep

LEMMA NotifyStep ==
  ASSUME LspInv, NEW k \in LspClients, Notify(k)
  PROVE  LspInv'
<1>1. PICK old \in ClientRecords : old = lsp[k] /\ ClientSound(old)
  BY DEF LspInv
<1>2. PICK notice : notice = [id |-> 0, doc |-> "none"]
  OBVIOUS
<1>3. notice \in Replies /\ notice.id = 0
  BY <1>2 DEF Replies
<1>4. PICK new : new = [old EXCEPT !.fromServer = Append(old.fromServer, notice)]
  OBVIOUS
<1>5. lsp' = [lsp EXCEPT ![k] = new] /\ asker' = asker /\ made' = made /\ unopened' = {}
  BY <1>1, <1>2, <1>4 DEF Notify, LspInv
<1>6. old.fromServer \in Seq(Replies) /\ Append(old.fromServer, notice) \in Seq(Replies)
  BY <1>3 DEF ClientRecords
<1>7. /\ new \in ClientRecords /\ new.opened = old.opened /\ new.open = old.open
      /\ new.ids = old.ids /\ new.toServer = old.toServer
      /\ new.fromServer = Append(old.fromServer, notice)
  BY <1>4, <1>6 DEF ClientRecords
<1>8. \A p \in DOMAIN new.fromServer :
        \/ p \in DOMAIN old.fromServer /\ new.fromServer[p] = old.fromServer[p]
        \/ new.fromServer[p] = notice
  BY <1>6, <1>7
<1>9. Serves(lsp[k], new)
  <2>1. \A d : Given(old, d) => Given(new, d)
    BY <1>7 DEF Given
  <2>2. \A p \in DOMAIN new.fromServer : new.fromServer[p].id <= new.ids
    BY <1>1, <1>3, <1>7, <1>8, Numbers
  <2>3. ClientSound(new)
    BY <1>1, <1>7, <2>1, <2>2 DEF ClientSound
  <2>4. \A call \in AskerRecords : AskerSound(call, old) => AskerSound(call, new)
    BY <1>3, <1>7, <1>8, <2>1 DEF AskerSound, AskerRecords
  <2> QED
    BY <1>1, <1>7, <2>3, <2>4 DEF Serves
<1> QED
  BY <1>5, <1>9, ServerStep

LEMMA DiesStep ==
  ASSUME LspInv, NEW k \in LspClients, LspServerDies(k)
  PROVE  LspInv'
<1>1. PICK old \in ClientRecords : old = lsp[k] /\ ClientSound(old)
  BY DEF LspInv
<1>2. PICK new : new = [old EXCEPT !.proc = "dead"]
  OBVIOUS
<1>3. new \in ClientRecords /\ Serves(lsp[k], new)
  BY <1>1, <1>2, ServesSame DEF ClientRecords
<1>4. lsp' = [lsp EXCEPT ![k] = new] /\ asker' = asker /\ made' = made /\ unopened' = {}
  BY <1>1, <1>2 DEF LspServerDies, LspInv
<1> QED
  BY <1>3, <1>4, ServerStep

LEMMA LspInvariant == LspSpec => []LspInv
<1>1. LspInit => LspInv
  <2> SUFFICES ASSUME LspInit PROVE LspInv
    OBVIOUS
  <2>1. NewClient \in ClientRecords /\ ClientSound(NewClient)
    <3>1. <<>> \in Seq(Messages) /\ <<>> \in Seq(Replies)
      OBVIOUS
    <3>2. /\ NewClient \in ClientRecords /\ NewClient.toServer = <<>> /\ NewClient.fromServer = <<>>
          /\ NewClient.opened = {}
      BY <3>1 DEF NewClient, ClientRecords
    <3> QED
      BY <3>2 DEF ClientSound
  <2>2. lsp \in [LspClients -> ClientRecords] /\ \A k \in LspClients : ClientSound(lsp[k])
    BY <2>1 DEF LspInit
  <2>3. asker \in [Askers -> AskerRecords] /\ \A t \in Askers : asker[t].at = "new"
    BY DEF LspInit, AskerRecords, AskerPhases
  <2> QED
    BY <2>2, <2>3, LspAssumption DEF LspInit, LspInv
<1>2. LspInv /\ [LspNext]_lspVars => LspInv'
  <2> SUFFICES ASSUME LspInv, [LspNext]_lspVars PROVE LspInv'
    OBVIOUS
  <2>1. CASE UNCHANGED lspVars
    BY <2>1 DEF lspVars, LspInv
  <2>2. ASSUME NEW t \in Askers,
               \/ GetClient(t) \/ StartServer(t) \/ Request(t) \/ ReadReply(t) \/ SkipMessage(t)
               \/ ReadEnd(t) \/ CheckOpen(t) \/ DidOpen(t) \/ NoteOpen(t)
        PROVE  LspInv'
    BY <2>2, GetClientStep, StartServerStep, RequestStep, ReadReplyStep, SkipMessageStep,
       ReadEndStep, CheckOpenStep, DidOpenStep, NoteOpenStep
  <2>3. ASSUME NEW k \in LspClients, Serve(k) \/ Notify(k) \/ LspServerDies(k)
        PROVE  LspInv'
    BY <2>3, ServeStep, NotifyStep, DiesStep
  <2> QED
    BY <2>1, <2>2, <2>3 DEF LspNext
<1> QED
  BY <1>1, <1>2, PTL DEF LspSpec

(* However threads share a language server, and whatever it sends late or  *)
(* never, whoever is answered is answered its own question, and the server *)
(* is asked only about documents it was given.                             *)
THEOREM AnswersOwn == LspSpec => []QueriesSound
<1>1. LspInv => QueriesSound
  BY DEF LspInv, QueriesSound
<1> QED
  BY <1>1, LspInvariant, PTL

-----------------------------------------------------------------------------
(* The workshop: its modules share no state and move one at a time. *)

LEMMA ModulesMove ==
  ASSUME [WorkshopNext]_<<moving, fixVars, llmVars, databaseVars, toolsetVars, shellVars, indexVars, lspVars>>
  PROVE  [ToolsetsNext]_toolsetVars /\ [ShellNext]_shellVars /\ [LspNext]_lspVars
  BY DEF WorkshopNext

(* Threads that share the shell, a language server or the connection to a  *)
(* database get their own answers, a command is run once, and no open      *)
(* connection is lost sight of, for any number of them.                    *)
THEOREM SharedToolsKept == WorkshopSpec => []SharedToolsSound
<1>1. WorkshopInit => ToolsetsInit /\ ShellInit /\ LspInit
  BY DEF WorkshopInit
<1>2. WorkshopSpec => ToolsetsSpec
  BY <1>1, ModulesMove, PTL DEF WorkshopSpec, ToolsetsSpec
<1>3. WorkshopSpec => ShellSpec
  BY <1>1, ModulesMove, PTL DEF WorkshopSpec, ShellSpec
<1>4. WorkshopSpec => LspSpec
  BY <1>1, ModulesMove, PTL DEF WorkshopSpec, LspSpec
<1>5. NoConnectionLost /\ OwnOutputOnce /\ QueriesSound => SharedToolsSound
  BY DEF SharedToolsSound
<1> QED
  BY <1>2, <1>3, <1>4, <1>5, ConnectionKept, OutputsOwn, AnswersOwn, PTL
=============================================================================
