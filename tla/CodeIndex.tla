------------------------------ MODULE CodeIndex ------------------------------
(***************************************************************************)
(* Semantic search over code: `vk index-code' embeds the symbols of every  *)
(* file whose content hash has changed (core/code_index.py) into vectors   *)
(* keyed by repository, path and symbol (storage/vectors.py), and notes    *)
(* the hash (storage/code_index_state.py).  Runs are started on a schedule *)
(* and after deploys, so that two may overlap, the checkout moves on while *)
(* one runs, and one may be killed between any two writes.                 *)
(***************************************************************************)
EXTENDS Naturals

CONSTANTS
  Paths, Symbols,
  SymbolsIn,       (* the symbols of a file, by the version of its content *)
  Indexers,        (* runs of `vk index-code' *)
  MaxFiles,        (* max_files of index_repo *)
  MaxRuns          (* bounds how often each indexer runs *)

Versions == DOMAIN SymbolsIn

ASSUME CodeIndexAssumption ==
  /\ SymbolsIn \in [Versions -> SUBSET Symbols] /\ Versions \subseteq Nat \ {0}
  /\ {MaxFiles, MaxRuns} \subseteq Nat
  /\ "none" \notin Paths

VARIABLES
  content,     (* per path, the version in the checkout *)
  vectors,     (* chunk ids to the version they were embedded from; 0 when absent *)
  hashes,      (* code_index_state; 0 when absent *)
  indexer,     (* per run, where it is *)
  hits,        (* the last answer of search_code *)
  overlapped,  (* history: paths that two runs had in hand at once *)
  cutShort     (* history: paths whose last storing was cut short *)

indexVars == <<content, vectors, hashes, indexer, hits, overlapped, cutShort>>

Chunks == Paths \X Symbols
OffDuty == [at |-> "off", todo |-> {}, path |-> "none", read |-> 0, left |-> {},
            indexed |-> 0, runs |-> 0]

IndexInit ==
  /\ content \in [Paths -> {v \in Versions : \A u \in Versions : v <= u}]
  /\ vectors = [c \in Chunks |-> 0] /\ hashes = [p \in Paths |-> 0]
  /\ indexer = [x \in Indexers |-> OffDuty]
  /\ hits = {} /\ overlapped = {} /\ cutShort = {}

InHand(p) == {x \in Indexers : indexer[x].path = p}

-----------------------------------------------------------------------------
StartIndexing(x) ==
  /\ indexer[x].at = "off" /\ indexer[x].runs < MaxRuns
  /\ indexer' = [indexer EXCEPT ![x] =
       [OffDuty EXCEPT !.at = "scanning", !.todo = Paths, !.runs = indexer[x].runs + 1]]
  /\ UNCHANGED <<content, vectors, hashes, hits, overlapped, cutShort>>

(* Read a file and look its hash up.  Nothing is done for one that is      *)
(* unchanged, or in which there is no text.                                *)
ReadFile(x) ==
  \E p \in indexer[x].todo :
    LET v == content[p]
        changed == hashes[p] # v /\ SymbolsIn[v] # {} IN
    /\ indexer[x].at = "scanning" /\ indexer[x].indexed < MaxFiles
    /\ indexer' = [indexer EXCEPT ![x] =
         [indexer[x] EXCEPT !.todo = indexer[x].todo \ {p},
                            !.at = IF changed THEN "embedding" ELSE "scanning",
                            !.path = IF changed THEN p ELSE "none",
                            !.read = v, !.left = SymbolsIn[v]]]
    /\ overlapped' = IF changed /\ InHand(p) # {} THEN overlapped \cup {p} ELSE overlapped
    /\ UNCHANGED <<content, vectors, hashes, hits, cutShort>>

(* One batch for the file.  When the provider fails the file is left for   *)
(* another run.                                                            *)
EmbedFile(x) ==
  /\ indexer[x].at = "embedding"
  /\ \/ indexer' = [indexer EXCEPT ![x].at = "storing"]
     \/ indexer' = [indexer EXCEPT ![x].at = "scanning", ![x].path = "none"]
  /\ UNCHANGED <<content, vectors, hashes, hits, overlapped, cutShort>>

UpsertEmbedding(x) ==
  /\ indexer[x].at = "storing"
  /\ \E s \in indexer[x].left :
       /\ vectors' = [vectors EXCEPT ![<<indexer[x].path, s>>] = indexer[x].read]
       /\ indexer' = [indexer EXCEPT ![x].left = @ \ {s}]
  /\ UNCHANGED <<content, hashes, hits, overlapped, cutShort>>

(* Mutant: the hash of what is in the checkout by now. *)
MarkCurrent(x) ==
  /\ indexer[x].at = "storing" /\ indexer[x].left = {}
  /\ hashes' = [hashes EXCEPT ![indexer[x].path] = content[indexer[x].path]]
  /\ indexer' = [indexer EXCEPT ![x] = [indexer[x] EXCEPT !.at = "scanning", !.path = "none",
                                                           !.indexed = indexer[x].indexed + 1]]
  /\ cutShort' = cutShort \ {indexer[x].path}
  /\ UNCHANGED <<content, vectors, hits, overlapped>>

Mark(x) ==
  /\ indexer[x].at = "storing" /\ indexer[x].left = {}
  /\ hashes' = [hashes EXCEPT ![indexer[x].path] = indexer[x].read]
  /\ indexer' = [indexer EXCEPT ![x] = [indexer[x] EXCEPT !.at = "scanning", !.path = "none",
                                                           !.indexed = indexer[x].indexed + 1]]
  /\ cutShort' = cutShort \ {indexer[x].path}
  /\ UNCHANGED <<content, vectors, hits, overlapped>>

(* The run ends: all files seen, enough indexed, an exception or a kill. *)
StopIndexing(x) ==
  /\ indexer[x].at # "off"
  /\ indexer' = [indexer EXCEPT ![x] = [OffDuty EXCEPT !.runs = indexer[x].runs]]
  /\ cutShort' = IF indexer[x].at = "storing" THEN cutShort \cup {indexer[x].path} ELSE cutShort
  /\ UNCHANGED <<content, vectors, hashes, hits, overlapped>>

(* repo_sync moves the checkout; a revert brings an old content back. *)
Sync ==
  /\ \E p \in Paths, v \in Versions :
       v # content[p] /\ content' = [content EXCEPT ![p] = v]
  /\ UNCHANGED <<vectors, hashes, indexer, hits, overlapped, cutShort>>

(* search_code: the best of what is stored, nothing if the question cannot *)
(* be embedded. *)
SearchCode ==
  /\ hits' \in SUBSET {c \in Chunks : vectors[c] # 0}
  /\ UNCHANGED <<content, vectors, hashes, indexer, overlapped, cutShort>>

IndexNext ==
  \/ \E x \in Indexers :
       \/ StartIndexing(x) \/ ReadFile(x) \/ EmbedFile(x) \/ UpsertEmbedding(x)
       \/ Mark(x) \/ StopIndexing(x)
  \/ Sync \/ SearchCode

IndexSpec == IndexInit /\ [][IndexNext]_indexVars
-----------------------------------------------------------------------------
(* A file is skipped because its hash is known only when all its symbols   *)
(* were embedded from that very content, whatever failed and however the   *)
(* checkout moved; unless a run was killed while it stored the file's      *)
(* vectors and none has finished it since, or two runs ever had it in hand *)
(* at once, which may leave it with old vectors for good.                  *)
SkippedIsIndexed ==
  \A p \in Paths \ (overlapped \cup cutShort) :
    hashes[p] # 0 /\ InHand(p) = {} =>
      \A s \in SymbolsIn[hashes[p]] : vectors[<<p, s>>] = hashes[p]
=============================================================================
