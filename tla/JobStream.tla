----------------------------- MODULE JobStream -----------------------------
(***************************************************************************)
(* The Redis streams between the orchestrator and the executor pools       *)
(* (core/jobstream.py): one stream per cloud with one consumer group.  An  *)
(* entry that has been read stays in the group's pending list, with the    *)
(* consumer that holds it, until it is acknowledged.                       *)
(*                                                                         *)
(* Redis's clock is abstracted to one bit per pending entry: stale holds   *)
(* the entries idle for longer than min_idle_ms, the ones XAUTOCLAIM may   *)
(* hand to another consumer.  Trimming at MAXLEN (10 000 entries) is not   *)
(* modelled.                                                               *)
(***************************************************************************)
EXTENDS Naturals, Sequences

CONSTANTS
  Incidents,     (* incident ids (uuids) *)
  Consumers,     (* consumer names in the groups: the executors *)
  Nobody         (* owner of an entry that is not pending *)

Clouds == {"aws", "gcp"}

(* An entry of the stream of cloud c carrying incident i. *)
Jobs == Incidents \X Clouds

VARIABLES
  queue,   (* per cloud, the incidents added and not yet read, in order *)
  owner,   (* the consumer in whose pending list a job is *)
  stale,   (* pending jobs idle for longer than min_idle_ms *)
  acked    (* jobs acknowledged; history, Redis forgets them *)

streamVars == <<queue, owner, stale, acked>>

StreamTypeOK ==
  /\ queue \in [Clouds -> Seq(Incidents)]
  /\ owner \in [Jobs -> Consumers \cup {Nobody}]
  /\ stale \subseteq Jobs
  /\ acked \subseteq Jobs

StreamInit ==
  /\ queue = [c \in Clouds |-> <<>>]
  /\ owner = [j \in Jobs |-> Nobody]
  /\ stale = {}
  /\ acked = {}

Queued(j)  == \E n \in 1..Len(queue[j[2]]) : queue[j[2]][n] = j[1]
Pending(j) == owner[j] # Nobody

-----------------------------------------------------------------------------

(* XADD. *)
Enqueue(i, c) ==
  /\ queue' = [queue EXCEPT ![c] = Append(@, i)]
  /\ UNCHANGED <<owner, stale, acked>>

(* XREADGROUP ... > count=1: the first entry nobody has read. *)
NextJob(c) == <<Head(queue[c]), c>>

(* Mutant: XREADGROUP ... NOACK, nothing becomes pending. *)
ConsumeNoAck(c, e) ==
  /\ queue[c] # <<>>
  /\ queue' = [queue EXCEPT ![c] = Tail(@)]
  /\ UNCHANGED <<owner, stale, acked>>

Consume(c, e) ==
  /\ queue[c] # <<>>
  /\ queue' = [queue EXCEPT ![c] = Tail(@)]
  /\ owner' = [owner EXCEPT ![NextJob(c)] = e]
  /\ UNCHANGED <<stale, acked>>

(* Mutant: the entry stays claimable. *)
AckStillClaimable(j) ==
  /\ owner' = [owner EXCEPT ![j] = Nobody]
  /\ acked' = acked \cup {j}
  /\ UNCHANGED <<queue, stale>>

(* XACK removes the entry from the group's pending list, whoever holds it. *)
Ack(j) ==
  /\ owner' = [owner EXCEPT ![j] = Nobody]
  /\ stale' = stale \ {j}
  /\ acked' = acked \cup {j}
  /\ UNCHANGED queue

(* XAUTOCLAIM: up to count stale entries change owner and start afresh.    *)
(* count (10) is abstracted to any nonempty set of them.                   *)

(* Mutant: min_idle_time is 0. *)
ReclaimableAtOnce(c) == {j \in Jobs : j[2] = c /\ Pending(j)}

Reclaimable(c) == {j \in stale : j[2] = c}

ClaimStale(B, e) ==
  /\ owner' = [j \in Jobs |-> IF j \in B THEN e ELSE owner[j]]
  /\ stale' = stale \ B
  /\ UNCHANGED <<queue, acked>>

(* min_idle_ms pass without the entry being delivered or claimed again. *)
GoStale(j) ==
  /\ Pending(j)
  /\ j \notin stale
  /\ stale' = stale \cup {j}
  /\ UNCHANGED <<queue, owner, acked>>
=============================================================================
