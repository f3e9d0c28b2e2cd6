---------------------------- MODULE EngineProofs ----------------------------
(***************************************************************************)
(* Theorems about Engine, for every value of its constants.                *)
(***************************************************************************)
EXTENDS EngineProperties, FiniteSetTheorems, TLAPS

(* An output reaches the model only by way of the guard's list: what a     *)
(* call of the current answer has got is on it, and so is what the model   *)
(* has been shown.                                                         *)
Held == [call : Calls, fate : Fates, from : recorded \cup {NoCall}]

OutputsKnown ==
  /\ turn \in Seq(Held)
  /\ shown \subseteq recorded

LEMMA InitOutputsKnown == Init => OutputsKnown
BY DEF Init, OutputsKnown, Held

LEMMA IsASeq ==
  ASSUME NEW U, NEW n \in Nat, NEW r, r = [i \in 1..n |-> r[i]],
         \A i \in 1..n : r[i] \in U
  PROVE  r \in Seq(U)
OBVIOUS

LEMMA HeldAt ==
  ASSUME OutputsKnown, NEW i \in DOMAIN turn
  PROVE  /\ turn[i] = [call |-> turn[i].call, fate |-> turn[i].fate, from |-> turn[i].from]
         /\ turn[i].call \in Calls
         /\ turn[i].fate \in Fates
         /\ turn[i].from \in recorded \cup {NoCall}
<1>1. turn[i] \in Held
  BY DEF OutputsKnown
<1> QED
  BY <1>1 DEF Held

(* What holds at every place of a sequence changed at one. *)
LEMMA ChangedAt ==
  ASSUME NEW S, NEW U, NEW s \in Seq(S), NEW h, NEW x,
         h \in DOMAIN s => x \in U,
         \A i \in DOMAIN s : i # h => s[i] \in U
  PROVE  [s EXCEPT ![h] = x] \in Seq(U)
<1> DEFINE r == [s EXCEPT ![h] = x]
<1>1. \A i \in DOMAIN s : r[i] \in U
  OBVIOUS
<1>2. r = [i \in 1..Len(s) |-> r[i]] /\ Len(s) \in Nat
  OBVIOUS
<1> HIDE DEF r
<1>3. \A i \in 1..Len(s) : r[i] \in U
  BY <1>1
<1>4. r \in Seq(U)
  BY <1>2, <1>3, IsASeq
<1> QED
  BY <1>4 DEF r

(* Dispatching one of the calls of an answer: it is marked, the others are *)
(* left alone, and it starts only if its output is not known.              *)
LEMMA DispatchMarks ==
  ASSUME NEW t \in Seq(Held), NEW i \in DOMAIN t, Dispatch(i, t)
  PROVE  /\ turn' \in Seq(Held)
         /\ recorded' = recorded
         /\ DOMAIN turn' = DOMAIN t
         /\ \A k \in DOMAIN t : k # i => turn'[k] = t[k]
         /\ turn'[i].call = t[i].call
         /\ turn'[i].fate = "started" => t[i].call \notin recorded
<1> DEFINE f == IF Guard!IsAllowed(t[i].call) THEN "started" ELSE "refused"
<1>1. turn' = [t EXCEPT ![i].fate = f]
  BY DEF Dispatch
<1>2. f \in Fates
  BY DEF Fates
<1>3. t[i] \in Held
  OBVIOUS
<1>4. [t[i] EXCEPT !.fate = f] = [call |-> t[i].call, fate |-> f, from |-> t[i].from]
  BY <1>3 DEF Held
<1>5. [t[i] EXCEPT !.fate = f] \in Held
  BY <1>2, <1>3, <1>4 DEF Held
<1>6. turn' \in Seq(Held) /\ DOMAIN turn' = DOMAIN t
  BY <1>1, <1>5
<1>7. recorded' = recorded
  BY DEF Dispatch
<1>8. \A k \in DOMAIN t : k # i => turn'[k] = t[k]
  BY <1>1
<1>9. turn'[i].call = t[i].call /\ turn'[i].fate = f
  BY <1>1, <1>4
<1>10. f = "started" => t[i].call \notin recorded
  BY DEF Guard!IsAllowed
<1> QED
  BY <1>6, <1>7, <1>8, <1>9, <1>10

(* The actions that touch neither the answer's calls nor the outputs. *)
LEMMA Elsewhere ==
  ASSUME OutputsKnown,
         turn' = turn \/ turn' = <<>>,
         recorded' = recorded, shown' = shown
  PROVE  /\ OutputsKnown'
         /\ \A i \in 1..MaxCalls : ~Dispatched(i)
<1>1. Held' = Held
  BY DEF Held
<1>2. turn' \in Seq(Held)
  <2>1. CASE turn' = turn
    BY <2>1 DEF OutputsKnown
  <2>2. CASE turn' = <<>>
    BY <2>2
  <2> QED
    BY <2>1, <2>2
<1>3. OutputsKnown'
  BY <1>1, <1>2 DEF OutputsKnown
<1> QED
  BY <1>3 DEF Dispatched

(* A new call, put at the answer's end. *)
LEMMA ArrivalKeeps ==
  ASSUME OutputsKnown, NEW c \in Calls, CallArrives(c)
  PROVE  /\ OutputsKnown'
         /\ \A i \in 1..MaxCalls : Dispatched(i) => turn'[i].call \notin shown
<1> DEFINE n == Len(turn) + 1
           t == Append(turn, Offered(c))
<1>1. Offered(c) \in Held
  BY DEF Offered, Held, Fates
<1>2. /\ t \in Seq(Held)
      /\ n \in DOMAIN t
      /\ DOMAIN t = DOMAIN turn \cup {n}
      /\ n \notin DOMAIN turn
      /\ t[n] = Offered(c)
      /\ \A k \in DOMAIN turn : t[k] = turn[k]
  BY <1>1 DEF OutputsKnown
<1>3. shown' = shown
  BY DEF CallArrives, midStep, outside
<1>4. CASE Dispatch(n, t)
  <2> HIDE DEF t, n
  <2>1. /\ turn' \in Seq(Held)
        /\ recorded' = recorded
        /\ DOMAIN turn' = DOMAIN t
        /\ \A k \in DOMAIN t : k # n => turn'[k] = t[k]
        /\ turn'[n].call = t[n].call
        /\ turn'[n].fate = "started" => t[n].call \notin recorded
    BY <1>2, <1>4, DispatchMarks
  <2>2. OutputsKnown'
    BY <2>1, <1>3 DEF OutputsKnown, Held
  <2>3. ASSUME NEW i \in 1..MaxCalls, Dispatched(i) PROVE i = n
    BY <2>1, <2>3, <1>2 DEF Dispatched
  <2> QED
    BY <2>1, <2>2, <2>3 DEF Dispatched, OutputsKnown
<1>5. CASE turn' = t /\ UNCHANGED <<futures, guardVars, poolVars>>
  <2>1. recorded' = recorded
    BY <1>5 DEF guardVars
  <2>2. OutputsKnown'
    BY <2>1, <1>2, <1>3, <1>5 DEF OutputsKnown, Held
  <2>3. ASSUME NEW i \in 1..MaxCalls, Dispatched(i) PROVE FALSE
    BY <2>3, <1>2, <1>5 DEF Dispatched, Offered
  <2> QED
    BY <2>2, <2>3
<1> QED
  BY <1>4, <1>5 DEF CallArrives

LEMMA LeftOverKeeps ==
  ASSUME OutputsKnown, DispatchLeft
  PROVE  /\ OutputsKnown'
         /\ \A i \in 1..MaxCalls : Dispatched(i) => turn'[i].call \notin shown
<1>1. PICK n \in Left : Dispatch(n, turn)
  BY DEF DispatchLeft
<1>2. n \in DOMAIN turn
  BY DEF Left
<1>3. shown' = shown
  BY DEF DispatchLeft, midStep, outside
<1>4. /\ turn' \in Seq(Held)
      /\ recorded' = recorded
      /\ DOMAIN turn' = DOMAIN turn
      /\ \A k \in DOMAIN turn : k # n => turn'[k] = turn[k]
      /\ turn'[n].call = turn[n].call
      /\ turn'[n].fate = "started" => turn[n].call \notin recorded
  BY <1>1, <1>2, DispatchMarks DEF OutputsKnown
<1>5. OutputsKnown'
  BY <1>3, <1>4 DEF OutputsKnown, Held
<1>6. ASSUME NEW i \in 1..MaxCalls, Dispatched(i) PROVE i = n
  BY <1>4, <1>6 DEF Dispatched
<1> QED
  BY <1>4, <1>5, <1>6 DEF OutputsKnown, Dispatched

(* The output goes to the guard and to the call at once. *)
LEMMA CollectKeeps ==
  ASSUME OutputsKnown, CollectResult
  PROVE  OutputsKnown' /\ \A i \in 1..MaxCalls : ~Dispatched(i)
<1>1. PICK k \in Pool!WaitedFor(Head(futures)) :
        /\ Guard!Record(pool[k].call)
        /\ turn' = [turn EXCEPT ![Head(futures)] = Answered(@.call, pool[k].call)]
  BY DEF CollectResult
<1> DEFINE h == Head(futures)
           c == pool[k].call
<1> HIDE DEF h, c
<1>2. recorded' = recorded \cup {c}
  BY <1>1 DEF Guard!Record, c
<1>3. shown' = shown
  BY DEF CollectResult, midStep, outside
<1> DEFINE x == Answered(turn[h].call, c)
<1>4. turn' = [turn EXCEPT ![h] = x]
  BY <1>1 DEF h, c
<1>6. h \in DOMAIN turn => x \in Held'
  BY <1>2, HeldAt DEF Held, Fates, Answered
<1>7. \A i \in DOMAIN turn : turn[i] \in Held'
  BY <1>2, HeldAt DEF Held
<1> HIDE DEF x
<1>8. turn' \in Seq(Held')
  BY <1>4, <1>6, <1>7, ChangedAt DEF OutputsKnown, x
<1>9. OutputsKnown'
  BY <1>2, <1>3, <1>8 DEF OutputsKnown
<1>10. ASSUME NEW i \in 1..MaxCalls PROVE ~Dispatched(i)
  BY <1>4 DEF Dispatched, x, Answered
<1> QED
  BY <1>9, <1>10

LEMMA GiveUpKeeps ==
  ASSUME OutputsKnown, CollectTimesOut
  PROVE  OutputsKnown' /\ \A i \in 1..MaxCalls : ~Dispatched(i)
<1> DEFINE h == Head(futures)
<1> HIDE DEF h
<1>1. turn' = [turn EXCEPT ![h] = [turn[h] EXCEPT !.fate = "timedout"]]
  BY DEF CollectTimesOut, h
<1>2. shown' = shown /\ recorded' = recorded
  BY DEF CollectTimesOut, midStep, outside, guardVars
<1> DEFINE x == [turn[h] EXCEPT !.fate = "timedout"]
<1>3. ASSUME h \in DOMAIN turn
      PROVE  x = [call |-> turn[h].call, fate |-> "timedout", from |-> turn[h].from]
  BY <1>3, HeldAt
<1>4. h \in DOMAIN turn => x \in Held
  BY <1>3, HeldAt DEF Held, Fates
<1>5. \A i \in DOMAIN turn : turn[i] \in Held
  BY HeldAt DEF Held
<1> HIDE DEF x
<1>6. turn' \in Seq(Held)
  BY <1>1, <1>4, <1>5, ChangedAt DEF OutputsKnown, x
<1>7. OutputsKnown'
  BY <1>2, <1>6 DEF OutputsKnown, Held
<1>8. ASSUME NEW i \in 1..MaxCalls PROVE ~Dispatched(i)
  BY <1>1, <1>3 DEF Dispatched, x
<1> QED
  BY <1>7, <1>8

(* The replies show the model what its calls have got, all of it listed. *)
LEMMA ReplyKeeps ==
  ASSUME OutputsKnown, ReplyAll
  PROVE  OutputsKnown' /\ \A i \in 1..MaxCalls : ~Dispatched(i)
<1>1. turn' = <<>> /\ recorded' = recorded
  BY DEF ReplyAll, guardVars
<1>2. shown' = shown \cup {c \in Calls : \E i \in DOMAIN turn : turn[i].from = c}
  BY DEF ReplyAll
<1>3. \A i \in DOMAIN turn : turn[i].from \in recorded \cup {NoCall}
  BY HeldAt
<1>4. shown' \subseteq recorded
  BY <1>2, <1>3, EngineAssumption DEF OutputsKnown
<1> QED
  BY <1>1, <1>4 DEF OutputsKnown, Held, Dispatched

(* A new process knows nothing, and has shown nothing. *)
LEMMA DeathKeeps ==
  ASSUME OutputsKnown, Die
  PROVE  OutputsKnown' /\ \A i \in 1..MaxCalls : ~Dispatched(i)
BY DEF Die, Guard!FreshGuard, OutputsKnown, Held, Dispatched

LEMMA NextKeeps ==
  ASSUME OutputsKnown, [Next]_vars
  PROVE  /\ OutputsKnown'
         /\ \A i \in 1..MaxCalls : Dispatched(i) => turn'[i].call \notin shown
<1> DEFINE Quiet == turn' \in {turn, <<>>} /\ recorded' = recorded /\ shown' = shown
<1>0. Quiet => OutputsKnown' /\ \A i \in 1..MaxCalls : ~Dispatched(i)
  BY Elsewhere
<1>1. CASE SubAgentsStep
  BY <1>0, <1>1 DEF SubAgentsStep, loopVars, turnVars, guardVars
<1>2. CASE Begin
  BY <1>0, <1>2 DEF Begin, loopVars, turnVars, guardVars
<1>3. CASE SeesAbort
  BY <1>0, <1>3 DEF SeesAbort, turnVars, guardVars, outside
<1>4. CASE AskLLM
  BY <1>0, <1>4 DEF AskLLM, turnVars, outside
<1>5. CASE RunsOut
  BY <1>0, <1>5 DEF RunsOut, turnVars, guardVars, outside
<1>6. CASE StreamFails
  BY <1>0, <1>6 DEF StreamFails, FailedAttempt, guardVars, midStep, outside
<1>7. CASE StreamEnds
  BY <1>0, <1>7 DEF StreamEnds, turnVars, guardVars, midStep, outside
<1>8. CASE DispatchLeft
  BY <1>8, LeftOverKeeps
<1>9. CASE CollectResult
  BY <1>9, CollectKeeps
<1>10. CASE CollectTimesOut
  BY <1>10, GiveUpKeeps
<1>11. CASE ReplyAll
  BY <1>11, ReplyKeeps
<1>12. CASE Nudge
  BY <1>0, <1>12 DEF Nudge, answerUnchanged, turnVars, guardVars, outside
<1>13. CASE Conclude
  BY <1>0, <1>13 DEF Conclude, answerUnchanged, turnVars, guardVars, outside
<1>14. CASE Resume
  BY <1>0, <1>14 DEF Resume, turnVars, guardVars
<1>15. ASSUME NEW c \in Calls, CallArrives(c)
       PROVE  /\ OutputsKnown'
              /\ \A i \in 1..MaxCalls : Dispatched(i) => turn'[i].call \notin shown
  BY <1>15, ArrivalKeeps
<1>16. ASSUME NEW k \in DOMAIN pool, ToolEnds(k)
       PROVE  Quiet
  BY <1>16 DEF ToolEnds, turnVars, guardVars, outside
<1>17. CASE RequestAbort
  BY <1>0, <1>17 DEF RequestAbort, loopVars, turnVars, guardVars
<1>18. CASE Die
  BY <1>18, DeathKeeps
<1>19. CASE UNCHANGED vars
  BY <1>0, <1>19 DEF vars, turnVars, guardVars
<1>20. CASE Steps
  BY <1>2, <1>3, <1>4, <1>5, <1>6, <1>7, <1>8, <1>9, <1>10, <1>11, <1>12, <1>13,
     <1>14, <1>15, <1>20 DEF Steps
<1> QED
  BY <1>0, <1>1, <1>16, <1>17, <1>18, <1>19, <1>20 DEF Next

(* Of every investigation: a call whose output the model has been shown is *)
(* never dispatched again by the same process.                             *)
THEOREM NeverTwice == Spec => NeverTwiceOnceAnswered
<1>1. Spec => []OutputsKnown
  <2>1. OutputsKnown /\ [Next]_vars => OutputsKnown'
    BY NextKeeps
  <2> QED
    BY InitOutputsKnown, <2>1, PTL DEF Spec
<1>2. OutputsKnown /\ [Next]_vars =>
        [\A i \in 1..MaxCalls : Dispatched(i) => turn'[i].call \notin shown]_vars
  BY NextKeeps
<1> QED
  BY <1>1, <1>2, PTL DEF Spec, NeverTwiceOnceAnswered
-----------------------------------------------------------------------------
(* The barrier of sub-agents: no action of the run touches it but Begin.   *)

LEMMA ScanInert ==
  ASSUME ScanIsBarrier, UNCHANGED <<scan, agent, findings>>
  PROVE  ScanIsBarrier'
BY DEF ScanIsBarrier

LEMMA ScanStepKeeps ==
  ASSUME ScanIsBarrier, SubAgentsStep
  PROVE  ScanIsBarrier'
<1>1. CASE Scan!Skip \/ Scan!Launch \/ Scan!Deadline
  BY <1>1 DEF ScanIsBarrier, Scan!Skip, Scan!Launch, Scan!Deadline
<1>2. CASE Scan!Leave
  BY <1>2 DEF ScanIsBarrier, Scan!Leave
<1>3. ASSUME NEW d \in Domains, Scan!AgentTurn(d) \/ Scan!ReadFinding(d)
      PROVE  ScanIsBarrier'
  BY <1>3 DEF ScanIsBarrier, Scan!AgentTurn, Scan!ReadFinding
<1>4. ASSUME NEW d \in Domains, Scan!AgentEnds(d)
      PROVE  ScanIsBarrier'
  BY <1>4 DEF ScanIsBarrier, Scan!AgentEnds
<1> QED
  BY <1>1, <1>2, <1>3, <1>4 DEF SubAgentsStep

LEMMA NextKeepsBarrier ==
  ASSUME ScanIsBarrier, [Next]_vars
  PROVE  ScanIsBarrier'
<1> DEFINE Inert == UNCHANGED <<scan, agent, findings>>
<1>1. CASE SubAgentsStep
  BY <1>1, ScanStepKeeps
<1>2. CASE Begin
  BY <1>2 DEF Begin, Scan!Hand, ScanIsBarrier
<1>3. CASE SeesAbort \/ AskLLM \/ RunsOut
  BY <1>3, ScanInert DEF SeesAbort, AskLLM, RunsOut, outside, scanVars
<1>4. CASE StreamFails \/ StreamEnds \/ DispatchLeft
  BY <1>4, ScanInert DEF StreamFails, FailedAttempt, StreamEnds, DispatchLeft, midStep, outside, scanVars
<1>5. CASE CollectResult \/ CollectTimesOut \/ ReplyAll
  BY <1>5, ScanInert DEF CollectResult, CollectTimesOut, ReplyAll, midStep, outside, scanVars
<1>6. CASE Nudge \/ Conclude \/ Resume
  BY <1>6, ScanInert DEF Nudge, Conclude, Resume, answerUnchanged, outside, scanVars
<1>7. ASSUME NEW c \in Calls, CallArrives(c) PROVE ScanIsBarrier'
  BY <1>7, ScanInert DEF CallArrives, midStep, outside, scanVars
<1>8. ASSUME NEW k \in DOMAIN pool, ToolEnds(k) PROVE ScanIsBarrier'
  BY <1>8, ScanInert DEF ToolEnds, outside, scanVars
<1>9. CASE RequestAbort \/ Die
  BY <1>9, ScanInert DEF RequestAbort, Die, scanVars
<1>10. CASE UNCHANGED vars
  BY <1>10, ScanInert DEF vars, scanVars
<1>11. CASE Steps
  BY <1>2, <1>3, <1>4, <1>5, <1>6, <1>7, <1>11 DEF Steps
<1> QED
  BY <1>1, <1>8, <1>9, <1>10, <1>11 DEF Next

(* Of any set of domains and any deadline: the scan is left only when its  *)
(* last sub-agent has ended, and returns only with every finding.          *)
THEOREM ScanBarrier == Spec => []ScanIsBarrier
<1>1. Init => ScanIsBarrier
  BY DEF Init, Scan!ScanInit, ScanIsBarrier
<1>2. ScanIsBarrier /\ [Next]_vars => ScanIsBarrier'
  BY NextKeepsBarrier
<1> QED
  BY <1>1, <1>2, PTL DEF Spec

-----------------------------------------------------------------------------
(* The pool's tools, and how its sequence changes: what is in it after a   *)
(* step was there before, in another place perhaps.                        *)
Tool == [call : Calls, pos : Nat, st : Pool!States]

PoolTyped == pool \in Seq(Tool) /\ starts \in [Calls -> Nat]

Comes(t, g) ==
  /\ t \in Seq(Tool)
  /\ g \in [DOMAIN t -> DOMAIN pool]
  /\ \A k, l \in DOMAIN t : g[k] = g[l] => k = l
  /\ \A k \in DOMAIN t : /\ t[k].call = pool[g[k]].call
                         /\ t[k].pos \in {0, pool[g[k]].pos}
                         /\ t[k].st = "queued" => pool[g[k]].st = "queued"

LEMMA Shorter ==
  ASSUME NEW S, NEW s \in Seq(S), NEW k \in DOMAIN s
  PROVE  /\ Pool!Without(s, k) \in Seq(S)
         /\ DOMAIN Pool!Without(s, k) = 1 .. Len(s) - 1
         /\ \A l \in 1 .. Len(s) - 1 : Pool!Without(s, k)[l] = s[IF l < k THEN l ELSE l + 1]
<1> DEFINE a == SubSeq(s, 1, k - 1)
           b == SubSeq(s, k + 1, Len(s))
<1>1. k \in 1 .. Len(s) /\ Len(s) \in Nat
  OBVIOUS
<1>2. /\ a \in Seq(S) /\ Len(a) = k - 1
      /\ \A l \in 1 .. k - 1 : a[l] = s[l]
  BY <1>1
<1>3. /\ b \in Seq(S) /\ Len(b) = Len(s) - k
      /\ \A l \in 1 .. Len(s) - k : b[l] = s[k + l]
  BY <1>1
<1> HIDE DEF a, b
<1>4. /\ a \o b \in Seq(S)
      /\ Len(a \o b) = Len(s) - 1
      /\ DOMAIN (a \o b) = 1 .. Len(s) - 1
      /\ \A l \in 1 .. Len(s) - 1 : (a \o b)[l] = IF l < k THEN a[l] ELSE b[l - (k - 1)]
  BY <1>1, <1>2, <1>3
<1>5. \A l \in 1 .. Len(s) - 1 : (a \o b)[l] = s[IF l < k THEN l ELSE l + 1]
  <2> TAKE l \in 1 .. Len(s) - 1
  <2>1. CASE l < k
    BY <1>1, <1>2, <1>4, <2>1
  <2>2. CASE ~(l < k)
    <3>1. l - (k - 1) \in 1 .. Len(s) - k /\ k + (l - (k - 1)) = l + 1
      BY <1>1, <2>2
    <3> QED
      BY <1>1, <1>3, <1>4, <2>2, <3>1
  <2> QED
    BY <1>1, <2>1, <2>2
<1> QED
  BY <1>4, <1>5 DEF Pool!Without, a, b

(* Taking one out of a sequence that comes from the pool. *)
LEMMA OneLess ==
  ASSUME PoolTyped, NEW s \in Seq(Tool), DOMAIN s = DOMAIN pool, NEW k \in DOMAIN pool,
         \A l \in DOMAIN pool : /\ s[l].call = pool[l].call
                                /\ s[l].pos \in {0, pool[l].pos}
                                /\ s[l].st = "queued" => pool[l].st = "queued"
  PROVE  \E g : /\ Comes(Pool!Without(s, k), g)
                /\ \A l \in DOMAIN Pool!Without(s, k) :
                     g[l] # k /\ Pool!Without(s, k)[l] = s[g[l]]
<1> DEFINE w == Pool!Without(s, k)
           g == [l \in 1 .. Len(s) - 1 |-> IF l < k THEN l ELSE l + 1]
<1>1. /\ w \in Seq(Tool) /\ DOMAIN w = 1 .. Len(s) - 1
      /\ \A l \in 1 .. Len(s) - 1 : w[l] = s[g[l]]
  BY Shorter
<1>2. k \in 1 .. Len(s) /\ Len(s) \in Nat /\ DOMAIN pool = 1 .. Len(s)
  OBVIOUS
<1>3. /\ g \in [1 .. Len(s) - 1 -> DOMAIN pool]
      /\ \A l \in 1 .. Len(s) - 1 : g[l] # k
      /\ \A l, m \in 1 .. Len(s) - 1 : g[l] = g[m] => l = m
  BY <1>2
<1> HIDE DEF w, g
<1>4. Comes(w, g)
  BY <1>1, <1>3 DEF Comes
<1>5. \A l \in DOMAIN w : g[l] # k /\ w[l] = s[g[l]]
  BY <1>1, <1>3
<1> QED
  BY <1>4, <1>5 DEF w

Like(s) ==
  /\ s \in Seq(Tool) /\ DOMAIN s = DOMAIN pool
  /\ \A l \in DOMAIN pool : /\ s[l].call = pool[l].call
                            /\ s[l].pos \in {0, pool[l].pos}
                            /\ s[l].st = "queued" => pool[l].st = "queued"

LEMMA AllStay ==
  ASSUME NEW s, Like(s)
  PROVE  \E g : Comes(s, g) /\ \A l \in DOMAIN s : s[l] = s[g[l]]
<1> DEFINE g == [l \in DOMAIN s |-> l]
<1>1. Comes(s, g) /\ \A l \in DOMAIN s : s[l] = s[g[l]]
  BY DEF Comes, Like
<1> QED
  BY <1>1

LEMMA ToolAt ==
  ASSUME PoolTyped, NEW k \in DOMAIN pool
  PROVE  /\ pool[k] = [call |-> pool[k].call, pos |-> pool[k].pos, st |-> pool[k].st]
         /\ pool[k].call \in Calls /\ pool[k].pos \in Nat /\ pool[k].st \in Pool!States
<1>1. pool[k] \in Tool
  BY DEF PoolTyped
<1> QED
  BY <1>1 DEF Tool

(* A tool that is given another state, which is not that of waiting. *)
LEMMA Restated ==
  ASSUME PoolTyped, NEW s, Like(s), NEW k \in DOMAIN pool, NEW x \in {"running", "finished"}
  PROVE  /\ Like([s EXCEPT ![k].st = x])
         /\ [s EXCEPT ![k].st = x][k].st = x
<1> DEFINE y == [s[k] EXCEPT !.st = x]
           t == [s EXCEPT ![k] = y]
<1>1. s \in Seq(Tool) /\ s[k] \in Tool /\ k \in DOMAIN s
  BY DEF Like
<1>2. /\ y = [call |-> s[k].call, pos |-> s[k].pos, st |-> x]
      /\ s[k].call \in Calls /\ s[k].pos \in Nat
  BY <1>1 DEF Tool
<1>3. y \in Tool
  BY <1>2 DEF Tool, Pool!States
<1>4. y.call = s[k].call /\ y.pos = s[k].pos /\ y.st = x
  BY <1>2
<1> HIDE DEF y
<1>5. t \in Seq(Tool) /\ DOMAIN t = DOMAIN s
  BY <1>1, <1>3
<1>6. \A l \in DOMAIN s : t[l] = IF l = k THEN y ELSE s[l]
  BY <1>1
<1> HIDE DEF t
<1>7. Like(t) /\ t[k].st = x
  BY <1>1, <1>4, <1>5, <1>6 DEF Like
<1>8. t = [s EXCEPT ![k].st = x]
  BY DEF t, y
<1> QED
  BY <1>7, <1>8

(* A tool that ends, and the one that starts in its place. *)
Begins(l, g) ==
  /\ pool[l].st = "queued"
  /\ starts' = [starts EXCEPT ![pool[l].call] = @ + 1]
  /\ \A m \in DOMAIN pool' : pool'[m].st = "queued" => g[m] # l

LEMMA EndToolComes ==
  ASSUME PoolTyped, NEW k \in DOMAIN pool, Pool!EndTool(k)
  PROVE  \E g : /\ Comes(pool', g)
                /\ starts' = starts \/ \E l \in DOMAIN pool : Begins(l, g)
<1> DEFINE ended == [pool EXCEPT ![k].st = "finished"]
           After(s) == IF pool[k].pos = 0 THEN Pool!Without(s, k) ELSE s
<1>1. ASSUME NEW s, Like(s), pool' = After(s)
      PROVE  \E g : Comes(pool', g) /\ \A m \in DOMAIN pool' : pool'[m] = s[g[m]]
  <2>1. CASE pool[k].pos = 0
    BY <1>1, <2>1, OneLess DEF Like
  <2>2. CASE pool[k].pos # 0
    BY <1>1, <2>2, AllStay
  <2> QED
    BY <2>1, <2>2
<1>2. Like(pool)
  BY DEF Like, PoolTyped
<1>3. Like(ended)
  BY <1>2, Restated
<1> HIDE DEF ended, After
<1>4. CASE pool' = After(ended) /\ starts' = starts
  BY <1>1, <1>3, <1>4
<1>5. ASSUME NEW l \in DOMAIN pool, pool[l].st = "queued",
             pool' = After([ended EXCEPT ![l].st = "running"]),
             starts' = [starts EXCEPT ![pool[l].call] = @ + 1]
      PROVE  \E g : Comes(pool', g) /\ Begins(l, g)
  <2> DEFINE s == [ended EXCEPT ![l].st = "running"]
  <2>1. Like(s) /\ s[l].st = "running"
    BY <1>3, Restated
  <2> HIDE DEF s
  <2>2. pool' = After(s)
    BY <1>5 DEF s
  <2>3. PICK g : Comes(pool', g) /\ \A m \in DOMAIN pool' : pool'[m] = s[g[m]]
    BY <1>1, <2>1, <2>2
  <2>4. \A m \in DOMAIN pool' : pool'[m].st = "queued" => g[m] # l
    BY <2>1, <2>3
  <2> QED
    BY <1>5, <2>3, <2>4 DEF Begins
<1>6. \/ pool' = After(ended) /\ starts' = starts
      \/ \E l \in DOMAIN pool :
           /\ pool[l].st = "queued"
           /\ pool' = After([ended EXCEPT ![l].st = "running"])
           /\ starts' = [starts EXCEPT ![pool[l].call] = @ + 1]
  BY DEF Pool!EndTool, Pool!InState, Pool!Started, ended, After
<1> QED
  BY <1>4, <1>5, <1>6

(* An instance counts as everybody does. *)
LEMMA PoolCounts ==
  ASSUME NEW S
  PROVE  Pool!Cardinality(S) = Cardinality(S)
BY DEF Pool!Cardinality, Cardinality

LEMMA CancelComes ==
  ASSUME PoolTyped, Pool!CancelTurn
  PROVE  /\ \E g : Comes(pool', g)
         /\ \A k \in DOMAIN pool' : pool'[k].pos = 0
         /\ starts' = starts
<1> DEFINE stay == {k \in DOMAIN pool : pool[k].pos = 0 \/ pool[k].st = "running"}
<1>1. PICK old \in [1 .. Cardinality(stay) -> stay] :
        /\ \A k, l \in DOMAIN old : k < l => old[k] < old[l]
        /\ pool' = [k \in DOMAIN old |-> [pool[old[k]] EXCEPT !.pos = 0]]
  BY PoolCounts DEF Pool!CancelTurn
<1>2. Len(pool) \in Nat /\ DOMAIN pool = 1 .. Len(pool)
  BY DEF PoolTyped
<1>3. Cardinality(stay) \in Nat
  <2>1. IsFiniteSet(1 .. Len(pool))
    BY <1>2, FS_Interval
  <2>2. IsFiniteSet(stay)
    BY <1>2, <2>1, FS_Subset
  <2> QED
    BY <2>2, FS_CardinalityType
<1> DEFINE n == Cardinality(stay)
<1> HIDE DEF n
<1>4. /\ n \in Nat /\ DOMAIN old = 1 .. n
      /\ \A k \in 1 .. n : old[k] \in 1 .. Len(pool)
  BY <1>1, <1>2, <1>3 DEF n
<1>5. \A k, l \in 1 .. n : old[k] = old[l] => k = l
  <2> SUFFICES ASSUME NEW k \in 1 .. n, NEW l \in 1 .. n, k # l
               PROVE  old[k] # old[l]
    OBVIOUS
  <2>1. k < l \/ l < k
    BY <1>4
  <2> QED
    BY <1>1, <1>4, <2>1
<1>6. \A k \in 1 .. n : [pool[old[k]] EXCEPT !.pos = 0]
                        = [call |-> pool[old[k]].call, pos |-> 0, st |-> pool[old[k]].st]
  BY <1>2, <1>4, ToolAt
<1>7. ASSUME NEW k \in 1 .. n
      PROVE  /\ pool'[k] = [call |-> pool[old[k]].call, pos |-> 0, st |-> pool[old[k]].st]
             /\ pool'[k] \in Tool
  <2>1. pool'[k] = [call |-> pool[old[k]].call, pos |-> 0, st |-> pool[old[k]].st]
    BY <1>1, <1>4, <1>6
  <2>2. old[k] \in DOMAIN pool
    BY <1>2, <1>4
  <2> QED
    BY <2>1, <2>2, ToolAt DEF Tool
<1>8. pool' = [k \in 1 .. n |-> pool'[k]]
  BY <1>1, <1>4
<1>9. pool' \in Seq(Tool) /\ DOMAIN pool' = 1 .. n
  <2>1. pool' \in Seq(Tool)
    BY <1>4, <1>7, <1>8, IsASeq
  <2> QED
    BY <1>8, <2>1
<1>10. old \in [DOMAIN pool' -> DOMAIN pool]
  BY <1>1, <1>4, <1>9
<1>11. Comes(pool', old)
  BY <1>5, <1>7, <1>9, <1>10 DEF Comes
<1> QED
  <2>1. starts' = starts
    BY DEF Pool!CancelTurn
  <2>2. \A k \in DOMAIN pool' : pool'[k].pos = 0
    BY <1>7, <1>9
  <2> QED
    BY <1>11, <2>1, <2>2

LEMMA TakeComes ==
  ASSUME PoolTyped, NEW k \in DOMAIN pool, Pool!TakeResult(k)
  PROVE  /\ \E g : Comes(pool', g) /\ \A m \in DOMAIN pool' : g[m] # k
         /\ starts' = starts
<1>1. Like(pool)
  BY DEF Like, PoolTyped
<1> QED
  BY <1>1, OneLess DEF Like, Pool!TakeResult, PoolTyped

LEMMA GiveUpComes ==
  ASSUME PoolTyped, NEW k \in DOMAIN pool, Pool!GiveUp(k)
  PROVE  /\ \E g : Comes(pool', g) /\ \A m \in DOMAIN pool' : g[m] = k => pool'[m].pos = 0
         /\ starts' = starts
<1> DEFINE y == [call |-> pool[k].call, pos |-> 0, st |-> pool[k].st]
<1>1. pool' = [pool EXCEPT ![k] = y]
  <2>1. [pool[k] EXCEPT !.pos = 0] = y
    BY ToolAt
  <2>2. pool' = [pool EXCEPT ![k] = [pool[k] EXCEPT !.pos = 0]]
    BY DEF Pool!GiveUp
  <2> QED
    BY <2>1, <2>2
<1>2. y \in Tool
  BY ToolAt DEF Tool
<1>3. y.call = pool[k].call /\ y.pos = 0 /\ y.st = pool[k].st
  OBVIOUS
<1> HIDE DEF y
<1>4. pool' \in Seq(Tool) /\ DOMAIN pool' = DOMAIN pool
  BY <1>1, <1>2 DEF PoolTyped
<1>5. \A l \in DOMAIN pool : pool'[l] = IF l = k THEN y ELSE pool[l]
  BY <1>1 DEF PoolTyped
<1> DEFINE g == [l \in DOMAIN pool |-> l]
<1>6. Comes(pool', g)
  BY <1>3, <1>4, <1>5 DEF Comes
<1>7. \A m \in DOMAIN pool' : g[m] = k => pool'[m].pos = 0
  BY <1>3, <1>4, <1>5
<1> QED
  BY <1>6, <1>7 DEF Pool!GiveUp

(* Where the run is, and how far. *)
Flow ==
  /\ pc \in Places
  /\ step \in 0..MaxSteps
  /\ pc \in {"asking", "collecting"} => step < MaxSteps
  /\ attempt \in 0..MaxRetries
  /\ pc = "asking" => attempt < MaxRetries
  /\ {nudged, aborted, shuffled} \subseteq BOOLEAN
  /\ {compactions, deaths, failures, faults} \subseteq Nat

(* The calls of the answer, and those whose result is waited for. *)
CallsPlaced ==
  /\ Len(turn) <= MaxCalls
  /\ futures \in Seq(Nat)
  /\ \A n \in DOMAIN futures : futures[n] \in DOMAIN turn

LEMMA InitFlow == Init => Flow
<1> SUFFICES ASSUME Init PROVE Flow
  OBVIOUS
<1>1. MaxSteps \in Nat /\ MaxRetries \in Nat
  BY EngineAssumption
<1>2. 0 \in 0..MaxSteps /\ 0 \in 0..MaxRetries
  BY <1>1
<1> QED
  <2>1. {nudged, aborted, shuffled} \subseteq BOOLEAN
    BY DEF Init
  <2>2. {compactions, deaths, failures, faults} \subseteq Nat
    BY DEF Init
  <2> QED
    BY <1>2, <2>1, <2>2 DEF Init, Flow, Places

LEMMA StepsFlow ==
  ASSUME Flow, Steps
  PROVE  Flow'
<1>0. /\ MaxSteps \in Nat \ {0} /\ MaxRetries \in Nat \ {0}
      /\ step \in 0..MaxSteps /\ attempt \in 0..MaxRetries
  BY EngineAssumption DEF Flow
<1>1. CASE Begin
  BY <1>1 DEF Begin, Flow, Places, loopVars, mishaps
<1>2. CASE SeesAbort
  BY <1>2 DEF SeesAbort, Checkpoint, Slip, outside, Flow, Places
<1>3. CASE AskLLM
  <2>0. shuffled' \in BOOLEAN
    BY <1>3 DEF AskLLM, NoCompaction, Compaction, Flow
  <2>1. compactions' \in Nat
    BY <1>3 DEF AskLLM, NoCompaction, Compaction, Flow
  <2>2. faults' \in Nat
    BY <1>3 DEF AskLLM, Slip, Flow
  <2>3. {nudged, aborted} \subseteq BOOLEAN /\ nudged' = nudged /\ aborted' = aborted
    BY <1>3 DEF AskLLM, outside, Flow
  <2> QED
    BY <1>0, <1>3, <2>0, <2>1, <2>2, <2>3 DEF AskLLM, outside, Flow, Places
<1>4. CASE RunsOut
  BY <1>4 DEF RunsOut, outside, Flow, Places
<1>5. CASE StreamFails
  BY <1>0, <1>5 DEF StreamFails, FailedAttempt, midStep, outside, Flow, Places
<1>6. CASE StreamEnds \/ DispatchLeft
  BY <1>6 DEF StreamEnds, DispatchLeft, midStep, outside, Flow, Places
<1>7. CASE CollectResult \/ CollectTimesOut
  BY <1>7 DEF CollectResult, CollectTimesOut, midStep, outside, Flow, Places
<1>8. CASE ReplyAll
  BY <1>0, <1>8 DEF ReplyAll, Checkpoint, Slip, Flow, Places
<1>9. CASE Nudge
  BY <1>0, <1>9 DEF Nudge, answerUnchanged, outside, Flow, Places
<1>10. CASE Conclude
  BY <1>10 DEF Conclude, answerUnchanged, Checkpoint, Slip, outside, Flow, Places
<1>11. CASE Resume
  BY <1>11 DEF Resume, mishaps, Flow, Places
<1>12. ASSUME NEW c \in Calls, CallArrives(c) PROVE Flow'
  BY <1>12 DEF CallArrives, midStep, outside, Flow, Places
<1> QED
  BY <1>1, <1>2, <1>3, <1>4, <1>5, <1>6, <1>7, <1>8, <1>9, <1>10, <1>11, <1>12 DEF Steps

LEMMA NextFlow ==
  ASSUME Flow, [Next]_vars
  PROVE  Flow'
<1>1. CASE SubAgentsStep
  BY <1>1 DEF SubAgentsStep, loopVars, mishaps, Flow, Places
<1>2. ASSUME NEW k \in DOMAIN pool, ToolEnds(k) PROVE Flow'
  BY <1>2 DEF ToolEnds, outside, Flow, Places
<1>3. CASE RequestAbort
  BY <1>3 DEF RequestAbort, loopVars, mishaps, Flow, Places
<1>4. CASE Die
  <2>1. 0 \in 0..MaxSteps /\ 0 \in 0..MaxRetries
    BY <1>4, EngineAssumption
  <2>2. {compactions, deaths, failures, faults}' \subseteq Nat
    BY <1>4 DEF Die, Flow
  <2>3. {nudged, aborted, shuffled}' \subseteq BOOLEAN
    BY <1>4 DEF Die, Flow
  <2> QED
    BY <1>4, <2>1, <2>2, <2>3 DEF Die, Flow, Places
<1>5. CASE UNCHANGED vars
  BY <1>5 DEF vars, mishaps, Flow, Places
<1> QED
  BY <1>1, <1>2, <1>3, <1>4, <1>5, StepsFlow DEF Next

-----------------------------------------------------------------------------
(* The steps that touch the answer's calls, the guard or the pool.         *)
Idles == UNCHANGED <<turn, futures, counts, recorded, pool, starts, compactions, deaths>>

LEMMA Sorted ==
  ASSUME [Next]_vars
  PROVE  \/ Idles
         \/ AskLLM \/ StreamFails \/ DispatchLeft \/ CollectResult \/ CollectTimesOut
         \/ ReplyAll \/ Die
         \/ \E c \in Calls : CallArrives(c)
         \/ \E k \in DOMAIN pool : ToolEnds(k)
<1>1. CASE SubAgentsStep \/ Begin \/ RequestAbort
  BY <1>1 DEF SubAgentsStep, Begin, RequestAbort, loopVars, turnVars, guardVars, poolVars,
              mishaps, Idles
<1>2. CASE SeesAbort \/ RunsOut
  BY <1>2 DEF SeesAbort, RunsOut, outside, turnVars, guardVars, poolVars, Idles
<1>3. CASE StreamEnds
  BY <1>3 DEF StreamEnds, midStep, outside, turnVars, guardVars, poolVars, Idles
<1>4. CASE Nudge \/ Conclude
  BY <1>4 DEF Nudge, Conclude, answerUnchanged, outside, turnVars, guardVars, poolVars, Idles
<1>5. CASE Resume \/ UNCHANGED vars
  BY <1>5 DEF Resume, vars, turnVars, guardVars, poolVars, mishaps, Idles
<1> QED
  BY <1>1, <1>2, <1>3, <1>4, <1>5 DEF Next, Steps

(* What dispatching a call does to the list of those waited for. *)
LEMMA DispatchPlaces ==
  ASSUME CallsPlaced, NEW t \in Seq(Held), NEW i \in DOMAIN t, Dispatch(i, t),
         DOMAIN turn \subseteq DOMAIN t, Len(t) <= MaxCalls
  PROVE  CallsPlaced'
<1>1. turn' \in Seq(Held) /\ DOMAIN turn' = DOMAIN t
  BY DispatchMarks
<1>2. Len(turn') = Len(t)
  BY <1>1
<1>3. i \in Nat
  OBVIOUS
<1>4. futures' \in {futures, Append(futures, i)}
  BY DEF Dispatch
<1>5. /\ futures' \in Seq(Nat)
      /\ \A n \in DOMAIN futures' : futures'[n] = i \/ (n \in DOMAIN futures /\ futures'[n] = futures[n])
  <2>1. CASE futures' = futures
    BY <2>1 DEF CallsPlaced
  <2>2. CASE futures' = Append(futures, i)
    BY <1>3, <2>2 DEF CallsPlaced
  <2> QED
    BY <1>4, <2>1, <2>2
<1> QED
  BY <1>1, <1>2, <1>5 DEF CallsPlaced

LEMMA Arrived ==
  ASSUME OutputsKnown, NEW c \in Calls
  PROVE  LET n == Len(turn) + 1
             t == Append(turn, Offered(c))
         IN /\ t \in Seq(Held)
            /\ n \in DOMAIN t
            /\ n \notin DOMAIN turn
            /\ DOMAIN t = DOMAIN turn \cup {n}
            /\ Len(t) = n
            /\ t[n] = Offered(c)
            /\ \A k \in DOMAIN turn : t[k] = turn[k]
BY DEF OutputsKnown, Offered, Held, Fates

LEMMA TailOf ==
  ASSUME NEW s \in Seq(Nat), s # <<>>
  PROVE  /\ Tail(s) \in Seq(Nat)
         /\ Head(s) = s[1] /\ 1 \in DOMAIN s
         /\ \A n \in DOMAIN s : n # 1 => n - 1 \in DOMAIN Tail(s) /\ Tail(s)[n - 1] = s[n]
         /\ \A n \in DOMAIN Tail(s) : n + 1 \in DOMAIN s /\ Tail(s)[n] = s[n + 1]
<1>1. Len(s) \in Nat \ {0} /\ DOMAIN s = 1 .. Len(s)
  OBVIOUS
<1>2. /\ Tail(s) \in Seq(Nat) /\ DOMAIN Tail(s) = 1 .. Len(s) - 1
      /\ \A n \in 1 .. Len(s) - 1 : Tail(s)[n] = s[n + 1]
  BY <1>1
<1>3. ASSUME NEW n \in DOMAIN s, n # 1
      PROVE  n - 1 \in 1 .. Len(s) - 1 /\ (n - 1) + 1 = n
  BY <1>1, <1>3
<1> QED
  BY <1>1, <1>2, <1>3

LEMMA NextPlaced ==
  ASSUME OutputsKnown, CallsPlaced, [Next]_vars
  PROVE  CallsPlaced'
<1>0. DOMAIN turn = 1 .. Len(turn) /\ Len(turn) \in Nat
  BY DEF OutputsKnown
<1>1. CASE UNCHANGED <<turn, futures>>
  BY <1>1 DEF CallsPlaced
<1>2. CASE turn' = <<>> /\ futures' = <<>>
  BY <1>2, EngineAssumption DEF CallsPlaced
<1>3. ASSUME NEW c \in Calls, CallArrives(c) PROVE CallsPlaced'
  <2> DEFINE n == Len(turn) + 1
             t == Append(turn, Offered(c))
  <2>1. /\ t \in Seq(Held) /\ n \in DOMAIN t
        /\ DOMAIN t = DOMAIN turn \cup {n}
        /\ Len(t) = n
    BY Arrived
  <2>2. Len(t) <= MaxCalls
    BY <1>0, <1>3, <2>1, EngineAssumption DEF CallArrives
  <2> HIDE DEF t, n
  <2>3. CASE Dispatch(n, t)
    BY <2>1, <2>2, <2>3, DispatchPlaces
  <2>4. CASE turn' = t /\ futures' = futures
    BY <2>1, <2>2, <2>4 DEF CallsPlaced
  <2> QED
    BY <1>3, <2>3, <2>4 DEF CallArrives, t, n
<1>4. CASE DispatchLeft
  <2>1. PICK i \in Left : Dispatch(i, turn)
    BY <1>4 DEF DispatchLeft
  <2> QED
    BY <2>1, DispatchPlaces DEF Left, OutputsKnown, CallsPlaced
<1>5. CASE CollectResult \/ CollectTimesOut
  <2>1. futures # <<>> /\ futures' = Tail(futures)
    BY <1>5 DEF CollectResult, CollectTimesOut
  <2>2. PICK h, x : turn' = [turn EXCEPT ![h] = x]
    BY <1>5 DEF CollectResult, CollectTimesOut
  <2>3. DOMAIN turn' = DOMAIN turn /\ Len(turn') = Len(turn)
    BY <2>2 DEF OutputsKnown
  <2> QED
    BY <2>1, <2>3, TailOf DEF CallsPlaced
<1>6. AskLLM => UNCHANGED <<turn, futures>>
  BY DEF AskLLM, turnVars
<1>7. StreamFails \/ Die => turn' = <<>> /\ futures' = <<>>
  BY DEF StreamFails, FailedAttempt, Die
<1>8. ReplyAll => turn' = <<>> /\ futures' = <<>>
  BY DEF ReplyAll
<1>9. ASSUME NEW k \in DOMAIN pool, ToolEnds(k) PROVE UNCHANGED <<turn, futures>>
  BY <1>9 DEF ToolEnds, turnVars
<1> QED
  BY <1>1, <1>2, <1>3, <1>4, <1>5, <1>6, <1>7, <1>8, <1>9, Sorted DEF Idles

(* A submitted tool waits or starts. *)
LEMMA Submitted ==
  ASSUME PoolTyped, NEW c \in Calls, NEW i \in Nat, Pool!Submit(c, i)
  PROVE  \E tool \in Tool :
           /\ pool' = Append(pool, tool)
           /\ tool.call = c /\ tool.pos = i
           /\ \/ tool.st = "queued" /\ starts' = starts
              \/ tool.st = "running" /\ starts' = [starts EXCEPT ![c] = @ + 1]
<1>1. PICK x \in {"running", "queued"} :
        /\ pool' = Append(pool, [call |-> c, pos |-> i, st |-> x])
        /\ \/ x = "queued" /\ starts' = starts
           \/ x = "running" /\ starts' = [starts EXCEPT ![c] = @ + 1]
  BY DEF Pool!Submit, Pool!Started
<1> DEFINE tool == [call |-> c, pos |-> i, st |-> x]
<1>2. tool \in Tool
  BY DEF Tool, Pool!States
<1> QED
  BY <1>1, <1>2

LEMMA StartTyped ==
  ASSUME starts \in [Calls -> Nat], NEW c \in Calls,
         starts' = starts \/ starts' = [starts EXCEPT ![c] = @ + 1]
  PROVE  starts' \in [Calls -> Nat]
OBVIOUS

LEMMA WaitedIn ==
  ASSUME NEW i, NEW k \in Pool!WaitedFor(i)
  PROVE  k \in DOMAIN pool /\ pool[k].pos = i
BY DEF Pool!WaitedFor

LEMMA DispatchPool ==
  ASSUME PoolTyped, Guard!GuardTypeOK, NEW t \in Seq(Held), NEW i \in DOMAIN t, Dispatch(i, t)
  PROVE  PoolTyped' /\ Guard!GuardTypeOK'
<1>1. t[i].call \in Calls /\ i \in Nat
  <2>1. t[i] \in Held
    OBVIOUS
  <2> QED
    BY <2>1 DEF Held
<1> DEFINE c == t[i].call
<1>2. Guard!Count(c) /\ recorded' = recorded
  BY DEF Dispatch
<1>3. Pool!Submit(c, i) \/ UNCHANGED <<pool, starts>>
  BY DEF Dispatch, poolVars
<1> HIDE DEF c
<1>4. c \in Calls
  BY <1>1 DEF c
<1>5. Guard!GuardTypeOK'
  BY <1>2, <1>4, EngineAssumption DEF Guard!GuardTypeOK, Guard!Count
<1>6. CASE Pool!Submit(c, i)
  <2>1. PICK tool \in Tool :
           /\ pool' = Append(pool, tool)
           /\ starts' = starts \/ starts' = [starts EXCEPT ![c] = @ + 1]
    BY <1>1, <1>4, <1>6, Submitted
  <2>2. starts' \in [Calls -> Nat]
    BY <1>4, <2>1, StartTyped DEF PoolTyped
  <2> QED
    BY <1>5, <2>1, <2>2 DEF PoolTyped
<1> QED
  BY <1>3, <1>5, <1>6 DEF PoolTyped

LEMMA NextPool ==
  ASSUME OutputsKnown, PoolTyped, Guard!GuardTypeOK, [Next]_vars
  PROVE  PoolTyped' /\ Guard!GuardTypeOK'
<1>1. CASE UNCHANGED <<counts, recorded, pool, starts>>
  BY <1>1 DEF PoolTyped, Guard!GuardTypeOK
<1>2. CASE AskLLM
  <2>1. recorded' = recorded /\ UNCHANGED <<pool, starts>>
    BY <1>2 DEF AskLLM, poolVars
  <2>2. counts' = counts \/ counts' = [c \in Calls |-> 0]
    BY <1>2 DEF AskLLM, NoCompaction, Compaction, Guard!Reset
  <2> QED
    BY <2>1, <2>2, EngineAssumption DEF PoolTyped, Guard!GuardTypeOK
<1>3. CASE StreamFails
  <2>1. PICK g : Comes(pool', g)
    BY <1>3, CancelComes DEF StreamFails
  <2>2. starts' = starts
    BY <1>3, CancelComes DEF StreamFails
  <2> QED
    BY <1>3, <2>1, <2>2 DEF StreamFails, FailedAttempt, guardVars, Comes, PoolTyped, Guard!GuardTypeOK
<1>4. CASE DispatchLeft
  <2>1. PICK i \in Left : Dispatch(i, turn)
    BY <1>4 DEF DispatchLeft
  <2> QED
    BY <2>1, DispatchPool DEF Left, OutputsKnown
<1>5. ASSUME NEW c \in Calls, CallArrives(c) PROVE PoolTyped' /\ Guard!GuardTypeOK'
  <2> DEFINE n == Len(turn) + 1
             t == Append(turn, Offered(c))
  <2>1. t \in Seq(Held) /\ n \in DOMAIN t
    BY Arrived
  <2> HIDE DEF t, n
  <2>2. CASE Dispatch(n, t)
    BY <2>1, <2>2, DispatchPool
  <2>3. CASE UNCHANGED <<futures, guardVars, poolVars>>
    BY <1>1, <2>3 DEF guardVars, poolVars
  <2> QED
    BY <1>5, <2>2, <2>3 DEF CallArrives, t, n
<1>6. CASE CollectResult
  <2>1. PICK k \in Pool!WaitedFor(Head(futures)) : Pool!TakeResult(k) /\ Guard!Record(pool[k].call)
    BY <1>6 DEF CollectResult
  <2>2. k \in DOMAIN pool
    BY WaitedIn
  <2>3. PICK g : Comes(pool', g)
    BY <2>1, <2>2, TakeComes
  <2>4. starts' = starts
    BY <2>1, <2>2, TakeComes
  <2>5. counts' = counts /\ recorded' = recorded \cup {pool[k].call}
    BY <1>6, <2>1 DEF CollectResult, Guard!Record
  <2> QED
    BY <2>2, <2>3, <2>4, <2>5, ToolAt DEF Comes, PoolTyped, Guard!GuardTypeOK
<1>7. CASE CollectTimesOut
  <2>1. PICK k \in Pool!WaitedFor(Head(futures)) : Pool!GiveUp(k)
    BY <1>7 DEF CollectTimesOut
  <2>2. k \in DOMAIN pool
    BY WaitedIn
  <2>3. PICK g : Comes(pool', g)
    BY <2>1, <2>2, GiveUpComes
  <2>4. starts' = starts
    BY <2>1, <2>2, GiveUpComes
  <2> QED
    BY <1>7, <2>3, <2>4 DEF CollectTimesOut, guardVars, Comes, PoolTyped, Guard!GuardTypeOK
<1>8. CASE Die
  BY <1>8, EngineAssumption DEF Die, Guard!FreshGuard, PoolTyped, Guard!GuardTypeOK
<1>9. ASSUME NEW k \in DOMAIN pool, ToolEnds(k) PROVE PoolTyped' /\ Guard!GuardTypeOK'
  <2>1. PICK g : Comes(pool', g) /\ (starts' = starts \/ \E l \in DOMAIN pool : Begins(l, g))
    BY <1>9, EndToolComes DEF ToolEnds
  <2>2. starts' \in [Calls -> Nat]
    BY <2>1, StartTyped, ToolAt DEF Begins, PoolTyped
  <2> QED
    BY <1>9, <2>1, <2>2 DEF ToolEnds, guardVars, Comes, PoolTyped, Guard!GuardTypeOK
<1>10. ReplyAll => UNCHANGED <<counts, recorded, pool, starts>>
  BY DEF ReplyAll, guardVars, poolVars
<1> QED
  BY <1>1, <1>2, <1>3, <1>4, <1>5, <1>6, <1>7, <1>8, <1>9, <1>10, Sorted DEF Idles

LEMMA NextScan ==
  ASSUME Scan!ScanTypeOK, [Next]_vars
  PROVE  Scan!ScanTypeOK'
<1> DEFINE Inert == UNCHANGED scanVars
<1>0. Inert => Scan!ScanTypeOK'
  BY DEF scanVars, Scan!ScanTypeOK
<1>a. MaxTurns \in Nat
  BY EngineAssumption
<1>1. CASE SubAgentsStep
  <2>1. CASE Scan!Skip \/ Scan!Deadline \/ Scan!Leave
    BY <2>1 DEF Scan!Skip, Scan!Deadline, Scan!Leave, Scan!ScanTypeOK, Scan!Finished
  <2>2. CASE Scan!Launch
    BY <2>2 DEF Scan!Launch, Scan!ScanTypeOK, Scan!Finished
  <2>3. ASSUME NEW d \in Domains, Scan!AgentTurn(d) PROVE Scan!ScanTypeOK'
    BY <1>a, <2>3 DEF Scan!AgentTurn, Scan!ScanTypeOK
  <2>4. ASSUME NEW d \in Domains, Scan!AgentEnds(d) \/ Scan!ReadFinding(d) PROVE Scan!ScanTypeOK'
    BY <2>4 DEF Scan!AgentEnds, Scan!ReadFinding, Scan!ScanTypeOK
  <2> QED
    BY <1>1, <2>1, <2>2, <2>3, <2>4 DEF SubAgentsStep
<1>2. CASE Begin
  BY <1>a, <1>2 DEF Begin, Scan!Hand, Scan!ScanTypeOK
<1>3. CASE SeesAbort \/ AskLLM \/ RunsOut
  BY <1>0, <1>3 DEF SeesAbort, AskLLM, RunsOut, outside
<1>4. CASE StreamFails \/ StreamEnds \/ DispatchLeft \/ CollectResult \/ CollectTimesOut
  BY <1>0, <1>4 DEF StreamFails, FailedAttempt, StreamEnds, DispatchLeft, CollectResult,
                    CollectTimesOut, midStep, outside
<1>5. CASE ReplyAll \/ Nudge \/ Conclude \/ Resume
  BY <1>0, <1>5 DEF ReplyAll, Nudge, Conclude, Resume, answerUnchanged, outside
<1>6. ASSUME NEW c \in Calls, CallArrives(c) PROVE Inert
  BY <1>6 DEF CallArrives, midStep, outside
<1>7. ASSUME NEW k \in DOMAIN pool, ToolEnds(k) PROVE Inert
  BY <1>7 DEF ToolEnds, outside
<1>8. CASE RequestAbort \/ Die \/ UNCHANGED vars
  BY <1>0, <1>8 DEF RequestAbort, Die, vars
<1> QED
  BY <1>0, <1>1, <1>2, <1>3, <1>4, <1>5, <1>6, <1>7, <1>8 DEF Next, Steps

Shapes ==
  /\ OutputsKnown
  /\ Flow
  /\ CallsPlaced
  /\ PoolTyped
  /\ Guard!GuardTypeOK
  /\ Scan!ScanTypeOK

LEMMA ShapesAlways == Spec => []Shapes
<1>1. Init => Shapes
  <2> SUFFICES ASSUME Init PROVE Shapes
    OBVIOUS
  <2>1. CallsPlaced /\ PoolTyped
    BY EngineAssumption DEF Init, Pool!PoolInit, CallsPlaced, PoolTyped
  <2>2. Guard!GuardTypeOK
    BY EngineAssumption DEF Init, Guard!GuardInit, Guard!GuardTypeOK
  <2>3. Scan!ScanTypeOK
    BY EngineAssumption DEF Init, Scan!ScanInit, Scan!NoAgents, Scan!ScanTypeOK
  <2> QED
    BY InitOutputsKnown, InitFlow, <2>1, <2>2, <2>3 DEF Shapes
<1>2. Shapes /\ [Next]_vars => Shapes'
  BY NextKeeps, NextFlow, NextPlaced, NextPool, NextScan DEF Shapes
<1> QED
  BY <1>1, <1>2, PTL DEF Spec

(* Every variable of every investigation keeps its type, for any bounds. *)
THEOREM EngineTyped == Spec => []EngineTypeOK
<1>1. Shapes => EngineTypeOK
  <2> SUFFICES ASSUME Shapes PROVE EngineTypeOK
    OBVIOUS
  <2>1. recorded \subseteq Calls
    BY DEF Shapes, Guard!GuardTypeOK
  <2>2. \A i \in DOMAIN turn :
          turn[i].call \in Calls /\ turn[i].fate \in Fates /\ turn[i].from \in Calls \cup {NoCall}
    BY <2>1, HeldAt DEF Shapes
  <2>3. shown \subseteq Calls
    BY <2>1 DEF Shapes, OutputsKnown
  <2>4. Pool!PoolTypeOK
    BY ToolAt DEF Shapes, Pool!PoolTypeOK, Pool!IsTool, PoolTyped
  <2> QED
    BY <2>2, <2>3, <2>4 DEF Shapes, EngineTypeOK, Flow, CallsPlaced
<1> QED
  BY <1>1, ShapesAlways, PTL

-----------------------------------------------------------------------------
(* A tool that is waited for runs the call of that position, which is      *)
(* started and among the futures; no two are waited for at one position;   *)
(* and what a call has got is its own output.                              *)
WaitsAt(p, c, t, f) ==
  /\ p \in DOMAIN t
  /\ t[p].fate = "started"
  /\ t[p].call = c
  /\ \E n \in DOMAIN f : f[n] = p

Waits ==
  /\ \A k \in DOMAIN pool : pool[k].pos # 0 => WaitsAt(pool[k].pos, pool[k].call, turn, futures)
  /\ \A k, l \in DOMAIN pool : pool[k].pos = pool[l].pos /\ pool[k].pos # 0 => k = l
  /\ \A i \in DOMAIN turn : turn[i].from \in {NoCall, turn[i].call}

LEMMA OneEach ==
  ASSUME Waits, NEW t, NEW g, Comes(t, g)
  PROVE  \A k, l \in DOMAIN t : t[k].pos = t[l].pos /\ t[k].pos # 0 => k = l
<1> SUFFICES ASSUME NEW k \in DOMAIN t, NEW l \in DOMAIN t, t[k].pos = t[l].pos, t[k].pos # 0
             PROVE  k = l
  OBVIOUS
<1>1. /\ g[k] \in DOMAIN pool /\ g[l] \in DOMAIN pool
      /\ t[k].pos = pool[g[k]].pos /\ t[l].pos = pool[g[l]].pos
  BY DEF Comes
<1>2. g[k] = g[l]
  BY <1>1 DEF Waits
<1> QED
  BY <1>2 DEF Comes

LEMMA Unmoved ==
  ASSUME Waits, UNCHANGED <<turn, futures>>, NEW g, Comes(pool', g)
  PROVE  Waits'
<1>1. ASSUME NEW k \in DOMAIN pool', pool'[k].pos # 0
      PROVE  WaitsAt(pool'[k].pos, pool'[k].call, turn', futures')
  <2>1. /\ g[k] \in DOMAIN pool
        /\ pool'[k].pos = pool[g[k]].pos /\ pool'[k].call = pool[g[k]].call
    BY <1>1 DEF Comes
  <2> QED
    BY <1>1, <2>1 DEF Waits, WaitsAt
<1> QED
  BY <1>1, OneEach DEF Waits

LEMMA DispatchWaits ==
  ASSUME Waits, OutputsKnown, CallsPlaced, PoolTyped, NEW t \in Seq(Held), NEW i \in DOMAIN t,
         Dispatch(i, t),
         DOMAIN turn \subseteq DOMAIN t,
         \A k \in DOMAIN turn : t[k] = turn[k],
         i \notin DOMAIN turn \/ turn[i].fate = "new",
         \A k \in DOMAIN t : t[k].from \in {NoCall, t[k].call}
  PROVE  Waits'
<1> DEFINE ok == Guard!IsAllowed(t[i].call)
           f  == IF ok THEN "started" ELSE "refused"
<1>1. turn' = [t EXCEPT ![i].fate = f]
  BY DEF Dispatch
<1>2. t[i] = [call |-> t[i].call, fate |-> t[i].fate, from |-> t[i].from] /\ t[i].call \in Calls
  <2>1. t[i] \in Held
    OBVIOUS
  <2> QED
    BY <2>1 DEF Held
<1>3. DOMAIN turn' = DOMAIN t
  BY <1>1
<1>4. \A k \in DOMAIN t : k # i => turn'[k] = t[k]
  BY <1>1
<1>5. turn'[i].call = t[i].call /\ turn'[i].from = t[i].from /\ turn'[i].fate = f
  BY <1>1, <1>2
<1>6. \A k \in DOMAIN turn' : turn'[k].from \in {NoCall, turn'[k].call}
  BY <1>3, <1>4, <1>5
<1>7. i \in Nat /\ i # 0
  OBVIOUS
<1>8. ASSUME NEW k \in DOMAIN pool, pool[k].pos # 0
      PROVE  /\ pool[k].pos # i
             /\ pool[k].pos \in DOMAIN turn'
             /\ turn'[pool[k].pos] = turn[pool[k].pos]
             /\ WaitsAt(pool[k].pos, pool[k].call, turn, futures)
  <2>1. WaitsAt(pool[k].pos, pool[k].call, turn, futures)
    BY <1>8 DEF Waits
  <2>2. pool[k].pos # i
    BY <2>1 DEF WaitsAt
  <2> QED
    BY <1>3, <1>4, <2>1, <2>2 DEF WaitsAt
<1>9. futures' \in {futures, Append(futures, i)}
  BY DEF Dispatch
<1>10. \A n \in DOMAIN futures : n \in DOMAIN futures' /\ futures'[n] = futures[n]
  <2>1. CASE futures' = futures
    BY <2>1
  <2>2. CASE futures' = Append(futures, i)
    BY <1>7, <2>2 DEF CallsPlaced
  <2> QED
    BY <1>9, <2>1, <2>2
<1>11. \A k \in DOMAIN pool : pool[k].pos # 0 => WaitsAt(pool[k].pos, pool[k].call, turn', futures')
  BY <1>8, <1>10 DEF WaitsAt
<1>12. CASE ~ok
  <2>1. UNCHANGED <<pool, starts>>
    BY <1>12 DEF Dispatch, poolVars
  <2> QED
    BY <1>6, <1>11, <2>1 DEF Waits
<1>13. CASE ok
  <2>1. Pool!Submit(t[i].call, i) /\ futures' = Append(futures, i)
    BY <1>13 DEF Dispatch
  <2>2. PICK tool \in Tool :
          pool' = Append(pool, tool) /\ tool.call = t[i].call /\ tool.pos = i
    BY <1>2, <1>7, <2>1, Submitted
  <2>3. /\ DOMAIN pool' = DOMAIN pool \cup {Len(pool) + 1}
        /\ Len(pool) + 1 \notin DOMAIN pool
        /\ pool'[Len(pool) + 1] = tool
        /\ \A k \in DOMAIN pool : pool'[k] = pool[k]
    BY <2>2 DEF PoolTyped
  <2>4. \E n \in DOMAIN futures' : futures'[n] = i
    <3>1. Len(futures) + 1 \in DOMAIN futures' /\ futures'[Len(futures) + 1] = i
      BY <1>7, <2>1 DEF CallsPlaced
    <3> QED
      BY <3>1
  <2>5. WaitsAt(tool.pos, tool.call, turn', futures')
    BY <1>3, <1>5, <1>13, <2>2, <2>4 DEF WaitsAt
  <2>6. \A k \in DOMAIN pool' : pool'[k].pos # 0 => WaitsAt(pool'[k].pos, pool'[k].call, turn', futures')
    BY <1>11, <2>3, <2>5
  <2>7. \A k, l \in DOMAIN pool' : pool'[k].pos = pool'[l].pos /\ pool'[k].pos # 0 => k = l
    BY <1>8, <2>2, <2>3 DEF Waits
  <2> QED
    BY <1>6, <2>6, <2>7 DEF Waits
<1> QED
  BY <1>12, <1>13

(* One that is waited for no longer, since its result was taken or its     *)
(* deadline passed.                                                        *)
LEMMA Settled ==
  ASSUME Waits, OutputsKnown, CallsPlaced, PoolTyped,
         futures # <<>>, futures' = Tail(futures),
         NEW k \in Pool!WaitedFor(Head(futures)),
         NEW x, turn' = [turn EXCEPT ![Head(futures)] = x],
         x.call = turn[Head(futures)].call, x.from \in {NoCall, x.call},
         NEW g, Comes(pool', g), \A m \in DOMAIN pool' : g[m] = k => pool'[m].pos = 0
  PROVE  Waits'
<1> DEFINE h == Head(futures)
<1>1. h \in DOMAIN turn /\ h # 0
  <2>1. h = futures[1] /\ 1 \in DOMAIN futures
    BY TailOf DEF CallsPlaced
  <2> QED
    BY <2>1 DEF CallsPlaced, OutputsKnown
<1>2. k \in DOMAIN pool /\ pool[k].pos = h
  BY WaitedIn
<1>3. DOMAIN turn' = DOMAIN turn /\ turn'[h] = x /\ \A i \in DOMAIN turn : i # h => turn'[i] = turn[i]
  BY <1>1
<1>4. \A i \in DOMAIN turn' : turn'[i].from \in {NoCall, turn'[i].call}
  BY <1>3 DEF Waits
<1>5. ASSUME NEW m \in DOMAIN pool', pool'[m].pos # 0
      PROVE  WaitsAt(pool'[m].pos, pool'[m].call, turn', futures')
  <2>1. /\ g[m] \in DOMAIN pool /\ g[m] # k
        /\ pool'[m].pos = pool[g[m]].pos /\ pool'[m].call = pool[g[m]].call
    BY <1>5 DEF Comes
  <2>2. WaitsAt(pool'[m].pos, pool'[m].call, turn, futures) /\ pool'[m].pos # h
    BY <1>1, <1>2, <1>5, <2>1 DEF Waits
  <2>3. PICK n \in DOMAIN futures : futures[n] = pool'[m].pos
    BY <2>2 DEF WaitsAt
  <2>4. n # 1
    BY <2>2, <2>3, TailOf DEF CallsPlaced
  <2>5. n - 1 \in DOMAIN futures' /\ futures'[n - 1] = pool'[m].pos
    BY <2>3, <2>4, TailOf DEF CallsPlaced
  <2> QED
    BY <1>3, <2>2, <2>5 DEF WaitsAt
<1> HIDE DEF h
<1> QED
  BY <1>4, <1>5, OneEach DEF Waits

LEMMA NextWaits ==
  ASSUME Shapes, Waits, [Next]_vars
  PROVE  Waits'
<1>0. OutputsKnown /\ CallsPlaced /\ PoolTyped
  BY DEF Shapes
<1>1. CASE UNCHANGED <<turn, futures, pool>>
  BY <1>1 DEF Waits, WaitsAt
<1>2. CASE StreamFails
  <2>1. turn' = <<>> /\ \A k \in DOMAIN pool' : pool'[k].pos = 0
    BY <1>0, <1>2, CancelComes DEF StreamFails, FailedAttempt
  <2> QED
    BY <2>1 DEF Waits
<1>3. CASE DispatchLeft
  <2>1. PICK i \in Left : Dispatch(i, turn)
    BY <1>3 DEF DispatchLeft
  <2>2. i \in DOMAIN turn /\ turn[i].fate = "new"
    BY DEF Left
  <2>3. turn \in Seq(Held) /\ \A k \in DOMAIN turn : turn[k].from \in {NoCall, turn[k].call}
    BY <1>0 DEF OutputsKnown, Waits
  <2> QED
    BY <1>0, <2>1, <2>2, <2>3, DispatchWaits
<1>4. ASSUME NEW c \in Calls, CallArrives(c) PROVE Waits'
  <2> DEFINE n == Len(turn) + 1
             t == Append(turn, Offered(c))
  <2>1. /\ t \in Seq(Held) /\ n \in DOMAIN t /\ n \notin DOMAIN turn
        /\ DOMAIN t = DOMAIN turn \cup {n}
        /\ t[n] = Offered(c)
        /\ \A k \in DOMAIN turn : t[k] = turn[k]
    BY <1>0, Arrived
  <2>2. \A k \in DOMAIN t : t[k].from \in {NoCall, t[k].call}
    BY <2>1 DEF Waits, Offered
  <2> HIDE DEF t, n
  <2>3. CASE Dispatch(n, t)
    BY <1>0, <2>1, <2>2, <2>3, DispatchWaits
  <2>4. CASE turn' = t /\ UNCHANGED <<futures, poolVars>>
    <3>1. \A p, d : WaitsAt(p, d, turn, futures) => WaitsAt(p, d, turn', futures')
      BY <2>1, <2>4 DEF WaitsAt
    <3> QED
      BY <2>2, <2>4, <3>1 DEF Waits, poolVars
  <2> QED
    BY <1>4, <2>3, <2>4 DEF CallArrives, t, n
<1>5. CASE CollectResult
  <2> DEFINE h == Head(futures)
  <2>1. PICK k \in Pool!WaitedFor(h) :
          /\ Pool!TakeResult(k)
          /\ turn' = [turn EXCEPT ![h] = Answered(turn[h].call, pool[k].call)]
    BY <1>5 DEF CollectResult
  <2> DEFINE x == Answered(turn[h].call, pool[k].call)
  <2>2. futures # <<>> /\ futures' = Tail(futures)
    BY <1>5 DEF CollectResult
  <2>3. k \in DOMAIN pool /\ pool[k].pos = h
    BY WaitedIn
  <2>4. h \in DOMAIN turn /\ h # 0
    BY <1>0, <2>2, TailOf DEF CallsPlaced, OutputsKnown
  <2>5. turn[h].call = pool[k].call
    BY <2>3, <2>4 DEF Waits, WaitsAt
  <2>6. x.call = turn[h].call /\ x.from \in {NoCall, x.call}
    BY <2>5 DEF Answered
  <2>7. PICK g : Comes(pool', g) /\ \A m \in DOMAIN pool' : g[m] # k
    BY <1>0, <2>1, <2>3, TakeComes
  <2> HIDE DEF x
  <2>8. turn' = [turn EXCEPT ![Head(futures)] = x]
    BY <2>1 DEF x
  <2> QED
    BY <1>0, <2>2, <2>6, <2>7, <2>8, Settled
<1>6. CASE CollectTimesOut
  <2> DEFINE h == Head(futures)
  <2>1. PICK k \in Pool!WaitedFor(h) : Pool!GiveUp(k)
    BY <1>6 DEF CollectTimesOut
  <2> DEFINE x == [call |-> turn[h].call, fate |-> "timedout", from |-> turn[h].from]
  <2>2. futures # <<>> /\ futures' = Tail(futures)
    BY <1>6 DEF CollectTimesOut
  <2>3. k \in DOMAIN pool
    BY WaitedIn
  <2>4. h \in DOMAIN turn
    BY <1>0, <2>2, TailOf DEF CallsPlaced, OutputsKnown
  <2>5. [turn[h] EXCEPT !.fate = "timedout"] = x
    BY <1>0, <2>4, HeldAt
  <2>6. x.call = turn[h].call /\ x.from \in {NoCall, x.call}
    BY <2>4 DEF Waits
  <2>7. PICK g : Comes(pool', g) /\ \A m \in DOMAIN pool' : g[m] = k => pool'[m].pos = 0
    BY <1>0, <2>1, <2>3, GiveUpComes
  <2>8. turn' = [turn EXCEPT ![Head(futures)] = x]
    BY <1>6, <2>5 DEF CollectTimesOut
  <2> HIDE DEF x
  <2> QED
    BY <1>0, <2>2, <2>6, <2>7, <2>8, Settled
<1>7. CASE ReplyAll
  <2>1. turn' = <<>> /\ futures = <<>> /\ pool' = pool
    BY <1>7 DEF ReplyAll, poolVars
  <2>2. \A k \in DOMAIN pool : pool[k].pos = 0
    BY <2>1 DEF Waits, WaitsAt
  <2> QED
    BY <2>1, <2>2 DEF Waits
<1>8. CASE Die
  BY <1>8 DEF Die, Waits
<1>9. ASSUME NEW k \in DOMAIN pool, ToolEnds(k) PROVE Waits'
  <2>1. PICK g : Comes(pool', g)
    BY <1>0, <1>9, EndToolComes DEF ToolEnds
  <2>2. UNCHANGED <<turn, futures>>
    BY <1>9 DEF ToolEnds, turnVars
  <2> QED
    BY <2>1, <2>2, Unmoved
<1>10. AskLLM => UNCHANGED <<turn, futures, pool>>
  BY DEF AskLLM, turnVars, poolVars
<1> QED
  BY <1>1, <1>2, <1>3, <1>4, <1>5, <1>6, <1>7, <1>8, <1>9, <1>10, Sorted DEF Idles

LEMMA WaitsAlways == Spec => []Waits
<1>1. Init => Waits
  BY DEF Init, Pool!PoolInit, Waits
<1>2. Shapes /\ Waits /\ [Next]_vars => Waits'
  BY NextWaits
<1> QED
  BY <1>1, <1>2, ShapesAlways, PTL DEF Spec

-----------------------------------------------------------------------------
(* A start is paid for by the guard's count of the call, or by the count   *)
(* that a compaction or a death has cleared; and so is a start to come, of *)
(* a tool that waits for a worker.                                         *)
Queued(c, s) == {k \in DOMAIN s : s[k].call = c /\ s[k].st = "queued"}

Capped(n) == IF n < MaxIdentical THEN n ELSE MaxIdentical

Cleared == MaxIdentical * (compactions + deaths)

StartsPaid ==
  \A c \in Calls : starts[c] + Cardinality(Queued(c, pool)) <= Cleared + Capped(counts[c])

LEMMA QueuedFinite ==
  ASSUME NEW s \in Seq(Tool), NEW c
  PROVE  IsFiniteSet(Queued(c, s)) /\ Cardinality(Queued(c, s)) \in Nat
<1>1. Len(s) \in Nat /\ DOMAIN s = 1 .. Len(s)
  OBVIOUS
<1>2. IsFiniteSet(1 .. Len(s))
  BY <1>1, FS_Interval
<1>3. IsFiniteSet(Queued(c, s))
  BY <1>1, <1>2, FS_Subset DEF Queued
<1> QED
  BY <1>3, FS_CardinalityType

LEMMA NoMoreQueued ==
  ASSUME PoolTyped, NEW t, NEW g, Comes(t, g), NEW c, NEW U \in SUBSET Queued(c, pool),
         \A m \in Queued(c, t) : g[m] \in U
  PROVE  Cardinality(Queued(c, t)) <= Cardinality(U)
<1> DEFINE S == Queued(c, t)
           f == [m \in S |-> g[m]]
<1>1. f \in [S -> U]
  OBVIOUS
<1>2. \A k, l \in S : f[k] = f[l] => k = l
  BY DEF Comes, Queued
<1>3. f \in Injection(S, U)
  BY <1>1, <1>2 DEF Injection, IsInjective
<1>4. IsFiniteSet(U)
  BY QueuedFinite, FS_Subset DEF PoolTyped
<1> HIDE DEF f, S
<1>5. Cardinality(S) <= Cardinality(U)
  BY <1>3, <1>4, FS_Injection
<1> QED
  BY <1>5 DEF S

LEMMA FromQueue ==
  ASSUME NEW t, NEW g, Comes(t, g), NEW c, NEW m \in Queued(c, t)
  PROVE  g[m] \in Queued(c, pool)
BY DEF Comes, Queued

LEMMA FewerQueued ==
  ASSUME PoolTyped, NEW t, NEW g, Comes(t, g), NEW c
  PROVE  /\ Cardinality(Queued(c, t)) \in Nat
         /\ Cardinality(Queued(c, t)) <= Cardinality(Queued(c, pool))
BY FromQueue, NoMoreQueued, QueuedFinite DEF Comes

LEMMA OneFewerQueued ==
  ASSUME PoolTyped, NEW t, NEW g, Comes(t, g), NEW l \in DOMAIN pool, pool[l].st = "queued",
         \A m \in DOMAIN t : t[m].st = "queued" => g[m] # l
  PROVE  Cardinality(Queued(pool[l].call, t)) + 1 <= Cardinality(Queued(pool[l].call, pool))
<1> DEFINE c == pool[l].call
           U == Queued(c, pool) \ {l}
<1>1. l \in Queued(c, pool)
  BY DEF Queued
<1>2. \A m \in Queued(c, t) : g[m] # l
  BY DEF Queued
<1> HIDE DEF c
<1>3. \A m \in Queued(c, t) : g[m] \in U
  BY <1>2, FromQueue
<1>4. Cardinality(Queued(c, t)) <= Cardinality(U)
  BY <1>3, NoMoreQueued
<1>5. Cardinality(U) = Cardinality(Queued(c, pool)) - 1
  BY <1>1, QueuedFinite, FS_RemoveElement DEF PoolTyped
<1>6. Cardinality(Queued(c, t)) \in Nat /\ Cardinality(Queued(c, pool)) \in Nat
  BY QueuedFinite DEF Comes, PoolTyped
<1> QED
  BY <1>4, <1>5, <1>6 DEF c

LEMMA OneMoreQueued ==
  ASSUME PoolTyped, NEW tool \in Tool, NEW c
  PROVE  Cardinality(Queued(c, Append(pool, tool)))
           = Cardinality(Queued(c, pool))
             + (IF tool.call = c /\ tool.st = "queued" THEN 1 ELSE 0)
<1> DEFINE s == Append(pool, tool)
           n == Len(pool) + 1
<1>1. /\ DOMAIN s = DOMAIN pool \cup {n} /\ n \notin DOMAIN pool /\ s[n] = tool
      /\ \A k \in DOMAIN pool : s[k] = pool[k]
  BY DEF PoolTyped
<1> HIDE DEF s, n
<1>2. IsFiniteSet(Queued(c, pool)) /\ Cardinality(Queued(c, pool)) \in Nat
  BY QueuedFinite DEF PoolTyped
<1>3. CASE tool.call = c /\ tool.st = "queued"
  <2>1. Queued(c, s) = Queued(c, pool) \cup {n} /\ n \notin Queued(c, pool)
    BY <1>1, <1>3 DEF Queued
  <2> QED
    BY <1>2, <1>3, <2>1, FS_AddElement DEF s
<1>4. CASE ~(tool.call = c /\ tool.st = "queued")
  <2>1. Queued(c, s) = Queued(c, pool)
    BY <1>1, <1>4 DEF Queued
  <2> QED
    BY <1>2, <1>4, <2>1 DEF s
<1> QED
  BY <1>3, <1>4

LEMMA ClearedTyped ==
  ASSUME Shapes
  PROVE  /\ Cleared \in Nat /\ MaxIdentical \in Nat
         /\ \A c \in Calls : counts[c] \in Nat /\ starts[c] \in Nat
         /\ \A c \in Calls : Capped(counts[c]) \in Nat /\ Capped(counts[c]) <= MaxIdentical
         /\ \A c : Cardinality(Queued(c, pool)) \in Nat
<1>1. MaxIdentical \in Nat
  BY EngineAssumption
<1>2. compactions + deaths \in Nat
  BY DEF Shapes, Flow
<1>3. Cleared \in Nat
  BY <1>1, <1>2 DEF Cleared
<1>4. \A c \in Calls : counts[c] \in Nat /\ starts[c] \in Nat
  BY <1>1 DEF Shapes, Guard!GuardTypeOK, PoolTyped
<1>5. \A c \in Calls : Capped(counts[c]) \in Nat /\ Capped(counts[c]) <= MaxIdentical
  BY <1>1, <1>4 DEF Capped
<1> QED
  BY <1>1, <1>3, <1>4, <1>5, QueuedFinite DEF Shapes, PoolTyped

LEMMA DispatchPays ==
  ASSUME Shapes, StartsPaid, NEW t \in Seq(Held), NEW i \in DOMAIN t, Dispatch(i, t),
         UNCHANGED <<compactions, deaths>>
  PROVE  StartsPaid'
<1>1. t[i].call \in Calls /\ i \in Nat
  <2>1. t[i] \in Held
    OBVIOUS
  <2> QED
    BY <2>1 DEF Held
<1> DEFINE c == t[i].call
<1>2. Guard!Count(c) /\ (c \in recorded => ~Guard!IsAllowed(c))
  BY DEF Dispatch, Guard!IsAllowed
<1>3. \/ Guard!IsAllowed(c) /\ Pool!Submit(c, i)
      \/ UNCHANGED <<pool, starts>>
  BY DEF Dispatch, poolVars
<1> HIDE DEF c
<1>4. c \in Calls /\ counts \in [Calls -> Nat] /\ MaxIdentical \in Nat /\ PoolTyped
  BY <1>1, EngineAssumption DEF c, Shapes, Guard!GuardTypeOK
<1>5. Cleared' = Cleared
  BY DEF Cleared
<1>6. \A d \in Calls : /\ counts'[d] \in Nat
                       /\ counts[d] <= counts'[d]
                       /\ Capped(counts[d]) <= Capped(counts'[d])
  BY <1>2, <1>4 DEF Guard!Count, Capped
<1>7. CASE UNCHANGED <<pool, starts>>
  <2>1. \A d \in Calls : /\ starts[d] + Cardinality(Queued(d, pool)) <= Cleared + Capped(counts[d])
                         /\ starts[d] + Cardinality(Queued(d, pool)) \in Nat
                         /\ Capped(counts'[d]) \in Nat
    BY <1>4, <1>6, ClearedTyped DEF StartsPaid, Capped
  <2> QED
    BY <1>5, <1>6, <1>7, <2>1, ClearedTyped DEF StartsPaid
<1>8. CASE Guard!IsAllowed(c) /\ Pool!Submit(c, i)
  <2>1. PICK tool \in Tool :
           /\ pool' = Append(pool, tool)
           /\ tool.call = c /\ tool.pos = i
           /\ \/ tool.st = "queued" /\ starts' = starts
              \/ tool.st = "running" /\ starts' = [starts EXCEPT ![c] = @ + 1]
    BY <1>1, <1>4, <1>8, Submitted
  <2>2. counts'[c] = counts[c] + 1 /\ counts[c] < MaxIdentical
    BY <1>2, <1>4, <1>8 DEF Guard!Count, Guard!IsAllowed
  <2>3. Capped(counts'[c]) = Capped(counts[c]) + 1
    BY <1>4, <2>2 DEF Capped
  <2>4. \A d : Cardinality(Queued(d, pool'))
                 = Cardinality(Queued(d, pool))
                   + (IF tool.call = d /\ tool.st = "queued" THEN 1 ELSE 0)
    BY <1>4, <2>1, OneMoreQueued
  <2>5. ASSUME NEW d \in Calls
        PROVE  starts'[d] + Cardinality(Queued(d, pool')) <= Cleared + Capped(counts'[d])
    <3>1. /\ starts[d] + Cardinality(Queued(d, pool)) <= Cleared + Capped(counts[d])
          /\ starts[d] \in Nat /\ Cardinality(Queued(d, pool)) \in Nat
          /\ Cleared \in Nat /\ Capped(counts[d]) \in Nat /\ Capped(counts'[d]) \in Nat
      BY <1>4, <1>6, ClearedTyped DEF StartsPaid, Capped
    <3>2. CASE d = c
      <4>1. starts'[d] + Cardinality(Queued(d, pool'))
              = starts[d] + Cardinality(Queued(d, pool)) + 1
        BY <1>4, <2>1, <2>4, <3>1, <3>2 DEF PoolTyped
      <4> QED
        BY <2>3, <3>1, <3>2, <4>1
    <3>3. CASE d # c
      <4>1. starts'[d] = starts[d] /\ Cardinality(Queued(d, pool')) = Cardinality(Queued(d, pool))
        BY <1>4, <2>1, <2>4, <3>1, <3>3 DEF PoolTyped
      <4> QED
        BY <1>6, <3>1, <4>1
    <3> QED
      BY <3>2, <3>3
  <2> QED
    BY <1>5, <2>5 DEF StartsPaid
<1> QED
  BY <1>3, <1>7, <1>8

(* The pool moves on, with or without a start. *)
LEMMA MovesOnPaid ==
  ASSUME Shapes, StartsPaid, UNCHANGED <<counts, compactions, deaths>>, NEW g, Comes(pool', g),
         starts' = starts \/ \E l \in DOMAIN pool : Begins(l, g)
  PROVE  StartsPaid'
<1>0. PoolTyped
  BY DEF Shapes
<1> SUFFICES ASSUME NEW c \in Calls
             PROVE  starts'[c] + Cardinality(Queued(c, pool')) <= Cleared + Capped(counts[c])
  BY DEF StartsPaid, Cleared
<1>1. /\ starts[c] + Cardinality(Queued(c, pool)) <= Cleared + Capped(counts[c])
      /\ starts[c] \in Nat /\ Cardinality(Queued(c, pool)) \in Nat
      /\ Cleared \in Nat /\ Capped(counts[c]) \in Nat
  BY ClearedTyped DEF StartsPaid
<1>2. /\ Cardinality(Queued(c, pool')) \in Nat
      /\ Cardinality(Queued(c, pool')) <= Cardinality(Queued(c, pool))
  BY <1>0, FewerQueued
<1>3. CASE starts'[c] = starts[c]
  BY <1>1, <1>2, <1>3
<1>4. CASE starts'[c] # starts[c]
  <2>1. PICK l \in DOMAIN pool : Begins(l, g)
    BY <1>4
  <2>2. c = pool[l].call /\ starts'[c] = starts[c] + 1
    BY <1>0, <1>4, <2>1 DEF Begins, PoolTyped
  <2>3. Cardinality(Queued(c, pool')) + 1 <= Cardinality(Queued(c, pool))
    BY <1>0, <2>1, <2>2, OneFewerQueued DEF Begins
  <2> QED
    BY <1>1, <1>2, <2>2, <2>3
<1> QED
  BY <1>3, <1>4

(* Counts are cleared, and the bound rises by what they may have been. *)
LEMMA ClearsPaid ==
  ASSUME Shapes, StartsPaid, counts' = [c \in Calls |-> 0], starts' = starts,
         \A c \in Calls : /\ Cardinality(Queued(c, pool')) \in Nat
                          /\ Cardinality(Queued(c, pool')) <= Cardinality(Queued(c, pool)),
         (compactions + deaths)' = compactions + deaths + 1
  PROVE  StartsPaid'
<1>1. Cleared' = Cleared + MaxIdentical
  <2>1. \A n \in Nat : MaxIdentical * (n + 1) = MaxIdentical * n + MaxIdentical
    BY EngineAssumption
  <2>2. compactions + deaths \in Nat
    BY DEF Shapes, Flow
  <2> QED
    BY <2>1, <2>2 DEF Cleared
<1> SUFFICES ASSUME NEW c \in Calls
             PROVE  starts[c] + Cardinality(Queued(c, pool')) <= Cleared' + Capped(counts'[c])
  BY DEF StartsPaid
<1>2. Capped(counts'[c]) = 0
  BY EngineAssumption DEF Capped
<1>3. /\ starts[c] + Cardinality(Queued(c, pool)) <= Cleared + Capped(counts[c])
      /\ starts[c] \in Nat /\ Cardinality(Queued(c, pool)) \in Nat
      /\ Cleared \in Nat /\ Capped(counts[c]) \in Nat /\ Capped(counts[c]) <= MaxIdentical
      /\ MaxIdentical \in Nat
  BY ClearedTyped DEF StartsPaid
<1> QED
  BY <1>1, <1>2, <1>3

LEMMA NextPaid ==
  ASSUME Shapes, StartsPaid, [Next]_vars
  PROVE  StartsPaid'
<1>0. OutputsKnown /\ PoolTyped
  BY DEF Shapes
<1>1. CASE UNCHANGED <<counts, pool, starts, compactions, deaths>>
  BY <1>1 DEF StartsPaid, Cleared
<1>2. CASE AskLLM
  <2>1. UNCHANGED <<pool, starts>> /\ deaths' = deaths
    BY <1>2 DEF AskLLM, poolVars, outside
  <2>2. CASE NoCompaction
    BY <1>1, <2>1, <2>2 DEF NoCompaction
  <2>3. CASE Compaction
    <3>1. counts' = [c \in Calls |-> 0] /\ compactions' = compactions + 1
      BY <2>3 DEF Compaction, Guard!Reset
    <3>2. (compactions + deaths)' = compactions + deaths + 1
      BY <2>1, <3>1 DEF Shapes, Flow
    <3>3. \A c \in Calls : /\ Cardinality(Queued(c, pool')) \in Nat
                           /\ Cardinality(Queued(c, pool')) <= Cardinality(Queued(c, pool))
      BY <2>1, ClearedTyped
    <3> QED
      BY <2>1, <3>1, <3>2, <3>3, ClearsPaid
  <2> QED
    BY <1>2, <2>2, <2>3 DEF AskLLM
<1>3. CASE StreamFails
  <2>1. PICK g : Comes(pool', g)
    BY <1>0, <1>3, CancelComes DEF StreamFails
  <2>2. starts' = starts
    BY <1>0, <1>3, CancelComes DEF StreamFails
  <2>3. UNCHANGED <<counts, compactions, deaths>>
    BY <1>3 DEF StreamFails, FailedAttempt, guardVars, midStep, outside
  <2> QED
    BY <2>1, <2>2, <2>3, MovesOnPaid
<1>4. CASE DispatchLeft
  <2>1. PICK i \in Left : Dispatch(i, turn)
    BY <1>4 DEF DispatchLeft
  <2>2. UNCHANGED <<compactions, deaths>>
    BY <1>4 DEF DispatchLeft, midStep, outside
  <2> QED
    BY <1>0, <2>1, <2>2, DispatchPays DEF Left, OutputsKnown
<1>5. ASSUME NEW c \in Calls, CallArrives(c) PROVE StartsPaid'
  <2> DEFINE n == Len(turn) + 1
             t == Append(turn, Offered(c))
  <2>1. t \in Seq(Held) /\ n \in DOMAIN t
    BY <1>0, Arrived
  <2>2. UNCHANGED <<compactions, deaths>>
    BY <1>5 DEF CallArrives, midStep, outside
  <2> HIDE DEF t, n
  <2>3. CASE Dispatch(n, t)
    BY <2>1, <2>2, <2>3, DispatchPays
  <2>4. CASE UNCHANGED <<futures, guardVars, poolVars>>
    BY <1>1, <2>2, <2>4 DEF guardVars, poolVars
  <2> QED
    BY <1>5, <2>3, <2>4 DEF CallArrives, t, n
<1>6. CASE CollectResult
  <2>1. PICK k \in Pool!WaitedFor(Head(futures)) : Pool!TakeResult(k)
    BY <1>6 DEF CollectResult
  <2>2. k \in DOMAIN pool
    BY WaitedIn
  <2>3. PICK g : Comes(pool', g)
    BY <1>0, <2>1, <2>2, TakeComes
  <2>4. starts' = starts
    BY <1>0, <2>1, <2>2, TakeComes
  <2>5. UNCHANGED <<counts, compactions, deaths>>
    BY <1>6 DEF CollectResult, midStep, outside
  <2> QED
    BY <2>3, <2>4, <2>5, MovesOnPaid
<1>7. CASE CollectTimesOut
  <2>1. PICK k \in Pool!WaitedFor(Head(futures)) : Pool!GiveUp(k)
    BY <1>7 DEF CollectTimesOut
  <2>2. k \in DOMAIN pool
    BY WaitedIn
  <2>3. PICK g : Comes(pool', g)
    BY <1>0, <2>1, <2>2, GiveUpComes
  <2>4. starts' = starts
    BY <1>0, <2>1, <2>2, GiveUpComes
  <2>5. UNCHANGED <<counts, compactions, deaths>>
    BY <1>7 DEF CollectTimesOut, guardVars, midStep, outside
  <2> QED
    BY <2>3, <2>4, <2>5, MovesOnPaid
<1>8. CASE Die
  <2>1. counts' = [c \in Calls |-> 0] /\ starts' = starts /\ pool' = <<>>
    BY <1>8 DEF Die, Guard!FreshGuard
  <2>2. (compactions + deaths)' = compactions + deaths + 1
    BY <1>8 DEF Die, Shapes, Flow
  <2>3. \A c \in Calls : Queued(c, pool') = {}
    BY <2>1 DEF Queued
  <2>4. \A c \in Calls : /\ Cardinality(Queued(c, pool')) \in Nat
                         /\ Cardinality(Queued(c, pool')) <= Cardinality(Queued(c, pool))
    <3>1. \A c \in Calls : Cardinality(Queued(c, pool')) = 0
      BY <2>3, FS_EmptySet
    <3>2. \A c \in Calls : Cardinality(Queued(c, pool)) \in Nat
      BY ClearedTyped
    <3> QED
      BY <3>1, <3>2
  <2> QED
    BY <2>1, <2>2, <2>4, ClearsPaid
<1>9. ASSUME NEW k \in DOMAIN pool, ToolEnds(k) PROVE StartsPaid'
  <2>1. PICK g : Comes(pool', g) /\ (starts' = starts \/ \E l \in DOMAIN pool : Begins(l, g))
    BY <1>0, <1>9, EndToolComes DEF ToolEnds
  <2>2. UNCHANGED <<counts, compactions, deaths>>
    BY <1>9 DEF ToolEnds, guardVars, outside
  <2> QED
    BY <2>1, <2>2, MovesOnPaid
<1>10. ReplyAll => UNCHANGED <<counts, pool, starts, compactions, deaths>>
  BY DEF ReplyAll, guardVars, poolVars
<1> QED
  BY <1>1, <1>2, <1>3, <1>4, <1>5, <1>6, <1>7, <1>8, <1>9, <1>10, Sorted DEF Idles

(* Whatever the model asks for and however often its streams fail, the same *)
(* call is started MaxIdentical times at most between two compactions or    *)
(* deaths: for any number of workers, calls, retries and mishaps.           *)
THEOREM StartsAreBounded == Spec => []StartsBounded
<1>1. Init => StartsPaid
  <2> SUFFICES ASSUME Init, NEW c \in Calls
               PROVE  starts[c] + Cardinality(Queued(c, pool)) <= Cleared + Capped(counts[c])
    BY DEF StartsPaid
  <2>1. Queued(c, pool) = {} /\ starts[c] = 0 /\ counts[c] = 0
    BY DEF Init, Pool!PoolInit, Guard!GuardInit, Queued
  <2>2. Cleared = 0
    BY EngineAssumption DEF Init, Cleared
  <2>3. Capped(counts[c]) = 0
    BY <2>1, EngineAssumption DEF Capped
  <2> QED
    BY <2>1, <2>2, <2>3, FS_EmptySet
<1>2. Shapes /\ StartsPaid /\ [Next]_vars => StartsPaid'
  BY NextPaid
<1>3. Shapes /\ StartsPaid => StartsBounded
  <2> SUFFICES ASSUME Shapes, StartsPaid, NEW c \in Calls
               PROVE  starts[c] <= MaxIdentical * (1 + compactions + deaths)
    BY DEF StartsBounded
  <2>1. /\ starts[c] + Cardinality(Queued(c, pool)) <= Cleared + Capped(counts[c])
        /\ starts[c] \in Nat /\ Cardinality(Queued(c, pool)) \in Nat
        /\ Cleared \in Nat /\ Capped(counts[c]) \in Nat /\ Capped(counts[c]) <= MaxIdentical
        /\ MaxIdentical \in Nat
    BY ClearedTyped DEF StartsPaid
  <2>2. starts[c] <= Cleared + MaxIdentical
    BY <2>1
  <2>3. MaxIdentical * (1 + compactions + deaths) = Cleared + MaxIdentical
    <3>1. compactions \in Nat /\ deaths \in Nat
      BY DEF Shapes, Flow
    <3> QED
      BY <2>1, <3>1 DEF Cleared
  <2> QED
    BY <2>2, <2>3
<1> QED
  BY <1>1, <1>2, <1>3, ShapesAlways, PTL DEF Spec

-----------------------------------------------------------------------------
LEMMA TranscriptCounts ==
  ASSUME NEW S
  PROVE  T!Cardinality(S) = Cardinality(S)
BY DEF T!Cardinality, Cardinality

(* Messages, and sound conversations of them: turns are numbered, every    *)
(* call has its reply, and every output is that of the call it answers.    *)
Message ==
  {T!Ask, T!Text}
    \cup [role : {"calls"}, turn : Nat, calls : Seq(Calls)]
    \cup [role : {"reply"}, turn : Nat, pos : Nat, from : Calls \cup {NoCall}]

Numbered(m) == \A k \in DOMAIN m : m[k].role \in {"calls", "reply"} => m[k].turn < T!NextTurn(m)

OwnOutputs(m) == \A k \in T!Slots(m, "reply") : OwnOutput(m[k], m)

Sound(m) ==
  /\ m \in Seq(Message)
  /\ Numbered(m)
  /\ T!AllAnswered(m)
  /\ OwnOutputs(m)

LEMMA MessageForms ==
  ASSUME NEW x \in Message
  PROVE  /\ x.role \in {"ask", "text", "calls", "reply"}
         /\ x.role = "calls" => x.turn \in Nat /\ x.calls \in Seq(Calls)
         /\ x.role = "reply" => x.turn \in Nat /\ x.pos \in Nat /\ x.from \in Calls \cup {NoCall}
         /\ x.role = "ask" => x = T!Ask
         /\ x.role = "text" => x = T!Text
BY DEF Message, T!Ask, T!Text

LEMMA PlainMessages ==
  /\ T!Ask \in Message /\ T!Ask.role = "ask"
  /\ T!Text \in Message /\ T!Text.role = "text"
BY DEF Message, T!Ask, T!Text

LEMMA CallsMessage ==
  ASSUME NEW n \in Nat, NEW cs \in Seq(Calls)
  PROVE  /\ T!CallsMsg(n, cs) \in Message
         /\ T!CallsMsg(n, cs).role = "calls"
         /\ T!CallsMsg(n, cs).turn = n
         /\ T!CallsMsg(n, cs).calls = cs
BY DEF Message, T!CallsMsg

LEMMA ReplyMessage ==
  ASSUME NEW n \in Nat, NEW i \in Nat, NEW c \in Calls \cup {NoCall}
  PROVE  /\ T!ReplyMsg(n, i, c) \in Message
         /\ T!ReplyMsg(n, i, c).role = "reply"
         /\ T!ReplyMsg(n, i, c).turn = n
         /\ T!ReplyMsg(n, i, c).pos = i
         /\ T!ReplyMsg(n, i, c).from = c
BY DEF Message, T!ReplyMsg

LEMMA TurnCounts ==
  ASSUME NEW m \in Seq(Message)
  PROVE  /\ \A r : IsFiniteSet(T!Slots(m, r))
         /\ T!NextTurn(m) = Cardinality(T!Slots(m, "calls")) + 1
         /\ T!NextTurn(m) \in Nat \ {0}
<1>1. Len(m) \in Nat /\ DOMAIN m = 1 .. Len(m)
  OBVIOUS
<1>2. IsFiniteSet(1 .. Len(m))
  BY <1>1, FS_Interval
<1>3. ASSUME NEW r PROVE IsFiniteSet(T!Slots(m, r))
  <2>1. T!Slots(m, r) \subseteq 1 .. Len(m)
    BY <1>1 DEF T!Slots
  <2> QED
    BY <1>2, <2>1, FS_Subset
<1>4. T!NextTurn(m) = Cardinality(T!Slots(m, "calls")) + 1
  BY TranscriptCounts DEF T!NextTurn
<1>5. Cardinality(T!Slots(m, "calls")) \in Nat
  BY <1>3, FS_CardinalityType
<1> QED
  BY <1>3, <1>4, <1>5

(* A call has its reply when one place answers it. *)
AnswersOf(m, c, i) == {l \in DOMAIN m : T!Answers(m[l], c, i)}

LEMMA AnsweredByOne ==
  ASSUME NEW m \in Seq(Message)
  PROVE  T!AllAnswered(m) <=>
           \A k \in T!Slots(m, "calls") : \A i \in DOMAIN m[k].calls :
             \E l : AnswersOf(m, m[k], i) = {l}
<1>1. ASSUME NEW c, NEW i PROVE IsFiniteSet(AnswersOf(m, c, i))
  <2>1. AnswersOf(m, c, i) \subseteq T!Slots(m, "reply")
    BY DEF AnswersOf, T!Slots, T!Answers
  <2> QED
    BY <2>1, TurnCounts, FS_Subset
<1>2. \A c, i : Cardinality(AnswersOf(m, c, i)) = 1 <=> \E l : AnswersOf(m, c, i) = {l}
  BY <1>1, FS_Singleton
<1>3. T!AllAnswered(m) <=>
        \A k \in T!Slots(m, "calls") : \A i \in DOMAIN m[k].calls :
          Cardinality(AnswersOf(m, m[k], i)) = 1
  BY TranscriptCounts DEF T!AllAnswered, AnswersOf
<1> QED
  BY <1>2, <1>3

(* Messages that neither call nor answer, put at the end. *)
Longer(m, w) ==
  /\ DOMAIN m \subseteq DOMAIN w
  /\ \A k \in DOMAIN m : w[k] = m[k]
  /\ \A k \in DOMAIN w : k \notin DOMAIN m => w[k] \in {T!Ask, T!Text}

LEMMA LongerSound ==
  ASSUME NEW m, Sound(m), NEW w \in Seq(Message), Longer(m, w)
  PROVE  Sound(w) /\ (T!InOrder(m) => T!InOrder(w))
<1>0. m \in Seq(Message)
  BY DEF Sound
<1>1. /\ w \in Seq(Message)
      /\ DOMAIN m \subseteq DOMAIN w
      /\ \A k \in DOMAIN m : w[k] = m[k]
      /\ \A k \in DOMAIN w : k \notin DOMAIN m => w[k] \in {T!Ask, T!Text}
  BY DEF Longer
<1>2. \A k \in DOMAIN w : w[k].role \in {"calls", "reply"} => k \in DOMAIN m
  BY <1>1, PlainMessages
<1>3. T!Slots(w, "calls") = T!Slots(m, "calls") /\ T!Slots(w, "reply") = T!Slots(m, "reply")
  BY <1>1, <1>2 DEF T!Slots
<1>4. T!NextTurn(w) = T!NextTurn(m)
  BY <1>0, <1>1, <1>3, TurnCounts
<1>5. Numbered(w)
  BY <1>1, <1>2, <1>4 DEF Sound, Numbered
<1>6. \A c, i : AnswersOf(w, c, i) = AnswersOf(m, c, i)
  BY <1>1, <1>2 DEF AnswersOf, T!Answers
<1>7. T!AllAnswered(w)
  <2>1. \A k \in T!Slots(m, "calls") : w[k] = m[k]
    BY <1>1 DEF T!Slots
  <2>2. \A k \in T!Slots(m, "calls") : \A i \in DOMAIN m[k].calls :
          \E l : AnswersOf(m, m[k], i) = {l}
    BY <1>0, AnsweredByOne DEF Sound
  <2>3. \A k \in T!Slots(w, "calls") : \A i \in DOMAIN w[k].calls :
          \E l : AnswersOf(w, w[k], i) = {l}
    <3> SUFFICES ASSUME NEW k \in T!Slots(w, "calls"), NEW i \in DOMAIN w[k].calls
                 PROVE  \E l : AnswersOf(w, w[k], i) = {l}
      OBVIOUS
    <3>1. k \in T!Slots(m, "calls") /\ w[k] = m[k]
      BY <1>3, <2>1
    <3>2. AnswersOf(w, w[k], i) = AnswersOf(m, m[k], i)
      BY <1>6, <3>1
    <3> QED
      BY <2>2, <3>1, <3>2
  <2> QED
    BY <1>1, <2>3, AnsweredByOne
<1>8. OwnOutputs(w)
  <2>1. \A k \in DOMAIN m : w[k] = m[k]
    BY <1>1
  <2> QED
    BY <1>3, <2>1 DEF Sound, OwnOutputs, OwnOutput, T!Slots
<1>9. T!InOrder(m) => T!InOrder(w)
  BY <1>1, <1>3 DEF T!InOrder, T!Slots
<1> QED
  BY <1>1, <1>5, <1>7, <1>8, <1>9 DEF Sound

(* Replies put back into the places of replies. *)
LEMMA RefilledSound ==
  ASSUME NEW m, Sound(m), NEW w \in T!Refilled(m)
  PROVE  Sound(w)
<1> DEFINE R == T!Slots(m, "reply")
<1>0. m \in Seq(Message) /\ IsFiniteSet(R)
  BY TurnCounts DEF Sound
<1>1. PICK p \in [R -> R] :
        /\ \A k \in R : \E l \in R : p[l] = k
        /\ w = [k \in DOMAIN m |-> IF k \in R THEN m[p[k]] ELSE m[k]]
  BY DEF T!Refilled
<1>2. \A k, l \in R : p[k] = p[l] => k = l
  <2>1. p \in Surjection(R, R)
    BY <1>1 DEF Surjection
  <2> HIDE DEF R
  <2>2. p \in Injection(R, R)
    BY <1>0, <2>1, FS_SurjSameCardinalityImpliesInj
  <2> QED
    BY <2>2 DEF Injection, IsInjective
<1>3. R \subseteq DOMAIN m /\ \A k \in DOMAIN m : k \in R <=> m[k].role = "reply"
  BY DEF T!Slots
<1> HIDE DEF R
<1>4. /\ DOMAIN w = DOMAIN m
      /\ \A k \in R : p[k] \in R /\ w[k] = m[p[k]]
      /\ \A k \in DOMAIN m : k \notin R => w[k] = m[k]
  BY <1>1, <1>3
<1>5. \A k \in DOMAIN m : w[k].role = m[k].role /\ w[k] \in Message
  BY <1>0, <1>3, <1>4
<1>6. w \in Seq(Message)
  <2>1. w = [k \in 1 .. Len(m) |-> w[k]] /\ Len(m) \in Nat /\ DOMAIN m = 1 .. Len(m)
    BY <1>0, <1>1
  <2> QED
    BY <1>5, <2>1, IsASeq
<1>7. \A r : T!Slots(w, r) = T!Slots(m, r)
  BY <1>4, <1>5 DEF T!Slots
<1>8. T!NextTurn(w) = T!NextTurn(m)
  BY <1>0, <1>6, <1>7, TurnCounts
<1>9. Numbered(w)
  BY <1>3, <1>4, <1>5, <1>8 DEF Sound, Numbered
<1>10. \A k \in T!Slots(m, "calls") : k \in DOMAIN m /\ k \notin R /\ w[k] = m[k]
  BY <1>3, <1>4 DEF T!Slots
<1>11. ASSUME NEW k \in T!Slots(m, "calls"), NEW i \in DOMAIN m[k].calls
       PROVE  \E l : AnswersOf(w, m[k], i) = {l}
  <2>1. PICK l : AnswersOf(m, m[k], i) = {l}
    BY <1>0, AnsweredByOne DEF Sound
  <2>2. l \in R /\ T!Answers(m[l], m[k], i)
    BY <1>3, <2>1 DEF AnswersOf, T!Answers
  <2>3. PICK h \in R : p[h] = l
    BY <1>1, <2>2
  <2>4. h \in AnswersOf(w, m[k], i)
    BY <1>3, <1>4, <2>2, <2>3 DEF AnswersOf
  <2>5. ASSUME NEW g \in AnswersOf(w, m[k], i) PROVE g = h
    <3>1. g \in R
      BY <1>3, <1>4, <1>5 DEF AnswersOf, T!Answers
    <3>2. p[g] \in AnswersOf(m, m[k], i)
      BY <1>3, <1>4, <3>1 DEF AnswersOf
    <3> QED
      BY <1>2, <2>1, <2>3, <3>1, <3>2
  <2> QED
    BY <2>4, <2>5
<1>12. T!AllAnswered(w)
  <2>1. ASSUME NEW k \in T!Slots(w, "calls"), NEW i \in DOMAIN w[k].calls
        PROVE  \E l : AnswersOf(w, w[k], i) = {l}
    <3>1. k \in T!Slots(m, "calls") /\ w[k] = m[k]
      BY <1>7, <1>10
    <3> QED
      BY <1>11, <3>1
  <2> QED
    BY <1>6, <2>1, AnsweredByOne
<1>13. OwnOutputs(w)
  <2>1. ASSUME NEW k \in R, NEW j \in T!Slots(m, "calls"), m[j].turn = w[k].turn
        PROVE  w[k].from \in {NoCall, m[j].calls[w[k].pos]}
    <3>1. p[k] \in T!Slots(m, "reply") /\ w[k] = m[p[k]]
      BY <1>4 DEF R
    <3> QED
      BY <2>1, <3>1 DEF Sound, OwnOutputs, OwnOutput
  <2>2. T!Slots(w, "reply") = R /\ T!Slots(w, "calls") = T!Slots(m, "calls")
    BY <1>7 DEF R
  <2> QED
    BY <1>10, <2>1, <2>2 DEF OwnOutputs, OwnOutput
<1> QED
  BY <1>6, <1>9, <1>12, <1>13 DEF Sound
LEMMA PlainSound ==
  ASSUME NEW m, Sound(m), NEW r \in Seq({T!Ask, T!Text})
  PROVE  Sound(m \o r) /\ (T!InOrder(m) => T!InOrder(m \o r))
<1> DEFINE w == m \o r
<1>0. m \in Seq(Message) /\ r \in Seq(Message)
  BY PlainMessages DEF Sound
<1>1. /\ Len(m) \in Nat /\ Len(r) \in Nat /\ Len(w) = Len(m) + Len(r)
      /\ w \in Seq(Message)
      /\ DOMAIN m = 1 .. Len(m) /\ DOMAIN w = 1 .. Len(w)
      /\ \A k \in 1 .. Len(w) : w[k] = IF k <= Len(m) THEN m[k] ELSE r[k - Len(m)]
  BY <1>0
<1>2. ASSUME NEW k \in 1 .. Len(w), ~(k <= Len(m)) PROVE w[k] \in {T!Ask, T!Text}
  <2>1. k - Len(m) \in DOMAIN r
    BY <1>1, <1>2
  <2> QED
    BY <1>1, <1>2, <2>1
<1> HIDE DEF w
<1>3. Longer(m, w)
  BY <1>1, <1>2 DEF Longer
<1> QED
  BY <1>1, <1>3, LongerSound DEF w

LEMMA AppendSound ==
  ASSUME NEW m, Sound(m), NEW x \in {T!Ask, T!Text}
  PROVE  Sound(Append(m, x)) /\ (T!InOrder(m) => T!InOrder(Append(m, x)))
<1> DEFINE w == Append(m, x)
<1>1. m \in Seq(Message) /\ x \in Message
  BY PlainMessages DEF Sound
<1>2. w \in Seq(Message) /\ Longer(m, w)
  BY <1>1 DEF Longer
<1> QED
  BY <1>2, LongerSound

LEMMA BeginningsSound ==
  \A m \in {<<>>, <<T!Ask>>, T!Summarized} : Sound(m) /\ T!InOrder(m)
<1>1. Sound(<<>>) /\ T!InOrder(<<>>)
  <2>1. T!Slots(<<>>, "calls") = {} /\ T!Slots(<<>>, "reply") = {}
    BY DEF T!Slots
  <2>2. T!AllAnswered(<<>>)
    BY <2>1 DEF T!AllAnswered
  <2> QED
    BY <2>1, <2>2 DEF Sound, Numbered, OwnOutputs, T!InOrder
<1>2. <<T!Ask>> \in Seq(Message) /\ Longer(<<>>, <<T!Ask>>)
  BY PlainMessages DEF Longer
<1>3. T!Summarized \in Seq(Message) /\ Longer(<<>>, T!Summarized)
  BY PlainMessages DEF T!Summarized, Longer
<1>4. \A w \in {<<T!Ask>>, T!Summarized} : Sound(w) /\ T!InOrder(w)
  BY <1>1, <1>2, <1>3, LongerSound
<1> QED
  BY <1>1, <1>4

(* The answer's calls, and then a reply to each. *)
Called(m, n, cs) == Append(m, T!CallsMsg(n, cs))

LEMMA CalledNext ==
  ASSUME NEW m \in Seq(Message), NEW n \in Nat, NEW cs \in Seq(Calls)
  PROVE  /\ Called(m, n, cs) \in Seq(Message)
         /\ DOMAIN Called(m, n, cs) = DOMAIN m \cup {Len(m) + 1}
         /\ Len(m) + 1 \notin DOMAIN m
         /\ Len(Called(m, n, cs)) = Len(m) + 1
         /\ \A k \in DOMAIN m : Called(m, n, cs)[k] = m[k]
         /\ Called(m, n, cs)[Len(m) + 1] = T!CallsMsg(n, cs)
         /\ T!Slots(Called(m, n, cs), "calls") = T!Slots(m, "calls") \cup {Len(m) + 1}
         /\ T!Slots(Called(m, n, cs), "reply") = T!Slots(m, "reply")
         /\ T!NextTurn(Called(m, n, cs)) = T!NextTurn(m) + 1
<1> DEFINE b == Called(m, n, cs)
           l == Len(m) + 1
<1>1. T!CallsMsg(n, cs) \in Message /\ T!CallsMsg(n, cs).role = "calls"
  BY CallsMessage
<1>2. /\ b \in Seq(Message)
      /\ DOMAIN b = DOMAIN m \cup {l} /\ l \notin DOMAIN m /\ Len(b) = l
      /\ \A k \in DOMAIN m : b[k] = m[k]
      /\ b[l] = T!CallsMsg(n, cs)
  BY <1>1 DEF Called
<1> HIDE DEF b, l
<1>3. /\ T!Slots(b, "calls") = T!Slots(m, "calls") \cup {l} /\ l \notin T!Slots(m, "calls")
      /\ T!Slots(b, "reply") = T!Slots(m, "reply")
  BY <1>1, <1>2 DEF T!Slots
<1>4. /\ IsFiniteSet(T!Slots(m, "calls")) /\ Cardinality(T!Slots(m, "calls")) \in Nat
      /\ T!NextTurn(m) = Cardinality(T!Slots(m, "calls")) + 1
      /\ T!NextTurn(b) = Cardinality(T!Slots(b, "calls")) + 1
  BY <1>2, TurnCounts, FS_CardinalityType
<1>5. Cardinality(T!Slots(b, "calls")) = Cardinality(T!Slots(m, "calls")) + 1
  BY <1>3, <1>4, FS_AddElement
<1>6. T!NextTurn(b) = T!NextTurn(m) + 1
  BY <1>4, <1>5
<1> QED
  BY <1>2, <1>3, <1>6 DEF b, l

(* A conversation that ends with calls answers them in their turn, which   *)
(* nothing before it has.                                                  *)
LEMMA CalledOwn ==
  ASSUME NEW m, Sound(m), NEW cs \in Seq(Calls)
  PROVE  OwnOutputs(Called(m, T!NextTurn(m), cs))
<1> DEFINE n == T!NextTurn(m)
           b == Called(m, n, cs)
           l == Len(m) + 1
<1>0. m \in Seq(Message) /\ n \in Nat
  BY TurnCounts DEF Sound
<1> HIDE DEF n
<1>1. /\ \A k \in DOMAIN m : b[k] = m[k]
      /\ b[l] = T!CallsMsg(n, cs)
      /\ T!Slots(b, "calls") = T!Slots(m, "calls") \cup {l}
      /\ T!Slots(b, "reply") = T!Slots(m, "reply")
  BY <1>0, CalledNext
<1>2. T!CallsMsg(n, cs).turn = n
  BY <1>0, CallsMessage
<1> HIDE DEF b, l
<1>3. ASSUME NEW k \in T!Slots(m, "reply"), NEW j \in T!Slots(b, "calls"), b[j].turn = b[k].turn
      PROVE  b[k].from \in {NoCall, b[j].calls[b[k].pos]}
  <2>1. k \in DOMAIN m /\ b[k] = m[k] /\ m[k].role = "reply"
    BY <1>1 DEF T!Slots
  <2>2. m[k].turn \in Nat /\ m[k].turn < n
    <3>1. m[k] \in Message
      BY <1>0, <2>1
    <3> QED
      BY <2>1, <3>1, MessageForms DEF Sound, Numbered, n
  <2>3. j # l
    BY <1>0, <1>1, <1>2, <1>3, <2>1, <2>2
  <2>4. j \in T!Slots(m, "calls") /\ b[j] = m[j]
    BY <1>1, <2>3 DEF T!Slots
  <2> QED
    BY <1>3, <2>1, <2>4 DEF Sound, OwnOutputs, OwnOutput
<1> QED
  BY <1>1, <1>3 DEF OwnOutputs, OwnOutput, b, n

LEMMA AnsweredSound ==
  ASSUME NEW m, Sound(m), NEW cs \in Seq(Calls), NEW f,
         \A i \in DOMAIN cs : f[i] \in {NoCall, cs[i]}
  PROVE  LET n == T!NextTurn(m)
             w == Called(m, n, cs) \o [i \in DOMAIN cs |-> T!ReplyMsg(n, i, f[i])]
         IN Sound(w) /\ (T!InOrder(m) => T!InOrder(w))
<1> DEFINE n == T!NextTurn(m)
           b == Called(m, n, cs)
           l == Len(m) + 1
           r == [i \in DOMAIN cs |-> T!ReplyMsg(n, i, f[i])]
           w == b \o r
<1>0. /\ m \in Seq(Message) /\ n \in Nat /\ Len(m) \in Nat /\ DOMAIN m = 1 .. Len(m)
      /\ Len(cs) \in Nat /\ DOMAIN cs = 1 .. Len(cs)
      /\ \A i \in DOMAIN cs : cs[i] \in Calls
  BY TurnCounts DEF Sound
<1> HIDE DEF n
<1>1. /\ b \in Seq(Message) /\ Len(b) = l
      /\ DOMAIN b = DOMAIN m \cup {l}
      /\ \A k \in DOMAIN m : b[k] = m[k]
      /\ b[l] = T!CallsMsg(n, cs)
      /\ T!NextTurn(b) = n + 1
      /\ T!Slots(b, "calls") = T!Slots(m, "calls") \cup {l}
  <2>0. m \in Seq(Message) /\ n \in Nat
    BY <1>0
  <2>1. T!NextTurn(b) = T!NextTurn(m) + 1
    BY <2>0, CalledNext
  <2>2. n = T!NextTurn(m)
    BY DEF n
  <2>3. /\ b \in Seq(Message) /\ Len(b) = l
        /\ DOMAIN b = DOMAIN m \cup {l}
        /\ \A k \in DOMAIN m : b[k] = m[k]
        /\ b[l] = T!CallsMsg(n, cs)
    BY <2>0, CalledNext
  <2>4. T!Slots(b, "calls") = T!Slots(m, "calls") \cup {l}
    BY <2>0, CalledNext
  <2> HIDE DEF b, l
  <2> QED
    BY <2>1, <2>2, <2>3, <2>4
<1>2. T!CallsMsg(n, cs) \in Message /\ T!CallsMsg(n, cs).role = "calls"
      /\ T!CallsMsg(n, cs).turn = n /\ T!CallsMsg(n, cs).calls = cs
  BY <1>0, CallsMessage
<1>3. ASSUME NEW i \in 1 .. Len(cs)
      PROVE  /\ r[i] \in Message
             /\ r[i].role = "reply" /\ r[i].turn = n /\ r[i].pos = i /\ r[i].from = f[i]
  <2>1. f[i] \in Calls \cup {NoCall} /\ i \in Nat
    BY <1>0
  <2> QED
    BY <1>0, <2>1, ReplyMessage
<1>4. r \in Seq(Message) /\ Len(r) = Len(cs)
  <2>1. r = [i \in 1 .. Len(cs) |-> r[i]]
    BY <1>0
  <2>2. \A i \in 1 .. Len(cs) : r[i] \in Message
    BY <1>3
  <2> HIDE DEF r
  <2>3. r \in Seq(Message)
    BY <1>0, <2>1, <2>2, IsASeq
  <2> QED
    BY <1>0, <2>1, <2>3
<1> HIDE DEF b, r
<1>5. /\ w \in Seq(Message)
      /\ DOMAIN w = 1 .. l + Len(cs)
      /\ \A k \in 1 .. l + Len(cs) : w[k] = IF k <= l THEN b[k] ELSE r[k - l]
  <2>1. l \in Nat
    BY <1>0
  <2> HIDE DEF l
  <2>a. b \in Seq(Message) /\ r \in Seq(Message) /\ Len(b) = l /\ Len(r) = Len(cs)
    BY <1>1, <1>4
  <2>2. Len(w) = l + Len(cs) /\ w \in Seq(Message)
    BY <2>a
  <2>3. \A k \in 1 .. l + Len(cs) : w[k] = IF k <= l THEN b[k] ELSE r[k - l]
    BY <1>0, <1>1, <1>4, <2>1
  <2> HIDE DEF w
  <2> QED
    BY <2>2, <2>3
<1> HIDE DEF w
<1>6. /\ \A k \in DOMAIN m : k \in DOMAIN w /\ k # l /\ w[k] = m[k]
      /\ l \in DOMAIN w /\ w[l] = T!CallsMsg(n, cs)
      /\ \A i \in 1 .. Len(cs) : l + i \in DOMAIN w /\ w[l + i] = r[i]
  <2>1. ASSUME NEW i \in 1 .. Len(cs) PROVE l + i \in DOMAIN w /\ w[l + i] = r[i]
    <3>1. l + i \in 1 .. l + Len(cs) /\ ~(l + i <= l) /\ (l + i) - l = i
      BY <1>0
    <3> QED
      BY <1>5, <3>1
  <2>2. /\ \A k \in DOMAIN m : k \in 1 .. l + Len(cs) /\ k # l /\ k <= l
        /\ l \in 1 .. l + Len(cs) /\ l <= l
    BY <1>0
  <2> QED
    BY <1>1, <1>5, <2>1, <2>2
<1>7. \A k \in DOMAIN w : k \in DOMAIN m \/ k = l \/ \E i \in 1 .. Len(cs) : k = l + i
  <2> SUFFICES ASSUME NEW k \in 1 .. l + Len(cs), k \notin DOMAIN m, k # l
               PROVE  \E i \in 1 .. Len(cs) : k = l + i
    BY <1>5
  <2>1. k - l \in 1 .. Len(cs) /\ k = l + (k - l)
    BY <1>0
  <2> QED
    BY <2>1
<1> HIDE DEF l
<1>8. T!Slots(w, "calls") = T!Slots(m, "calls") \cup {l} /\ l \notin DOMAIN m
  BY <1>2, <1>3, <1>6, <1>7 DEF T!Slots
<1>9. T!NextTurn(w) = n + 1
  BY <1>0, <1>1, <1>5, <1>8, TurnCounts
<1>10. \A k \in DOMAIN m : m[k].role \in {"calls", "reply"} => m[k].turn \in Nat /\ m[k].turn < n
  <2> SUFFICES ASSUME NEW k \in DOMAIN m, m[k].role \in {"calls", "reply"}
               PROVE  m[k].turn \in Nat /\ m[k].turn < n
    OBVIOUS
  <2>1. m[k] \in Message
    BY <1>0
  <2> QED
    BY <2>1, MessageForms DEF Sound, Numbered, n
<1>11. Numbered(w)
  BY <1>0, <1>2, <1>3, <1>6, <1>7, <1>9, <1>10 DEF Numbered
<1>12. T!AllAnswered(w)
  <2>1. ASSUME NEW k \in T!Slots(m, "calls"), NEW i \in DOMAIN w[k].calls
        PROVE  \E h : AnswersOf(w, w[k], i) = {h}
    <3>1. k \in DOMAIN m /\ w[k] = m[k] /\ m[k].turn < n /\ m[k].turn \in Nat
      BY <1>6, <1>10 DEF T!Slots
    <3>2. PICK h : AnswersOf(m, m[k], i) = {h}
      BY <1>0, <2>1, <3>1, AnsweredByOne DEF Sound
    <3>3. AnswersOf(w, w[k], i) = AnswersOf(m, m[k], i)
      BY <1>0, <1>2, <1>3, <1>6, <1>7, <3>1 DEF AnswersOf, T!Answers
    <3> QED
      BY <3>2, <3>3
  <2>2. ASSUME NEW i \in DOMAIN cs
        PROVE  AnswersOf(w, T!CallsMsg(n, cs), i) = {l + i}
    <3>1. l + i \in AnswersOf(w, T!CallsMsg(n, cs), i)
      BY <1>0, <1>2, <1>3, <1>6 DEF AnswersOf, T!Answers
    <3>2. ASSUME NEW k \in AnswersOf(w, T!CallsMsg(n, cs), i) PROVE k = l + i
      <4>1. k \in DOMAIN w /\ w[k].role = "reply" /\ w[k].turn = n /\ w[k].pos = i
        BY <1>2 DEF AnswersOf, T!Answers
      <4>2. k \notin DOMAIN m
        BY <1>0, <1>6, <1>10, <4>1
      <4>3. k # l
        BY <1>2, <1>6, <4>1
      <4>4. PICK j \in 1 .. Len(cs) : k = l + j
        BY <1>7, <4>1, <4>2, <4>3
      <4> QED
        BY <1>3, <1>6, <4>1, <4>4
    <3> QED
      BY <3>1, <3>2
  <2>3. ASSUME NEW k \in T!Slots(w, "calls"), NEW i \in DOMAIN w[k].calls
        PROVE  \E h : AnswersOf(w, w[k], i) = {h}
    <3>1. CASE k \in T!Slots(m, "calls")
      BY <2>1, <3>1
    <3>2. CASE k = l
      BY <1>2, <1>6, <2>2, <2>3, <3>2
    <3> QED
      BY <1>8, <3>1, <3>2
  <2> QED
    BY <1>5, <2>3, AnsweredByOne
<1>13. OwnOutputs(w)
  <2> SUFFICES ASSUME NEW k \in T!Slots(w, "reply"), NEW j \in T!Slots(w, "calls"),
                      w[j].turn = w[k].turn
               PROVE  w[k].from \in {NoCall, w[j].calls[w[k].pos]}
    BY DEF OwnOutputs, OwnOutput
  <2>1. k \in DOMAIN w /\ w[k].role = "reply" /\ j \in DOMAIN w /\ w[j].role = "calls"
    BY DEF T!Slots
  <2>2. CASE k \in DOMAIN m
    <3>1. w[k] = m[k] /\ m[k].turn < n /\ m[k].turn \in Nat
      BY <1>6, <1>10, <2>1, <2>2
    <3>2. j # l
      BY <1>0, <1>2, <1>6, <3>1
    <3>3. j \in T!Slots(m, "calls") /\ w[j] = m[j] /\ k \in T!Slots(m, "reply")
      BY <1>6, <1>8, <2>1, <2>2, <3>1, <3>2 DEF T!Slots
    <3> QED
      BY <3>1, <3>3 DEF Sound, OwnOutputs, OwnOutput
  <2>3. CASE k \notin DOMAIN m
    <3>1. k # l
      BY <1>2, <1>6, <2>1
    <3>2. PICK i \in 1 .. Len(cs) : k = l + i
      BY <1>7, <2>1, <2>3, <3>1
    <3>3. w[k].turn = n /\ w[k].pos = i /\ w[k].from = f[i]
      BY <1>3, <1>6, <3>2
    <3>4. j \notin DOMAIN m
      BY <1>0, <1>6, <1>10, <2>1, <3>3
    <3>5. j = l
      BY <1>8, <3>4 DEF T!Slots
    <3> QED
      BY <1>0, <1>2, <1>6, <3>3, <3>5
  <2> QED
    BY <2>2, <2>3
<1>14. T!InOrder(m) => T!InOrder(w)
  <2> SUFFICES ASSUME T!InOrder(m), NEW k \in T!Slots(w, "calls"), NEW i \in DOMAIN w[k].calls
               PROVE  k + i \in DOMAIN w /\ T!Answers(w[k + i], w[k], i)
    BY DEF T!InOrder
  <2>1. CASE k \in T!Slots(m, "calls")
    BY <1>6, <2>1 DEF T!InOrder, T!Slots
  <2>2. CASE k = l
    BY <1>0, <1>2, <1>3, <1>6, <2>2 DEF T!Answers
  <2> QED
    BY <1>8, <2>1, <2>2
<1> QED
  BY <1>5, <1>11, <1>12, <1>13, <1>14 DEF Sound, w, b, r, n

(* A conversation is sound but for the step that is collecting results:    *)
(* then it is a sound one with the answer's calls at its end.              *)
InShape(m, any) == Sound(m) /\ (any \/ T!InOrder(m))

Before == SubSeq(messages, 1, Len(messages) - 1)

Placed ==
  /\ InShape(saved, shuffled)
  /\ pc # "collecting" => InShape(messages, shuffled)
  /\ pc = "collecting" =>
       /\ InShape(Before, shuffled)
       /\ messages = Called(Before, T!NextTurn(Before), CallsOf(turn))

LEMMA WithoutLast ==
  ASSUME NEW S, NEW m \in Seq(S), NEW x
  PROVE  SubSeq(Append(m, x), 1, Len(Append(m, x)) - 1) = m
<1>1. /\ Len(m) \in Nat /\ DOMAIN m = 1 .. Len(m)
      /\ Len(Append(m, x)) = Len(m) + 1
      /\ \A k \in 1 .. Len(m) : Append(m, x)[k] = m[k]
  OBVIOUS
<1>2. Append(m, x) \in Seq(S \cup {x})
  OBVIOUS
<1> DEFINE w == Append(m, x)
<1> HIDE DEF w
<1>3. SubSeq(w, 1, Len(m)) = [k \in 1 .. Len(m) |-> m[k]]
  BY <1>1, <1>2 DEF w
<1>4. m = [k \in 1 .. Len(m) |-> m[k]]
  BY <1>1
<1>5. Len(w) - 1 = Len(m)
  BY <1>1 DEF w
<1> QED
  BY <1>3, <1>4, <1>5 DEF w

LEMMA SameCalls ==
  ASSUME DOMAIN turn' = DOMAIN turn, \A i \in DOMAIN turn : turn'[i].call = turn[i].call
  PROVE  CallsOf(turn') = CallsOf(turn)
BY DEF CallsOf

LEMMA CallsTyped ==
  ASSUME OutputsKnown
  PROVE  CallsOf(turn) \in Seq(Calls) /\ DOMAIN CallsOf(turn) = DOMAIN turn
<1>1. DOMAIN turn = 1 .. Len(turn) /\ Len(turn) \in Nat
  BY DEF OutputsKnown
<1>2. \A i \in DOMAIN turn : CallsOf(turn)[i] = turn[i].call /\ turn[i].call \in Calls
  BY HeldAt DEF CallsOf
<1>3. CallsOf(turn) = [i \in 1 .. Len(turn) |-> CallsOf(turn)[i]]
  BY <1>1 DEF CallsOf
<1>4. CallsOf(turn) \in Seq(Calls)
  BY <1>1, <1>2, <1>3, IsASeq
<1> QED
  BY <1>4 DEF CallsOf

LEMMA CallsStay ==
  ASSUME Shapes, DispatchLeft \/ CollectResult \/ CollectTimesOut
  PROVE  CallsOf(turn') = CallsOf(turn)
<1>0. OutputsKnown
  BY DEF Shapes
<1>1. CASE DispatchLeft
  <2>1. PICK i \in Left : Dispatch(i, turn)
    BY <1>1 DEF DispatchLeft
  <2>2. i \in DOMAIN turn
    BY DEF Left
  <2>3. /\ DOMAIN turn' = DOMAIN turn
        /\ \A k \in DOMAIN turn : k # i => turn'[k] = turn[k]
        /\ turn'[i].call = turn[i].call
    BY <1>0, <2>1, <2>2, DispatchMarks DEF OutputsKnown
  <2> QED
    BY <2>3, SameCalls
<1>2. CASE CollectResult
  <2> DEFINE h == Head(futures)
  <2>1. PICK o : turn' = [turn EXCEPT ![h] = Answered(turn[h].call, o)]
    BY <1>2 DEF CollectResult
  <2> QED
    BY <2>1, SameCalls DEF Answered
<1>3. CASE CollectTimesOut
  <2> DEFINE h == Head(futures)
             x == [call |-> turn[h].call, fate |-> "timedout", from |-> turn[h].from]
  <2>1. turn' = [turn EXCEPT ![h] = [turn[h] EXCEPT !.fate = "timedout"]]
    BY <1>3 DEF CollectTimesOut
  <2>2. h \in DOMAIN turn => [turn[h] EXCEPT !.fate = "timedout"] = x
    BY <1>0, HeldAt
  <2>3. DOMAIN turn' = DOMAIN turn /\ \A i \in DOMAIN turn : turn'[i].call = turn[i].call
    BY <2>1, <2>2
  <2> QED
    BY <2>3, SameCalls
<1> QED
  BY <1>1, <1>2, <1>3

LEMMA VerifiedShape ==
  ASSUME InShape(messages, shuffled)
  PROVE  InShape(Verified(messages), shuffled)
BY AppendSound DEF InShape, Verified

LEMMA AskShape ==
  ASSUME InShape(messages, shuffled), NoCompaction \/ Compaction
  PROVE  InShape(messages', shuffled') /\ (shuffled => shuffled')
<1> DEFINE v == Verified(messages)
<1>1. InShape(v, shuffled)
  BY VerifiedShape
<1> HIDE DEF v
<1>2. CASE NoCompaction
  BY <1>1, <1>2 DEF NoCompaction, v
<1>3. CASE Compaction
  <2>1. /\ messages' \in {T!Summarized, v} \cup T!Refilled(v)
        /\ shuffled' <=> (shuffled \/ messages' \notin {T!Summarized, v})
    BY <1>3 DEF Compaction, Compacted, v
  <2>2. CASE messages' = T!Summarized
    BY <2>1, <2>2, BeginningsSound DEF InShape
  <2>3. CASE messages' = v
    BY <1>1, <2>1, <2>3 DEF InShape
  <2>4. CASE messages' \in T!Refilled(v) /\ messages' \notin {T!Summarized, v}
    BY <1>1, <2>1, <2>4, RefilledSound DEF InShape
  <2> QED
    BY <2>1, <2>2, <2>3, <2>4
<1> QED
  BY <1>2, <1>3

LEMMA ReplyShape ==
  ASSUME Shapes, Waits, Placed, ReplyAll
  PROVE  InShape(messages', shuffled)
<1> DEFINE m  == Before
           n  == T!NextTurn(m)
           cs == CallsOf(turn)
           f  == [i \in DOMAIN turn |-> turn[i].from]
<1>1. InShape(m, shuffled) /\ messages = Called(m, n, cs)
  BY DEF ReplyAll, Placed
<1>2. cs \in Seq(Calls) /\ DOMAIN cs = DOMAIN turn
  BY CallsTyped DEF Shapes
<1>3. \A i \in DOMAIN cs : f[i] \in {NoCall, cs[i]}
  BY <1>2 DEF Waits, CallsOf
<1>4. m \in Seq(Message) /\ n \in Nat
  BY <1>1, TurnCounts DEF InShape, Sound
<1>5. T!NextTurn(messages) - 1 = n
  <2>1. T!NextTurn(Called(m, n, cs)) = n + 1
    BY <1>2, <1>4, CalledNext
  <2> QED
    BY <1>1, <1>4, <2>1
<1>6. Replies = [i \in DOMAIN cs |-> T!ReplyMsg(n, i, f[i])]
  BY <1>2, <1>5 DEF Replies
<1>7. messages' = Called(m, n, cs) \o [i \in DOMAIN cs |-> T!ReplyMsg(n, i, f[i])]
  BY <1>1, <1>6 DEF ReplyAll
<1> HIDE DEF m, cs, f
<1>8. Sound(m)
  BY <1>1 DEF InShape
<1>9. Sound(messages') /\ (T!InOrder(m) => T!InOrder(messages'))
  BY <1>2, <1>3, <1>7, <1>8, AnsweredSound
<1> QED
  BY <1>1, <1>9 DEF InShape

LEMMA StepsShape ==
  ASSUME Shapes, Waits, Placed, Steps
  PROVE  Placed'
<1>1. CASE Begin
  <2>1. messages' = <<T!Ask>> /\ pc' # "collecting" /\ UNCHANGED <<saved, shuffled>>
    BY <1>1 DEF Begin, loopVars
  <2> QED
    BY <2>1, BeginningsSound DEF Placed, InShape
<1>2. CASE SeesAbort
  BY <1>2 DEF SeesAbort, Checkpoint, Placed
<1>3. CASE AskLLM
  <2>1. InShape(messages, shuffled)
    BY <1>3 DEF AskLLM, Placed
  <2>2. InShape(messages', shuffled') /\ (shuffled => shuffled')
    BY <1>3, <2>1, AskShape DEF AskLLM
  <2> QED
    BY <1>3, <2>2 DEF AskLLM, Placed, InShape
<1>4. CASE RunsOut
  BY <1>4 DEF RunsOut, Placed
<1>5. CASE StreamFails
  BY <1>5 DEF StreamFails, FailedAttempt, midStep, Placed
<1>6. CASE StreamEnds
  <2> DEFINE n  == T!NextTurn(messages)
             cs == CallsOf(turn)
  <2>1. InShape(messages, shuffled)
    BY <1>6 DEF StreamEnds, Placed
  <2>2. /\ messages' = Called(messages, n, cs) /\ turn' = turn
        /\ UNCHANGED <<saved, shuffled>> /\ pc' = "collecting"
    BY <1>6 DEF StreamEnds, turnVars, midStep, Called
  <2>3. Before' = messages
    BY <2>1, <2>2, WithoutLast DEF Before, Called, InShape, Sound
  <2> QED
    BY <2>1, <2>2, <2>3 DEF Placed
<1>7. CASE DispatchLeft \/ CollectResult \/ CollectTimesOut
  <2>1. UNCHANGED <<pc, messages, saved, shuffled>>
    BY <1>7 DEF DispatchLeft, CollectResult, CollectTimesOut, midStep
  <2>2. CallsOf(turn') = CallsOf(turn)
    BY <1>7, CallsStay
  <2> QED
    BY <2>1, <2>2 DEF Placed, Before
<1>8. CASE ReplyAll
  <2>1. InShape(messages', shuffled)
    BY <1>8, ReplyShape
  <2> QED
    BY <1>8, <2>1 DEF ReplyAll, Checkpoint, Placed
<1>9. CASE Nudge
  <2>1. InShape(messages, shuffled)
    BY <1>9 DEF Nudge, Placed
  <2>2. <<T!Text, T!Ask>> \in Seq({T!Ask, T!Text})
    OBVIOUS
  <2>3. InShape(messages', shuffled)
    BY <1>9, <2>1, <2>2, PlainSound DEF Nudge, InShape
  <2> QED
    BY <1>9, <2>3 DEF Nudge, answerUnchanged, Placed
<1>10. CASE Conclude
  <2>1. InShape(messages, shuffled)
    BY <1>10 DEF Conclude, Placed
  <2>2. InShape(messages', shuffled)
    BY <1>10, <2>1, AppendSound DEF Conclude, InShape
  <2> QED
    BY <1>10, <2>2 DEF Conclude, Checkpoint, answerUnchanged, Placed
<1>11. CASE Resume
  BY <1>11 DEF Resume, Placed
<1>12. ASSUME NEW c \in Calls, CallArrives(c) PROVE Placed'
  BY <1>12 DEF CallArrives, midStep, Placed
<1> QED
  BY <1>1, <1>2, <1>3, <1>4, <1>5, <1>6, <1>7, <1>8, <1>9, <1>10, <1>11, <1>12 DEF Steps

LEMMA NextShape ==
  ASSUME Shapes, Waits, Placed, [Next]_vars
  PROVE  Placed'
<1> DEFINE Same == UNCHANGED <<pc, messages, saved, shuffled, turn>>
<1>0. Same => Placed'
  BY DEF Placed, Before
<1>1. CASE SubAgentsStep
  BY <1>0, <1>1 DEF SubAgentsStep, loopVars, turnVars
<1>2. ASSUME NEW k \in DOMAIN pool, ToolEnds(k) PROVE Same
  BY <1>2 DEF ToolEnds, turnVars
<1>3. CASE RequestAbort
  BY <1>0, <1>3 DEF RequestAbort, loopVars, turnVars
<1>4. CASE Die
  BY <1>4, BeginningsSound DEF Die, Placed, InShape
<1>5. CASE UNCHANGED vars
  BY <1>0, <1>5 DEF vars, turnVars
<1> QED
  BY <1>0, <1>1, <1>2, <1>3, <1>4, <1>5, StepsShape DEF Next

LEMMA PlacedAlways == Spec => []Placed
<1>1. Init => Placed
  BY BeginningsSound DEF Init, Placed, InShape
<1>2. Shapes /\ Waits /\ Placed /\ [Next]_vars => Placed'
  BY NextShape
<1> QED
  BY <1>1, <1>2, ShapesAlways, WaitsAlways, PTL DEF Spec

(* Of every conversation, however long and whatever was refused, retried,  *)
(* compacted or lost: each call has exactly one reply when the LLM is      *)
(* asked and in the checkpoint, in order unless replies were cut to fit.   *)
THEOREM ConversationKept == Spec => []ConversationSound
<1>1. Placed => ConversationSound
  BY DEF Placed, InShape, Sound, ConversationSound
<1> QED
  BY <1>1, PlacedAlways, PTL

(* ... and a reply never holds the output of another call than the one it  *)
(* answers.                                                                *)
THEOREM RepliesOwn == Spec => []RepliesAnswerTheirCall
<1>1. Shapes /\ Placed => OwnOutputs(messages)
  <2> SUFFICES ASSUME Shapes, Placed PROVE OwnOutputs(messages)
    OBVIOUS
  <2>1. CASE pc # "collecting"
    BY <2>1 DEF Placed, InShape, Sound
  <2>2. CASE pc = "collecting"
    <3>1. Sound(Before) /\ messages = Called(Before, T!NextTurn(Before), CallsOf(turn))
      BY <2>2 DEF Placed, InShape
    <3>2. CallsOf(turn) \in Seq(Calls)
      BY CallsTyped DEF Shapes
    <3> QED
      BY <3>1, <3>2, CalledOwn
  <2> QED
    BY <2>1, <2>2
<1>2. OwnOutputs(messages) => RepliesAnswerTheirCall
  BY DEF OwnOutputs, RepliesAnswerTheirCall
<1> QED
  BY <1>1, <1>2, ShapesAlways, PlacedAlways, PTL

-----------------------------------------------------------------------------
(* With nothing failed and nothing compacted, every reply is in the        *)
(* checkpoint, also while a step is under way: it adds none before it is   *)
(* written.                                                                *)
Written(m, s) == \A k \in T!Slots(m, "reply") : \E l \in DOMAIN s : s[l] = m[k]

Saved == faults = 0 /\ compactions = 0 => Written(messages, saved)

LEMMA WrittenLonger ==
  ASSUME NEW m, NEW w, NEW s, Longer(m, w), Written(m, s)
  PROVE  Written(w, s)
<1>1. \A k \in T!Slots(w, "reply") : k \in T!Slots(m, "reply") /\ w[k] = m[k]
  BY PlainMessages DEF Longer, T!Slots
<1> QED
  BY <1>1 DEF Written

LEMMA WrittenAll ==
  ASSUME NEW m
  PROVE  Written(m, m)
BY DEF Written, T!Slots

LEMMA CheckpointWrites ==
  ASSUME Shapes, Checkpoint(messages'), compactions' = compactions
  PROVE  Saved'
<1>1. CASE saved' = messages'
  BY <1>1, WrittenAll DEF Saved
<1>2. CASE Slip
  BY <1>2 DEF Slip, Saved, Shapes, Flow
<1> QED
  BY <1>1, <1>2 DEF Checkpoint

LEMMA StepsSave ==
  ASSUME Shapes, Placed, Saved, Steps
  PROVE  Saved'
<1> DEFINE Same == UNCHANGED <<messages, saved, faults, compactions>>
<1>0. Same => Saved'
  BY DEF Saved
<1>1. CASE Begin
  <2>1. T!Slots(messages', "reply") = {}
    BY <1>1, PlainMessages DEF Begin, T!Slots
  <2> QED
    BY <2>1 DEF Saved, Written
<1>2. CASE SeesAbort
  <2>1. Checkpoint(messages') /\ compactions' = compactions
    BY <1>2 DEF SeesAbort
  <2> QED
    BY <2>1, CheckpointWrites
<1>3. CASE AskLLM
  <2>1. CASE Compaction
    BY <2>1 DEF Compaction, Saved, Shapes, Flow
  <2>2. CASE NoCompaction
    <3>1. messages' = Verified(messages) /\ compactions' = compactions /\ saved' = saved
      BY <1>3, <2>2 DEF NoCompaction, AskLLM
    <3>2. faults' = 0 => faults = 0
      BY <1>3 DEF AskLLM, Slip, Shapes, Flow
    <3>3. messages \in Seq(Message)
      BY <1>3 DEF AskLLM, Placed, InShape, Sound
    <3>4. Longer(messages, messages')
      BY <3>1, <3>3 DEF Verified, Longer
    <3> QED
      BY <3>1, <3>2, <3>4, WrittenLonger DEF Saved
  <2> QED
    BY <1>3, <2>1, <2>2 DEF AskLLM
<1>4. CASE RunsOut
  BY <1>0, <1>4 DEF RunsOut
<1>5. CASE StreamFails \/ DispatchLeft \/ CollectResult \/ CollectTimesOut
  BY <1>0, <1>5 DEF StreamFails, FailedAttempt, DispatchLeft, CollectResult, CollectTimesOut, midStep
<1>6. CASE StreamEnds
  <2> DEFINE n  == T!NextTurn(messages)
             cs == CallsOf(turn)
  <2>1. messages' = Called(messages, n, cs) /\ UNCHANGED <<saved, faults, compactions>>
    BY <1>6 DEF StreamEnds, midStep, Called
  <2>2. messages \in Seq(Message)
    BY <1>6 DEF StreamEnds, Placed, InShape, Sound
  <2>3. n \in Nat /\ cs \in Seq(Calls)
    BY <2>2, TurnCounts, CallsTyped DEF Shapes
  <2>4. /\ T!Slots(messages', "reply") = T!Slots(messages, "reply")
        /\ \A k \in DOMAIN messages : messages'[k] = messages[k]
    <3> HIDE DEF n, cs
    <3>1. /\ T!Slots(Called(messages, n, cs), "reply") = T!Slots(messages, "reply")
          /\ \A k \in DOMAIN messages : Called(messages, n, cs)[k] = messages[k]
      BY <2>2, <2>3, CalledNext
    <3> QED
      BY <2>1, <3>1
  <2> QED
    BY <2>1, <2>4 DEF Saved, Written, T!Slots
<1>7. CASE ReplyAll
  <2>1. Checkpoint(messages') /\ compactions' = compactions
    BY <1>7 DEF ReplyAll
  <2> QED
    BY <2>1, CheckpointWrites
<1>8. CASE Nudge
  <2>1. /\ messages' = messages \o <<T!Text, T!Ask>> /\ messages \in Seq(Message)
        /\ UNCHANGED <<saved, faults, compactions>>
    BY <1>8 DEF Nudge, answerUnchanged, Placed, InShape, Sound
  <2>2. Longer(messages, messages')
    BY <2>1, PlainMessages DEF Longer
  <2> QED
    BY <2>1, <2>2, WrittenLonger DEF Saved
<1>9. CASE Conclude
  <2>1. Checkpoint(messages') /\ compactions' = compactions
    BY <1>9 DEF Conclude, answerUnchanged
  <2> QED
    BY <2>1, CheckpointWrites
<1>10. CASE Resume
  <2>1. messages' = saved' /\ compactions' = compactions
    BY <1>10 DEF Resume, mishaps
  <2> QED
    BY <2>1, WrittenAll DEF Saved
<1>11. ASSUME NEW c \in Calls, CallArrives(c) PROVE Same
  BY <1>11 DEF CallArrives, midStep
<1> QED
  BY <1>0, <1>1, <1>2, <1>3, <1>4, <1>5, <1>6, <1>7, <1>8, <1>9, <1>10, <1>11 DEF Steps

LEMMA NextSaves ==
  ASSUME Shapes, Placed, Saved, [Next]_vars
  PROVE  Saved'
<1> DEFINE Same == UNCHANGED <<messages, saved, faults, compactions>>
<1>0. Same => Saved'
  BY DEF Saved
<1>1. CASE SubAgentsStep
  BY <1>0, <1>1 DEF SubAgentsStep, loopVars, mishaps
<1>2. ASSUME NEW k \in DOMAIN pool, ToolEnds(k) PROVE Same
  BY <1>2 DEF ToolEnds
<1>3. CASE RequestAbort
  BY <1>0, <1>3 DEF RequestAbort, loopVars, mishaps
<1>4. CASE Die
  BY <1>4 DEF Die, Saved, Written, T!Slots
<1>5. CASE UNCHANGED vars
  BY <1>0, <1>5 DEF vars, mishaps
<1> QED
  BY <1>0, <1>1, <1>2, <1>3, <1>4, <1>5, StepsSave DEF Next

(* A crash costs the step under way at most: what the model was shown in   *)
(* an earlier one is in the checkpoint, if no checkpoint failed and        *)
(* nothing was compacted.                                                  *)
THEOREM CheckpointKept == Spec => []CheckpointCurrent
<1>1. Init => Saved
  BY DEF Init, Saved, Written, T!Slots
<1>2. Shapes /\ Placed /\ Saved /\ [Next]_vars => Saved'
  BY NextSaves
<1>3. Saved => CheckpointCurrent
  BY DEF Saved, Written, CheckpointCurrent
<1> QED
  BY <1>1, <1>2, <1>3, ShapesAlways, PlacedAlways, PTL DEF Spec
=============================================================================
