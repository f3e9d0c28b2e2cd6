----------------------------- MODULE LiveEvents -----------------------------
(***************************************************************************)
(* What people watch while an investigation runs: the events of the bus    *)
(* (core/eventbus.py) that a browser follows (ui/console_api.py), and the  *)
(* status message in Slack, which a worker of its own keeps up to date     *)
(* (server.py).  An event is its investigation and its number.             *)
(*                                                                         *)
(* A delivery copies the list of subscribers and then serves one after the *)
(* other, each put and each get on a queue a step of its own.              *)
(***************************************************************************)
EXTENDS Naturals, Sequences, FiniteSets

CONSTANTS
  Watched,        (* investigations that publish *)
  Browsers,       (* SSE connections *)
  QueueMax,       (* SUBSCRIBER_QUEUE_MAX *)
  MaxEvents,      (* bounds the events of an investigation *)
  MaxBusFaults    (* bounds failed calls of Redis *)

ASSUME LiveEventsAssumption ==
  /\ QueueMax \in Nat \ {0}
  /\ {MaxEvents, MaxBusFaults} \subseteq Nat

VARIABLES
  overRedis,   (* _redis: whether events travel over Redis *)
  published,   (* per investigation, how many events *)
  wire,        (* what Redis has yet to hand to the listener *)
  delivery,    (* per thread that delivers, its event and whom it still serves *)
  subscribed, inbox, shown,   (* per browser: registered, queue, last number shown *)
  drain,       (* the status message: pending text, worker, what Slack shows *)
  busFaults

busVars == <<overRedis, published, wire, delivery, subscribed, inbox, shown, drain, busFaults>>

Deliverers == Watched \cup {"listener"}

NoDelivery == [event |-> <<>>, todo |-> {}, full |-> {}, room |-> FALSE]

StatusInit == [pending |-> 0, busy |-> FALSE, at |-> "idle", text |-> 0, slack |-> 0,
               next |-> 1, over |-> "no"]

BusInit ==
  /\ overRedis \in BOOLEAN
  /\ published = [i \in Watched |-> 0]
  /\ wire = <<>>
  /\ delivery = [d \in Deliverers |-> NoDelivery]
  /\ subscribed = {} /\ inbox = [b \in Browsers |-> <<>>]
  /\ shown = [b \in Browsers |-> [i \in Watched |-> 0]]
  /\ drain = StatusInit
  /\ busFaults = 0

Delivering(d) == delivery[d] # NoDelivery

Serve(d, e) ==
  delivery' = IF subscribed = {} THEN delivery
              ELSE [delivery EXCEPT ![d] = [NoDelivery EXCEPT !.event = e, !.todo = subscribed]]

(* publish.  A call that fails delivers to the browsers of this process.   *)
Publish(i) ==
  LET e == <<i, published[i] + 1>> IN
  /\ ~Delivering(i) /\ published[i] < MaxEvents
  /\ published' = [published EXCEPT ![i] = published[i] + 1]
  /\ \/ overRedis /\ wire' = Append(wire, e) /\ UNCHANGED <<delivery, busFaults>>
     \/ ~overRedis /\ Serve(i, e) /\ UNCHANGED <<wire, busFaults>>
     \/ /\ overRedis /\ busFaults < MaxBusFaults /\ busFaults' = busFaults + 1
        /\ Serve(i, e) /\ UNCHANGED wire
  /\ UNCHANGED <<overRedis, subscribed, inbox, shown, drain>>

(* _listen; what is published while it reconnects is lost. *)
Relay ==
  /\ wire # <<>> /\ ~Delivering("listener")
  /\ wire' = Tail(wire)
  /\ \/ Serve("listener", Head(wire)) /\ UNCHANGED busFaults
     \/ /\ busFaults < MaxBusFaults /\ busFaults' = busFaults + 1
        /\ UNCHANGED delivery
  /\ UNCHANGED <<overRedis, published, subscribed, inbox, shown, drain>>

Served(d, b) ==
  delivery' = [delivery EXCEPT ![d] =
                 IF delivery[d].todo = {b} THEN NoDelivery
                 ELSE [@ EXCEPT !.todo = delivery[d].todo \ {b}, !.full = {}, !.room = FALSE]]

Put(d, b) ==
  /\ b \in delivery[d].todo /\ delivery[d].full = {}
  /\ Len(inbox[b]) < QueueMax
  /\ inbox' = [inbox EXCEPT ![b] = Append(@, delivery[d].event)]
  /\ Served(d, b)
  /\ UNCHANGED <<overRedis, published, wire, subscribed, shown, drain, busFaults>>

FindFull(d, b) ==
  /\ b \in delivery[d].todo /\ delivery[d].full = {}
  /\ Len(inbox[b]) >= QueueMax
  /\ delivery' = [delivery EXCEPT ![d] = [@ EXCEPT !.full = {b}]]
  /\ UNCHANGED <<overRedis, published, wire, subscribed, inbox, shown, drain, busFaults>>

(* Mutant: the event that makes room goes to the end of the queue. *)
RoomRotating(queue) == Append(Tail(queue), Head(queue))

(* drop oldest, keep the stream flowing *)
Room(queue) == Tail(queue)

(* The browser may have emptied its queue by now: that raises, and it is   *)
(* the new event that is dropped.                                          *)
DropOldest(d, b) ==
  /\ delivery[d].full = {b} /\ ~delivery[d].room
  /\ IF inbox[b] = <<>> THEN Served(d, b) /\ UNCHANGED inbox
     ELSE /\ inbox' = [inbox EXCEPT ![b] = Room(@)]
          /\ delivery' = [delivery EXCEPT ![d] = [@ EXCEPT !.room = TRUE]]
  /\ UNCHANGED <<overRedis, published, wire, subscribed, shown, drain, busFaults>>

(* The room may be taken by now: the new event is dropped. *)
PutAgain(d, b) ==
  /\ delivery[d].full = {b} /\ delivery[d].room
  /\ inbox' = IF Len(inbox[b]) < QueueMax
              THEN [inbox EXCEPT ![b] = Append(@, delivery[d].event)] ELSE inbox
  /\ Served(d, b)
  /\ UNCHANGED <<overRedis, published, wire, subscribed, shown, drain, busFaults>>

Subscribe(b) ==
  /\ b \notin subscribed
  /\ subscribed' = subscribed \cup {b}
  /\ inbox' = [inbox EXCEPT ![b] = <<>>]
  /\ shown' = [shown EXCEPT ![b] = [i \in Watched |-> 0]]
  /\ \A d \in Deliverers : b \notin delivery[d].todo   (* a queue is never reused *)
  /\ UNCHANGED <<overRedis, published, wire, delivery, drain, busFaults>>

Unsubscribe(b) ==
  /\ b \in subscribed
  /\ subscribed' = subscribed \ {b}
  /\ UNCHANGED <<overRedis, published, wire, delivery, inbox, shown, drain, busFaults>>

Show(b) ==
  /\ b \in subscribed /\ inbox[b] # <<>>
  /\ inbox' = [inbox EXCEPT ![b] = Tail(@)]
  /\ shown' = [shown EXCEPT ![b] = [@ EXCEPT ![Head(inbox[b])[1]] = Head(inbox[b])[2]]]
  /\ UNCHANGED <<overRedis, published, wire, delivery, subscribed, drain, busFaults>>

-----------------------------------------------------------------------------
(* The status message.  Texts are numbered; final is the last.             *)

Final == MaxEvents + 1

statusOnly == UNCHANGED <<overRedis, published, wire, delivery, subscribed, inbox, shown, busFaults>>

(* _post_status: two statements. *)
SetPending ==
  /\ drain.over = "no" /\ drain.next <= MaxEvents
  /\ drain' = [drain EXCEPT !.pending = drain.next, !.next = drain.next + 1, !.over = "waking"]
  /\ statusOnly

WakeDrain ==
  /\ drain.over = "waking"
  /\ drain' = IF drain.busy THEN [drain EXCEPT !.over = "no"]
              ELSE [drain EXCEPT !.over = "no", !.busy = TRUE, !.at = "reading"]
  /\ statusOnly

(* _drain_status *)
ReadPending ==
  /\ drain.at = "reading"
  /\ drain' = IF drain.pending = 0 THEN [drain EXCEPT !.at = "leaving"]
              ELSE [drain EXCEPT !.at = "clearing", !.text = drain.pending]
  /\ statusOnly

ClearPending ==
  /\ drain.at = "clearing"
  /\ drain' = [drain EXCEPT !.pending = 0, !.at = "updating"]
  /\ statusOnly

UpdateStatus ==
  /\ drain.at = "updating"
  /\ \/ drain' = [drain EXCEPT !.slack = drain.text, !.text = 0, !.at = "reading"]
     \/ drain' = [drain EXCEPT !.text = 0, !.at = "reading"]
  /\ statusOnly

LeaveDrain ==
  /\ drain.at = "leaving"
  /\ drain' = [drain EXCEPT !.busy = FALSE, !.at = "idle"]
  /\ statusOnly

(* The engine is done: nothing is pending any more, ... *)
StopPending ==
  /\ drain.over = "no"
  /\ drain' = [drain EXCEPT !.pending = 0, !.over = "stopping"]
  /\ statusOnly

(* Mutant: shutdown(wait=False). *)
AwaitDrainNot == TRUE

(* ... the worker's last task is awaited, ... *)
AwaitDrain == drain.at = "idle"

(* ... and the final text is posted. *)
FinalStatus ==
  /\ drain.over = "stopping" /\ AwaitDrain
  /\ drain' = [drain EXCEPT !.slack = Final, !.over = "done"]
  /\ statusOnly

BusNext ==
  \/ \E i \in Watched : Publish(i)
  \/ Relay
  \/ \E d \in Deliverers, b \in Browsers :
       Put(d, b) \/ FindFull(d, b) \/ DropOldest(d, b) \/ PutAgain(d, b)
  \/ \E b \in Browsers : Subscribe(b) \/ Unsubscribe(b) \/ Show(b)
  \/ SetPending \/ WakeDrain \/ ReadPending \/ ClearPending \/ UpdateStatus
  \/ LeaveDrain \/ StopPending \/ FinalStatus

BusSpec == BusInit /\ [][BusNext]_busVars
-----------------------------------------------------------------------------
(* "a stale queued update can't overwrite the final state" (server.py).    *)
FinalStatusLast == drain.over = "done" => drain'.slack = drain.slack

(* A browser sees the events of an investigation in the order in which     *)
(* they were published, whatever its full queue lost of them and whoever   *)
(* else publishes meanwhile, as long as no call of Redis failed.           *)
EventsInOrder ==
  \A b \in Browsers, i \in Watched :
    busFaults = 0 /\ b \in subscribed => shown'[b][i] >= shown[b][i]

(* What is shown of a running investigation never goes back in time. *)
NeverBackInTime == [][FinalStatusLast /\ EventsInOrder]_busVars
=============================================================================
