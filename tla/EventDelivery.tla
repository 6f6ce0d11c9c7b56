--------------------------- MODULE EventDelivery ---------------------------
(***************************************************************************)
(* How an event of a hand travels from the room actor to a subscriber:     *)
(*                                                                         *)
(*   room actor (table-service/src/lib.rs)                                 *)
(*     -> a spawned task per batch (app-server/src/audit_event_sink.rs)    *)
(*     -> tables hands, hand_events, outbox_events (audit-store, migrations)*)
(*     -> the publisher's loop (app-server/src/outbox_publisher.rs)        *)
(*     -> InMemoryEventBus and the pump of a native subscription           *)
(*        (rpc-gateway/src/lib.rs)                                         *)
(*                                                                         *)
(* Any statement sent to the database may fail, MaxFaults times in all,    *)
(* and the process may restart, MaxRestarts times: the tables survive, the *)
(* rest does not.  The client then creates the room again under its id.    *)
(***************************************************************************)
EXTENDS Integers, FiniteSets, Sequences, SequencesExt

CONSTANTS
    Sub,            \* subscribers
    Topic(_),       \* what each subscribes to: "hand.events" or "seat.events"
    BufferCapacity, \* stream_buffer_capacity
    BatchLimit,     \* rows per publisher iteration
    MaxHands, MaxEvents, MaxTasks, MaxFaults, MaxRestarts  \* bounds

VARIABLES
    hand,           \* the room's hand: [id, no]; no restarts with the room
    nextSeq,        \* next_hand_event_seq
    tasks,          \* spawned append tasks: [todo, appended]
    hands,          \* table hands: unique id and unique no
    recorded,       \* table hand_events
    outbox,         \* table outbox_events, in created_at order: [ev, status]
    batch,          \* rows fetched and still to publish
    marking,        \* the first of them is published and not yet marked
    live,           \* live_subscribers of the bus
    chan,           \* the bounded channel of each subscriber
    pump,           \* the subscription's task: "none", "pending", "running"
    owed,           \* history: matching events published since it subscribed
                    \* and not sent to it
    published,      \* history: the rows of the outbox that were published
    emitted, faults, restarts  \* counters for the bounds

room == <<hand, nextSeq>>
tables == <<hands, recorded, outbox>>
publisher == <<batch, marking, published>>
bus == <<live, chan, pump, owed>>
bounds == <<emitted, faults, restarts>>
vars == <<room, tasks, tables, publisher, bus, bounds>>

Init ==
    /\ hand = [id |-> 0, no |-> 0] /\ nextSeq = 1
    /\ tasks = {} /\ hands = {} /\ recorded = {} /\ outbox = << >>
    /\ batch = {} /\ marking = FALSE
    /\ live = {} /\ chan = [s \in Sub |-> << >>] /\ pump = [s \in Sub |-> "none"]
    /\ owed = [s \in Sub |-> << >>] /\ published = {}
    /\ emitted = 0 /\ faults = 0 /\ restarts = 0

Fault == faults < MaxFaults /\ faults' = faults + 1

\* Room under the bounds for n events in k tasks.
WithinBounds(n, k) ==
    /\ emitted + n <= MaxEvents /\ emitted' = emitted + n
    /\ Cardinality(tasks) + k <= MaxTasks
-----------------------------------------------------------------------------
(***************************************************************************)
(* The room actor.  The row of the hand is written before the events are   *)
(* handed to a task, and its failure is only logged.                       *)
(***************************************************************************)
\* upsert_hand_snapshot_row: hand_no is unique in a room.
RowFits(h) == \A r \in hands : r.no = h.no => r.id = h.id

UpsertHand(h) ==
    \/ RowFits(h) /\ hands' = hands \cup {h} /\ UNCHANGED faults
    \/ ~RowFits(h) /\ UNCHANGED <<hands, faults>>
    \/ Fault /\ UNCHANGED hands

new_hand_event(h, seq) == [topic |-> "hand.events", hand |-> h.id, seq |-> seq]

\* The hole cards take the number of the event that follows, without using it up.
HoleCards(h) == [topic |-> "seat.events", hand |-> h.id, seq |-> nextSeq]

Batch(h, n) == [k \in 1 .. n |-> new_hand_event(h, nextSeq + k - 1)]
AppendTask(h, n) == [todo |-> Batch(h, n), appended |-> FALSE]

\* The hole cards have a task of their own and go to the outbox alone.
append_private_events(h) == [todo |-> <<HoleCards(h)>>, appended |-> TRUE]

\* Ready, when it deals: hand_started and turn_started, and the hole cards.
DealHand ==
    LET h == [id |-> hand.id + 1, no |-> hand.no + 1] IN
    /\ h.no <= MaxHands /\ WithinBounds(3, 2)
    /\ hand' = h
    /\ UpsertHand(h)
    /\ nextSeq' = nextSeq + 2
    /\ tasks' = tasks \cup {AppendTask(h, 2), append_private_events(h)}
    /\ UNCHANGED <<recorded, outbox, publisher, bus, restarts>>

\* emit_post_action_hand_events: two events, one more for a new street and one
\* more for a new turn or the end of the hand.
EmitAction(n) ==
    /\ hand.no > 0 /\ WithinBounds(n, 1)
    /\ UpsertHand(hand)
    /\ nextSeq' = nextSeq + n
    /\ tasks' = tasks \cup {AppendTask(hand, n)}
    /\ UNCHANGED <<hand, recorded, outbox, publisher, bus, restarts>>

\* The end of a hand that is aborted or settled, and the reminder of a turn: one
\* event, and the row is left as it is.
EmitAlone ==
    /\ hand.no > 0 /\ WithinBounds(1, 1)
    /\ nextSeq' = nextSeq + 1
    /\ tasks' = tasks \cup {AppendTask(hand, 1)}
    /\ UNCHANGED <<hand, tables, publisher, bus, faults, restarts>>
-----------------------------------------------------------------------------
(***************************************************************************)
(* The spawned tasks, which run in any order.                              *)
(***************************************************************************)
HandRowExists(t) == \E r \in hands : r.id = t.todo[1].hand

\* append_hand_events of the repository: one transaction for the batch, whose
\* rows refer to the row of their hand.  If it fails the task ends.
AppendEvents(t) ==
    /\ t \in tasks /\ ~t.appended
    /\ \/ /\ HandRowExists(t)
          /\ recorded' = recorded \cup ToSet(t.todo)
          /\ tasks' = (tasks \ {t}) \cup {[t EXCEPT !.appended = TRUE]}
          /\ UNCHANGED faults
       \/ /\ ~HandRowExists(t) /\ UNCHANGED faults
          /\ tasks' = tasks \ {t} /\ UNCHANGED recorded
       \/ /\ Fault
          /\ tasks' = tasks \ {t} /\ UNCHANGED recorded
    /\ UNCHANGED <<room, hands, outbox, publisher, bus, emitted, restarts>>

Rest(t) == IF Len(t.todo) > 1 THEN {[t EXCEPT !.todo = Tail(@)]} ELSE {}

\* insert_outbox_event, one statement per event; an event whose statement fails
\* is passed over.
InsertOutbox(t) ==
    /\ t \in tasks /\ t.appended
    /\ \/ /\ outbox' = Append(outbox, [ev |-> Head(t.todo), status |-> "pending"])
          /\ UNCHANGED faults
       \/ Fault /\ UNCHANGED outbox
    /\ tasks' = (tasks \ {t}) \cup Rest(t)
    /\ UNCHANGED <<room, hands, recorded, publisher, bus, emitted, restarts>>
-----------------------------------------------------------------------------
(***************************************************************************)
(* The bus and the publisher's loop.                                       *)
(***************************************************************************)
event_matches(s, ev) == Topic(s) = ev.topic

Matched(ev) == {s \in live : event_matches(s, ev)}

Closed(s) == pump[s] = "none"

\* try_send fails on a full channel and on one whose receiver is gone.
Refused(ev) == {s \in Matched(ev) : Closed(s) \/ Len(chan[s]) = BufferCapacity}
Delivered(ev) == Matched(ev) \ Refused(ev)

PublishSkipsSlow(ev) ==
    /\ chan' = [s \in Sub |-> IF s \in Delivered(ev) THEN Append(chan[s], ev) ELSE chan[s]]
    /\ live' = live
    /\ owed' = [s \in Sub |-> IF s \in Matched(ev) THEN Append(owed[s], ev) ELSE owed[s]]
    /\ UNCHANGED pump

\* publish: a subscriber that cannot take the event is removed.
Publish(ev) ==
    /\ chan' = [s \in Sub |-> IF s \in Delivered(ev) THEN Append(chan[s], ev) ELSE chan[s]]
    /\ live' = live \ Refused(ev)
    /\ owed' = [s \in Sub |-> IF s \in Matched(ev) THEN Append(owed[s], ev) ELSE owed[s]]
    /\ UNCHANGED pump

PendingFirstTry == {k \in DOMAIN outbox : outbox[k].status = "pending" /\ k \notin published}

\* fetch_pending_outbox_events: rows by status, the oldest first.
Pending == {k \in DOMAIN outbox : outbox[k].status = "pending"}
Oldest(rows, n) == {k \in rows : Cardinality({j \in rows : j <= k}) <= n}
IsFirst(k) == k \in batch /\ \A j \in batch : k <= j

\* publish_pending_outbox_once, one record at a time: fetch, and for each record
\* publish and mark.  An error ends the iteration.
Fetch ==
    /\ batch = {} /\ Pending # {}
    /\ batch' = Oldest(Pending, BatchLimit)
    /\ UNCHANGED <<room, tasks, tables, marking, published, bus, bounds>>

\* The topic and the payload of the row; both topics that rows have are known.
to_event_envelope(row) == row.ev

PublishNext ==
    /\ ~marking
    /\ \E k \in batch :
          /\ IsFirst(k)
          /\ Publish(to_event_envelope(outbox[k]))
          /\ published' = published \cup {k}
    /\ marking' = TRUE
    /\ UNCHANGED <<room, tasks, tables, batch, bounds>>

MarkFetchedBatch ==
    /\ marking
    /\ outbox' = [k \in DOMAIN outbox |->
                     IF k \in batch THEN [outbox[k] EXCEPT !.status = "delivered"] ELSE outbox[k]]
    /\ batch' = {k \in batch : ~IsFirst(k)}
    /\ marking' = FALSE
    /\ UNCHANGED <<room, tasks, hands, recorded, published, bus, bounds>>

MarkDelivered ==
    /\ marking
    /\ \/ \E k \in batch :
             /\ IsFirst(k)
             /\ outbox' = [outbox EXCEPT ![k].status = "delivered"]
             /\ batch' = batch \ {k}
             /\ UNCHANGED faults
       \/ Fault /\ batch' = {} /\ UNCHANGED outbox
    /\ marking' = FALSE
    /\ UNCHANGED <<room, tasks, hands, recorded, published, bus, emitted, restarts>>
-----------------------------------------------------------------------------
(***************************************************************************)
(* A native subscription.  The stream is opened before the subscription is *)
(* accepted; if that fails its receiver is dropped but the bus keeps the   *)
(* entry until the next matching event.                                    *)
(***************************************************************************)
subscribe_stream(s) ==
    /\ s \notin live /\ pump[s] = "none"
    /\ live' = live \cup {s}
    /\ chan' = [chan EXCEPT ![s] = << >>]
    /\ pump' = [pump EXCEPT ![s] = "pending"]
    /\ owed' = [owed EXCEPT ![s] = << >>]
    /\ UNCHANGED <<room, tasks, tables, publisher, bounds>>

Hangup(s) ==
    /\ pump' = [pump EXCEPT ![s] = "none"]
    /\ chan' = [chan EXCEPT ![s] = << >>]
    /\ owed' = [owed EXCEPT ![s] = << >>]

Accept(s) ==
    /\ pump[s] = "pending"
    /\ \/ pump' = [pump EXCEPT ![s] = "running"] /\ UNCHANGED <<chan, owed>>
       \/ Hangup(s)
    /\ UNCHANGED <<room, tasks, tables, publisher, live, bounds>>

unsubscribe_stream(s) == live' = live \ {s} /\ Hangup(s)

\* recv and send.  The last branch: the entry is gone and the channel is empty.
PumpEvent(s) ==
    /\ pump[s] = "running"
    /\ \/ /\ chan[s] # << >>
          /\ chan' = [chan EXCEPT ![s] = Tail(@)]
          /\ owed' = [owed EXCEPT ![s] = IF @ # << >> /\ Head(@) = Head(chan[s]) THEN Tail(@) ELSE @]
          /\ UNCHANGED <<live, pump>>
       \/ /\ chan[s] = << >> /\ s \notin live
          /\ unsubscribe_stream(s)
    /\ UNCHANGED <<room, tasks, tables, publisher, bounds>>

\* The client goes away, or sending to it fails.
ClientLeaves(s) ==
    /\ pump[s] = "running"
    /\ unsubscribe_stream(s)
    /\ UNCHANGED <<room, tasks, tables, publisher, bounds>>

Restart ==
    /\ restarts < MaxRestarts
    /\ restarts' = restarts + 1
    /\ hand' = [id |-> hand.id, no |-> 0] /\ nextSeq' = 1
    /\ tasks' = {}
    /\ batch' = {} /\ marking' = FALSE
    /\ live' = {} /\ pump' = [s \in Sub |-> "none"]
    /\ chan' = [s \in Sub |-> << >>] /\ owed' = chan'
    /\ UNCHANGED <<tables, published, emitted, faults>>
-----------------------------------------------------------------------------
TaskStep == \E t \in tasks : AppendEvents(t) \/ InsertOutbox(t)
PublisherStep == Fetch \/ PublishNext \/ MarkDelivered
SubscriptionStep(s) == subscribe_stream(s) \/ Accept(s) \/ PumpEvent(s) \/ ClientLeaves(s)

Next ==
    \/ DealHand
    \/ EmitAlone \/ \E n \in 2 .. 4 : EmitAction(n)
    \/ TaskStep \/ PublisherStep
    \/ \E s \in Sub : SubscriptionStep(s)
    \/ Restart

Spec == Init /\ [][Next]_vars

\* The runtime keeps polling its tasks and the publisher's ticker keeps firing.
FairSpec == Spec /\ WF_vars(PublisherStep) /\ WF_vars(TaskStep)
-----------------------------------------------------------------------------
\* A row is marked delivered only after it was published, whatever fails and
\* whenever the process restarts: publish comes before mark_outbox_event_delivered.
DeliveredWasPublished ==
    \A k \in DOMAIN outbox : outbox[k].status = "delivered" => k \in published

\* As long as the bus keeps a subscriber whose pump runs, that subscriber misses
\* nothing and sees nothing out of publication order: one that cannot keep up is
\* cut off, never skipped.
NoGapWhileLive ==
    \A s \in live : pump[s] # "none" => chan[s] = owed[s]

\* Once the room is quiet, every row of the outbox is published and marked: no
\* failed statement, full batch or restart leaves one behind.
PendingIsDelivered ==
    <>[](\A k \in DOMAIN outbox : outbox[k].status = "delivered")

\* What the documents promise of outbox_events ("in one transaction with the
\* state, so that the push can be recovered"): an event in hand_events whose task
\* is gone has its outbox row.  The two are separate statements of a task that a
\* restart or a failed statement cuts short.
RecordedIsOutboxed ==
    tasks = {} => \A ev \in recorded : \E k \in DOMAIN outbox : outbox[k].ev = ev
=============================================================================
