---------------------------- MODULE ServiceProofs ----------------------------
(***************************************************************************)
(* The two services that work beside the rooms.                            *)
(*                                                                         *)
(* The delivery of events: DeliveredWasPublished and NoGapWhileLive for    *)
(* any subscribers, buffers, batches, faults and restarts.                 *)
(*                                                                         *)
(* The chain watcher: VerdictIsTrue and ToldIsRecorded for any number of   *)
(* concurrent verifications, any retry policy and any number of            *)
(* confirmations.                                                          *)
(***************************************************************************)
EXTENDS EventDelivery, ChainWatch, TLAPS

USE Zenon

Ev == [topic : {"hand.events", "seat.events"}, hand : Nat, seq : Nat]
Hand == [id : Nat, no : Nat]
EventTask == [todo : Seq(Ev), appended : BOOLEAN]
Row == [ev : Ev, status : {"pending", "delivered"}]

\* A task always has an event left.
RoomOK ==
    /\ hand \in Hand /\ nextSeq \in Nat
    /\ tasks \subseteq EventTask /\ \A t \in tasks : t.todo # << >>

OutboxOK ==
    /\ outbox \in Seq(Row)
    /\ batch \subseteq DOMAIN outbox
    \* The record that is about to be marked has been published.
    /\ marking \in BOOLEAN
    /\ marking => \E k \in batch : IsFirst(k) /\ k \in published
    /\ DeliveredWasPublished

BusOK ==
    /\ live \subseteq Sub
    /\ chan \in [Sub -> Seq(Ev)] /\ owed \in [Sub -> Seq(Ev)]
    /\ pump \in [Sub -> {"none", "pending", "running"}]
    /\ NoGapWhileLive

DInv == RoomOK /\ OutboxOK /\ BusOK
-----------------------------------------------------------------------------
(***************************************************************************)
(* The room and its tasks.                                                 *)
(***************************************************************************)
LEMMA TasksOfHand ==
  ASSUME NEW h \in Hand, NEW n \in 1 .. 4, nextSeq \in Nat
  PROVE  /\ AppendTask(h, n) \in EventTask /\ AppendTask(h, n).todo # << >>
         /\ append_private_events(h) \in EventTask /\ append_private_events(h).todo # << >>
  <1> DEFINE b == Batch(h, n)
             c == HoleCards(h)
  <1>1. \A k \in 1 .. n : new_hand_event(h, nextSeq + k - 1) \in Ev
    BY SMT DEF new_hand_event, Ev, Hand
  <1>2. b \in Seq(Ev) /\ b # << >>
    <2>1. b = [k \in 1 .. n |-> new_hand_event(h, nextSeq + k - 1)]
      BY DEF Batch
    <2>2. b \in Seq(Ev) /\ Len(b) = n
      BY <1>1, <2>1, SMT
    <2> QED
      BY <2>2, SMT
  <1>3. c \in Ev
    BY DEF HoleCards, Ev, Hand
  <1> HIDE DEF b, c
  <1>4. [todo |-> b, appended |-> FALSE] \in EventTask
    BY <1>2 DEF EventTask
  <1>5. <<c>> \in Seq(Ev) /\ <<c>> # << >>
    BY <1>3, SMT
  <1>6. [todo |-> <<c>>, appended |-> TRUE] \in EventTask
    BY <1>5 DEF EventTask
  <1>7. AppendTask(h, n) = [todo |-> b, appended |-> FALSE]
        /\ append_private_events(h) = [todo |-> <<c>>, appended |-> TRUE]
    BY DEF AppendTask, append_private_events, b, c
  <1> QED
    BY <1>2, <1>4, <1>5, <1>6, <1>7, SMT

\* The room gives its events to tasks that have something to do.
LEMMA RoomStepsKeepRoom ==
  ASSUME RoomOK, DealHand \/ EmitAlone \/ \E n \in 2 .. 4 : EmitAction(n)
  PROVE  RoomOK' /\ UNCHANGED <<outbox, publisher, bus>>
  <1>1. CASE DealHand
    <2>1. PICK h \in Hand : /\ h = [id |-> hand.id + 1, no |-> hand.no + 1]
                            /\ hand' = h /\ nextSeq' = nextSeq + 2
                            /\ tasks' = tasks \cup {AppendTask(h, 2), append_private_events(h)}
      BY <1>1, SMT DEF DealHand, RoomOK, Hand
    <2>2. UNCHANGED <<outbox, publisher, bus>>
      BY <1>1 DEF DealHand
    <2> QED
      BY <2>1, <2>2, TasksOfHand, SMT DEF RoomOK
  <1>2. ASSUME NEW n \in 1 .. 4,
               hand' = hand /\ nextSeq' = nextSeq + n /\ tasks' = tasks \cup {AppendTask(hand, n)}
        PROVE  RoomOK'
    BY <1>2, TasksOfHand, SMT DEF RoomOK
  <1>3. CASE EmitAlone
    BY <1>2, <1>3, SMT DEF EmitAlone, tables
  <1>4. ASSUME NEW n \in 2 .. 4, EmitAction(n) PROVE RoomOK' /\ UNCHANGED <<outbox, publisher, bus>>
    <2>1. n \in 1 .. 4
      BY SMT
    <2> QED
      BY <1>2, <1>4, <2>1 DEF EmitAction
  <1> QED
    BY <1>1, <1>3, <1>4

\* Writing the events of a task leaves the task as it was, or ends it.
LEMMA AppendKeepsRoom ==
  ASSUME RoomOK, NEW t \in tasks, AppendEvents(t)
  PROVE  RoomOK' /\ UNCHANGED <<outbox, publisher, bus>>
  <1>1. /\ tasks' \subseteq tasks \cup {[t EXCEPT !.appended = TRUE]}
        /\ UNCHANGED <<room, outbox, publisher, bus>>
    BY DEF AppendEvents
  <1>2. [t EXCEPT !.appended = TRUE] \in EventTask /\ [t EXCEPT !.appended = TRUE].todo # << >>
    BY DEF RoomOK, EventTask
  <1> QED
    BY <1>1, <1>2 DEF RoomOK, room

\* What is left of a task, if anything, is a task.
LEMMA RestOfTask ==
  ASSUME NEW t \in EventTask, NEW u \in Rest(t)
  PROVE  u \in EventTask /\ u.todo # << >>
  <1>1. Len(t.todo) > 1 /\ u = [t EXCEPT !.todo = Tail(t.todo)]
    BY DEF Rest
  <1>2. t.todo \in Seq(Ev)
    BY DEF EventTask
  <1>3. PICK r \in Seq(Ev) : r = Tail(t.todo) /\ Len(r) = Len(t.todo) - 1
    <2>1. PICK q \in Seq(Ev) : q = t.todo
      BY <1>2
    <2>2. q # << >>
      BY <1>1, <2>1, SMT
    <2>3. Tail(q) \in Seq(Ev) /\ Len(Tail(q)) = Len(q) - 1
      BY <2>2, SMT
    <2> QED
      BY <2>1, <2>3
  <1>4. Len(r) > 0
    BY <1>1, <1>2, <1>3, SMT
  <1>5. r # << >>
    BY <1>4, SMT
  <1>6. u = [t EXCEPT !.todo = r]
    BY <1>1, <1>3
  <1> QED
    BY <1>5, <1>6 DEF EventTask

\* A row enters the outbox behind the others, and none of them changes.
LEMMA InsertKeeps ==
  ASSUME RoomOK, OutboxOK, NEW t \in tasks, InsertOutbox(t)
  PROVE  RoomOK' /\ OutboxOK' /\ UNCHANGED bus
  <1>1. /\ t \in EventTask /\ t.todo # << >>
        /\ tasks' = (tasks \ {t}) \cup Rest(t)
        /\ UNCHANGED <<hand, nextSeq, batch, marking, published, bus>>
    BY DEF RoomOK, InsertOutbox, room, publisher
  <1>2. RoomOK'
    BY <1>1, RestOfTask DEF RoomOK
  <1>3. PICK r \in Row : /\ r.status = "pending"
                         /\ outbox' = Append(outbox, r) \/ outbox' = outbox
    <2>1. Head(t.todo) \in Ev
      BY <1>1, SMT DEF EventTask
    <2>2. PICK e \in Ev : e = Head(t.todo)
      BY <2>1
    <2>3. [ev |-> e, status |-> "pending"] \in Row
      BY DEF Row
    <2> QED
      BY <2>2, <2>3 DEF InsertOutbox
  <1>4. /\ outbox' \in Seq(Row) /\ DOMAIN outbox \subseteq DOMAIN outbox'
        /\ \A k \in DOMAIN outbox' :
              outbox'[k].status = "delivered" => k \in DOMAIN outbox /\ outbox'[k] = outbox[k]
    <2>1. outbox \in Seq(Row)
      BY DEF OutboxOK
    <2>2. CASE outbox' = Append(outbox, r)
      BY <1>3, <2>1, <2>2, SMT
    <2> QED
      BY <1>3, <2>1, <2>2
  <1>5. OutboxOK'
    BY <1>1, <1>4 DEF OutboxOK, DeliveredWasPublished, IsFirst
  <1> QED
    BY <1>1, <1>2, <1>5
-----------------------------------------------------------------------------
(***************************************************************************)
(* The publisher.                                                          *)
(***************************************************************************)
LEMMA FetchKeepsOutbox ==
  ASSUME OutboxOK, Fetch
  PROVE  OutboxOK'
  <1>1. /\ batch = {} /\ batch' \subseteq DOMAIN outbox
        /\ UNCHANGED <<outbox, marking, published>>
    BY DEF Fetch, Oldest, Pending, tables
  <1> QED
    BY <1>1 DEF OutboxOK, DeliveredWasPublished

\* A subscription that stays live gets every event it is owed.
LEMMA PublishKeepsBus ==
  ASSUME BusOK, NEW ev \in Ev, Publish(ev)
  PROVE  BusOK'
  <1>1. chan' \in [Sub -> Seq(Ev)] /\ owed' \in [Sub -> Seq(Ev)]
    BY SMT DEF BusOK, Publish
  <1>2. live' \subseteq live /\ UNCHANGED pump
    BY DEF Publish
  <1>3. ASSUME NEW s \in live', pump'[s] # "none" PROVE chan'[s] = owed'[s]
    <2>1. s \in live /\ s \in Sub /\ chan[s] = owed[s] /\ s \notin Refused(ev)
      BY <1>2, <1>3 DEF Publish, BusOK, NoGapWhileLive
    <2>2. s \in Matched(ev) <=> s \in Delivered(ev)
      BY <2>1 DEF Delivered
    <2> QED
      BY <2>1, <2>2 DEF Publish
  <1> QED
    BY <1>1, <1>2, <1>3 DEF BusOK, NoGapWhileLive

\* The row about to be marked is the one that was published.
LEMMA PublishNextKeeps ==
  ASSUME OutboxOK, BusOK, PublishNext
  PROVE  OutboxOK' /\ BusOK' /\ UNCHANGED <<room, tasks>>
  <1>1. PICK k \in batch : /\ IsFirst(k) /\ Publish(to_event_envelope(outbox[k]))
                           /\ published' = published \cup {k}
    BY DEF PublishNext
  <1>2. outbox[k].ev \in Ev
    <2>1. outbox \in Seq(Row) /\ k \in DOMAIN outbox
      BY <1>1 DEF OutboxOK
    <2>2. outbox[k] \in Row
      BY <2>1, SMT
    <2> QED
      BY <2>2 DEF Row
  <1>3. marking' = TRUE /\ UNCHANGED <<outbox, batch, room, tasks>>
    BY DEF PublishNext, tables
  <1>4. BusOK'
    BY <1>1, <1>2, PublishKeepsBus DEF to_event_envelope
  <1>5. OutboxOK'
    BY <1>1, <1>3 DEF OutboxOK, DeliveredWasPublished, IsFirst
  <1> QED
    BY <1>3, <1>4, <1>5

\* Only a row that was published is marked as delivered.
LEMMA MarkKeepsOutbox ==
  ASSUME OutboxOK, MarkDelivered
  PROVE  OutboxOK' /\ UNCHANGED <<room, tasks, bus>>
  <1>1. marking /\ marking' = FALSE /\ UNCHANGED <<room, tasks, published, bus>>
    BY DEF MarkDelivered
  <1>2. CASE batch' = {} /\ UNCHANGED outbox
    BY <1>1, <1>2 DEF OutboxOK, DeliveredWasPublished
  <1>3. ASSUME NEW k \in batch, IsFirst(k), batch' = batch \ {k},
               outbox' = [outbox EXCEPT ![k].status = "delivered"]
        PROVE  OutboxOK'
    <2>1. PICK j \in batch : IsFirst(j) /\ j \in published
      BY <1>1 DEF OutboxOK
    <2>2. k \in DOMAIN outbox /\ outbox \in Seq(Row) /\ batch \subseteq DOMAIN outbox
      BY DEF OutboxOK
    <2>3. j = k
      <3>1. j \in Nat /\ k \in Nat
        BY <2>2, SMT
      <3>2. j <= k /\ k <= j
        BY <1>3, <2>1 DEF IsFirst
      <3> QED
        BY <3>1, <3>2, SMT
    <2>4. PICK r \in Row : r = [outbox[k] EXCEPT !.status = "delivered"]
      <3>1. outbox[k] \in Row
        BY <2>2, SMT
      <3> QED
        BY <3>1 DEF Row
    <2>5. outbox' = [outbox EXCEPT ![k] = r]
      BY <1>3, <2>4
    <2>6. outbox' \in Seq(Row) /\ DOMAIN outbox' = DOMAIN outbox
          /\ \A i \in DOMAIN outbox : i # k => outbox'[i] = outbox[i]
      BY <2>2, <2>5, SMT
    <2> QED
      BY <1>1, <1>3, <2>1, <2>2, <2>3, <2>6 DEF OutboxOK, DeliveredWasPublished
  <1> QED
    BY <1>1, <1>2, <1>3 DEF MarkDelivered
-----------------------------------------------------------------------------
(***************************************************************************)
(* Subscriptions.                                                          *)
(***************************************************************************)
LEMMA OneSubscriberMoves ==
  ASSUME BusOK, NEW s \in Sub, NEW c \in Seq(Ev), NEW o \in Seq(Ev),
         NEW p \in {"none", "pending", "running"},
         chan' = [chan EXCEPT ![s] = c], owed' = [owed EXCEPT ![s] = o],
         pump' = [pump EXCEPT ![s] = p],
         live' \subseteq live \cup {s},
         s \in live' /\ p # "none" => c = o
  PROVE  BusOK'
  <1>1. chan' \in [Sub -> Seq(Ev)] /\ chan'[s] = c /\ \A r \in Sub \ {s} : chan'[r] = chan[r]
    BY DEF BusOK
  <1>2. owed' \in [Sub -> Seq(Ev)] /\ owed'[s] = o /\ \A r \in Sub \ {s} : owed'[r] = owed[r]
    BY DEF BusOK
  <1>3. /\ pump' \in [Sub -> {"none", "pending", "running"}]
        /\ pump'[s] = p /\ \A r \in Sub \ {s} : pump'[r] = pump[r]
    BY DEF BusOK
  <1>4. live' \subseteq Sub
    BY DEF BusOK
  <1>5. ASSUME NEW r \in live', pump'[r] # "none" PROVE chan'[r] = owed'[r]
    <2>1. CASE r = s
      BY <1>1, <1>2, <1>3, <1>5, <2>1
    <2>2. CASE r # s
      BY <1>1, <1>2, <1>3, <1>4, <1>5, <2>2 DEF BusOK, NoGapWhileLive
    <2> QED
      BY <2>1, <2>2
  <1> QED
    BY <1>1, <1>2, <1>3, <1>4, <1>5 DEF BusOK, NoGapWhileLive

\* What a subscription does concerns its own queue only.
LEMMA SubscriptionKeepsBus ==
  ASSUME BusOK, NEW s \in Sub, SubscriptionStep(s)
  PROVE  BusOK' /\ UNCHANGED <<room, tasks, outbox, publisher>>
  <1>0. UNCHANGED <<room, tasks, outbox, publisher>>
    BY DEF SubscriptionStep, subscribe_stream, Accept, PumpEvent, ClientLeaves, tables
  <1> SUFFICES BusOK'
    BY <1>0
  <1>t. /\ chan \in [Sub -> Seq(Ev)] /\ owed \in [Sub -> Seq(Ev)]
        /\ pump \in [Sub -> {"none", "pending", "running"}]
        /\ chan[s] \in Seq(Ev) /\ owed[s] \in Seq(Ev) /\ << >> \in Seq(Ev)
    BY SMT DEF BusOK
  <1>1. CASE subscribe_stream(s)
    BY <1>t, <1>1, OneSubscriberMoves DEF subscribe_stream
  <1>2. ASSUME Hangup(s), live' \subseteq live PROVE BusOK'
    BY <1>t, <1>2, OneSubscriberMoves DEF Hangup
  <1>3. CASE Accept(s)
    <2>1. ASSUME pump' = [pump EXCEPT ![s] = "running"], UNCHANGED <<chan, owed, live>>,
                 pump[s] # "none"
          PROVE  BusOK'
      <3>1. chan' = [chan EXCEPT ![s] = chan[s]] /\ owed' = [owed EXCEPT ![s] = owed[s]]
        BY <1>t, <2>1
      <3>2. s \in live' => chan[s] = owed[s]
        BY <2>1 DEF BusOK, NoGapWhileLive
      <3>3. PICK p \in {"none", "pending", "running"} : pump' = [pump EXCEPT ![s] = p]
        BY <2>1
      <3>4. live' \subseteq live \cup {s}
        BY <2>1
      <3> QED
        BY <1>t, <3>1, <3>2, <3>3, <3>4, OneSubscriberMoves
    <2> QED
      BY <1>2, <1>3, <2>1 DEF Accept
  <1>4. CASE ClientLeaves(s)
    <2>1. Hangup(s) /\ live' \subseteq live
      BY <1>4 DEF ClientLeaves, unsubscribe_stream
    <2> QED
      BY <1>2, <2>1
  <1>5. CASE PumpEvent(s)
    <2>1. ASSUME chan[s] # << >>, chan' = [chan EXCEPT ![s] = Tail(@)],
                 owed' = [owed EXCEPT ![s] =
                             IF @ # << >> /\ Head(@) = Head(chan[s]) THEN Tail(@) ELSE @],
                 UNCHANGED <<live, pump>>
          PROVE  BusOK'
      <3>1. PICK c \in Seq(Ev) : c = Tail(chan[s])
        <4>1. \A q \in Seq(Ev) : q # << >> => Tail(q) \in Seq(Ev)
          BY SMT
        <4> QED
          BY <1>t, <2>1, <4>1
      <3>2. PICK o \in Seq(Ev) :
               o = IF owed[s] # << >> /\ Head(owed[s]) = Head(chan[s])
                   THEN Tail(owed[s]) ELSE owed[s]
        <4>1. \A q \in Seq(Ev) : q # << >> => Tail(q) \in Seq(Ev)
          BY SMT
        <4> QED
          BY <1>t, <4>1
      <3>3. chan' = [chan EXCEPT ![s] = c] /\ owed' = [owed EXCEPT ![s] = o]
        BY <2>1, <3>1, <3>2
      <3>4. pump' = [pump EXCEPT ![s] = pump[s]] /\ pump[s] \in {"none", "pending", "running"}
        BY <1>t, <2>1
      <3>5. s \in live' /\ pump[s] # "none" => c = o
        <4>1. s \in live' /\ pump[s] # "none" => chan[s] = owed[s]
          BY <2>1 DEF BusOK, NoGapWhileLive
        <4> QED
          BY <2>1, <3>1, <3>2, <4>1
      <3> QED
        <4>1. PICK p \in {"none", "pending", "running"} : p = pump[s]
          BY <3>4
        <4>2. live' \subseteq live \cup {s}
          BY <2>1
        <4> QED
          BY <3>3, <3>4, <3>5, <4>1, <4>2, OneSubscriberMoves
    <2>2. ASSUME unsubscribe_stream(s) PROVE BusOK'
      BY <1>2, <2>2 DEF unsubscribe_stream
    <2> QED
      BY <1>5, <2>1, <2>2 DEF PumpEvent
  <1> QED
    BY <1>1, <1>3, <1>4, <1>5 DEF SubscriptionStep

\* A restart ends tasks and subscriptions and keeps the rows.
LEMMA RestartKeeps ==
  ASSUME DInv, Restart
  PROVE  DInv'
  <1>1. RoomOK'
    BY DEF DInv, RoomOK, Restart, Hand
  <1>2. OutboxOK'
    BY DEF DInv, OutboxOK, DeliveredWasPublished, Restart, tables
  <1>3. BusOK'
    BY SMT DEF Restart, BusOK, NoGapWhileLive
  <1> QED
    BY <1>1, <1>2, <1>3 DEF DInv
-----------------------------------------------------------------------------
\* The invariant of the delivery of events.
LEMMA DInvHolds == Spec => []DInv
  <1>1. Init => DInv
    <2> SUFFICES ASSUME Init PROVE DInv
      OBVIOUS
    <2>1. RoomOK
      BY DEF Init, RoomOK, Hand
    <2>2. OutboxOK
      <3>1. outbox = << >> /\ batch = {} /\ marking = FALSE
        BY DEF Init
      <3>2. outbox \in Seq(Row) /\ DOMAIN outbox = {}
        BY <3>1, SMT
      <3> QED
        BY <3>1, <3>2 DEF OutboxOK, DeliveredWasPublished
    <2>3. BusOK
      BY SMT DEF Init, BusOK, NoGapWhileLive
    <2> QED
      BY <2>1, <2>2, <2>3 DEF DInv
  <1>2. DInv /\ [Next]_vars => DInv'
    <2> SUFFICES ASSUME DInv, [Next]_vars PROVE DInv'
      OBVIOUS
    <2>1. ASSUME UNCHANGED <<hand, nextSeq, tasks>> PROVE RoomOK'
      BY <2>1 DEF DInv, RoomOK
    <2>2. ASSUME UNCHANGED <<outbox, publisher>> PROVE OutboxOK'
      BY <2>2 DEF DInv, OutboxOK, DeliveredWasPublished, IsFirst, publisher
    <2>3. ASSUME UNCHANGED bus PROVE BusOK'
      BY <2>3 DEF DInv, BusOK, NoGapWhileLive, bus
    <2>4. CASE DealHand \/ EmitAlone \/ \E n \in 2 .. 4 : EmitAction(n)
      BY <2>2, <2>3, <2>4, RoomStepsKeepRoom DEF DInv
    <2>5. ASSUME NEW t \in tasks, AppendEvents(t) PROVE DInv'
      BY <2>2, <2>3, <2>5, AppendKeepsRoom DEF DInv
    <2>6. ASSUME NEW t \in tasks, InsertOutbox(t) PROVE DInv'
      BY <2>3, <2>6, InsertKeeps DEF DInv
    <2>7. CASE Fetch
      BY <2>1, <2>3, <2>7, FetchKeepsOutbox DEF DInv, Fetch, room
    <2>8. CASE PublishNext
      BY <2>1, <2>8, PublishNextKeeps DEF DInv, room
    <2>9. CASE MarkDelivered
      BY <2>1, <2>3, <2>9, MarkKeepsOutbox DEF DInv, room
    <2>10. ASSUME NEW s \in Sub, SubscriptionStep(s) PROVE DInv'
      BY <2>1, <2>2, <2>10, SubscriptionKeepsBus DEF DInv, room
    <2>11. CASE Restart
      BY <2>11, RestartKeeps
    <2>12. CASE UNCHANGED vars
      BY <2>1, <2>2, <2>3, <2>12 DEF vars, room, tables, DInv
    <2> QED
      BY <2>4, <2>5, <2>6, <2>7, <2>8, <2>9, <2>10, <2>11, <2>12
      DEF Next, TaskStep, PublisherStep
  <1> QED
    BY <1>1, <1>2, PTL DEF Spec

\* For any batch, faults and restarts: publish_pending_outbox_once marks the record
\* that it has just published, so nothing is marked delivered unpublished.
THEOREM MarkedRowsArePublished == Spec => []DeliveredWasPublished
  <1>1. DInv => DeliveredWasPublished
    BY DEF DInv, OutboxOK
  <1> QED
    BY <1>1, DInvHolds, PTL

\* For any subscribers and buffers: publish takes a subscriber off the bus with the
\* first event that it cannot take, so one that is on the bus has them all.
THEOREM LiveSubscribersMissNothing == Spec => []NoGapWhileLive
  <1>1. DInv => NoGapWhileLive
    BY DEF DInv, BusOK
  <1> QED
    BY <1>1, DInvHolds, PTL
-----------------------------------------------------------------------------
(***************************************************************************)
(* The chain watcher.                                                      *)
(*                                                                         *)
(* VerdictIsTrue is not inductive: it says nothing of a verification that  *)
(* is still reading.  The strengthening relates what each call has read so *)
(* far to the chain as it is now: a block number that was read is still    *)
(* the transaction's, and an outcome that was read is its outcome.         *)
(***************************************************************************)
Stage == {"idle", "tx", "receipt", "block", "store", "audit", "credit", "tell"}
TaskType == [at : Stage, input : Input, attempt : Nat, block : Nat, ok : BOOLEAN,
             status : Status]
TxType == [found : BOOLEAN, block : Nat, ok : BOOLEAN]

ChainOK ==
    /\ height \in Nat
    /\ tx \in TxType
    /\ tx.block <= height
    /\ tx.block = 0 => tx.ok

\* What the calls of a verification have read is so.
ReadOK(t) ==
    /\ t.at \in {"idle", "tx", "receipt"} => t.ok
    /\ t.at \in {"receipt", "block"} => t.block \in {0, tx.block}
    /\ t.at = "block" => /\ t.block # 0 => t.ok = tx.ok
                         /\ ~t.ok => tx.block # 0 /\ ~tx.ok

Reported(t) == t.at \in {"store", "audit", "credit", "tell"}

TaskOK(t) == ReadOK(t) /\ (Reported(t) => Truthful(t))

VInv ==
    /\ ChainOK
    /\ task \in [Task -> TaskType]
    /\ \A w \in Task : TaskOK(task[w])
-----------------------------------------------------------------------------
\* The idle verification task is as it should be.
LEMMA IdleOK == Idle \in TaskType /\ TaskOK(Idle)
  BY
  DEF Idle, TaskType, Stage, Input, Status, TaskOK, ReadOK, Reported,
      Truthful

\* A step that leaves the chain alone and sets one verification to t keeps the
\* invariant if t is in order.
LEMMA OneTaskMoves ==
  ASSUME VInv, UNCHANGED chainVars, NEW w \in Task, NEW t \in TaskType, TaskOK(t),
         task' = [task EXCEPT ![w] = t]
  PROVE  VInv'
  <1>1. ChainOK'
    BY DEF VInv, ChainOK, chainVars
  <1>2. task' \in [Task -> TaskType]
    BY DEF VInv
  <1>3. ASSUME NEW v \in Task PROVE TaskOK(task[v])'
    <2>1. TaskOK(task'[v])
      BY DEF VInv
    <2> QED
      BY <2>1
      DEF TaskOK, ReadOK, Reported, Truthful, Confirmed, Confirmations,
          chainVars
  <1> QED
    BY <1>1, <1>2, <1>3 DEF VInv

\* A transaction that is mined remains a transaction, now of that block.
LEMMA MinedTx ==
  ASSUME NEW x \in TxType, NEW b \in Nat, NEW ok \in BOOLEAN
  PROVE  /\ [x EXCEPT !.block = b, !.ok = ok] \in TxType
         /\ [x EXCEPT !.block = b, !.ok = ok].block = b
  BY DEF TxType

\* The chain only goes on: what was read of it, and what was said, stays so.
LEMMA ChainGoesOn ==
  ASSUME VInv, SendTx \/ AddBlock
  PROVE  VInv'
  <1>0. height \in Nat /\ tx \in TxType /\ tx.block <= height /\ (tx.block = 0 => tx.ok)
    BY DEF VInv, ChainOK
  <1> DEFINE Onward == /\ height' \in Nat /\ height' >= height
                       /\ tx' \in TxType
                       /\ \/ tx'.block = tx.block /\ tx'.ok = tx.ok
                          \/ tx.block = 0 /\ tx'.block = height' /\ height' # 0
  <1>a. Onward
    <2>1. CASE SendTx
      <3> DEFINE y == [tx EXCEPT !.found = TRUE]
      <3>1. y \in TxType /\ y.block = tx.block /\ y.ok = tx.ok
        BY <1>0 DEF TxType
      <3>2. tx' = y /\ height' = height
        BY <2>1 DEF SendTx
      <3> HIDE DEF y
      <3> QED
        BY <1>0, <3>1, <3>2, SMT
    <2>2. ASSUME AddBlock, UNCHANGED tx
          PROVE  Onward
      BY <1>0, <2>2, SMT DEF AddBlock
    <2>3. ASSUME NEW ok \in BOOLEAN, tx.block = 0, height' = height + 1,
                 tx' = [tx EXCEPT !.block = height', !.ok = ok]
          PROVE  Onward
      <3> DEFINE y == [tx EXCEPT !.block = height + 1, !.ok = ok]
      <3>1. y \in TxType /\ y.block = height + 1
        <4>1. height + 1 \in Nat /\ tx \in TxType /\ ok \in BOOLEAN
          BY <1>0, <2>3, SMT
        <4> QED
          BY <4>1, MinedTx, Zenon
      <3>2. tx' = y
        BY <2>3
      <3> HIDE DEF y
      <3> QED
        BY <1>0, <2>3, <3>1, <3>2, SMT
    <2> QED
      BY <2>1, <2>2, <2>3 DEF AddBlock
  <1>1. ChainOK'
    BY <1>0, <1>a, SMT DEF ChainOK, TxType
  <1>2. /\ height' >= height /\ height' \in Nat /\ height \in Nat
        /\ tx.block \in Nat /\ tx'.block \in Nat
        /\ tx.block # 0 => tx'.block = tx.block /\ tx'.ok = tx.ok
        /\ tx.block <= height
        /\ tx.block = 0 => tx.ok
    <2>1. tx.block \in Nat /\ tx'.block \in Nat
      BY <1>0, <1>a DEF TxType
    <2> QED
      BY <1>0, <1>a, <2>1, Zenon
  <1>3. task' = task
    BY DEF SendTx, AddBlock
  <1>4. Confirmed => Confirmed'
    <2> SUFFICES ASSUME Confirmed PROVE Confirmed'
      OBVIOUS
    <2>1. tx.block # 0 /\ tx.ok /\ height - tx.block + 1 >= MinConfirmations
      BY <1>2, WatchAssumption, SMT DEF Confirmed, Confirmations, WatchAssumption
    <2>2. tx'.block = tx.block /\ tx'.ok = tx.ok
      BY <1>2, <2>1
    <2> QED
      BY <1>2, <2>1, <2>2, WatchAssumption, SMT DEF Confirmed, Confirmations, WatchAssumption
  <1>5. ASSUME NEW v \in Task PROVE TaskOK(task[v])'
    <2>1. task[v] \in TaskType /\ TaskOK(task[v]) /\ task'[v] = task[v]
      BY <1>3 DEF VInv
    <2>2. ReadOK(task[v])'
      BY <2>1, <1>2 DEF TaskOK, ReadOK, TaskType
    <2>3. Reported(task[v])' => Truthful(task[v])'
      BY <2>1, <1>2, <1>4 DEF TaskOK, Reported, Truthful
    <2> QED
      BY <2>2, <2>3 DEF TaskOK
  <1> QED
    BY <1>1, <1>3, <1>5 DEF VInv

\* Verify, and the first two calls.
LEMMA CallsRead ==
  ASSUME VInv, NEW w \in Task,
         \/ \E i \in Input : Verify(w, i)
         \/ eth_getTransactionByHash(w)
         \/ eth_getTransactionReceipt(w)
  PROVE  VInv'
  <1> DEFINE t == task[w]
  <1>0. t \in TaskType /\ TaskOK(t) /\ tx \in TxType /\ (tx.block = 0 => tx.ok)
    BY DEF VInv, ChainOK
  <1>1. CASE Ends(w) /\ SinkIdle
    BY <1>1, IdleOK, OneTaskMoves DEF Ends, SinkIdle, chainVars
  <1>2. ASSUME NEW i \in Input, Verify(w, i) PROVE VInv'
    <2> DEFINE u == [Idle EXCEPT !.at = "tx", !.input = i]
    <2>1. u \in TaskType /\ TaskOK(u)
      BY DEF Idle, TaskType, Stage, Status, TaskOK, ReadOK, Reported
    <2>2. task' = [task EXCEPT ![w] = u] /\ UNCHANGED chainVars
      BY <1>2 DEF Verify
    <2> HIDE DEF u
    <2> QED
      BY <2>1, <2>2, OneTaskMoves
  <1>3. CASE t.at = "tx" /\ NotFound(w) /\ SinkIdle
    <2> DEFINE again == [t EXCEPT !.attempt = @ + 1]
               gives_up == Reports(t.input, "pending")
               u == IF t.attempt + 1 < MaxAttempts THEN again ELSE gives_up
    <2>a. again \in TaskType /\ TaskOK(again)
      BY <1>0, <1>3, SMT DEF TaskType, TaskOK, ReadOK, Reported
    <2>b. gives_up \in TaskType /\ TaskOK(gives_up)
      BY <1>0
      DEF Reports, Idle, TaskType, Stage, Status, TaskOK, ReadOK,
          Truthful
    <2>1. u \in TaskType /\ TaskOK(u)
      BY <2>a, <2>b
    <2>2. task' = [task EXCEPT ![w] = u] /\ UNCHANGED chainVars
      BY <1>3 DEF NotFound, SinkIdle, chainVars, VInv
    <2> HIDE DEF u
    <2> QED
      BY <2>1, <2>2, OneTaskMoves
  <1>4. CASE /\ t.at = "tx" /\ SinkIdle
             /\ task' = [task EXCEPT ![w] = [@ EXCEPT !.at = "receipt", !.block = tx.block]]
    <2> DEFINE u == [t EXCEPT !.at = "receipt", !.block = tx.block]
    <2>1. u \in TaskType /\ TaskOK(u)
      BY <1>0, <1>4 DEF TaskType, TxType, Stage, TaskOK, ReadOK, Reported
    <2>2. task' = [task EXCEPT ![w] = u] /\ UNCHANGED chainVars
      BY <1>4 DEF SinkIdle, VInv
    <2> HIDE DEF u
    <2> QED
      BY <2>1, <2>2, OneTaskMoves
  <1>5. CASE t.at = "receipt" /\ SinkIdle /\ tx.block # 0
             /\ task' = [task EXCEPT ![w] = [@ EXCEPT !.at = "block", !.ok = tx.ok]]
    <2> DEFINE u == [t EXCEPT !.at = "block", !.ok = tx.ok]
    <2>1. u \in TaskType /\ TaskOK(u)
      BY <1>0, <1>5 DEF TaskType, TxType, Stage, TaskOK, ReadOK, Reported
    <2>2. task' = [task EXCEPT ![w] = u] /\ UNCHANGED chainVars
      BY <1>5 DEF SinkIdle, VInv
    <2> HIDE DEF u
    <2> QED
      BY <2>1, <2>2, OneTaskMoves
  <1>6. CASE t.at = "receipt" /\ SinkIdle /\ tx.block = 0
             /\ task' = [task EXCEPT ![w] = [@ EXCEPT !.at = "block"]]
    <2> DEFINE u == [t EXCEPT !.at = "block"]
    <2>1. u \in TaskType /\ TaskOK(u)
      BY <1>0, <1>6 DEF TaskType, TxType, Stage, TaskOK, ReadOK, Reported
    <2>2. task' = [task EXCEPT ![w] = u] /\ UNCHANGED chainVars
      BY <1>6 DEF SinkIdle, VInv
    <2> HIDE DEF u
    <2> QED
      BY <2>1, <2>2, OneTaskMoves
  <1> QED
    BY <1>1, <1>2, <1>3, <1>4, <1>5, <1>6
    DEF eth_getTransactionByHash, eth_getTransactionReceipt, null_result

\* The block number is the last call; with it the verdict.
LEMMA VerdictIsReached ==
  ASSUME VInv, NEW w \in Task, eth_blockNumber(w)
  PROVE  VInv'
  <1> DEFINE t == task[w]
             u == Reports(t.input, classify_tx_verification(t))
  <1>1. /\ t \in TaskType /\ ReadOK(t) /\ t.at = "block"
        /\ height \in Nat /\ tx \in TxType /\ (tx.block = 0 => tx.ok)
    BY DEF VInv, ChainOK, TaskOK, eth_blockNumber
  <1>2. classify_tx_verification(t) \in Status
    BY DEF classify_tx_verification, Status
  <1>3. /\ u.at = "store" /\ u.input = t.input
        /\ u.status = classify_tx_verification(t)
    BY DEF Reports, Idle
  <1>4. u \in TaskType
    BY <1>1, <1>2 DEF Reports, Idle, TaskType, Stage
  <1>5. t.input.differs \in {"none", "hash", "fields"} /\ t.input.bound \in BOOLEAN
        /\ t.ok \in BOOLEAN /\ tx.ok \in BOOLEAN /\ t.block \in Nat /\ tx.block \in Nat
    BY <1>1 DEF TaskType, Input, TxType
  <1>6. evaluate_confirmations(t.block) => t.block = tx.block /\ t.block # 0
    BY <1>1, <1>5, WatchAssumption, SMT
    DEF ReadOK, evaluate_confirmations, Confirmations, WatchAssumption
  <1>7. evaluate_confirmations(t.block) /\ t.ok => Confirmed
    BY <1>1, <1>5, <1>6 DEF ReadOK, evaluate_confirmations, Confirmed
  <1>8. Truthful(u)
    BY <1>1, <1>3, <1>5, <1>7
    DEF Truthful, classify_tx_verification, check_tx_status_and_identity,
        check_tx_fields, ReadOK
  <1>9. task' = [task EXCEPT ![w] = u] /\ UNCHANGED chainVars
    BY DEF eth_blockNumber, SinkIdle, VInv
  <1>10. TaskOK(u)
    BY <1>3, <1>8 DEF TaskOK, ReadOK, Reported
  <1> HIDE DEF u
  <1> QED
    BY <1>4, <1>9, <1>10, OneTaskMoves

\* The steps of the sink pass the verdict on as it is.
LEMMA SinkPassesOn ==
  ASSUME VInv, NEW w \in Task, NEW at \in {"audit", "credit", "tell"},
         Reported(task[w]), Goto(w, at), UNCHANGED chainVars
  PROVE  VInv'
  <1> DEFINE u == [task[w] EXCEPT !.at = at]
  <1>1. task[w] \in TaskType /\ TaskOK(task[w])
    BY DEF VInv
  <1>2. u \in TaskType /\ TaskOK(u)
    BY <1>1 DEF TaskType, Stage, TaskOK, ReadOK, Reported, Truthful
  <1>3. task' = [task EXCEPT ![w] = u]
    BY DEF Goto, VInv
  <1> HIDE DEF u
  <1> QED
    BY <1>2, <1>3, OneTaskMoves

\* The invariant of the verification of deposits.
LEMMA VInvHolds == WatchSpec => []VInv
  <1>1. WatchInit => VInv
    BY IdleOK, SMT DEF WatchInit, VInv, ChainOK, Absent, TxType
  <1>2. VInv /\ [WatchNext]_watchVars => VInv'
    <2> SUFFICES ASSUME VInv, [WatchNext]_watchVars PROVE VInv'
      OBVIOUS
    <2>1. CASE SendTx \/ AddBlock
      BY <2>1, ChainGoesOn
    <2>2. ASSUME NEW w \in Task,
                 \/ \E i \in Input : Verify(w, i)
                 \/ eth_getTransactionByHash(w)
                 \/ eth_getTransactionReceipt(w)
          PROVE  VInv'
      BY <2>2, CallsRead
    <2>3. ASSUME NEW w \in Task, eth_blockNumber(w) PROVE VInv'
      BY <2>3, VerdictIsReached
    <2>4. ASSUME NEW w \in Task,
                 \/ upsert_tx_verification(w)
                 \/ insert_behavior_event(w)
                 \/ upsert_exception_credit(w)
          PROVE  VInv'
      <3>1. Reported(task[w]) /\ UNCHANGED chainVars
        BY <2>4
        DEF upsert_tx_verification, insert_behavior_event,
            upsert_exception_credit, Reported
      <3>2. \E at \in {"audit", "credit", "tell"} : Goto(w, at)
        BY <2>4
        DEF upsert_tx_verification, insert_behavior_event,
            upsert_exception_credit
      <3> QED
        BY <3>1, <3>2, SinkPassesOn
    <2>5. ASSUME NEW w \in Task, chain_tx_verified(w) \/ CallFails(w)
          PROVE  VInv'
      BY <2>5, IdleOK, OneTaskMoves DEF chain_tx_verified, CallFails, Ends
    <2>6. CASE UNCHANGED watchVars
      <3>1. ASSUME NEW v \in Task PROVE TaskOK(task[v])'
        BY <2>6
        DEF watchVars, chainVars, VInv, TaskOK, ReadOK, Reported, Truthful,
            Confirmed, Confirmations
      <3> QED
        BY <2>6, <3>1 DEF watchVars, chainVars, VInv, ChainOK
    <2> QED
      BY <2>1, <2>2, <2>3, <2>4, <2>5, <2>6 DEF WatchNext
  <1> QED
    BY <1>1, <1>2, PTL DEF WatchSpec

\* Whatever the chain does between the three calls of a verification, and however
\* many verifications run at once, what classify_tx_verification reports is so on
\* the chain, and stays so while the verdict is passed on.
THEOREM VerdictsAreTrue == WatchSpec => []VerdictIsTrue
  <1>1. VInv => VerdictIsTrue
    BY DEF VInv, TaskOK, Reported, VerdictIsTrue
  <1> QED
    BY <1>1, VInvHolds, PTL
-----------------------------------------------------------------------------
\* The rows an earlier step of the sink has written.
SinkOK(t) ==
    /\ t.at \in {"audit", "credit", "tell"} => stored # "none"
    /\ t.at = "tell" /\ Credited(t.status) => credit # "none"

SInv == VInv /\ \A w \in Task : SinkOK(task[w])

\* The room is told of a transaction only after its row was stored and a credit,
\* where one is due, opened: on_verification_result ends at the first call that fails.
THEOREM ToldIsAlwaysRecorded == WatchSpec => []ToldIsRecorded
  <1>1. WatchInit => \A w \in Task : SinkOK(task[w])
    <2>1. SinkOK(Idle)
      <3>1. Idle.at = "idle"
        BY DEF Idle
      <3> QED
        BY <3>1, Zenon DEF SinkOK
    <2> QED
      BY <2>1 DEF WatchInit
  <1>2. SInv /\ [WatchNext]_watchVars => (\A w \in Task : SinkOK(task[w]))'
    <2> SUFFICES ASSUME SInv, [WatchNext]_watchVars, NEW v \in Task PROVE SinkOK(task[v])'
      OBVIOUS
    <2>0. /\ task \in [Task -> TaskType] /\ SinkOK(task[v])
          /\ task[v] \in TaskType /\ \A w \in Task : task[w].status \in Status
      BY DEF SInv, VInv, TaskType
    <2>1. CASE UNCHANGED <<task, stored, credit>>
      BY <2>0, <2>1 DEF SinkOK
    <2>2. ASSUME NEW w \in Task, NEW t,
                 task' = [task EXCEPT ![w] = t], t.at \notin {"audit", "credit", "tell"},
                 UNCHANGED <<stored, credit>>
          PROVE  SinkOK(task[v])'
      BY <2>0, <2>2 DEF SinkOK
    <2>3. ASSUME NEW w \in Task, \E i \in Input : Verify(w, i)
          PROVE  SinkOK(task[v])'
      BY <2>0, <2>3, SMT DEF SinkOK, Verify, Idle
    <2>4. ASSUME NEW w \in Task,
                 \/ eth_getTransactionByHash(w)
                 \/ eth_getTransactionReceipt(w)
                 \/ eth_blockNumber(w)
                 \/ chain_tx_verified(w)
                 \/ CallFails(w)
          PROVE  SinkOK(task[v])'
      <3>1. /\ UNCHANGED <<stored, credit>>
            /\ v = w => task'[v].at \notin {"audit", "credit", "tell"}
            /\ v # w => task'[v] = task[v]
        <4>1. Idle.at = "idle" /\ \A i, s : Reports(i, s).at = "store"
          BY DEF Idle, Reports
        <4>2. CASE eth_getTransactionByHash(w)
          <5> DEFINE t == task[w]
          <5>1. /\ [t EXCEPT !.at = "receipt", !.block = tx.block].at = "receipt"
                /\ [t EXCEPT !.attempt = @ + 1].at = t.at
                /\ t.at = "tx"
            BY <2>0, <4>2 DEF TaskType, eth_getTransactionByHash
          <5>2. CASE tx.found
            BY <2>0, <4>2, <5>1, <5>2 DEF eth_getTransactionByHash, SinkIdle
          <5>3. CASE Ends(w) /\ SinkIdle
            BY <2>0, <4>1, <5>3 DEF Ends, SinkIdle
          <5>4. CASE NotFound(w) /\ SinkIdle
            BY <2>0, <4>1, <5>1, <5>4 DEF NotFound, SinkIdle
          <5> QED
            BY <4>2, <5>2, <5>3, <5>4 DEF eth_getTransactionByHash, null_result
        <4>3. CASE eth_getTransactionReceipt(w)
          <5>1. /\ [task[w] EXCEPT !.at = "block", !.ok = tx.ok].at = "block"
                /\ [task[w] EXCEPT !.at = "block"].at = "block"
            BY <2>0 DEF TaskType
          <5>2. CASE tx.block # 0
            BY <2>0, <4>3, <5>1, <5>2 DEF eth_getTransactionReceipt, SinkIdle
          <5>3. CASE Ends(w) /\ SinkIdle
            BY <2>0, <4>1, <5>3 DEF Ends, SinkIdle
          <5>4. CASE SinkIdle /\ task' = [task EXCEPT ![w] = [@ EXCEPT !.at = "block"]]
            BY <2>0, <5>1, <5>4 DEF SinkIdle
          <5> QED
            BY <4>3, <5>2, <5>3, <5>4 DEF eth_getTransactionReceipt, null_result
        <4>4. CASE eth_blockNumber(w)
          BY <2>0, <4>1, <4>4 DEF eth_blockNumber, SinkIdle
        <4>5. CASE chain_tx_verified(w) \/ CallFails(w)
          BY <2>0, <4>1, <4>5 DEF chain_tx_verified, CallFails, Ends
        <4> QED
          BY <2>4, <4>2, <4>3, <4>4, <4>5
      <3> QED
        BY <2>0, <3>1 DEF SinkOK
    <2>5. ASSUME NEW w \in Task, upsert_tx_verification(w) PROVE SinkOK(task[v])'
      <3>1. /\ stored' \in Status /\ credit' = credit
            /\ v = w => task'[v].at = "audit"
            /\ v # w => task'[v] = task[v]
        BY <2>0, <2>5 DEF upsert_tx_verification, Goto, TaskType
      <3> QED
        BY <2>0, <3>1 DEF SinkOK, Status
    <2>6. ASSUME NEW w \in Task, insert_behavior_event(w) PROVE SinkOK(task[v])'
      <3>1. /\ UNCHANGED <<stored, credit>>
            /\ v = w => /\ task[v].at = "audit"
                       /\ task'[v].status = task[v].status
                       /\ task'[v].at = IF Credited(task[v].status) THEN "credit" ELSE "tell"
            /\ v # w => task'[v] = task[v]
        BY <2>0, <2>6 DEF insert_behavior_event, Goto, TaskType
      <3> QED
        BY <2>0, <3>1 DEF SinkOK
    <2>7. ASSUME NEW w \in Task, upsert_exception_credit(w) PROVE SinkOK(task[v])'
      <3>1. /\ stored' = stored /\ credit' \in Status
            /\ v = w => task[v].at = "credit"
            /\ v # w => task'[v] = task[v]
        BY <2>0, <2>7 DEF upsert_exception_credit, Goto
      <3> QED
        BY <2>0, <3>1 DEF SinkOK, Status
    <2> QED
      BY <2>1, <2>3, <2>4, <2>5, <2>6, <2>7
      DEF WatchNext, watchVars, SendTx, AddBlock
  <1>3. SInv => ToldIsRecorded
    BY DEF SInv, SinkOK, ToldIsRecorded
  <1> QED
    BY <1>1, <1>2, <1>3, VInvHolds, PTL DEF WatchSpec, SInv
==============================================================================
