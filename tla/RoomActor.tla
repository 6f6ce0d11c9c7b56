------------------------------ MODULE RoomActor ------------------------------
(***************************************************************************)
(* One room of table-service: the actor that owns the engine state, the    *)
(* turn timer, and the actions that wait for their chain transaction, with *)
(* the part of the app-server's room service that binds a transaction to   *)
(* an action before it queues it.                                          *)
(*                                                                         *)
(* The actor handles one command at a time, so every command is one action *)
(* here.  Commands of different callers reach the queue in any order; a    *)
(* command that was delayed is one that is built from an earlier state, so *)
(* an action may carry any hand and any number up to the current ones.     *)
(***************************************************************************)
EXTENDS PokerEngine, Sequences, SequencesExt

CONSTANTS
    Tx,                 \* transaction hashes
    StepTimeout,        \* DEFAULT_STEP_TIMEOUT, in units of time
    ReminderInterval,   \* TURN_REMINDER_INTERVAL
    QueueCapacity,      \* room of the actor's queue that callbacks may fill
    ActLimit            \* bound: the number of the last action clients submit in a hand

ASSUME TimingAssumption ==
    StepTimeout \in Nat /\ ReminderInterval \in 1 .. StepTimeout - 1
ASSUME QueueAssumption == QueueCapacity \in Nat

VARIABLES
    eng,          \* state: EngineState
    seated, ready, bound, keyed,   \* seats with an address bound, with both keys
    pending,      \* pending_chain_actions: a function on some of Tx
    timer,        \* turn_scheduler, NoTimer for None
    callbacks,    \* ChainTxVerified commands in the actor's queue
    bindings,     \* the tx_bindings table: a function on some of Tx
    submitted,    \* transactions bound by act() but not queued yet
    chain,        \* external: what get_tx says of each transaction
    \* history
    announced,    \* the seat of the last TurnStarted event
    closed,       \* how many HandClosed events each hand had
    funded,       \* how many accepted actions each transaction paid for
    turnAge       \* for how long the current turn has lasted, up to StepTimeout

tableVars == <<seated, ready, bound, keyed>>
chainVars == <<pending, callbacks, bindings, submitted, chain>>
vars == <<eng, tableVars, timer, chainVars, announced, closed, funded, turnAge>>

NoTimer == [handId |-> 0, seq |-> 0, seat |-> NoSeat, age |-> 0, quiet |-> 0]

\* A map after an insert of a key, and after its removal.
With(f, x, v) == [y \in DOMAIN f \cup {x} |-> IF y = x THEN v ELSE f[y]]

Without(f, x) == [y \in DOMAIN f \ {x} |-> f[y]]

Init ==
    /\ eng = NewEngineState
    /\ seated = {} /\ ready = {} /\ bound = {} /\ keyed = {}
    /\ pending = << >> /\ callbacks = << >> /\ bindings = << >> /\ submitted = {}
    /\ chain = [t \in Tx |-> "unknown"]
    /\ timer = NoTimer
    /\ announced = NoSeat
    /\ closed = [h \in 1 .. MaxHands |-> 0]
    /\ funded = [t \in Tx |-> 0]
    /\ turnAge = 0
-----------------------------------------------------------------------------
(***************************************************************************)
(* Seats.                                                                  *)
(***************************************************************************)
Join(s) ==
    /\ seated' = seated \cup {s}
    /\ eng' = [eng EXCEPT !.seated = @ \cup {s}]
    /\ ready' = ready \ {s}
    /\ UNCHANGED <<bound, keyed, timer, chainVars, announced, closed, funded, turnAge>>

\* The engine keeps a seat that left among its seated players.
Leave(s) ==
    /\ seated' = seated \ {s}
    /\ ready' = ready \ {s}
    /\ bound' = bound \ {s}
    /\ UNCHANGED <<eng, keyed, timer, chainVars, announced, closed, funded, turnAge>>

BindAddress(s) ==
    /\ s \in seated
    /\ bound' = bound \cup {s}
    /\ UNCHANGED <<eng, seated, ready, keyed, timer, chainVars,
                   announced, closed, funded, turnAge>>

BindSessionKeys(s) ==
    /\ s \in seated
    /\ keyed' = keyed \cup {s}
    /\ UNCHANGED <<eng, seated, ready, bound, timer, chainVars,
                   announced, closed, funded, turnAge>>

EligibleReady == ready' \cap bound \cap keyed

DealsHandAnyTime == Cardinality(EligibleReady) >= 2 /\ CanDeal(eng)

\* Readiness is never taken back by a deal, so the next Ready of any seat after
\* the hand is over deals again.
DealsHand ==
    /\ eng.acting = NoSeat
    /\ Cardinality(EligibleReady) >= 2
    /\ CanDeal(eng)

Ready(s) ==
    /\ s \in seated
    /\ ready' = ready \cup {s}
    /\ \/ /\ ~DealsHand
          /\ UNCHANGED <<eng, timer, announced, turnAge>>
       \/ /\ DealsHand
          /\ eng.handId < MaxHands
          /\ eng' = Deal(eng)
          /\ announced' = eng'.acting
          /\ timer' = NoTimer
          /\ turnAge' = 0
    /\ UNCHANGED <<seated, bound, keyed, chainVars, closed, funded>>
-----------------------------------------------------------------------------
(***************************************************************************)
(* Actions.  Take is what Act, ChainTxVerified and the timer share:        *)
(* apply_action and, when it succeeds, emit_post_action_hand_events and    *)
(* the end of the turn's timer.                                            *)
(***************************************************************************)
AnnouncesActor(a) == a.seat

\* The TurnStarted event names the seat that is to act after the action.
Announces(a) == IF eng'.acting # NoSeat THEN eng'.acting ELSE announced

Take(a) ==
    /\ eng' = ApplyAction(eng, a)
    /\ IF Accepted(eng, a)
       THEN /\ announced' = Announces(a)
            /\ closed' = IF eng'.status \in {"Settled", "Aborted"}
                         THEN [closed EXCEPT ![eng.handId] = @ + 1] ELSE closed
            /\ timer' = NoTimer
            /\ turnAge' = 0
       ELSE UNCHANGED <<announced, closed, timer, turnAge>>

Act(a) ==
    /\ Take(a)
    /\ UNCHANGED <<tableVars, chainVars, funded>>

\* room_service act() with a tx_hash, first half: the binding is unique per
\* transaction and per (hand_id, action_seq).
BindingFreeByActionOnly(t, a) ==
    \A u \in DOMAIN bindings :
        bindings[u].handId # a.handId \/ bindings[u].seq # a.seq

BindingFree(t, a) ==
    /\ t \notin DOMAIN bindings
    /\ \A u \in DOMAIN bindings :
           bindings[u].handId # a.handId \/ bindings[u].seq # a.seq

InsertTxBinding(t, a) ==
    /\ BindingFree(t, a)
    /\ bindings' = With(bindings, t, a)
    /\ submitted' = submitted \cup {t}
    /\ UNCHANGED <<eng, tableVars, timer, pending, callbacks, chain,
                   announced, closed, funded, turnAge>>

\* Second half, after an await: QueuePendingChainAction looks at nothing.
QueuePending(t) ==
    /\ t \in submitted
    /\ submitted' = submitted \ {t}
    /\ pending' = With(pending, t, bindings[t])
    /\ UNCHANGED <<eng, tableVars, timer, callbacks, bindings, chain,
                   announced, closed, funded, turnAge>>

\* The request is cancelled between the two: the binding stays.
AbandonRequest(t) ==
    /\ t \in submitted
    /\ submitted' = submitted \ {t}
    /\ UNCHANGED <<eng, tableVars, timer, pending, callbacks, bindings, chain,
                   announced, closed, funded, turnAge>>
-----------------------------------------------------------------------------
(***************************************************************************)
(* The chain, and what it says of a transaction.                           *)
(***************************************************************************)
\* The transaction is mined, with or without success, and then confirmed.
ChainStep(t) ==
    /\ \/ chain[t] = "unknown" /\ chain' = [chain EXCEPT ![t] = "mined"]
       \/ chain[t] = "unknown" /\ chain' = [chain EXCEPT ![t] = "failed"]
       \/ chain[t] = "mined" /\ chain' = [chain EXCEPT ![t] = "confirmed"]
    /\ UNCHANGED <<eng, tableVars, timer, pending, callbacks, bindings, submitted,
                   announced, closed, funded, turnAge>>

ForCurrentHandAnyHand(cb) == TRUE

ForCurrentHand(cb) == cb.handId = eng.handId

CallbackAppliesKeepsRefused(cb) ==
    /\ cb.status = "matched"
    /\ ForCurrentHand(cb)
    /\ cb.tx \in DOMAIN pending
    /\ Take(pending[cb.tx])
    /\ IF Accepted(eng, pending[cb.tx])
       THEN /\ funded' = [funded EXCEPT ![cb.tx] = @ + 1]
            /\ pending' = Without(pending, cb.tx)
       ELSE UNCHANGED <<funded, pending>>

\* ChainTxVerified, matched, for a pending action of the current hand.
CallbackApplies(cb) ==
    /\ cb.status = "matched"
    /\ ForCurrentHand(cb)
    /\ cb.tx \in DOMAIN pending
    /\ Take(pending[cb.tx])
    /\ funded' = IF Accepted(eng, pending[cb.tx])
                 THEN [funded EXCEPT ![cb.tx] = @ + 1] ELSE funded
    /\ pending' = Without(pending, cb.tx)

\* ChainTxVerified, failed, for the current hand: the hand is given up.
CallbackAborts(cb) ==
    /\ cb.status = "failed"
    /\ ForCurrentHand(cb)
    /\ eng.status \in {"Running", "Showdown", "Settling"}
    /\ eng' = [eng EXCEPT !.status = "Aborted", !.acting = NoSeat]
    /\ closed' = [closed EXCEPT ![eng.handId] = @ + 1]
    /\ timer' = NoTimer
    /\ turnAge' = 0
    /\ UNCHANGED <<pending, announced, funded>>

\* Any other callback is only recorded.
CallbackIgnored(cb) ==
    /\ \/ ~ForCurrentHand(cb)
       \/ cb.status = "matched" /\ cb.tx \notin DOMAIN pending
       \/ cb.status = "failed" /\ eng.status \notin {"Running", "Showdown", "Settling"}
    /\ UNCHANGED <<eng, pending, timer, announced, closed, funded, turnAge>>

ChainTxVerified ==
    /\ callbacks # << >>
    /\ callbacks' = Tail(callbacks)
    /\ LET cb == Head(callbacks)
       IN  CallbackApplies(cb) \/ CallbackAborts(cb) \/ CallbackIgnored(cb)
    /\ UNCHANGED <<tableVars, bindings, submitted, chain>>

CompletesSettlementAlways == TRUE

CompletesSettlement == eng.status \in {"Showdown", "Settling"}

\* CompleteSettlement of the hand with this id.
CompleteSettlement(h) ==
    /\ h = eng.handId
    /\ CompletesSettlement
    /\ eng' = [eng EXCEPT !.status = "Settled", !.acting = NoSeat]
    /\ closed' = [closed EXCEPT ![h] = @ + 1]
    /\ timer' = NoTimer
    /\ turnAge' = 0
    /\ UNCHANGED <<tableVars, chainVars, announced, funded>>
-----------------------------------------------------------------------------
(***************************************************************************)
(* SchedulerTick: poll the chain for the transactions that pending actions *)
(* wait for, then look at the turn's timer.                                *)
(***************************************************************************)
PollResultsUnconfirmed(answered) ==
    SetToSeqs({[tx |-> t, handId |-> pending[t].handId,
                status |-> IF chain[t] = "failed" THEN "failed" ELSE "matched"] :
               t \in {u \in answered : chain[u] # "unknown"}})

\* The answers of get_tx that make a callback, in the order the map yields them.
PollResults(answered) ==
    SetToSeqs({[tx |-> t, handId |-> pending[t].handId,
                status |-> IF chain[t] = "failed" THEN "failed" ELSE "matched"] :
               t \in {u \in answered : chain[u] \in {"failed", "confirmed"}}})

\* try_send: what does not fit in the queue is lost.
Poll ==
    \E answered \in SUBSET DOMAIN pending : \E results \in PollResults(answered) :
        callbacks' = SubSeq(callbacks \o results, 1,
                            IF Len(callbacks \o results) < QueueCapacity
                            THEN Len(callbacks \o results) ELSE QueueCapacity)

AutoFold ==
    [handId |-> eng.handId, seq |-> eng.seq, seat |-> eng.acting,
     type |-> "Fold", amount |-> NoAmount]

TimerIsForThisTurnBehind ==
    timer.handId = eng.handId /\ timer.seq = eng.seq - 1 /\ timer.seat = eng.acting

TimerIsForThisTurn ==
    timer.handId = eng.handId /\ timer.seq = eng.seq /\ timer.seat = eng.acting

TimedOutAtReminder == timer.age >= ReminderInterval

TimedOut == timer.age >= StepTimeout

\* Nobody is to act.
TickIdle ==
    /\ eng.acting = NoSeat \/ eng.status # "Running"
    /\ timer' = NoTimer
    /\ UNCHANGED <<eng, announced, closed, turnAge>>

TickStartsTimer ==
    /\ eng.acting # NoSeat /\ eng.status = "Running"
    /\ ~TimerIsForThisTurn
    /\ timer' = [handId |-> eng.handId, seq |-> eng.seq, seat |-> eng.acting,
                 age |-> 0, quiet |-> 0]
    /\ UNCHANGED <<eng, announced, closed, turnAge>>

TickFolds ==
    /\ eng.acting # NoSeat /\ eng.status = "Running"
    /\ TimerIsForThisTurn
    /\ TimedOut
    /\ Take(AutoFold)

\* A reminder re-announces the turn.
TickReminds ==
    /\ eng.acting # NoSeat /\ eng.status = "Running"
    /\ TimerIsForThisTurn
    /\ ~TimedOut
    /\ IF timer.quiet >= ReminderInterval
       THEN timer' = [timer EXCEPT !.quiet = 0] /\ announced' = eng.acting
       ELSE UNCHANGED <<timer, announced>>
    /\ UNCHANGED <<eng, closed, turnAge>>

SchedulerTick ==
    /\ Poll
    /\ TickIdle \/ TickStartsTimer \/ TickFolds \/ TickReminds
    /\ UNCHANGED <<tableVars, pending, bindings, submitted, chain, funded>>

\* A unit of time passes.
Capped(n) == IF n < StepTimeout THEN n + 1 ELSE StepTimeout

Elapse ==
    /\ turnAge' = IF eng.status = "Running" THEN Capped(turnAge) ELSE turnAge
    /\ timer' = IF timer = NoTimer THEN timer
                ELSE [timer EXCEPT !.age = Capped(@), !.quiet = Capped(@)]
    /\ UNCHANGED <<eng, tableVars, chainVars, announced, closed, funded>>
-----------------------------------------------------------------------------
(***************************************************************************)
(* The room.                                                               *)
(***************************************************************************)
\* What clients submit without a transaction.  The hand may be an earlier one; a
\* number other than the next one is refused at once and is left out.
Requests(s) ==
    LET now == {eng.seq} \cap 1 .. ActLimit
    IN  [handId : 1 .. eng.handId, seq : now, seat : {s},
         type : {"Fold", "Check", "Call"}, amount : {NoAmount}]
        \cup
        [handId : 1 .. eng.handId, seq : now, seat : {s},
         type : {"RaiseTo", "AllIn"}, amount : Amounts]

\* What clients submit with the transaction that pays for it.  It is current when
\* submitted, and may be anything but current when the chain has confirmed it.
PaidRequests(s) == {a \in Requests(s) : MovesChips(a) /\ a.handId = eng.handId}

ClientActs == \E s \in Seat : \E a \in Requests(s) : Act(a)
ClientPays == \E s \in Seat : \E a \in PaidRequests(s) : \E t \in Tx : InsertTxBinding(t, a)

\* What happens in a room whoever sits there.
Play ==
    \/ \E s \in Seat : Ready(s)
    \/ ClientActs
    \/ ClientPays
    \/ \E t \in Tx : QueuePending(t) \/ AbandonRequest(t) \/ ChainStep(t)
    \/ ChainTxVerified
    \/ \E h \in 1 .. eng.handId : CompleteSettlement(h)
    \/ SchedulerTick
    \/ Elapse

Next ==
    \/ \E s \in Seat : Join(s) \/ Leave(s) \/ BindAddress(s) \/ BindSessionKeys(s)
    \/ Play

Spec == Init /\ [][Next]_vars

\* A tick whose poll gets t's callback into the queue.
TickAnswers(t) ==
    /\ t \in DOMAIN pending
    /\ SchedulerTick
    /\ \E i \in DOMAIN callbacks' : callbacks'[i].tx = t

\* The ticker and the clock go on and the actor handles what is queued.  A node
\* that can be asked answers now and then, and then the queue is not always full.
Fairness ==
    /\ WF_vars(SchedulerTick) /\ WF_vars(Elapse) /\ WF_vars(ChainTxVerified)
    /\ \A t \in Tx : SF_vars(TickAnswers(t))

FairSpec == Spec /\ Fairness
-----------------------------------------------------------------------------
(***************************************************************************)
(* Invariants.                                                             *)
(***************************************************************************)
\* A HandClosed event is published once for a hand that is settled or aborted, by
\* whichever of the last fold, the settlement and a failed transaction closes it
\* first, and never for a hand that is still open.
ClosedExactlyWhenOver ==
    eng.handId > 0 =>
        /\ closed[eng.handId] = IF eng.status \in {"Settled", "Aborted"} THEN 1 ELSE 0
        /\ \A h \in 1 .. MaxHands : closed[h] <= 1

\* The seat that the last TurnStarted event named is the seat the engine waits
\* for, whoever's action, timeout or transaction moved the turn there.
AnnouncedSeatIsToAct == eng.status = "Running" => announced = eng.acting

\* A transaction pays for at most one accepted action, however often it is
\* submitted, polled and called back (insert_tx_binding, ChainTxVerified).
TxFundsOneAction == \A t \in Tx : funded[t] <= 1

\* An action paid for by a transaction is applied only once the chain has confirmed
\* the transaction (the confirmations of the poll in SchedulerTick).
PaidActionIsConfirmed == \A t \in Tx : funded[t] > 0 => chain[t] = "confirmed"

\* A hand is given up only for a failed transaction of that very hand, although
\* the failed transactions of earlier hands stay pending and are polled for ever.
AbortedForItsOwnTx ==
    eng.status = "Aborted" =>
        \E t \in DOMAIN pending : chain[t] = "failed" /\ pending[t].handId = eng.handId
-----------------------------------------------------------------------------
(***************************************************************************)
(* What a step may do.                                                     *)
(***************************************************************************)
\* The timer folds a seat only when its turn has lasted for the whole timeout
\* ("elapsed >= DEFAULT_STEP_TIMEOUT").
NoEarlyFold == [][SchedulerTick /\ eng' # eng => turnAge = StepTimeout]_vars

\* An action paid for by a transaction is applied in the hand it was bound to, for
\* the seat whose turn it is, and never later ("不计入当前手牌底池").
PaidActionInItsTurn ==
    [][\A t \in Tx : funded'[t] # funded[t] =>
        /\ bindings[t].handId = eng.handId
        /\ bindings[t].seq = eng.seq
        /\ bindings[t].seat = eng.acting]_vars

\* The abstract hand of HandLifecycle.
Lifecycle == INSTANCE HandLifecycle WITH hand <- eng.handId, status <- eng.status

\* The room keeps the promise of HandLifecycle: through races of folds, timeouts,
\* failed transactions and late settlements, hands are opened one after the other
\* and a hand that is over is not opened again.
RefinesLifecycle == Lifecycle!Spec
-----------------------------------------------------------------------------
(***************************************************************************)
(* Liveness.                                                               *)
(***************************************************************************)
\* With bounded betting, a hand ends even if its players go silent: the timer
\* folds them one after the other.
HandEnds == eng.status = "Running" ~> eng.status # "Running"

\* An action whose transaction is confirmed while its hand is played leaves the
\* queue of pending actions, also when callbacks were lost to a full queue.
PaidActionIsResolved ==
    \A t \in Tx :
        (t \in DOMAIN pending /\ chain[t] = "confirmed" /\ pending[t].handId = eng.handId)
            ~> (t \notin DOMAIN pending \/ pending[t].handId # eng.handId)
-----------------------------------------------------------------------------
(***************************************************************************)
(* Statements of the repository's documents.                               *)
(***************************************************************************)
\* "对应 `hand_id + action_seq` 仍处于有效窗口": an action is accepted only in the hand
\* it was submitted for (apply_action).
ActionInItsHand ==
    [][\A s \in Seat : \A a \in Requests(s) :
        Act(a) /\ Accepted(eng, a) => a.handId = eng.handId]_vars
=============================================================================
