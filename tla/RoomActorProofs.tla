--------------------------- MODULE RoomActorProofs ---------------------------
(***************************************************************************)
(* The theorems about a room, for any seats, transactions, timeouts,       *)
(* amounts and queue, and any number of hands.                             *)
(***************************************************************************)
EXTENDS RoomActor, PokerEngineProofs, SequenceTheorems, FunctionTheorems

-----------------------------------------------------------------------------
(***************************************************************************)
(* The inductive invariant.                                                *)
(***************************************************************************)
\* Hands are numbered from one, and no operation of the room makes one "Settling".
HandOK ==
    /\ EngineOK(eng)
    /\ eng.handId <= MaxHands
    /\ eng.status = "Created" <=> eng.handId = 0
    /\ eng.status # "Settling"

\* An earlier hand was closed once or never (a deal may follow a showdown), the
\* hand in play as often as it is over, a later one not yet.
ClosedOK ==
    /\ closed \in [1 .. MaxHands -> {0, 1}]
    /\ eng.handId > 0 =>
           (closed[eng.handId] = 1 <=> eng.status \in {"Settled", "Aborted"})
    /\ \A h \in 1 .. MaxHands : h > eng.handId => closed[h] = 0

\* A timer runs only in a running hand, and is never older than the turn.
TurnOK ==
    /\ eng.status = "Running" => announced = eng.acting
    /\ turnAge \in 0 .. StepTimeout
    /\ timer \in [handId : Nat, seq : Nat, seat : Seat \cup {NoSeat}, age : Nat, quiet : Nat]
    /\ timer # NoTimer => eng.status = "Running"
    /\ timer.age <= turnAge

\* A transaction is bound, then submitted, pending, and gone when it has paid: it
\* never comes back to an earlier one of these.
BindingOK ==
    /\ DOMAIN bindings \subseteq Tx
    /\ \A t \in DOMAIN bindings : bindings[t] \in PlayerAction
    /\ DOMAIN pending \subseteq DOMAIN bindings
    /\ \A t \in DOMAIN pending : pending[t] = bindings[t]
    /\ IsFiniteSet(DOMAIN pending)
    /\ submitted \subseteq DOMAIN bindings \ DOMAIN pending
    /\ chain \in [Tx -> {"unknown", "mined", "failed", "confirmed"}]
    /\ funded \in [Tx -> {0, 1}]
    /\ \A t \in Tx : funded[t] = 1 =>
           /\ chain[t] = "confirmed"
           /\ t \in DOMAIN bindings
           /\ t \notin submitted \cup DOMAIN pending

\* A callback of the queue says what the chain said, which is final, of the hand
\* the transaction is bound to; a failed transaction stays pending.
CallbackOK(cb) ==
    /\ cb.tx \in DOMAIN bindings
    /\ cb.handId = bindings[cb.tx].handId
    /\ cb.status = "matched" => chain[cb.tx] = "confirmed"
    /\ cb.status = "failed" => chain[cb.tx] = "failed" /\ cb.tx \in DOMAIN pending

Callback == [tx : Tx, handId : Nat, status : {"matched", "failed"}]

QueueOK ==
    /\ callbacks \in Seq(Callback)
    /\ \A i \in 1 .. Len(callbacks) : CallbackOK(callbacks[i])

IInv ==
    /\ HandOK
    /\ ClosedOK
    /\ TurnOK
    /\ BindingOK
    /\ QueueOK
    /\ AbortedForItsOwnTx
-----------------------------------------------------------------------------
(***************************************************************************)
(* What clients submit.                                                    *)
(***************************************************************************)
\* Clients submit well-formed actions.
LEMMA RequestsTyped ==
    ASSUME EngineOK(eng), NEW s \in Seat, NEW a \in Requests(s)
    PROVE  a \in PlayerAction
<1>1. /\ a = [handId |-> a.handId, seq |-> a.seq, seat |-> a.seat,
               type |-> a.type, amount |-> a.amount]
      /\ a.handId \in 1 .. eng.handId /\ a.seq = eng.seq /\ a.seat = s
      /\ a.type \in ActionType /\ a.amount \in {NoAmount} \cup Amounts
  BY DEF Requests, ActionType
<1>2. eng.handId \in Nat /\ eng.seq \in Nat
  BY DEF EngineOK, EngineState
<1>3. {NoAmount} \cup Amounts \subseteq Chips
  <2>1. 0 \in 0 .. MaxChips /\ \A x \in 1 .. MaxChips : x \in 0 .. MaxChips
    BY ChipsAssumption, SMT
  <2> QED BY <2>1, AmountsAssumption, Zenon DEF NoAmount, Chips
<1> QED BY <1>1, <1>2, <1>3 DEF PlayerAction
-----------------------------------------------------------------------------
(***************************************************************************)
(* The hand: the engine, the HandClosed events and the turn.               *)
(***************************************************************************)
\* An action, accepted or refused, stays in its hand, and ends it by settling it
\* or at a showdown.
LEMMA TakeHand ==
    ASSUME HandOK, NEW a \in PlayerAction, Take(a)
    PROVE  /\ HandOK'
           /\ eng'.handId = eng.handId
           /\ ~Accepted(eng, a) => eng'.status = eng.status /\ eng'.acting = eng.acting
           /\ Accepted(eng, a) => /\ eng.status = "Running"
                                  /\ eng'.status \in {"Running", "Settled", "Showdown"}
           /\ eng'.status = "Aborted" => eng.status = "Aborted"
<1>1. EngineOK(eng) /\ eng' = ApplyAction(eng, a)
  BY DEF HandOK, Take
<1>2. CASE ~Allowed(eng, a)
  <2>1. eng' = eng /\ ~Accepted(eng, a)
    BY <1>1, <1>2 DEF ApplyAction, Accepted
  <2> QED BY <2>1 DEF HandOK
<1>3. CASE Allowed(eng, a)
  <2>1. /\ EngineOK(eng') /\ eng'.handId = eng.handId /\ eng.status = "Running"
        /\ eng'.status \in {"Running", "Settled", "Showdown"}
    BY <1>1, <1>3, ApplyActionOK, ApplyActionStatus, AllowedAmounts
  <2>2. CASE Overflows(eng, a)
    <3>1. eng' = PlaceBet(eng, a) /\ ~Accepted(eng, a)
      BY <1>1, <1>3, <2>2 DEF ApplyAction, Accepted
    <3>2. PlaceBet(eng, a).status = eng.status /\ PlaceBet(eng, a).acting = eng.acting
      BY <1>1, <1>3, PlaceBetOK
    <3> QED BY <2>1, <3>1, <3>2 DEF HandOK
  <2>3. CASE ~Overflows(eng, a)
    BY <1>3, <2>1, <2>3 DEF HandOK, Accepted
  <2> QED BY <2>2, <2>3
<1> QED BY <1>2, <1>3

\* An action closes the hand at most once, and announces the seat to act next.
LEMMA TakeTurn ==
    ASSUME HandOK, ClosedOK, TurnOK, NEW a \in PlayerAction, Take(a)
    PROVE  ClosedOK' /\ TurnOK'
<1>1. /\ HandOK' /\ eng'.handId = eng.handId
      /\ ~Accepted(eng, a) => eng'.status = eng.status /\ eng'.acting = eng.acting
      /\ Accepted(eng, a) => /\ eng.status = "Running"
                             /\ eng'.status \in {"Running", "Settled", "Showdown"}
  BY TakeHand
<1>2. eng.handId \in Nat /\ eng.handId <= MaxHands
  BY DEF HandOK, EngineOK, EngineState
<1>3. CASE ~Accepted(eng, a)
  <2>1. UNCHANGED <<announced, closed, timer, turnAge>>
    BY <1>3 DEF Take
  <2> QED BY <1>1, <1>3, <2>1 DEF ClosedOK, TurnOK
<1>4. CASE Accepted(eng, a)
  <2>1. /\ announced' = Announces(a) /\ timer' = NoTimer /\ turnAge' = 0
        /\ closed' = IF eng'.status \in {"Settled", "Aborted"}
                     THEN [closed EXCEPT ![eng.handId] = @ + 1] ELSE closed
    BY <1>4, Zenon DEF Take
  <2>2. TurnOK'
    <3>1. eng'.status = "Running" => eng'.acting # NoSeat
      BY <1>1 DEF HandOK, EngineOK
    <3> QED BY <2>1, <3>1, TimingAssumption DEF TurnOK, Announces, NoTimer
  <2>3. ClosedOK'
    <3>1. eng.handId # 0 /\ closed[eng.handId] = 0
      BY <1>1, <1>2, <1>4, BoundAssumption DEF HandOK, ClosedOK
    <3> QED BY <1>1, <1>2, <1>4, <2>1, <3>1, BoundAssumption DEF ClosedOK
  <2> QED BY <2>2, <2>3
<1> QED BY <1>3, <1>4

\* A deal closes nothing and announces the seat that is to act first.
LEMMA DealTurn ==
    ASSUME HandOK, ClosedOK, TurnOK, CanDeal(eng), eng.status # "Running",
           eng.handId < MaxHands, eng' = Deal(eng), announced' = eng'.acting,
           timer' = NoTimer, turnAge' = 0, closed' = closed
    PROVE  /\ HandOK' /\ ClosedOK' /\ TurnOK'
           /\ eng'.handId = eng.handId + 1
           /\ eng'.status = "Running"
<1>1. EngineOK(eng')
  BY DealOK DEF HandOK
<1>2. /\ eng'.handId = eng.handId + 1 /\ eng'.status = "Running"
      /\ eng.handId \in Nat
  BY DEF Deal, HandOK, EngineOK, EngineState
<1>3. HandOK'
  BY <1>1, <1>2, BoundAssumption DEF HandOK
<1>4. ClosedOK'
  BY <1>2, BoundAssumption DEF ClosedOK
<1>5. TurnOK'
  BY <1>1, <1>2, TimingAssumption DEF TurnOK, NoTimer
<1> QED BY <1>2, <1>3, <1>4, <1>5

\* Giving a hand up, or completing its settlement, closes it.
LEMMA CloseTurn ==
    ASSUME HandOK, ClosedOK, TurnOK, NEW over \in {"Settled", "Aborted"},
           eng.status \in {"Running", "Showdown", "Settling"},
           eng' = [eng EXCEPT !.status = over, !.acting = NoSeat],
           closed' = [closed EXCEPT ![eng.handId] = @ + 1],
           timer' = NoTimer, turnAge' = 0, announced' = announced
    PROVE  /\ HandOK' /\ ClosedOK' /\ TurnOK'
           /\ eng'.handId = eng.handId
           /\ eng'.status = over
<1>1. eng \in EngineState /\ EngineOK(eng)
  BY DEF HandOK, EngineOK
<1>2. /\ eng'.status = over /\ eng'.acting = NoSeat /\ eng'.handId = eng.handId
      /\ eng'.dealtIn = eng.dealtIn /\ eng'.seated = eng.seated
      /\ eng'.bets = eng.bets /\ eng'.bet = eng.bet
      /\ eng'.contrib = eng.contrib /\ eng'.pot = eng.pot
  BY <1>1 DEF EngineState
<1>3. eng' \in EngineState
  BY <1>1 DEF EngineState, HandStatus
<1>4. EngineOK(eng')
  BY <1>1, <1>2, <1>3 DEF EngineOK
<1>5. HandOK'
  BY <1>2, <1>4 DEF HandOK
<1>6. eng.handId \in 1 .. MaxHands /\ closed[eng.handId] = 0
  BY <1>1, BoundAssumption DEF HandOK, EngineState, ClosedOK
<1>7. ClosedOK'
  BY <1>2, <1>6, BoundAssumption DEF ClosedOK
<1>8. TurnOK'
  BY <1>2, TimingAssumption DEF TurnOK, NoTimer
<1> QED BY <1>2, <1>5, <1>7, <1>8
-----------------------------------------------------------------------------
(***************************************************************************)
(* The transactions: bindings, pending actions and callbacks.              *)
(***************************************************************************)
\* A good callback is good after a step that forgets no binding, keeps what the
\* chain said and keeps the failed transactions pending.
LEMMA CallbackKept ==
    ASSUME \A t \in DOMAIN bindings : t \in DOMAIN bindings' /\ bindings'[t] = bindings[t],
           \A t \in Tx : chain[t] \in {"confirmed", "failed"} => chain'[t] = chain[t],
           \A t \in DOMAIN pending : chain[t] = "failed" => t \in DOMAIN pending',
           NEW cb \in Callback, CallbackOK(cb)
    PROVE  CallbackOK(cb)'
<1>1. cb.tx \in Tx
  BY DEF Callback
<1> QED BY <1>1 DEF CallbackOK

\* A hand that was given up keeps its reason.
LEMMA AbortKept ==
    ASSUME AbortedForItsOwnTx,
           eng'.status = "Aborted" => eng.status = "Aborted" /\ eng'.handId = eng.handId,
           \A t \in DOMAIN pending : chain[t] = "failed" =>
               t \in DOMAIN pending' /\ pending'[t] = pending[t] /\ chain'[t] = "failed"
    PROVE  AbortedForItsOwnTx'
BY DEF AbortedForItsOwnTx

\* A transaction is bound once.
LEMMA InsertTxBindingIInv ==
    ASSUME IInv, NEW s \in Seat, NEW a \in PaidRequests(s), NEW t \in Tx,
           InsertTxBinding(t, a)
    PROVE  IInv'
<1>1. a \in PlayerAction
  BY RequestsTyped DEF PaidRequests, IInv, HandOK
<1>2. /\ t \notin DOMAIN bindings
      /\ bindings' = With(bindings, t, a)
      /\ submitted' = submitted \cup {t}
      /\ UNCHANGED <<eng, timer, pending, callbacks, chain, announced, closed, funded, turnAge>>
  BY DEF InsertTxBinding, BindingFree
<1>3. /\ DOMAIN bindings' = DOMAIN bindings \cup {t}
      /\ bindings'[t] = a
      /\ \A u \in DOMAIN bindings : bindings'[u] = bindings[u]
  BY <1>2 DEF With
<1>4. BindingOK'
  BY <1>1, <1>2, <1>3 DEF IInv, BindingOK
<1>5. QueueOK'
  BY <1>2, <1>3, CallbackKept DEF IInv, QueueOK
<1>6. HandOK' /\ ClosedOK' /\ TurnOK' /\ AbortedForItsOwnTx'
  BY <1>2 DEF IInv, HandOK, ClosedOK, TurnOK, AbortedForItsOwnTx
<1> QED BY <1>4, <1>5, <1>6 DEF IInv

\* A submitted transaction becomes pending.
LEMMA QueuePendingIInv ==
    ASSUME IInv, NEW t \in Tx, QueuePending(t)
    PROVE  IInv'
<1>1. /\ t \in submitted /\ submitted' = submitted \ {t}
      /\ pending' = With(pending, t, bindings[t])
      /\ UNCHANGED <<eng, timer, callbacks, bindings, chain, announced, closed, funded, turnAge>>
  BY DEF QueuePending
<1>2. t \in DOMAIN bindings /\ t \notin DOMAIN pending /\ funded[t] # 1
  BY <1>1 DEF IInv, BindingOK
<1>3. /\ DOMAIN pending' = DOMAIN pending \cup {t}
      /\ pending'[t] = bindings[t]
      /\ \A u \in DOMAIN pending : pending'[u] = pending[u]
  BY <1>1, <1>2 DEF With
<1>4. IsFiniteSet(DOMAIN pending')
  BY <1>3, FS_AddElement DEF IInv, BindingOK
<1>5. BindingOK'
  BY <1>1, <1>2, <1>3, <1>4 DEF IInv, BindingOK
<1>6. QueueOK'
  BY <1>1, <1>3, CallbackKept DEF IInv, QueueOK
<1>7. AbortedForItsOwnTx'
  BY <1>1, <1>3, AbortKept DEF IInv
<1>8. HandOK' /\ ClosedOK' /\ TurnOK'
  BY <1>1 DEF IInv, HandOK, ClosedOK, TurnOK
<1> QED BY <1>5, <1>6, <1>7, <1>8 DEF IInv

\* A cancelled request leaves its binding.
LEMMA AbandonRequestIInv ==
    ASSUME IInv, NEW t \in Tx, AbandonRequest(t)
    PROVE  IInv'
<1>1. /\ submitted' = submitted \ {t}
      /\ UNCHANGED <<eng, timer, pending, callbacks, bindings, chain,
                     announced, closed, funded, turnAge>>
  BY DEF AbandonRequest
<1>2. BindingOK'
  BY <1>1 DEF IInv, BindingOK
<1>3. QueueOK'
  BY <1>1 DEF IInv, QueueOK, CallbackOK
<1>4. HandOK' /\ ClosedOK' /\ TurnOK' /\ AbortedForItsOwnTx'
  BY <1>1 DEF IInv, HandOK, ClosedOK, TurnOK, AbortedForItsOwnTx
<1> QED BY <1>2, <1>3, <1>4 DEF IInv

\* What the chain says of a confirmed or failed transaction is final.
LEMMA ChainStepIInv ==
    ASSUME IInv, NEW t \in Tx, ChainStep(t)
    PROVE  IInv'
<1>1. /\ chain[t] \in {"unknown", "mined"}
      /\ chain' \in [Tx -> {"unknown", "mined", "failed", "confirmed"}]
      /\ \A u \in Tx \ {t} : chain'[u] = chain[u]
      /\ UNCHANGED <<eng, timer, pending, callbacks, bindings, submitted,
                     announced, closed, funded, turnAge>>
  BY DEF ChainStep, IInv, BindingOK
<1>2. \A u \in Tx : chain[u] \in {"confirmed", "failed"} => chain'[u] = chain[u]
  BY <1>1
<1>3. BindingOK'
  BY <1>1, <1>2 DEF IInv, BindingOK
<1>4. QueueOK'
  BY <1>1, <1>2, CallbackKept DEF IInv, QueueOK
<1>5. AbortedForItsOwnTx'
  BY <1>1, <1>2, AbortKept DEF IInv, BindingOK
<1>6. HandOK' /\ ClosedOK' /\ TurnOK'
  BY <1>1 DEF IInv, HandOK, ClosedOK, TurnOK
<1> QED BY <1>3, <1>4, <1>5, <1>6 DEF IInv

\* The actor takes the first callback off its queue and leaves the others good.
LEMMA ChainTxVerifiedIInv ==
    ASSUME IInv, ChainTxVerified
    PROVE  IInv'
<1> DEFINE cb == Head(callbacks)
<1>1. /\ callbacks \in Seq(Callback) /\ callbacks # << >> /\ callbacks' = Tail(callbacks)
      /\ CallbackApplies(cb) \/ CallbackAborts(cb) \/ CallbackIgnored(cb)
      /\ UNCHANGED <<bindings, submitted, chain>>
  BY DEF ChainTxVerified, IInv, QueueOK
<1>2. /\ cb \in Callback /\ CallbackOK(cb)
      /\ callbacks' \in Seq(Callback)
      /\ \A i \in 1 .. Len(callbacks') : callbacks'[i] \in Callback /\ CallbackOK(callbacks'[i])
  <2>1. /\ cb = callbacks[1] /\ 1 \in 1 .. Len(callbacks)
        /\ Len(callbacks') = Len(callbacks) - 1
        /\ callbacks' \in Seq(Callback)
        /\ \A i \in 1 .. Len(callbacks') : callbacks'[i] = callbacks[i + 1]
    BY <1>1, HeadTailProperties
  <2>2. \A i \in 1 .. Len(callbacks) : callbacks[i] \in Callback /\ CallbackOK(callbacks[i])
    BY DEF IInv, QueueOK
  <2>3. \A i \in 1 .. Len(callbacks') : i + 1 \in 1 .. Len(callbacks)
    BY <1>1, <2>1
  <2> QED BY <2>1, <2>2, <2>3
<1> HIDE DEF cb
<1>3. /\ cb.tx \in Tx /\ cb.tx \in DOMAIN bindings /\ cb.handId = bindings[cb.tx].handId
      /\ bindings[cb.tx] \in PlayerAction
  BY <1>2 DEF Callback, CallbackOK, IInv, BindingOK
<1>4. ASSUME \A t \in DOMAIN pending : chain[t] = "failed" => t \in DOMAIN pending'
      PROVE  QueueOK'
  <2>1. \A c \in Callback : CallbackOK(c) => CallbackOK(c)'
    BY <1>1, <1>4, CallbackKept
  <2> QED BY <1>2, <2>1 DEF QueueOK
<1>5. CASE CallbackApplies(cb)
  <2> DEFINE a == bindings[cb.tx]
  <2>1. /\ cb.status = "matched" /\ cb.tx \in DOMAIN pending /\ pending[cb.tx] = a
        /\ Take(a)
        /\ funded' = IF Accepted(eng, a) THEN [funded EXCEPT ![cb.tx] = @ + 1] ELSE funded
        /\ pending' = Without(pending, cb.tx)
    BY <1>5 DEF CallbackApplies, IInv, BindingOK
  <2> HIDE DEF a
  <2>2. a \in PlayerAction
    BY <1>3 DEF a
  <2>3. HandOK' /\ ClosedOK' /\ TurnOK'
    BY <2>1, <2>2, TakeHand, TakeTurn DEF IInv
  <2>4. /\ DOMAIN pending' = DOMAIN pending \ {cb.tx}
        /\ \A t \in DOMAIN pending' : pending'[t] = pending[t]
    BY <2>1 DEF Without
  <2>5. chain[cb.tx] = "confirmed" /\ funded[cb.tx] = 0
    BY <1>2, <1>3, <2>1 DEF CallbackOK, IInv, BindingOK
  <2>6. IsFiniteSet(DOMAIN pending')
    BY <2>4, FS_Subset DEF IInv, BindingOK
  <2>7. BindingOK'
    <3>1. /\ funded' \in [Tx -> {0, 1}]
          /\ \A t \in Tx \ {cb.tx} : funded'[t] = funded[t]
      BY <1>3, <2>1, <2>5 DEF IInv, BindingOK
    <3>2. \A t \in Tx : funded'[t] = 1 =>
              /\ chain'[t] = "confirmed"
              /\ t \in DOMAIN bindings'
              /\ t \notin submitted' \cup DOMAIN pending'
      <4> SUFFICES ASSUME NEW t \in Tx, funded'[t] = 1
                   PROVE  /\ chain[t] = "confirmed" /\ t \in DOMAIN bindings
                          /\ t \notin submitted \cup DOMAIN pending'
        BY <1>1
      <4>1. CASE t = cb.tx
        BY <1>3, <2>1, <2>4, <2>5, <4>1 DEF IInv, BindingOK
      <4>2. CASE t # cb.tx
        BY <2>4, <3>1, <4>2 DEF IInv, BindingOK
      <4> QED BY <4>1, <4>2
    <3>3. /\ DOMAIN pending' \subseteq DOMAIN bindings'
          /\ \A t \in DOMAIN pending' : pending'[t] = bindings'[t]
          /\ submitted' \subseteq DOMAIN bindings' \ DOMAIN pending'
      BY <1>1, <2>4 DEF IInv, BindingOK
    <3> QED BY <1>1, <2>6, <3>1, <3>2, <3>3 DEF IInv, BindingOK
  <2>8. QueueOK'
    BY <1>4, <2>4, <2>5
  <2>9. AbortedForItsOwnTx'
    <3>1. eng'.status = "Aborted" => eng.status = "Aborted" /\ eng'.handId = eng.handId
      BY <2>1, <2>2, TakeHand DEF IInv
    <3> QED BY <1>1, <2>4, <2>5, <3>1, AbortKept DEF IInv
  <2> QED BY <2>3, <2>7, <2>8, <2>9 DEF IInv
<1>6. CASE CallbackAborts(cb)
  <2>1. /\ cb.status = "failed" /\ cb.handId = eng.handId
        /\ eng.status \in {"Running", "Showdown", "Settling"}
        /\ eng' = [eng EXCEPT !.status = "Aborted", !.acting = NoSeat]
        /\ closed' = [closed EXCEPT ![eng.handId] = @ + 1]
        /\ timer' = NoTimer /\ turnAge' = 0
        /\ UNCHANGED <<pending, announced, funded>>
    BY <1>6 DEF CallbackAborts, ForCurrentHand
  <2>2. HandOK' /\ ClosedOK' /\ TurnOK' /\ eng'.handId = eng.handId
    BY <2>1, CloseTurn DEF IInv
  <2>3. BindingOK' /\ QueueOK'
    BY <1>1, <1>4, <2>1 DEF IInv, BindingOK
  <2>4. AbortedForItsOwnTx'
    <3>1. chain[cb.tx] = "failed" /\ cb.tx \in DOMAIN pending /\ pending[cb.tx] = bindings[cb.tx]
      BY <1>2, <2>1 DEF CallbackOK, IInv, BindingOK
    <3> QED BY <1>1, <1>3, <2>1, <2>2, <3>1 DEF AbortedForItsOwnTx
  <2> QED BY <2>2, <2>3, <2>4 DEF IInv
<1>7. CASE CallbackIgnored(cb)
  <2>1. UNCHANGED <<eng, pending, timer, announced, closed, funded, turnAge>>
    BY <1>7 DEF CallbackIgnored
  <2>2. BindingOK' /\ QueueOK'
    BY <1>1, <1>4, <2>1 DEF IInv, BindingOK
  <2>3. HandOK' /\ ClosedOK' /\ TurnOK' /\ AbortedForItsOwnTx'
    BY <1>1, <2>1 DEF IInv, HandOK, ClosedOK, TurnOK, AbortedForItsOwnTx
  <2> QED BY <2>2, <2>3 DEF IInv
<1> QED BY <1>1, <1>5, <1>6, <1>7

\* The callbacks of a poll are good, whichever transactions the node answers for.
LEMMA PollResultsOK ==
    ASSUME BindingOK, NEW answered \in SUBSET DOMAIN pending,
           NEW results \in PollResults(answered)
    PROVE  results \in Seq(Callback) /\ \A i \in 1 .. Len(results) : CallbackOK(results[i])
<1> DEFINE final == {u \in answered : chain[u] \in {"failed", "confirmed"}}
           cb(t) == [tx |-> t, handId |-> pending[t].handId,
                     status |-> IF chain[t] = "failed" THEN "failed" ELSE "matched"]
           cbs == {cb(t) : t \in final}
<1>1. IsFiniteSet(cbs)
  <2>1. IsFiniteSet(final)
    BY FS_Subset DEF BindingOK
  <2>2. [t \in final |-> cb(t)] \in Surjection(final, cbs)
    BY DEF Surjection
  <2> HIDE DEF final, cbs
  <2> QED BY <2>1, <2>2, FS_Surjection
<1>2. \A c \in cbs : c \in Callback /\ CallbackOK(c)
  <2> SUFFICES ASSUME NEW t \in final
               PROVE  cb(t) \in Callback /\ CallbackOK(cb(t))
    OBVIOUS
  <2>1. /\ t \in Tx /\ t \in DOMAIN pending /\ t \in DOMAIN bindings
        /\ pending[t] = bindings[t] /\ bindings[t].handId \in Nat
        /\ chain[t] \in {"failed", "confirmed"}
    BY DEF BindingOK, PlayerAction
  <2>2. cb(t) \in Callback
    BY <2>1 DEF Callback
  <2>3. CallbackOK(cb(t))
    BY <2>1 DEF CallbackOK
  <2> QED BY <2>2, <2>3
<1>3. results \in [1 .. Cardinality(cbs) -> cbs]
  BY DEF PollResults, SetToSeqs
<1> HIDE DEF cbs
<1>4. Cardinality(cbs) \in Nat
  BY <1>1, FS_CardinalityType
<1>5. results \in Seq(cbs) /\ \A i \in 1 .. Len(results) : results[i] \in cbs
  BY <1>3, <1>4
<1> QED BY <1>2, <1>5

\* A poll adds good callbacks to the queue; what does not fit is lost.
LEMMA PollQueue ==
    ASSUME BindingOK, QueueOK, Poll, UNCHANGED <<pending, bindings, chain>>
    PROVE  QueueOK'
<1>1. PICK answered \in SUBSET DOMAIN pending : \E results \in PollResults(answered) :
        callbacks' = SubSeq(callbacks \o results, 1,
                            IF Len(callbacks \o results) < QueueCapacity
                            THEN Len(callbacks \o results) ELSE QueueCapacity)
  BY DEF Poll
<1>2. PICK results \in PollResults(answered) :
        callbacks' = SubSeq(callbacks \o results, 1,
                            IF Len(callbacks \o results) < QueueCapacity
                            THEN Len(callbacks \o results) ELSE QueueCapacity)
  BY <1>1
<1> DEFINE all == callbacks \o results
           n == IF Len(all) < QueueCapacity THEN Len(all) ELSE QueueCapacity
<1>3. /\ results \in Seq(Callback) /\ \A i \in 1 .. Len(results) : CallbackOK(results[i])
      /\ callbacks \in Seq(Callback) /\ \A i \in 1 .. Len(callbacks) : CallbackOK(callbacks[i])
  BY PollResultsOK DEF QueueOK
<1>4. all \in Seq(Callback) /\ \A i \in 1 .. Len(all) : all[i] \in Callback /\ CallbackOK(all[i])
  <2>1. /\ all \in Seq(Callback) /\ Len(all) = Len(callbacks) + Len(results)
        /\ \A i \in 1 .. Len(all) :
               all[i] = IF i <= Len(callbacks) THEN callbacks[i] ELSE results[i - Len(callbacks)]
    BY <1>3, ConcatProperties
  <2>2. Len(callbacks) \in Nat /\ Len(results) \in Nat
    BY <1>3
  <2> HIDE DEF all
  <2> SUFFICES ASSUME NEW i \in 1 .. Len(all)
               PROVE  all[i] \in Callback /\ CallbackOK(all[i])
    BY <2>1
  <2>3. CASE i <= Len(callbacks)
    <3>1. i \in 1 .. Len(callbacks) /\ all[i] = callbacks[i]
      BY <2>1, <2>2, <2>3
    <3> QED BY <1>3, <3>1
  <2>4. CASE ~(i <= Len(callbacks))
    <3>1. i - Len(callbacks) \in 1 .. Len(results) /\ all[i] = results[i - Len(callbacks)]
      BY <2>1, <2>2, <2>4
    <3> QED BY <1>3, <3>1
  <2> QED BY <2>3, <2>4
<1>5. n \in Nat /\ n <= Len(all)
  BY <1>4, QueueAssumption
<1>6. callbacks' = SubSeq(all, 1, n)
  BY <1>2
<1> HIDE DEF all, n
<1>7. /\ callbacks' \in Seq(Callback) /\ Len(callbacks') = n
      /\ \A i \in 1 .. n : callbacks'[i] = all[i]
  BY <1>4, <1>5, <1>6, SubSeqProperties
<1>8. \A c \in Callback : CallbackOK(c) => CallbackOK(c)'
  BY DEF CallbackOK
<1>9. \A i \in 1 .. Len(callbacks') : i \in 1 .. Len(all)
  BY <1>4, <1>5, <1>7
<1> QED BY <1>4, <1>7, <1>8, <1>9 DEF QueueOK
-----------------------------------------------------------------------------
(***************************************************************************)
(* The invariant: initially, and after each other step.                    *)
(***************************************************************************)
\* An empty room is good.
LEMMA InitIInv == Init => IInv
<1> SUFFICES ASSUME Init PROVE IInv
  OBVIOUS
<1>1. HandOK /\ eng.status = "Created" /\ eng.handId = 0
  <2>1. EngineOK(eng)
    BY NewEngineOK DEF Init
  <2>2. eng.status = "Created" /\ eng.handId = 0
    BY DEF Init, NewEngineState
  <2> QED BY <2>1, <2>2, BoundAssumption DEF HandOK
<1>2. ClosedOK /\ TurnOK /\ AbortedForItsOwnTx
  BY <1>1, TimingAssumption DEF Init, ClosedOK, TurnOK, NoTimer, AbortedForItsOwnTx
<1>3. BindingOK /\ QueueOK
  BY FS_EmptySet DEF Init, BindingOK, QueueOK
<1> QED BY <1>1, <1>2, <1>3 DEF IInv

\* What a step that leaves the transactions alone has to keep.
LEMMA ChainKept ==
    ASSUME IInv, UNCHANGED <<pending, callbacks, bindings, submitted, chain, funded>>,
           eng'.status = "Aborted" => eng.status = "Aborted" /\ eng'.handId = eng.handId
    PROVE  BindingOK' /\ QueueOK' /\ AbortedForItsOwnTx'
<1>1. BindingOK'
  BY DEF IInv, BindingOK
<1>2. QueueOK'
  BY DEF IInv, QueueOK, CallbackOK
<1>3. AbortedForItsOwnTx'
  BY AbortKept DEF IInv
<1> QED BY <1>1, <1>2, <1>3

\* Sitting down during a hand changes nothing of it.
LEMMA JoinIInv ==
    ASSUME IInv, NEW s \in Seat, Join(s)
    PROVE  IInv'
<1> DEFINE seats == eng.seated \cup {s}
<1>1. /\ eng \in EngineState /\ eng' = [eng EXCEPT !.seated = seats]
      /\ UNCHANGED <<timer, pending, callbacks, bindings, submitted, chain,
                     announced, closed, funded, turnAge>>
  BY DEF IInv, HandOK, EngineOK, Join, chainVars
<1>2. seats \in SUBSET Seat /\ eng.seated \subseteq seats
  BY <1>1 DEF EngineState
<1> HIDE DEF seats
<1>3. eng' \in EngineState
  BY <1>1, <1>2 DEF EngineState
<1>4. /\ eng'.status = eng.status /\ eng'.acting = eng.acting /\ eng'.seated = seats
      /\ eng'.dealtIn = eng.dealtIn /\ eng'.bets = eng.bets /\ eng'.bet = eng.bet
      /\ eng'.contrib = eng.contrib /\ eng'.pot = eng.pot /\ eng'.handId = eng.handId
  BY <1>1 DEF EngineState
<1>5. EngineOK(eng')
  BY <1>2, <1>3, <1>4 DEF IInv, HandOK, EngineOK
<1>6. HandOK' /\ ClosedOK' /\ TurnOK'
  BY <1>1, <1>4, <1>5 DEF IInv, HandOK, ClosedOK, TurnOK
<1>7. BindingOK' /\ QueueOK' /\ AbortedForItsOwnTx'
  BY <1>1, <1>4, ChainKept
<1> QED BY <1>6, <1>7 DEF IInv

\* A step of the table that leaves the hand alone.
LEMMA TableIInv ==
    ASSUME IInv, UNCHANGED <<eng, timer, chainVars, announced, closed, funded, turnAge>>
    PROVE  IInv'
<1>1. BindingOK' /\ QueueOK' /\ AbortedForItsOwnTx'
  BY ChainKept DEF chainVars
<1>2. HandOK' /\ ClosedOK' /\ TurnOK'
  BY DEF IInv, HandOK, ClosedOK, TurnOK
<1> QED BY <1>1, <1>2 DEF IInv

\* Ready deals only when no seat is to act.
LEMMA ReadyIInv ==
    ASSUME IInv, NEW s \in Seat, Ready(s)
    PROVE  IInv'
<1>1. UNCHANGED <<pending, callbacks, bindings, submitted, chain, closed, funded>>
  BY DEF Ready, chainVars
<1>2. CASE UNCHANGED <<eng, timer, announced, turnAge>>
  BY <1>1, <1>2, TableIInv DEF chainVars
<1>3. CASE /\ DealsHand /\ eng.handId < MaxHands /\ eng' = Deal(eng)
           /\ announced' = eng'.acting /\ timer' = NoTimer /\ turnAge' = 0
  <2>1. CanDeal(eng) /\ eng.status # "Running"
    BY <1>3 DEF DealsHand, IInv, HandOK, EngineOK
  <2>2. HandOK' /\ ClosedOK' /\ TurnOK' /\ eng'.status = "Running"
    BY <1>1, <1>3, <2>1, DealTurn DEF IInv
  <2>3. BindingOK' /\ QueueOK' /\ AbortedForItsOwnTx'
    BY <1>1, <2>2, ChainKept
  <2> QED BY <2>2, <2>3 DEF IInv
<1> QED BY <1>2, <1>3 DEF Ready

\* An action without a transaction.
LEMMA ActIInv ==
    ASSUME IInv, NEW a \in PlayerAction, Act(a)
    PROVE  IInv'
<1>1. /\ Take(a)
      /\ UNCHANGED <<pending, callbacks, bindings, submitted, chain, funded>>
  BY DEF Act, chainVars
<1>2. /\ HandOK' /\ ClosedOK' /\ TurnOK'
      /\ eng'.status = "Aborted" => eng.status = "Aborted" /\ eng'.handId = eng.handId
  BY <1>1, TakeHand, TakeTurn DEF IInv
<1>3. BindingOK' /\ QueueOK' /\ AbortedForItsOwnTx'
  BY <1>1, <1>2, ChainKept
<1> QED BY <1>2, <1>3 DEF IInv

\* A settlement closes a hand at its showdown, whenever it comes.
LEMMA CompleteSettlementIInv ==
    ASSUME IInv, NEW h, CompleteSettlement(h)
    PROVE  IInv'
<1>1. /\ eng.status \in {"Running", "Showdown", "Settling"}
      /\ eng' = [eng EXCEPT !.status = "Settled", !.acting = NoSeat]
      /\ closed' = [closed EXCEPT ![eng.handId] = @ + 1]
      /\ timer' = NoTimer /\ turnAge' = 0
      /\ UNCHANGED <<pending, callbacks, bindings, submitted, chain, announced, funded>>
  BY DEF CompleteSettlement, CompletesSettlement, chainVars
<1>2. HandOK' /\ ClosedOK' /\ TurnOK' /\ eng'.status = "Settled"
  BY <1>1, CloseTurn DEF IInv
<1>3. BindingOK' /\ QueueOK' /\ AbortedForItsOwnTx'
  BY <1>1, <1>2, ChainKept
<1> QED BY <1>2, <1>3 DEF IInv

\* The fold of a timeout is a well-formed action of the seat that is to act.
LEMMA AutoFoldTyped ==
    ASSUME HandOK, eng.acting # NoSeat
    PROVE  AutoFold \in PlayerAction
<1>1. eng.handId \in Nat /\ eng.seq \in Nat /\ eng.acting \in Seat
  BY DEF HandOK, EngineOK, EngineState
<1>2. NoAmount \in Chips
  BY ChipsAssumption DEF NoAmount, Chips
<1> QED BY <1>1, <1>2 DEF AutoFold, PlayerAction, ActionType

\* The four things a tick finds of the turn.
LEMMA TickTurn ==
    ASSUME IInv, TickIdle \/ TickStartsTimer \/ TickFolds \/ TickReminds
    PROVE  /\ HandOK' /\ ClosedOK' /\ TurnOK'
           /\ eng'.status = "Aborted" => eng.status = "Aborted" /\ eng'.handId = eng.handId
<1>1. CASE TickIdle
  <2>1. timer' = NoTimer /\ UNCHANGED <<eng, announced, closed, turnAge>>
    BY <1>1 DEF TickIdle
  <2> QED BY <2>1 DEF IInv, HandOK, ClosedOK, TurnOK, NoTimer
<1>2. CASE TickStartsTimer
  <2>1. /\ eng.status = "Running" /\ UNCHANGED <<eng, announced, closed, turnAge>>
        /\ timer' = [handId |-> eng.handId, seq |-> eng.seq, seat |-> eng.acting,
                     age |-> 0, quiet |-> 0]
    BY <1>2 DEF TickStartsTimer
  <2>2. eng.handId \in Nat /\ eng.seq \in Nat /\ eng.acting \in Seat \cup {NoSeat}
    BY DEF IInv, HandOK, EngineOK, EngineState
  <2>3. TurnOK'
    BY <2>1, <2>2, TimingAssumption DEF IInv, TurnOK
  <2> QED BY <2>1, <2>3 DEF IInv, HandOK, ClosedOK
<1>3. CASE TickFolds
  BY <1>3, AutoFoldTyped, TakeHand, TakeTurn DEF IInv, TickFolds
<1>4. CASE TickReminds
  <2>1. /\ eng.status = "Running" /\ UNCHANGED <<eng, closed, turnAge>>
        /\ \/ timer' = [timer EXCEPT !.quiet = 0] /\ announced' = eng.acting
           \/ UNCHANGED <<timer, announced>>
    BY <1>4 DEF TickReminds
  <2>2. TurnOK'
    BY <2>1 DEF IInv, TurnOK
  <2> QED BY <2>1, <2>2 DEF IInv, HandOK, ClosedOK
<1> QED BY <1>1, <1>2, <1>3, <1>4

\* A tick polls the chain and then looks at the turn.
LEMMA SchedulerTickIInv ==
    ASSUME IInv, SchedulerTick
    PROVE  IInv'
<1>1. /\ Poll /\ UNCHANGED <<pending, bindings, submitted, chain, funded>>
      /\ TickIdle \/ TickStartsTimer \/ TickFolds \/ TickReminds
  BY DEF SchedulerTick
<1>2. /\ HandOK' /\ ClosedOK' /\ TurnOK'
      /\ eng'.status = "Aborted" => eng.status = "Aborted" /\ eng'.handId = eng.handId
  BY <1>1, TickTurn
<1>3. QueueOK'
  BY <1>1, PollQueue DEF IInv
<1>4. BindingOK'
  BY <1>1 DEF IInv, BindingOK
<1>5. AbortedForItsOwnTx'
  BY <1>1, <1>2, AbortKept DEF IInv
<1> QED BY <1>2, <1>3, <1>4, <1>5 DEF IInv

\* A turn gets older with its timer.
LEMMA ElapseIInv ==
    ASSUME IInv, Elapse
    PROVE  IInv'
<1>1. /\ turnAge' = IF eng.status = "Running" THEN Capped(turnAge) ELSE turnAge
      /\ timer' = IF timer = NoTimer THEN timer
                  ELSE [timer EXCEPT !.age = Capped(@), !.quiet = Capped(@)]
      /\ UNCHANGED <<eng, pending, callbacks, bindings, submitted, chain,
                     announced, closed, funded>>
  BY DEF Elapse, chainVars
<1>2. /\ turnAge \in 0 .. StepTimeout /\ timer.age \in Nat /\ timer.quiet \in Nat
      /\ timer.age <= turnAge /\ StepTimeout \in Nat
      /\ timer \in [handId : Nat, seq : Nat, seat : Seat \cup {NoSeat}, age : Nat, quiet : Nat]
  BY TimingAssumption DEF IInv, TurnOK
<1>3. /\ Capped(turnAge) \in 0 .. StepTimeout /\ turnAge <= Capped(turnAge)
      /\ Capped(timer.age) \in Nat /\ Capped(timer.quiet) \in Nat
      /\ Capped(timer.age) <= Capped(turnAge)
  BY <1>2 DEF Capped
<1>4. TurnOK'
  <2>1. CASE timer = NoTimer
    BY <1>1, <1>2, <1>3, <2>1 DEF IInv, TurnOK, NoTimer
  <2>2. CASE timer # NoTimer
    <3>1. /\ eng.status = "Running"
          /\ timer' = [timer EXCEPT !.age = Capped(timer.age), !.quiet = Capped(timer.quiet)]
      BY <1>1, <1>2, <2>2 DEF IInv, TurnOK
    <3>2. /\ timer' \in [handId : Nat, seq : Nat, seat : Seat \cup {NoSeat}, age : Nat, quiet : Nat]
          /\ timer'.age = Capped(timer.age)
      BY <1>2, <1>3, <3>1
    <3> QED BY <1>1, <1>3, <3>1, <3>2 DEF IInv, TurnOK
  <2> QED BY <2>1, <2>2
<1>5. HandOK' /\ ClosedOK'
  BY <1>1 DEF IInv, HandOK, ClosedOK
<1>6. BindingOK' /\ QueueOK' /\ AbortedForItsOwnTx'
  BY <1>1, ChainKept
<1> QED BY <1>4, <1>5, <1>6 DEF IInv

\* Every step keeps the invariant.
LEMMA NextIInv == IInv /\ [Next]_vars => IInv'
<1> SUFFICES ASSUME IInv, [Next]_vars
             PROVE  IInv'
  OBVIOUS
<1>1. CASE UNCHANGED vars
  BY <1>1, TableIInv DEF vars
<1>2. ASSUME NEW s \in Seat, Join(s) PROVE IInv'
  BY <1>2, JoinIInv
<1>3. ASSUME NEW s \in Seat, Leave(s) \/ BindAddress(s) \/ BindSessionKeys(s) PROVE IInv'
  BY <1>3, TableIInv DEF Leave, BindAddress, BindSessionKeys
<1>4. ASSUME NEW s \in Seat, Ready(s) PROVE IInv'
  BY <1>4, ReadyIInv
<1>5. CASE ClientActs
  <2>1. PICK s \in Seat : \E a \in Requests(s) : Act(a)
    BY <1>5 DEF ClientActs
  <2>2. PICK a \in Requests(s) : Act(a)
    BY <2>1
  <2>3. a \in PlayerAction
    BY RequestsTyped DEF IInv, HandOK
  <2> QED BY <2>2, <2>3, ActIInv
<1>6. CASE ClientPays
  BY <1>6, InsertTxBindingIInv DEF ClientPays
<1>7. ASSUME NEW t \in Tx, QueuePending(t) \/ AbandonRequest(t) \/ ChainStep(t) PROVE IInv'
  BY <1>7, QueuePendingIInv, AbandonRequestIInv, ChainStepIInv
<1>8. CASE ChainTxVerified
  BY <1>8, ChainTxVerifiedIInv
<1>9. ASSUME NEW h \in 1 .. eng.handId, CompleteSettlement(h) PROVE IInv'
  BY <1>9, CompleteSettlementIInv
<1>10. CASE SchedulerTick
  BY <1>10, SchedulerTickIInv
<1>11. CASE Elapse
  BY <1>11, ElapseIInv
<1> QED BY <1>1, <1>2, <1>3, <1>4, <1>5, <1>6, <1>7, <1>8, <1>9, <1>10, <1>11, Zenon
        DEF Next, Play

\* The invariant holds throughout.
THEOREM Invariance == Spec => []IInv
BY InitIInv, NextIInv, PTL DEF Spec
-----------------------------------------------------------------------------
(***************************************************************************)
(* What the invariant gives.                                               *)
(***************************************************************************)
\* A hand's HandClosed event is published exactly once when the hand is over, and not
\* before, whichever of a fold, a timeout, a settlement and a failed transaction ends it.
THEOREM HandsCloseOnce == Spec => []ClosedExactlyWhenOver
<1>1. IInv => ClosedExactlyWhenOver
  <2> SUFFICES ASSUME IInv, eng.handId > 0
               PROVE  /\ closed[eng.handId] = IF eng.status \in {"Settled", "Aborted"} THEN 1 ELSE 0
                      /\ \A h \in 1 .. MaxHands : closed[h] <= 1
    BY DEF ClosedExactlyWhenOver
  <2>1. eng.handId \in 1 .. MaxHands
    BY BoundAssumption DEF IInv, HandOK, EngineOK, EngineState
  <2>2. \A h \in 1 .. MaxHands : closed[h] \in {0, 1}
    BY DEF IInv, ClosedOK
  <2> QED BY <2>1, <2>2 DEF IInv, ClosedOK
<1> QED BY <1>1, Invariance, PTL

\* The seat the players were last told to wait for is the seat the engine waits for.
THEOREM AnnouncedSeatActs == Spec => []AnnouncedSeatIsToAct
<1>1. IInv => AnnouncedSeatIsToAct
  BY DEF IInv, TurnOK, AnnouncedSeatIsToAct
<1> QED BY <1>1, Invariance, PTL

\* A transaction never pays for two actions.
THEOREM TransactionsPayOnce == Spec => []TxFundsOneAction
<1>1. IInv => TxFundsOneAction
  BY DEF IInv, BindingOK, TxFundsOneAction
<1> QED BY <1>1, Invariance, PTL

\* No action is applied on the strength of a transaction that is not confirmed.
THEOREM OnlyConfirmedPay == Spec => []PaidActionIsConfirmed
<1>1. IInv => PaidActionIsConfirmed
  BY DEF IInv, BindingOK, PaidActionIsConfirmed
<1> QED BY <1>1, Invariance, PTL

\* A hand is given up only for a failed transaction of its own.
THEOREM AbortsHaveTheirTx == Spec => []AbortedForItsOwnTx
<1>1. IInv => AbortedForItsOwnTx
  BY DEF IInv
<1> QED BY <1>1, Invariance, PTL

\* A seat is folded by the timer only after the whole timeout of its own turn.
THEOREM FoldsWaitForTimeout == Spec => NoEarlyFold
<1> DEFINE Waits == SchedulerTick /\ eng' # eng => turnAge = StepTimeout
<1>1. IInv /\ [Next]_vars => [Waits]_vars
  <2> SUFFICES ASSUME IInv, SchedulerTick, eng' # eng
               PROVE  turnAge = StepTimeout
    OBVIOUS
  <2>1. TickFolds
    BY DEF SchedulerTick, TickIdle, TickStartsTimer, TickReminds
  <2>2. timer.age >= StepTimeout /\ timer.age <= turnAge /\ turnAge \in 0 .. StepTimeout
        /\ timer.age \in Nat
    BY <2>1 DEF TickFolds, TimedOut, IInv, TurnOK
  <2> QED BY <2>2, TimingAssumption
<1>2. [][Waits]_vars => NoEarlyFold
  BY PTL DEF NoEarlyFold
<1> QED BY <1>1, <1>2, Invariance, PTL DEF Spec

\* A paid action is applied in the hand, at the number and for the seat it was bound
\* to, however late its transaction is confirmed and its callback handled.
THEOREM PaidActionsKeepTheirTurn == Spec => PaidActionInItsTurn
<1> DEFINE InTurn == \A t \in Tx : funded'[t] # funded[t] =>
                         /\ bindings[t].handId = eng.handId
                         /\ bindings[t].seq = eng.seq
                         /\ bindings[t].seat = eng.acting
<1>1. IInv /\ [Next]_vars => [InTurn]_vars
  <2> SUFFICES ASSUME IInv, Next, NEW t \in Tx, funded'[t] # funded[t]
               PROVE  /\ bindings[t].handId = eng.handId
                      /\ bindings[t].seq = eng.seq
                      /\ bindings[t].seat = eng.acting
    OBVIOUS
  <2>1. ChainTxVerified
    BY DEF Next, Play, Join, Leave, BindAddress, BindSessionKeys, Ready, ClientActs, Act,
           ClientPays, InsertTxBinding, QueuePending, AbandonRequest, ChainStep,
           CompleteSettlement, SchedulerTick, Elapse
  <2> DEFINE cb == Head(callbacks)
  <2>2. CallbackApplies(cb)
    BY <2>1 DEF ChainTxVerified, CallbackAborts, CallbackIgnored
  <2>3. cb \in Callback /\ CallbackOK(cb)
    <3>1. callbacks \in Seq(Callback) /\ callbacks # << >>
      BY <2>1 DEF ChainTxVerified, IInv, QueueOK
    <3>2. cb = callbacks[1] /\ 1 \in 1 .. Len(callbacks)
      BY <3>1
    <3> QED BY <3>1, <3>2 DEF IInv, QueueOK
  <2> HIDE DEF cb
  <2>4. /\ cb.handId = eng.handId /\ cb.tx \in DOMAIN pending
        /\ funded' = IF Accepted(eng, pending[cb.tx])
                     THEN [funded EXCEPT ![cb.tx] = @ + 1] ELSE funded
    BY <2>2 DEF CallbackApplies, ForCurrentHand
  <2>5. Accepted(eng, pending[cb.tx]) /\ t = cb.tx
    BY <2>4 DEF IInv, BindingOK
  <2>6. pending[t] = bindings[t] /\ cb.handId = bindings[t].handId
    BY <2>3, <2>4, <2>5 DEF CallbackOK, IInv, BindingOK
  <2>7. pending[t].seq = eng.seq /\ eng.acting = pending[t].seat
    BY <2>5 DEF Accepted, Allowed
  <2> QED BY <2>4, <2>6, <2>7
<1>2. [][InTurn]_vars => PaidActionInItsTurn
  BY PTL DEF PaidActionInItsTurn
<1> QED BY <1>1, <1>2, Invariance, PTL DEF Spec

\* The room implements HandLifecycle: through folds, timeouts, failed transactions and
\* late settlements, every step is a step of the abstract hand or leaves it alone.
THEOREM RoomRefinesLifecycle == Spec => RefinesLifecycle
<1>1. Init => Lifecycle!Init
  BY DEF Init, NewEngineState, Lifecycle!Init
<1>2. IInv /\ [Next]_vars => [Lifecycle!Next]_(Lifecycle!lifeVars)
  <2> SUFFICES ASSUME IInv, [Next]_vars
               PROVE  Lifecycle!Next \/ UNCHANGED <<eng.handId, eng.status>>
    BY DEF Lifecycle!lifeVars
  <2> USE DEF Lifecycle!Next, Lifecycle!StartHand, Lifecycle!PlayOut, Lifecycle!GiveUp,
              Lifecycle!Close
  <2>1. ASSUME NEW a \in PlayerAction, Take(a)
        PROVE  Lifecycle!PlayOut \/ UNCHANGED <<eng.handId, eng.status>>
    <3>1. /\ eng'.handId = eng.handId
          /\ ~Accepted(eng, a) => eng'.status = eng.status
          /\ Accepted(eng, a) => /\ eng.status = "Running"
                                 /\ eng'.status \in {"Running", "Settled", "Showdown"}
      BY <2>1, TakeHand DEF IInv
    <3> QED BY <3>1
  <2>2. ASSUME NEW s \in Seat, Join(s) PROVE UNCHANGED <<eng.handId, eng.status>>
    BY <2>2 DEF Join, IInv, HandOK, EngineOK, EngineState
  <2>3. ASSUME NEW s \in Seat, Ready(s)
        PROVE  Lifecycle!StartHand \/ UNCHANGED <<eng.handId, eng.status>>
    <3>1. CASE UNCHANGED eng
      BY <3>1
    <3>2. CASE DealsHand /\ eng' = Deal(eng)
      <4>1. eng.status # "Running"
        BY <3>2 DEF DealsHand, IInv, HandOK, EngineOK
      <4>2. eng'.handId = eng.handId + 1 /\ eng'.status = "Running"
        BY <3>2 DEF Deal, IInv, HandOK, EngineOK, EngineState
      <4> QED BY <4>1, <4>2
    <3> QED BY <2>3, <3>1, <3>2 DEF Ready
  <2>4. CASE ClientActs
    <3>1. PICK s \in Seat : \E a \in Requests(s) : Act(a)
      BY <2>4 DEF ClientActs
    <3>2. PICK a \in Requests(s) : Act(a)
      BY <3>1
    <3>3. a \in PlayerAction /\ Take(a)
      BY <3>2, RequestsTyped DEF IInv, HandOK, Act
    <3> QED BY <3>3, <2>1
  <2>5. CASE ChainTxVerified
    <3> DEFINE cb == Head(callbacks)
    <3>1. CASE CallbackApplies(cb)
      <4>1. pending[cb.tx] \in PlayerAction /\ Take(pending[cb.tx])
        BY <3>1 DEF CallbackApplies, IInv, BindingOK
      <4> HIDE DEF cb
      <4> QED BY <4>1, <2>1
    <3>2. CASE CallbackAborts(cb)
      <4>1. /\ eng.status \in {"Running", "Showdown"}
            /\ eng' = [eng EXCEPT !.status = "Aborted", !.acting = NoSeat]
            /\ eng \in EngineState
        BY <3>2 DEF CallbackAborts, IInv, HandOK, EngineOK
      <4>2. eng'.status = "Aborted" /\ eng'.handId = eng.handId
        BY <4>1 DEF EngineState
      <4> QED BY <4>1, <4>2
    <3>3. CASE CallbackIgnored(cb)
      BY <3>3 DEF CallbackIgnored
    <3> QED BY <2>5, <3>1, <3>2, <3>3 DEF ChainTxVerified
  <2>6. ASSUME NEW h \in 1 .. eng.handId, CompleteSettlement(h) PROVE Lifecycle!Close
    <3>1. /\ eng.status = "Showdown"
          /\ eng' = [eng EXCEPT !.status = "Settled", !.acting = NoSeat]
          /\ eng \in EngineState
      BY <2>6 DEF CompleteSettlement, CompletesSettlement, IInv, HandOK, EngineOK
    <3>2. eng'.status = "Settled" /\ eng'.handId = eng.handId
      BY <3>1 DEF EngineState
    <3> QED BY <3>1, <3>2
  <2>7. CASE SchedulerTick
    <3>1. CASE TickFolds
      <4>1. AutoFold \in PlayerAction /\ Take(AutoFold)
        BY <3>1, AutoFoldTyped DEF IInv, TickFolds
      <4> QED BY <4>1, <2>1
    <3>2. CASE TickIdle \/ TickStartsTimer \/ TickReminds
      BY <3>2 DEF TickIdle, TickStartsTimer, TickReminds
    <3> QED BY <2>7, <3>1, <3>2 DEF SchedulerTick
  <2>8. ASSUME UNCHANGED eng PROVE UNCHANGED <<eng.handId, eng.status>>
    BY <2>8
  <2>9. CASE UNCHANGED vars
    BY <2>9, <2>8 DEF vars
  <2>10. ASSUME NEW s \in Seat, Leave(s) \/ BindAddress(s) \/ BindSessionKeys(s)
         PROVE  UNCHANGED eng
    BY <2>10 DEF Leave, BindAddress, BindSessionKeys
  <2>11. ASSUME NEW t \in Tx, QueuePending(t) \/ AbandonRequest(t) \/ ChainStep(t)
         PROVE  UNCHANGED eng
    BY <2>11 DEF QueuePending, AbandonRequest, ChainStep
  <2>12. CASE ClientPays \/ Elapse
    BY <2>12, <2>8 DEF ClientPays, InsertTxBinding, Elapse
  <2> QED BY <2>2, <2>3, <2>4, <2>5, <2>6, <2>7, <2>8, <2>9, <2>10, <2>11, <2>12, Zenon
          DEF Next, Play, Lifecycle!Next
<1> QED BY <1>1, <1>2, Invariance, PTL DEF Spec, RefinesLifecycle, Lifecycle!Spec
=============================================================================
