----------------------------- MODULE SeatClient -----------------------------
(***************************************************************************)
(* The resident client of one seat: the loop of single_seat_client.rs, the *)
(* procedures of runtime.rs it calls, the requests agent-sdk builds for    *)
(* them, the policies of policy_adapter.rs and the wallet of               *)
(* wallet_adapter.rs.  The client is one task: between two awaits nothing  *)
(* else of it runs, but the room goes on.                                  *)
(*                                                                         *)
(* The room is reduced to what the client reads of it: the hand, whose     *)
(* turn it is and whether it faces a bet (RoomActor models the room).  A   *)
(* call may be lost on the way there or on the way back, or be refused;    *)
(* MaxFaults such failures happen in all.  The seat's hole cards reach it  *)
(* encrypted to the key it bound (seat-crypto); a hand's cards are named   *)
(* by the hand.  What the client only logs (board cards, amounts) is left  *)
(* out, and so are hands dealt before the seat first joined.               *)
(***************************************************************************)
EXTENDS Integers, Sequences, FiniteSets, SequencesExt

CONSTANTS
    PolicyMode,           \* "rule" or "codex_cli"
    MaxHands, MaxTurns, MaxFaults  \* bounds: hand h has MaxTurns - h turns at most

ASSUME BoundAssumption == MaxHands \in Nat /\ MaxTurns \in Nat /\ MaxFaults \in Nat

VARIABLES
    table,          \* the room: [hand, seq, acting, status, facing]
    seat,           \* what the room has of the seat: a subset of {"join", "keys"}
    privateEvents,  \* the room's envelopes of the seat's cards: [hand, key]
    todo,           \* what the client's task will do next; empty: it selects
    link,           \* the websocket is subscribed
    inbox,          \* names of the events that wait on it
    turn,           \* the turn being decided: [key, legal, fits, cards]
    decision,       \* [action, amount]
    observed,       \* last_observed: [hand, closed]
    lastAttempted,  \* last_attempted_turn
    synced,         \* synced_hands: the hands whose cards it has seen
    payments,       \* history: transfers made: [key, fits, seen]
    failures,       \* history: turns whose execution failed on the way
    faults

roomVars == <<table, seat, privateEvents>>
turnVars == <<turn, decision, lastAttempted>>
history == <<payments, failures>>
vars == <<roomVars, todo, link, inbox, turnVars, observed, synced, history, faults>>

NoTurn == <<0, 0>>
Undecided == [key |-> NoTurn, legal |-> {}, fits |-> FALSE, cards |-> {}]
NoDecision == [action |-> "none", amount |-> FALSE]
PrepareSteps == <<"join", "address", "keys", "ready">>
Startup == PrepareSteps \o <<"connect">>

Init ==
    /\ table = [hand |-> 0, seq |-> 0, acting |-> "none", status |-> "Created", facing |-> FALSE]
    /\ seat = {} /\ privateEvents = {} /\ synced = {}
    /\ todo = Startup
    /\ link = FALSE /\ inbox = {}
    /\ turn = Undecided /\ decision = NoDecision
    /\ observed = [hand |-> -1, closed |-> FALSE] /\ lastAttempted = NoTurn
    /\ payments = << >> /\ failures = << >>
    /\ faults = 0

Fault == faults < MaxFaults /\ faults' = faults + 1
Key == <<table.hand, table.seq>>
MyTurn == table.acting = "me"

\* Settled or Aborted
HandOver == table.status = "Closed"
-----------------------------------------------------------------------------
(***************************************************************************)
(* The room, as the client sees it.                                        *)
(***************************************************************************)
\* The subscription may lose an event: its buffer is full, or it is cut off.
Announce(e) == inbox' \in {inbox, IF link THEN inbox \cup {e} ELSE inbox}

NewTurn(h, n) ==
    /\ h + n <= MaxTurns
    /\ \E t \in {<<"me", TRUE>>, <<"me", FALSE>>, <<"other", FALSE>>} :
          table' = [hand |-> h, seq |-> n, acting |-> t[1], status |-> "Running", facing |-> t[2]]
    /\ Announce("turn_started")

EndHand ==
    /\ table' = [table EXCEPT !.seq = @ + 1, !.acting = "none", !.status = "Closed"]
    /\ Announce("hand_closed")

\* An action is applied: the next turn, the end of the hand, or its showdown.
Advance ==
    \/ NewTurn(table.hand, table.seq + 1)
    \/ EndHand
    \/ /\ table' = [table EXCEPT !.seq = @ + 1, !.acting = "none", !.status = "Showdown"]
       /\ UNCHANGED inbox

\* The other seats, the turn's timer, the chain's callbacks, the settlement.
RoomMoves ==
    /\ \/ table.acting # "none" /\ Advance
       \/ table.status = "Showdown" /\ EndHand
    /\ UNCHANGED <<seat, privateEvents, todo, link, turnVars, observed, synced, history, faults>>

\* The card key of the client's configuration, which "keys" binds to the seat.
CardKey == "card key"

\* An envelope names its hand and opens with the secret of its key alone.
encrypt_hole_cards_dealt_payload(h, key) == [hand |-> h, key |-> key]
decrypt_with_recipient_x25519(e, key) == e.key = key

\* One envelope, made for the key the seat has at the deal; none without a key.
build_hole_cards_private_events(h) ==
    IF "keys" \in seat THEN {encrypt_hole_cards_dealt_payload(h, CardKey)} ELSE {}

\* A ready seat, this one or another, brings the next hand.  Every seat at the
\* table is dealt in, ready or not; envelopes of earlier hands are kept.
Deal ==
    /\ table.acting = "none" /\ table.hand < MaxHands
    /\ "join" \in seat
    /\ NewTurn(table.hand + 1, 1)
    /\ privateEvents' = privateEvents \cup build_hole_cards_private_events(table.hand + 1)
    /\ UNCHANGED <<seat, todo, link, turnVars, observed, synced, history, faults>>

GetPrivateEventsOfAll(h) == privateEvents

GetPrivateEvents(h) == {e \in privateEvents : e.hand = h}

\* The cards, named by their hand, that the client's secret finds in envelopes.
build_private_state_json(events) ==
    {e.hand : e \in {x \in events : decrypt_with_recipient_x25519(x, CardKey)}}

\* Only a seated seat binds keys.  That it is ready and has an address matters
\* to when the next hand starts, which is left open here.
SeatTakes(step) ==
    seat' = IF step = "join" \/ (step = "keys" /\ "join" \in seat)
            THEN seat \cup {step} ELSE seat
-----------------------------------------------------------------------------
(***************************************************************************)
(* Procedures.  Each step is one remote call; todo holds the rest.         *)
(***************************************************************************)
At(step) == todo # << >> /\ Head(todo) = step
Done == todo' = Tail(todo)

\* maybe_execute_turn returns, and what it collected is gone.
Return == Done /\ turn' = Undecided /\ decision' = NoDecision

\* What is to do after the preparation that is at this step.
AfterPreparing(step) ==
    LET k == CHOOSE i \in DOMAIN PrepareSteps : PrepareSteps[i] = step
    IN  SubSeq(todo, Len(PrepareSteps) - k + 2, Len(todo))

\* prepare_seat: join, bind, bind, ready, ended by the first failure.  At the
\* start that ends the program; later it is only logged.
PrepareFails(step) ==
    todo' = IF "connect" \in ToSet(todo) THEN <<"exit">> ELSE AfterPreparing(step)

prepare_seat(step) ==
    /\ At(step)
    /\ \/ SeatTakes(step) /\ Done /\ UNCHANGED faults
       \/ Fault /\ PrepareFails(step) /\ (SeatTakes(step) \/ UNCHANGED seat)
    /\ UNCHANGED <<table, privateEvents, link, inbox, turnVars, observed, synced, history>>

connect_ws ==
    /\ At("connect")
    /\ \/ todo' = <<"subscribe">> /\ UNCHANGED faults
       \/ Fault /\ UNCHANGED todo
    /\ UNCHANGED <<roomVars, link, inbox, turnVars, observed, synced, history>>

\* Both topics; a failure goes back to connecting.
subscribe_events ==
    /\ At("subscribe")
    /\ \/ link' = TRUE /\ todo' = <<"sync", "poll", "collect">> /\ UNCHANGED faults
       \/ Fault /\ todo' = <<"connect">> /\ UNCHANGED link
    /\ UNCHANGED <<roomVars, inbox, turnVars, observed, synced, history>>

\* poll_room_hand_state: a new hand forgets the attempted turn, and a hand that
\* is seen to have closed prepares the seat again.
poll_room_hand_state ==
    /\ At("poll")
    /\ \/ /\ observed' = [hand |-> table.hand, closed |-> HandOver]
          /\ lastAttempted' =
                 IF observed.hand \notin {-1, table.hand} THEN NoTurn ELSE lastAttempted
          /\ todo' = IF HandOver /\ ~observed.closed THEN PrepareSteps \o Tail(todo) ELSE Tail(todo)
          /\ UNCHANGED faults
       \/ Fault /\ Done /\ UNCHANGED <<observed, lastAttempted>>
    /\ UNCHANGED <<roomVars, link, inbox, turn, decision, synced, history>>

\* sync_hole_cards_for_hand: a hand is done with once an envelope was opened.
sync_hole_cards_for_hand(h) ==
    synced' = IF build_private_state_json(GetPrivateEvents(h)) # {} THEN synced \cup {h} ELSE synced

HandIsOpen == table.status \in {"Running", "Showdown"}

sync_hole_cards_for_current_hand ==
    /\ At("sync")
    /\ \/ HandIsOpen /\ sync_hole_cards_for_hand(table.hand) /\ UNCHANGED faults
       \/ ~HandIsOpen /\ UNCHANGED <<synced, faults>>
       \/ Fault /\ UNCHANGED synced
    /\ Done
    /\ UNCHANGED <<roomVars, link, inbox, turnVars, observed, history>>

\* collect_turn_decision_input: first the state, then the legal actions.  The
\* duplicate check of maybe_execute_turn follows the second.
CollectState ==
    /\ At("collect")
    /\ \/ /\ MyTurn
          /\ turn' = [Undecided EXCEPT !.key = Key]
          /\ todo' = <<"legal">> \o Tail(todo)
          /\ UNCHANGED <<decision, faults>>
       \/ ~MyTurn /\ Return /\ UNCHANGED faults
       \/ Fault /\ Return
    /\ UNCHANGED <<roomVars, link, inbox, lastAttempted, observed, synced, history>>

\* All-in, which the client treats as it does a raise, is left out.
legal_actions ==
    IF ~MyTurn THEN {}
    ELSE {"fold", "raiseto"} \cup (IF table.facing THEN {"call"} ELSE {"check"})

\* The private payloads, the third read, are asked for by hand and never change.
CollectLegal ==
    /\ At("legal")
    /\ \/ /\ turn.key # lastAttempted
          /\ turn' = [turn EXCEPT !.legal = legal_actions, !.fits = Key = turn.key,
                                  !.cards = build_private_state_json(GetPrivateEvents(turn.key[1]))]
          /\ todo' = <<"decide">> \o Tail(todo)
          /\ UNCHANGED <<decision, faults>>
       \/ turn.key = lastAttempted /\ Return /\ UNCHANGED faults
       \/ Fault /\ Return
    /\ UNCHANGED <<roomVars, link, inbox, lastAttempted, observed, synced, history>>
-----------------------------------------------------------------------------
(***************************************************************************)
(* Deciding and executing.                                                 *)
(***************************************************************************)
\* RulePolicyAdapter: check, else call, else fold, without an amount.
Preference == <<"check", "call", "fold">>
Rule ==
    LET legal == SelectSeq(Preference, LAMBDA a : a \in turn.legal)
    IN  IF legal = << >> THEN {} ELSE {[action |-> legal[1], amount |-> FALSE]}

\* CodexCliPolicyAdapter: any legal action; a raise with an amount or without.
Codex ==
    IF PolicyMode = "codex_cli"
    THEN {d \in [action : turn.legal, amount : BOOLEAN] : d.amount => d.action = "raiseto"}
    ELSE {}

Decide ==
    /\ At("decide")
    /\ \/ /\ decision' \in Rule \cup Codex
          /\ todo' = <<"recheck">> \o Tail(todo)
          /\ turn' = [turn EXCEPT !.legal = {}]
       \/ Rule \cup Codex = {} /\ Return
    /\ UNCHANGED <<roomVars, link, inbox, lastAttempted, observed, synced, history, faults>>

\* The turn is read again and must be the one decided.
StillMyTurn == MyTurn /\ Key = turn.key

RecheckTrusting ==
    /\ At("recheck")
    /\ todo' = <<"execute">> \o Tail(todo)
    /\ lastAttempted' = turn.key
    /\ UNCHANGED <<roomVars, link, inbox, turn, decision, observed, synced, history, faults>>

Recheck ==
    /\ At("recheck")
    /\ \/ /\ StillMyTurn
          /\ todo' = <<"execute">> \o Tail(todo)
          /\ lastAttempted' = turn.key
          /\ UNCHANGED <<turn, decision, faults>>
       \/ ~StillMyTurn /\ Return /\ UNCHANGED <<lastAttempted, faults>>
       \/ Fault /\ Return /\ UNCHANGED lastAttempted
    /\ UNCHANGED <<roomVars, link, inbox, observed, synced, history>>

NeedsAmount == decision.action \in {"call", "raiseto"}

\* resolve_action_amount_from_legal_actions: a call's amount is the legal one.
AmountKnown == decision.action = "call" \/ decision.amount

\* Failures of the wallet and of the transport are retried, others are not.
Transient ==
    /\ lastAttempted' = NoTurn
    /\ failures' = Append(failures, turn.key)
    /\ Fault /\ Return

Paid == payments' = Append(payments, [key |-> turn.key, fits |-> turn.fits, seen |-> turn.cards])

TransferRetried ==
    /\ At("execute")
    /\ NeedsAmount => AmountKnown
    /\ IF NeedsAmount THEN Paid ELSE UNCHANGED payments
    /\ todo' \in {todo, <<"act">> \o Tail(todo)}
    /\ UNCHANGED <<roomVars, link, inbox, turnVars, observed, synced, failures, faults>>

\* A transfer whose answer is lost was made all the same.
WalletCallFails == Transient /\ (Paid \/ UNCHANGED payments)

\* execute_turn_decision up to the transfer.
Transfer ==
    /\ At("execute")
    /\ \/ /\ NeedsAmount => AmountKnown
          /\ IF NeedsAmount THEN Paid ELSE UNCHANGED payments
          /\ todo' = <<"act">> \o Tail(todo)
          /\ UNCHANGED <<turn, decision, lastAttempted, failures, faults>>
       \/ /\ NeedsAmount /\ ~AmountKnown /\ Return
          /\ UNCHANGED <<payments, lastAttempted, failures, faults>>
       \/ NeedsAmount /\ AmountKnown /\ WalletCallFails
    /\ UNCHANGED <<roomVars, link, inbox, observed, synced>>

\* build_game_act_request puts the action's name in lower case without its
\* underscore; the gateway's parse_action_type knows these.
GatewayNames == {"fold", "check", "call", "raise_to", "all_in"}

\* The gateway and the room take the action: a paid one waits for the chain, a
\* free one is applied.
Takes ==
    IF decision.action \in GatewayNames /\ Key = turn.key /\ ~NeedsAmount
    THEN Advance
    ELSE UNCHANGED <<table, inbox>>

\* Every execution connects a skill of its own, whose store of attempts is empty:
\* the reservation of the turn in it never finds an earlier one.
connect_skill == {}
reserve_action_attempt(store) == turn.key \notin store
build_signed_game_act_request == reserve_action_attempt(connect_skill)

Act ==
    /\ At("act")
    /\ \/ /\ IF build_signed_game_act_request THEN Takes ELSE UNCHANGED <<table, inbox>>
          /\ Return /\ UNCHANGED <<lastAttempted, failures, faults>>
       \/ Transient /\ (Takes \/ UNCHANGED <<table, inbox>>)
    /\ UNCHANGED <<seat, privateEvents, link, observed, synced, payments>>
-----------------------------------------------------------------------------
(***************************************************************************)
(* The select loop.                                                        *)
(***************************************************************************)
TickOnlyPolls ==
    /\ link /\ todo = << >>
    /\ todo' = <<"poll">>
    /\ UNCHANGED <<roomVars, link, inbox, turnVars, observed, synced, history, faults>>

TickSkipsSync ==
    /\ link /\ todo = << >>
    /\ todo' = <<"poll", "collect">>
    /\ UNCHANGED <<roomVars, link, inbox, turnVars, observed, synced, history, faults>>

SafetyTick ==
    /\ link /\ todo = << >>
    /\ todo' = <<"poll", "sync", "collect">>
    /\ UNCHANGED <<roomVars, link, inbox, turnVars, observed, synced, history, faults>>

\* The cards of the event's hand, this one or an earlier, are asked for at once.
HandleEvent(e) ==
    /\ link /\ todo = << >> /\ e \in inbox
    /\ inbox' = inbox \ {e}
    /\ IF e = "turn_started"
       THEN /\ todo' = <<"collect">>
            /\ \/ UNCHANGED faults /\ \E h \in 1 .. table.hand : sync_hole_cards_for_hand(h)
               \/ Fault /\ UNCHANGED synced
       ELSE todo' = <<"poll">> /\ UNCHANGED <<synced, faults>>
    /\ UNCHANGED <<roomVars, link, turnVars, observed, history>>

SocketCloses ==
    /\ link /\ todo = << >> /\ Fault
    /\ link' = FALSE /\ inbox' = {} /\ todo' = <<"connect">>
    /\ UNCHANGED <<roomVars, turnVars, observed, synced, history>>

Turn == CollectState \/ CollectLegal \/ Decide \/ Recheck \/ Transfer \/ Act
Session == connect_ws \/ subscribe_events \/ SafetyTick \/ SocketCloses
           \/ \E e \in {"turn_started", "hand_closed"} : HandleEvent(e)
ClientStep ==
    \/ \E step \in ToSet(PrepareSteps) : prepare_seat(step)
    \/ poll_room_hand_state \/ sync_hole_cards_for_current_hand \/ Turn \/ Session

Next == ClientStep \/ RoomMoves \/ Deal
Spec == Init /\ [][Next]_vars

\* The runtime keeps polling the client's task, and its ticker fires.
FairSpec == Spec /\ WF_vars(ClientStep)
-----------------------------------------------------------------------------
Turns == (1 .. MaxHands) \X (1 .. MaxTurns - 1)
Paying(k) == Cardinality({i \in DOMAIN payments : payments[i].key = k})
Failing(k) == Cardinality({i \in DOMAIN failures : failures[i] = k})

\* A turn is paid for again only for a cause: an execution of it failed on the
\* way, or, once, the poll came to see its hand after it was paid for.  No other
\* interleaving of ticks, events, reconnections and hands gets past
\* last_attempted_turn.
PaidAgainForCause == \A k \in Turns : Paying(k) <= 2 + Failing(k)

\* What agent-sdk's test of LocalActionAttemptStore and the documents ask of an
\* action ("hand_id + action_seq"): one attempt at a turn, unless it failed on the
\* way.  The poll that first sees a hand forgets a turn of it already paid for.
PaidOncePerTurn == \A k \in Turns : Paying(k) <= 1 + Failing(k)

\* The amount of a transfer comes from the legal actions of the turn it pays for,
\* though state and legal actions are two reads with the room running between
\* them: the second reading of the turn excludes a mixture.
PaysWhatTheTurnAsks == \A i \in DOMAIN payments : payments[i].fits

CardsOut == {e.hand : e \in privateEvents}

\* A decision that is paid for was made with the cards of its own hand and no
\* others, and with them whenever the seat's key was bound at the deal: the hand
\* asked for is the one of the state read before, though the room has dealt again.
PaysSeeingItsCards ==
    \A i \in DOMAIN payments :
        LET h == payments[i].key[1] IN payments[i].seen = {h} \cap CardsOut

\* The cards of a hand in progress reach a client whose key was bound at its deal,
\* whatever calls fail and events are lost: a failed synchronisation is repeated.
CardsAreSynced ==
    []<>(table.status = "Running" /\ table.hand \in CardsOut
             => table.hand \in synced \/ todo = <<"exit">>)

\* The seat's turn is never left waiting for good without an executed decision,
\* whatever events the client loses: the safety tick looks at the turn as well.
TurnIsAttempted == []<>(MyTurn => lastAttempted = Key \/ todo = <<"exit">>)
=============================================================================
