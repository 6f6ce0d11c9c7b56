---------------------------- MODULE SettlementLoop ----------------------------
(***************************************************************************)
(* The auto-settlement loop of the app-server: every tick it looks at the  *)
(* room and, when the hand is at its showdown, runs one attempt to settle  *)
(* it.  An attempt is a sequence of awaits, each of which can fail and end *)
(* the attempt with what it did so far; the next tick starts afresh.       *)
(* Operators meanwhile inject showdown inputs and mark records over HTTP   *)
(* (ops-http), and the process may restart.                                *)
(*                                                                         *)
(* The room is the abstract one of HandLifecycle and goes on while an      *)
(* attempt runs.  The plan is abstracted to the seats it pays, in order    *)
(* (module Payouts models how it is computed); amounts do not matter here. *)
(***************************************************************************)
EXTENDS Naturals, Sequences

CONSTANTS
    PayoutSeats,  \* the seats the plan of a hand pays, in the order of its payouts
    Modes,        \* how the server may be configured to pay
    MaxHands,     \* bound: hands of the room
    MaxTx,        \* bound: transfers the node accepts
    MaxOps        \* bound: operators' requests

ASSUME PayoutAssumption ==
    /\ PayoutSeats \in Seq(Nat) /\ PayoutSeats # << >>
    /\ \A j, k \in DOMAIN PayoutSeats : PayoutSeats[j] = PayoutSeats[k] => j = k
ASSUME BoundAssumption == MaxHands \in Nat /\ MaxTx \in Nat /\ MaxOps \in Nat
ASSUME ModesAssumption == Modes \subseteq {"direct", "batch", "offchain", "none"} /\ Modes # {}

VARIABLES
    mode,           \* the mode the server was started in
    hand, status,   \* the room
    addressed,      \* the payees whose seat has a bound address
    cache,          \* the provider's showdown input of each hand, by its origin
    row,            \* settlement_showdown_inputs, likewise
    attempt,        \* the attempt that runs, Idle between attempts
    ops,            \* the operator's request that runs, and how many there were
    planned,        \* settlement_plans: hands with a row
    booked,         \* ledger_entries: hands whose plan was booked
    noted,          \* settlement_records without a transaction: hands with one
    records,        \* settlement_records: status by transaction
    audited,        \* behavior_events: the last one about each transaction
    txs,            \* external: the transfers the node has accepted, in order of nonce
    settledIds,     \* external: BatchSettlement.settled
    \* history
    shown,          \* hands that were at their showdown
    completed,      \* hands closed by the settlement
    standing,       \* hands whose injected input no attempt was about to replace
    flagged         \* transactions an operator put up for review

roomVars == <<hand, status, shown>>
inputVars == <<cache, row>>
storeVars == <<planned, booked, noted, records, audited>>
chainVars == <<txs, settledIds>>
opsVars == <<ops, standing, flagged>>
vars == <<mode, roomVars, addressed, inputVars, attempt, opsVars, storeVars, chainVars,
          completed>>

Room == INSTANCE HandLifecycle

Hands == 1 .. MaxHands
Payee == {PayoutSeats[k] : k \in DOMAIN PayoutSeats}
Idle == [at |-> "idle", hand |-> 0, done |-> 0, known |-> {}, subs |-> << >>,
         receipts |-> << >>]

\* main: the wallets the environment configures decide the mode.
settlement_mode(enabled, endpoint, contract) ==
    CASE ~enabled -> "none"
      [] enabled /\ endpoint /\ contract -> "batch"
      [] enabled /\ endpoint /\ ~contract -> "direct"
      [] enabled /\ ~endpoint -> "offchain"

Init ==
    /\ \E enabled, endpoint, contract \in BOOLEAN :
           mode = settlement_mode(enabled, endpoint, contract)
    /\ mode \in Modes
    /\ Room!Init
    /\ shown = {}
    /\ addressed \in SUBSET Payee
    /\ cache = [h \in Hands |-> "none"] /\ row = [h \in Hands |-> "none"]
    /\ attempt = Idle
    /\ ops = [at |-> "idle", hand |-> 0, count |-> 0]
    /\ planned = {} /\ booked = {} /\ noted = {}
    /\ records = << >> /\ audited = << >>
    /\ txs = << >>
    /\ settledIds = {}
    /\ completed = {} /\ standing = {} /\ flagged = {}
-----------------------------------------------------------------------------
(***************************************************************************)
(* The room, the players and the process.                                  *)
(***************************************************************************)
RoomStep ==
    /\ \/ Room!StartHand /\ hand < MaxHands
       \/ Room!PlayOut
       \/ Room!GiveUp
    /\ shown' = IF status' = "Showdown" THEN shown \cup {hand} ELSE shown
    /\ UNCHANGED <<mode, addressed, inputVars, attempt, opsVars, storeVars, chainVars, completed>>

BindAddress(s) ==
    /\ addressed' = addressed \cup {s}
    /\ UNCHANGED <<mode, roomVars, inputVars, attempt, opsVars, storeVars, chainVars, completed>>

\* The rooms, their bindings, the cache and what runs are lost; a room made again
\* has no hand, and its hands have new ids.
Restart ==
    /\ hand > 0 /\ status # "Created"
    /\ status' = "Created"
    /\ addressed' = {}
    /\ cache' = [h \in Hands |-> "none"]
    /\ attempt' = Idle
    /\ ops' = [ops EXCEPT !.at = "idle", !.hand = 0]
    /\ standing' = {}
    /\ UNCHANGED <<mode, hand, shown, row, flagged, storeVars, chainVars, completed>>
-----------------------------------------------------------------------------
(***************************************************************************)
(* The steps of an attempt in each mode, in the order of the source.       *)
(***************************************************************************)
run_showdown_settlement_with_persistence == <<"plan", "book", "note", "complete">>

run_showdown_settlement_with_direct_payouts_and_alerts ==
    <<"plan", "book", "submit", "persist", "auditSubs", "check", "update", "auditReceipts",
      "review", "auditReview", "complete">>

run_showdown_settlement_with_batch_payouts_and_alerts ==
    <<"plan", "book", "submit", "persist", "auditSubs", "check", "update", "auditReceipts",
      "review", "auditReview", "complete">>

get_showdown_input == <<"cache", "row", "derive", "keep">>

try_auto_settle_showdown_room ==
    get_showdown_input \o <<"addresses">>
        \o run_showdown_settlement_with_direct_payouts_and_alerts

try_auto_settle_showdown_room_with_batch ==
    get_showdown_input \o <<"addresses">>
        \o run_showdown_settlement_with_batch_payouts_and_alerts

try_auto_settle_showdown_room_without_wallet ==
    get_showdown_input \o run_showdown_settlement_with_persistence

Steps ==
    CASE mode = "direct" -> try_auto_settle_showdown_room
      [] mode = "batch" -> try_auto_settle_showdown_room_with_batch
      [] mode = "offchain" -> try_auto_settle_showdown_room_without_wallet
      [] mode = "none" -> << >>

\* The receipt of one of an attempt's submissions.
ReceiptFor(a, i) == a.receipts[CHOOSE k \in DOMAIN a.subs : a.subs[k] = i]

\* The transactions of the attempt.
Subs(a) == {a.subs[k] : k \in DOMAIN a.subs}

\* What a step of an attempt works through, one await each, and where it is.
Items(a) == IF a.at = "submit" THEN PayoutSeats ELSE a.subs
Item(a) == Items(a)[a.done + 1]

\* The attempt a, at its next step or after one await of its step.
Advance(a) ==
    [a EXCEPT !.at = Steps[1 + CHOOSE k \in DOMAIN Steps : Steps[k] = a.at], !.done = 0]
Proceed(a) == IF a.done + 1 < Len(Items(a)) THEN [a EXCEPT !.done = @ + 1] ELSE Advance(a)

\* The step after the showdown input is there.
InputThere(a) == Advance([a EXCEPT !.at = "keep"])

\* One tick of a loop: the room's engine state is read, and from here on the attempt
\* works on its copy.
Tick(m) ==
    /\ mode = m /\ attempt = Idle
    /\ status = "Showdown"
    /\ attempt' = [Idle EXCEPT !.at = "cache", !.hand = hand]
    /\ UNCHANGED <<mode, roomVars, addressed, inputVars, opsVars, storeVars, chainVars, completed>>

spawn_auto_settlement_loop == Tick("direct")
spawn_auto_settlement_loop_with_batch == Tick("batch")
spawn_auto_settlement_loop_without_wallet == Tick("offchain")

\* A request to the store, the room or the node fails, or an address is missing: the
\* attempt is over.
Fail ==
    /\ attempt.at \in {"row", "derive", "plan", "book", "note", "submit", "persist", "check",
                       "update", "review", "complete"}
    /\ attempt' = Idle
    /\ UNCHANGED <<mode, roomVars, addressed, inputVars, opsVars, storeVars, chainVars, completed>>
-----------------------------------------------------------------------------
(***************************************************************************)
(* AppRoomShowdownInputProvider: the cache, else the stored row, else what *)
(* the engine dealt.                                                       *)
(***************************************************************************)
ReadCacheNever ==
    /\ attempt.at = "cache"
    /\ attempt' = Advance(attempt)
    /\ UNCHANGED <<mode, roomVars, addressed, inputVars, opsVars, storeVars, chainVars, completed>>

ReadCache ==
    /\ attempt.at = "cache"
    /\ attempt' = IF cache[attempt.hand] # "none" THEN InputThere(attempt) ELSE Advance(attempt)
    /\ UNCHANGED <<mode, roomVars, addressed, inputVars, opsVars, storeVars, chainVars, completed>>

ReadRow ==
    /\ attempt.at = "row"
    /\ IF row[attempt.hand] # "none"
       THEN /\ cache' = [cache EXCEPT ![attempt.hand] = row[attempt.hand]]
            /\ attempt' = InputThere(attempt)
       ELSE attempt' = Advance(attempt) /\ UNCHANGED cache
    /\ UNCHANGED <<mode, roomVars, addressed, row, opsVars, storeVars, chainVars, completed>>

DeriveLeftOut ==
    /\ attempt.at = "derive"
    /\ attempt' = Idle
    /\ UNCHANGED <<mode, roomVars, addressed, inputVars, opsVars, storeVars, chainVars, completed>>

\* get_engine_state again: the hand may be over by now.
Derive ==
    /\ attempt.at = "derive"
    /\ IF hand = attempt.hand /\ status = "Showdown"
       THEN /\ cache' = [cache EXCEPT ![hand] = "derived"]
            /\ attempt' = Advance(attempt)
       ELSE attempt' = Idle /\ UNCHANGED cache
    /\ UNCHANGED <<mode, roomVars, addressed, row, opsVars, storeVars, chainVars, completed>>

\* upsert_settlement_showdown_input, whose failure is ignored.
KeepDerived ==
    /\ attempt.at = "keep"
    /\ row' = [row EXCEPT ![attempt.hand] = "derived"] \/ UNCHANGED row
    /\ attempt' = Advance(attempt)
    /\ UNCHANGED <<mode, roomVars, addressed, cache, opsVars, storeVars, chainVars, completed>>

get_settlement_seat_addresses ==
    /\ attempt.at = "addresses"
    /\ attempt' = IF addressed # {} THEN Advance([attempt EXCEPT !.known = addressed]) ELSE Idle
    /\ UNCHANGED <<mode, roomVars, addressed, inputVars, opsVars, storeVars, chainVars, completed>>
-----------------------------------------------------------------------------
(***************************************************************************)
(* From the plan on.                                                       *)
(***************************************************************************)
insert_settlement_plan ==
    /\ attempt.at = "plan"
    /\ planned' = planned \cup {attempt.hand}
    /\ attempt' = Advance(attempt)
    /\ UNCHANGED <<mode, roomVars, addressed, inputVars, opsVars, booked, noted, records, audited,
                   chainVars, completed>>

\* All entries of a plan are booked in one database transaction.
insert_entries == booked' = booked \cup {attempt.hand}

record_plan ==
    /\ attempt.at = "book"
    /\ insert_entries
    /\ attempt' = Advance(attempt)
    /\ UNCHANGED <<mode, roomVars, addressed, inputVars, opsVars, planned, noted, records, audited,
                   chainVars, completed>>

\* The record without a transaction.
NoteOffchain ==
    /\ attempt.at = "note"
    /\ noted' = noted \cup {attempt.hand}
    /\ attempt' = Advance(attempt)
    /\ UNCHANGED <<mode, roomVars, addressed, inputVars, opsVars, planned, booked, records, audited,
                   chainVars, completed>>

SendForCurrentHand(call) ==
    /\ Len(txs) < MaxTx
    /\ txs' = Append(txs, [hand |-> hand, state |-> "sent",
                           seats |-> call.seats, id |-> call.id])

\* The node accepts the signed transaction; its nonce is the room's pending count.
Send(call) ==
    /\ Len(txs) < MaxTx
    /\ txs' = Append(txs, [hand |-> attempt.hand, state |-> "sent",
                           seats |-> call.seats, id |-> call.id])

build_settlement_batch_idPerTransfer(h) == MaxHands * Len(txs) + h

\* A digest of the room and the hand.
build_settlement_batch_id(h) == h

\* The call of the contract: whom it pays, and the settlement id.
encode_batch_settlement_call ==
    [seats |-> Payee, id |-> build_settlement_batch_id(attempt.hand)]

submit_transfer(s) == Send([seats |-> {s}, id |-> 0])
submit_batch_transfer == Send(encode_batch_settlement_call)

\* One transfer after the other; the answer to the last one may get lost.
submit_direct_payouts ==
    /\ mode = "direct" /\ attempt.at = "submit"
    /\ Item(attempt) \in attempt.known
    /\ submit_transfer(Item(attempt))
    /\ \/ attempt' = Proceed([attempt EXCEPT !.subs = Append(@, Len(txs'))])
       \/ attempt' = Idle
    /\ UNCHANGED <<mode, roomVars, addressed, inputVars, opsVars, storeVars, settledIds, completed>>

\* One transaction, and only if every address is known.
submit_batch_payouts ==
    /\ mode = "batch" /\ attempt.at = "submit"
    /\ Payee \subseteq attempt.known
    /\ submit_batch_transfer
    /\ \/ attempt' = Advance([attempt EXCEPT !.subs = <<Len(txs')>>])
       \/ attempt' = Idle
    /\ UNCHANGED <<mode, roomVars, addressed, inputVars, opsVars, storeVars, settledIds, completed>>

\* insert_settlement_record of one submission.
PersistSubmission ==
    /\ attempt.at = "persist"
    /\ records' = [i \in DOMAIN records \cup {Item(attempt)} |->
                      IF i = Item(attempt) THEN "submitted" ELSE records[i]]
    /\ attempt' = Proceed(attempt)
    /\ UNCHANGED <<mode, roomVars, addressed, inputVars, opsVars, planned, booked, noted, audited,
                   chainVars, completed>>

get_transfer_receiptMissingFails(tx) == IF tx.state = "ok" THEN "confirmed" ELSE "failed"

\* A mined transaction has the one confirmation asked for (min_confirmations).
get_transfer_receipt(tx) ==
    CASE tx.state = "sent" -> "pending"
      [] tx.state = "ok" -> "confirmed"
      [] tx.state = "reverted" -> "failed"

\* The batch adapter reads the one receipt alike.
get_batch_transfer_receipt(tx) == get_transfer_receipt(tx)

Checked(receipt) ==
    /\ attempt.at = "check"
    /\ attempt' = Proceed([attempt EXCEPT !.receipts = Append(@, receipt)])
    /\ UNCHANGED <<mode, roomVars, addressed, inputVars, opsVars, storeVars, chainVars, completed>>

\* One transfer after the other.
check_payout_submissions ==
    mode = "direct" /\ Checked(get_transfer_receipt(txs[Item(attempt)]))

check_batch_payout_submission ==
    mode = "batch" /\ Checked(get_batch_transfer_receipt(txs[Item(attempt)]))

\* The update of a record by its transaction.
update_settlement_record_status_by_tx_hash(i, new) == records' = [records EXCEPT ![i] = new]

\* persist_receipt_status_updates, one record.
UpdateRecord ==
    /\ attempt.at = "update"
    /\ update_settlement_record_status_by_tx_hash(Item(attempt),
                                                  ReceiptFor(attempt, Item(attempt)))
    /\ attempt' = Proceed(attempt)
    /\ UNCHANGED <<mode, roomVars, addressed, inputVars, opsVars, planned, booked, noted, audited,
                   chainVars, completed>>

\* mark_failed_receipts_for_manual_review, one receipt.
MarkForReview ==
    /\ attempt.at = "review"
    /\ IF ReceiptFor(attempt, Item(attempt)) # "failed" THEN UNCHANGED records
       ELSE update_settlement_record_status_by_tx_hash(Item(attempt), "manual_review_required")
    /\ attempt' = Proceed(attempt)
    /\ UNCHANGED <<mode, roomVars, addressed, inputVars, opsVars, planned, booked, noted, audited,
                   chainVars, completed>>

\* Audit events, by transaction: each may fail to be stored, which is only logged.
Emit(events) ==
    /\ \E kept \in SUBSET DOMAIN events :
           audited' = [i \in DOMAIN audited \cup kept |->
                          IF i \in kept THEN events[i] ELSE audited[i]]
    /\ UNCHANGED <<mode, roomVars, addressed, inputVars, opsVars, planned, booked, noted, records,
                   chainVars, completed>>

AuditSubmissions ==
    /\ attempt.at = "auditSubs"
    /\ Emit([i \in Subs(attempt) |-> "submitted"])
    /\ attempt' = Advance(attempt)

emit_settlement_submission_audits == mode = "direct" /\ AuditSubmissions
emit_batch_submission_audit == mode = "batch" /\ AuditSubmissions

AuditReceipts ==
    /\ attempt.at = "auditReceipts"
    /\ Emit([i \in Subs(attempt) |-> ReceiptFor(attempt, i)])
    /\ attempt' = Advance(attempt)

emit_settlement_receipt_audits == mode = "direct" /\ AuditReceipts
emit_batch_receipt_audit == mode = "batch" /\ AuditReceipts

FailedSubs(a) == {i \in Subs(a) : ReceiptFor(a, i) = "failed"}

AllConfirmedNoneFailed(a) == FailedSubs(a) = {}

AllConfirmed(a) == \A i \in Subs(a) : ReceiptFor(a, i) = "confirmed"

\* The last audit events, then the hand is closed if all transfers are confirmed.
emit_manual_review_audits ==
    /\ attempt.at = "auditReview"
    /\ Emit([i \in FailedSubs(attempt) |-> "review"])
    /\ attempt' = IF AllConfirmed(attempt) THEN Advance(attempt) ELSE Idle

\* complete_settlement: the room ignores it unless the hand is still at showdown.
Complete ==
    /\ attempt.at = "complete"
    /\ IF hand = attempt.hand /\ status = "Showdown"
       THEN Room!Close /\ completed' = completed \cup {hand}
       ELSE UNCHANGED <<hand, status, completed>>
    /\ attempt' = Idle
    /\ UNCHANGED <<mode, shown, addressed, inputVars, opsVars, storeVars, chainVars>>
-----------------------------------------------------------------------------
(***************************************************************************)
(* Operators.                                                              *)
(***************************************************************************)
\* admin_upsert_showdown_input of any hand there was: first into the cache.
InjectInput(h) ==
    /\ ops.at = "idle" /\ ops.count < MaxOps
    /\ ops' = [at |-> "row", hand |-> h, count |-> ops.count + 1]
    /\ cache' = [cache EXCEPT ![h] = "admin"]
    /\ standing' = IF attempt.hand = h /\ attempt.at \in {"row", "derive"} THEN standing
                   ELSE standing \cup {h}
    /\ UNCHANGED <<mode, roomVars, addressed, row, attempt, flagged, storeVars, chainVars, completed>>

\* Then into the store: accepted is true if that succeeded.
StoreInput ==
    /\ ops.at = "row"
    /\ row' = [row EXCEPT ![ops.hand] = "admin"] \/ UNCHANGED row
    /\ ops' = [ops EXCEPT !.at = "idle", !.hand = 0]
    /\ UNCHANGED <<mode, roomVars, addressed, cache, attempt, standing, flagged, storeVars, chainVars,
                   completed>>

\* admin_mark_settlement_manual_review, whatever the record says.
admin_mark_settlement_manual_review(i) ==
    /\ ops.at = "idle" /\ ops.count < MaxOps
    /\ update_settlement_record_status_by_tx_hash(i, "manual_review_required")
    /\ flagged' = flagged \cup {i}
    /\ ops' = [ops EXCEPT !.count = @ + 1]
    /\ UNCHANGED <<mode, roomVars, addressed, inputVars, attempt, standing, planned, booked, noted,
                   audited, chainVars, completed>>
-----------------------------------------------------------------------------
(***************************************************************************)
(* The chain mines the room's transfers in order of nonce.  The contract   *)
(* settles a settlement id once.                                           *)
(***************************************************************************)
Mine(i) ==
    /\ txs[i].state = "sent"
    /\ \A j \in 1 .. i - 1 : txs[j].state # "sent"
    /\ \/ /\ txs' = [txs EXCEPT ![i].state = "reverted"]
          /\ UNCHANGED settledIds
       \/ /\ mode = "batch" => txs[i].id \notin settledIds
          /\ txs' = [txs EXCEPT ![i].state = "ok"]
          /\ settledIds' = IF mode = "batch" THEN settledIds \cup {txs[i].id}
                           ELSE settledIds
    /\ UNCHANGED <<mode, roomVars, addressed, inputVars, attempt, opsVars, storeVars, completed>>

LoopStep ==
    \/ spawn_auto_settlement_loop \/ spawn_auto_settlement_loop_with_batch
    \/ spawn_auto_settlement_loop_without_wallet
    \/ ReadCache \/ ReadRow \/ Derive \/ KeepDerived \/ get_settlement_seat_addresses
    \/ insert_settlement_plan \/ record_plan \/ NoteOffchain
    \/ submit_direct_payouts \/ submit_batch_payouts
    \/ PersistSubmission \/ check_payout_submissions \/ check_batch_payout_submission
    \/ UpdateRecord \/ MarkForReview
    \/ emit_settlement_submission_audits \/ emit_batch_submission_audit
    \/ emit_settlement_receipt_audits \/ emit_batch_receipt_audit
    \/ emit_manual_review_audits
    \/ Complete \/ Fail

Operator ==
    \/ \E h \in 1 .. hand : InjectInput(h)
    \/ StoreInput
    \/ \E i \in DOMAIN records : admin_mark_settlement_manual_review(i)

Next ==
    \/ RoomStep
    \/ Restart
    \/ \E s \in Payee : BindAddress(s)
    \/ LoopStep
    \/ Operator
    \/ \E i \in DOMAIN txs : Mine(i)

Spec == Init /\ [][Next]_vars

\* The loop ticks for ever, a step that is tried again and again succeeds now and
\* then, and the chain mines what it accepted.
FairSpec ==
    /\ Spec
    /\ WF_vars(LoopStep)
    /\ SF_vars(ReadRow) /\ SF_vars(Derive) /\ SF_vars(insert_settlement_plan)
    /\ SF_vars(record_plan) /\ SF_vars(NoteOffchain) /\ SF_vars(Complete)
    /\ WF_vars(\E i \in DOMAIN txs : Mine(i))
-----------------------------------------------------------------------------
PaidBy(h, s) == {i \in DOMAIN txs : txs[i].hand = h /\ s \in txs[i].seats /\ txs[i].state = "ok"}

\* A hand is closed by the settlement only when its plan is stored and booked and, with
\* a wallet, every seat of it was paid on the chain and has a record of that (or an
\* operator has put the record up for review), although receipts, failures, restarts
\* and earlier attempts interleave ("hand should remain open on failed payout").
CompletedIsPaid ==
    \A h \in completed :
        /\ h \in planned \cap booked
        /\ mode = "offchain" => h \in noted
        /\ mode # "offchain" => \A s \in Payee : \E i \in PaidBy(h, s) :
               i \in DOMAIN records /\ (records[i] = "confirmed" \/ i \in flagged)

\* In batch mode the chain pays a seat at most once for a hand, however many attempts
\* submit it again (settlementId of the room and the hand, AlreadySettled).
BatchPaysOnce ==
    mode = "batch" =>
        \A h \in Hands : \A s \in Payee : \A i, j \in PaidBy(h, s) : i = j

\* Neither a record nor an audit event claims what the chain does not say: what is
\* confirmed was mined with success, what failed or is up for review has reverted,
\* unless an operator marked it; and what is audited has its record
\* (check_payout_submissions, mark_failed_receipts_for_manual_review).
RecordsAreTrue ==
    /\ \A i \in DOMAIN records :
           /\ records[i] = "confirmed" => txs[i].state = "ok"
           /\ records[i] = "failed" => txs[i].state = "reverted"
           /\ records[i] = "manual_review_required" => txs[i].state = "reverted" \/ i \in flagged
    /\ \A i \in DOMAIN audited :
           /\ i \in DOMAIN records
           /\ audited[i] = "confirmed" => txs[i].state = "ok"
           /\ audited[i] \in {"failed", "review"} => txs[i].state = "reverted"
           /\ audited[i] = "review" => records[i] = "manual_review_required"

\* Chips leave the room's address only for hands that came to a showdown and whose
\* plan the store and the ledger have, also when the room has dealt another hand
\* while the attempt ran (record_plan before submit_direct_payouts).
OnlyShowdownsPaid ==
    \A i \in DOMAIN txs :
        txs[i].hand \in shown /\ txs[i].hand \in planned \cap booked

\* An input an operator injects is not replaced by what the engine dealt, unless an
\* attempt had already missed it in the cache (get_showdown_input).
OverrideStands == \A h \in standing : cache[h] = "admin"

\* Without a wallet nothing but the loop is needed: a hand at its showdown is settled,
\* unless the room moves on first, although any step may fail at times.
OffchainSettles ==
    mode = "offchain" => (status = "Showdown" ~> status # "Showdown")
-----------------------------------------------------------------------------
(***************************************************************************)
(* Statements of the repository's documents and tests.                     *)
(***************************************************************************)
\* "失败重试", retry on failure: a seat's payout of a hand is sent again only when the
\* transfers that carried it before have failed (submit_direct_payouts).
RetriedOnlyIfFailed ==
    [][Len(txs') > Len(txs) =>
        LET sent == txs'[Len(txs')]
        IN  \A i \in DOMAIN txs :
                txs[i].hand = sent.hand /\ txs[i].seats \cap sent.seats # {} =>
                    txs[i].state = "reverted"]_vars
=============================================================================
