------------------------- MODULE SettlementLoopProofs -------------------------
(***************************************************************************)
(* The theorems about the settlement loop, for plans that pay any number   *)
(* of seats, any number of hands, transfers and operators' requests.       *)
(***************************************************************************)
EXTENDS SettlementLoop, TLAPS

USE Zenon

-----------------------------------------------------------------------------
(***************************************************************************)
(* The steps of an attempt, by what it has done when it comes to them.     *)
(***************************************************************************)
Opening == {"cache", "row", "derive", "keep", "addresses", "plan", "book"}
Reviewed == {"auditReview", "complete"}
Updated == {"auditReceipts", "review"} \cup Reviewed
AfterCheck == {"update"} \cup Updated
Persisted == {"auditSubs", "check"} \cup AfterCheck
Submitted == {"persist"} \cup Persisted
Booked == {"note", "submit"} \cup Submitted
Planned == {"book"} \cup Booked
Step == Opening \cup Booked

Receipt == {"pending", "confirmed", "failed"}
Transfer == [hand : Nat, state : {"sent", "ok", "reverted"}, seats : SUBSET Nat, id : Nat]
Attempt ==
    [at : Step \cup {"idle"}, hand : Nat, done : Nat, known : SUBSET Nat, subs : Seq(Nat),
     receipts : Seq(Receipt)]
-----------------------------------------------------------------------------
(***************************************************************************)
(* The inductive invariant.                                                *)
(***************************************************************************)
RoomOK ==
    /\ hand \in 0 .. MaxHands
    /\ status \in {"Created", "Running", "Showdown", "Settled", "Aborted"}
    /\ shown \subseteq 1 .. hand
    /\ completed \subseteq 1 .. hand
    /\ status = "Showdown" => hand \in shown
    /\ status \in {"Running", "Showdown"} => hand > 0 /\ hand \notin completed

\* An attempt settles a hand that came to its showdown and was not settled, and comes
\* to its later steps by the earlier ones.
AttemptOK ==
    /\ mode \in {"direct", "batch", "offchain", "none"}
    /\ attempt \in Attempt
    /\ addressed \subseteq Nat
    /\ attempt.at = "idle" => attempt = Idle
    /\ attempt.at # "idle" => mode # "none" /\ attempt.hand \in shown \ completed
    /\ attempt.at \in Planned => attempt.hand \in planned
    /\ attempt.at \in Booked => attempt.hand \in booked
    /\ attempt.at = "note" => mode = "offchain"
    /\ attempt.at \in ({"addresses", "submit"} \cup Submitted) \ {"complete"} => mode # "offchain"
    /\ attempt.at = "complete" /\ mode = "offchain" => attempt.hand \in noted

\* An attempt that has missed an input in the cache has none to replace.
InputOK ==
    /\ cache \in [Hands -> {"none", "derived", "admin"}]
    /\ row \in [Hands -> {"none", "derived", "admin"}]
    /\ ops \in [at : {"idle", "row"}, hand : Nat, count : Nat]
    /\ standing \subseteq Hands
    /\ OverrideStands
    /\ attempt.at \in {"row", "derive"} => attempt.hand \notin standing

\* A settlement id is the hand's, and is settled by one transfer.
TxsOK ==
    /\ txs \in Seq(Transfer)
    /\ OnlyShowdownsPaid
    /\ mode = "batch" =>
           /\ \A i \in DOMAIN txs : /\ txs[i].id = txs[i].hand
                                    /\ txs[i].state = "ok" => txs[i].id \in settledIds
           /\ \A i, j \in DOMAIN txs :
                  txs[i].state = "ok" /\ txs[j].state = "ok" /\ txs[i].id = txs[j].id => i = j

\* How many transfers an attempt sends, and whom the k-th of them pays.
SubCount == IF mode = "direct" THEN Len(PayoutSeats) ELSE 1
PaidSeats(k) == IF mode = "direct" THEN {PayoutSeats[k]} ELSE Payee

\* How far the attempt has come with its transfers and receipts.
CountOK ==
    /\ attempt.at \notin {"submit"} \cup Submitted \/ mode = "offchain" =>
           attempt.subs = << >> /\ attempt.receipts = << >> /\ attempt.done = 0
    /\ attempt.at = "submit" => Len(attempt.subs) = attempt.done
    /\ attempt.at \in {"submit"} \cup Submitted /\ mode # "offchain" => attempt.done < SubCount
    /\ attempt.at \in Submitted /\ mode # "offchain" => Len(attempt.subs) = SubCount
    /\ attempt.at \in {"submit", "persist", "auditSubs"} => attempt.receipts = << >>
    /\ attempt.at = "check" => Len(attempt.receipts) = attempt.done
    /\ attempt.at \in AfterCheck /\ mode # "offchain" =>
           Len(attempt.receipts) = Len(attempt.subs)

\* The step of the attempt is done with the k-th of what it works through.
Past(step, later, k) == attempt.at \in later \/ (attempt.at = step /\ k <= attempt.done)

\* The k-th transfer of the attempt.
SubOK(k) ==
    LET i == attempt.subs[k]
    IN  /\ i \in DOMAIN txs
        /\ txs[i].hand = attempt.hand
        /\ txs[i].seats = PaidSeats(k)
        /\ Past("persist", Persisted, k) => i \in DOMAIN records
        /\ attempt.at # "complete" /\ i \in DOMAIN audited => audited[i] # "review"

\* Its receipt says what the chain said, which is final, and so does its record.
ReceiptOK(k) ==
    LET i == attempt.subs[k]
    IN  /\ attempt.receipts[k] = "confirmed" => txs[i].state = "ok"
        /\ attempt.receipts[k] = "failed" => txs[i].state = "reverted"
        /\ attempt.receipts[k] = "confirmed" /\ Past("update", Updated, k) =>
               records[i] = "confirmed" \/ i \in flagged
        /\ attempt.receipts[k] = "failed" /\ Past("review", Reviewed, k) =>
               records[i] = "manual_review_required"
        /\ attempt.at = "complete" => attempt.receipts[k] = "confirmed"

PayOK ==
    /\ CountOK
    /\ \A k \in DOMAIN attempt.subs : SubOK(k)
    /\ \A j, k \in DOMAIN attempt.subs : attempt.subs[j] = attempt.subs[k] => j = k
    /\ \A k \in DOMAIN attempt.receipts : ReceiptOK(k)

RecordOK ==
    /\ DOMAIN records \subseteq DOMAIN txs
    /\ flagged \subseteq DOMAIN records
    /\ RecordsAreTrue

IInv ==
    /\ RoomOK
    /\ AttemptOK
    /\ InputOK
    /\ TxsOK
    /\ PayOK
    /\ RecordOK
    /\ CompletedIsPaid
-----------------------------------------------------------------------------
(***************************************************************************)
(* The order of the steps.                                                 *)
(***************************************************************************)
\* What a concatenation holds.
LEMMA Concatenation ==
    ASSUME NEW S, NEW s \in Seq(S), NEW t \in Seq(S)
    PROVE  /\ s \o t \in Seq(S) /\ Len(s \o t) = Len(s) + Len(t)
           /\ \A k \in 1 .. Len(s) + Len(t) :
                  (s \o t)[k] = IF k <= Len(s) THEN s[k] ELSE t[k - Len(s)]
  BY SMT

\* The steps of an attempt that pays on the chain.
LEMMA StepsOnChain ==
    ASSUME mode \in {"direct", "batch"}
    PROVE  Steps = <<"cache", "row", "derive", "keep", "addresses", "plan", "book", "submit",
                     "persist", "auditSubs", "check", "update", "auditReceipts", "review",
                     "auditReview", "complete">>
<1> DEFINE input == <<"cache", "row", "derive", "keep">>
           addr == <<"addresses">>
           run == <<"plan", "book", "submit", "persist", "auditSubs", "check", "update",
                    "auditReceipts", "review", "auditReview", "complete">>
           first == input \o addr
           all == first \o run
<1>1. Steps = all
  BY DEF Steps, try_auto_settle_showdown_room, try_auto_settle_showdown_room_with_batch,
         get_showdown_input, run_showdown_settlement_with_direct_payouts_and_alerts,
         run_showdown_settlement_with_batch_payouts_and_alerts
<1>2. input \in Seq(Step) /\ addr \in Seq(Step) /\ run \in Seq(Step)
  BY SMT DEF Step, Opening, Booked, Submitted, Persisted, AfterCheck, Updated, Reviewed
<1>3. Len(input) = 4 /\ Len(addr) = 1 /\ Len(run) = 11
  OBVIOUS
<1> HIDE DEF first, all
<1>4. /\ first \in Seq(Step) /\ Len(first) = 5
      /\ first[1] = "cache" /\ first[2] = "row" /\ first[3] = "derive" /\ first[4] = "keep"
      /\ first[5] = "addresses"
  <2>1. /\ first \in Seq(Step) /\ Len(first) = Len(input) + Len(addr)
        /\ \A k \in 1 .. Len(input) + Len(addr) :
               first[k] = IF k <= Len(input) THEN input[k] ELSE addr[k - Len(input)]
    <3> HIDE DEF input, addr
    <3> QED BY <1>2, Concatenation DEF first
  <2> QED BY <1>3, <2>1, SMT
<1>5. /\ all \in Seq(Step) /\ Len(all) = 16
      /\ \A k \in 1 .. 16 : all[k] = IF k <= 5 THEN first[k] ELSE run[k - 5]
  <2> HIDE DEF run
  <2>1. /\ all \in Seq(Step) /\ Len(all) = Len(first) + Len(run)
        /\ \A k \in 1 .. Len(first) + Len(run) :
               all[k] = IF k <= Len(first) THEN first[k] ELSE run[k - Len(first)]
    BY <1>2, <1>4, Concatenation DEF all
  <2> QED BY <1>3, <1>4, <2>1, SMT
<1>6. /\ all[1] = first[1] /\ all[2] = first[2] /\ all[3] = first[3] /\ all[4] = first[4]
      /\ all[5] = first[5] /\ all[6] = run[1] /\ all[7] = run[2] /\ all[8] = run[3]
      /\ all[9] = run[4] /\ all[10] = run[5] /\ all[11] = run[6] /\ all[12] = run[7]
      /\ all[13] = run[8] /\ all[14] = run[9] /\ all[15] = run[10] /\ all[16] = run[11]
  <2> HIDE DEF run
  <2> QED BY <1>5, SMT
<1> QED BY <1>1, <1>4, <1>5, <1>6, SMT

\* The steps of an attempt without a wallet.
LEMMA StepsOffchain ==
    ASSUME mode = "offchain"
    PROVE  Steps = <<"cache", "row", "derive", "keep", "plan", "book", "note", "complete">>
<1> DEFINE input == <<"cache", "row", "derive", "keep">>
           run == <<"plan", "book", "note", "complete">>
           all == input \o run
<1>1. Steps = all
  BY DEF Steps, try_auto_settle_showdown_room_without_wallet, get_showdown_input,
         run_showdown_settlement_with_persistence
<1>2. input \in Seq(Step) /\ run \in Seq(Step) /\ Len(input) = 4 /\ Len(run) = 4
  BY SMT DEF Step, Opening, Booked, Submitted, Persisted, AfterCheck, Updated, Reviewed
<1> HIDE DEF all
<1>3. /\ all \in Seq(Step) /\ Len(all) = 8
      /\ \A k \in 1 .. 8 : all[k] = IF k <= 4 THEN input[k] ELSE run[k - 4]
  <2> HIDE DEF input, run
  <2>1. /\ all \in Seq(Step) /\ Len(all) = Len(input) + Len(run)
        /\ \A k \in 1 .. Len(input) + Len(run) :
               all[k] = IF k <= Len(input) THEN input[k] ELSE run[k - Len(input)]
    BY <1>2, Concatenation DEF all
  <2> QED BY <1>2, <2>1, SMT
<1>4. /\ all[1] = input[1] /\ all[2] = input[2] /\ all[3] = input[3] /\ all[4] = input[4]
      /\ all[5] = run[1] /\ all[6] = run[2] /\ all[7] = run[3] /\ all[8] = run[4]
  BY <1>3, SMT
<1> QED BY <1>1, <1>3, <1>4, SMT

\* The step after each one.
LEMMA AdvanceOnChain ==
    ASSUME mode \in {"direct", "batch"}, NEW a
    PROVE  /\ a.at = "cache" => Advance(a) = [a EXCEPT !.at = "row", !.done = 0]
           /\ a.at = "row" => Advance(a) = [a EXCEPT !.at = "derive", !.done = 0]
           /\ a.at = "derive" => Advance(a) = [a EXCEPT !.at = "keep", !.done = 0]
           /\ a.at = "keep" => Advance(a) = [a EXCEPT !.at = "addresses", !.done = 0]
           /\ a.at = "addresses" => Advance(a) = [a EXCEPT !.at = "plan", !.done = 0]
           /\ a.at = "plan" => Advance(a) = [a EXCEPT !.at = "book", !.done = 0]
           /\ a.at = "book" => Advance(a) = [a EXCEPT !.at = "submit", !.done = 0]
           /\ a.at = "submit" => Advance(a) = [a EXCEPT !.at = "persist", !.done = 0]
           /\ a.at = "persist" => Advance(a) = [a EXCEPT !.at = "auditSubs", !.done = 0]
           /\ a.at = "auditSubs" => Advance(a) = [a EXCEPT !.at = "check", !.done = 0]
           /\ a.at = "check" => Advance(a) = [a EXCEPT !.at = "update", !.done = 0]
           /\ a.at = "update" => Advance(a) = [a EXCEPT !.at = "auditReceipts", !.done = 0]
           /\ a.at = "auditReceipts" => Advance(a) = [a EXCEPT !.at = "review", !.done = 0]
           /\ a.at = "review" => Advance(a) = [a EXCEPT !.at = "auditReview", !.done = 0]
           /\ a.at = "auditReview" => Advance(a) = [a EXCEPT !.at = "complete", !.done = 0]
<1> DEFINE at(k) == CHOOSE j \in DOMAIN Steps : Steps[j] = k
<1>1. Steps = <<"cache", "row", "derive", "keep", "addresses", "plan", "book", "submit",
                "persist", "auditSubs", "check", "update", "auditReceipts", "review",
                "auditReview", "complete">>
  BY StepsOnChain
<1>2. at("cache") = 1 /\ at("row") = 2 /\ at("derive") = 3 /\ at("keep") = 4
  BY <1>1, SMT
<1>3. at("addresses") = 5 /\ at("plan") = 6 /\ at("book") = 7 /\ at("submit") = 8
  BY <1>1, SMT
<1>4. at("persist") = 9 /\ at("auditSubs") = 10 /\ at("check") = 11 /\ at("update") = 12
  BY <1>1, SMT
<1>5. at("auditReceipts") = 13 /\ at("review") = 14 /\ at("auditReview") = 15
  BY <1>1, SMT
<1> DEFINE next == Steps[1 + at(a.at)]
<1>6. Advance(a) = [a EXCEPT !.at = next, !.done = 0]
  BY DEF Advance
<1> HIDE DEF at
<1>7. /\ a.at = "cache" => next = "row"
      /\ a.at = "row" => next = "derive"
      /\ a.at = "derive" => next = "keep"
      /\ a.at = "keep" => next = "addresses"
      /\ a.at = "addresses" => next = "plan"
  BY <1>1, <1>2, <1>3, SMT
<1>8. /\ a.at = "plan" => next = "book"
      /\ a.at = "book" => next = "submit"
      /\ a.at = "submit" => next = "persist"
      /\ a.at = "persist" => next = "auditSubs"
      /\ a.at = "auditSubs" => next = "check"
  BY <1>1, <1>3, <1>4, SMT
<1>9. /\ a.at = "check" => next = "update"
      /\ a.at = "update" => next = "auditReceipts"
      /\ a.at = "auditReceipts" => next = "review"
      /\ a.at = "review" => next = "auditReview"
      /\ a.at = "auditReview" => next = "complete"
  BY <1>1, <1>4, <1>5, SMT
<1> HIDE DEF next
<1> QED BY <1>6, <1>7, <1>8, <1>9

\* Without a wallet likewise.
LEMMA AdvanceOffchain ==
    ASSUME mode = "offchain", NEW a
    PROVE  /\ a.at = "cache" => Advance(a) = [a EXCEPT !.at = "row", !.done = 0]
           /\ a.at = "row" => Advance(a) = [a EXCEPT !.at = "derive", !.done = 0]
           /\ a.at = "derive" => Advance(a) = [a EXCEPT !.at = "keep", !.done = 0]
           /\ a.at = "keep" => Advance(a) = [a EXCEPT !.at = "plan", !.done = 0]
           /\ a.at = "plan" => Advance(a) = [a EXCEPT !.at = "book", !.done = 0]
           /\ a.at = "book" => Advance(a) = [a EXCEPT !.at = "note", !.done = 0]
           /\ a.at = "note" => Advance(a) = [a EXCEPT !.at = "complete", !.done = 0]
<1> DEFINE at(k) == CHOOSE j \in DOMAIN Steps : Steps[j] = k
<1>1. Steps = <<"cache", "row", "derive", "keep", "plan", "book", "note", "complete">>
  BY StepsOffchain
<1>2. at("cache") = 1 /\ at("row") = 2 /\ at("derive") = 3 /\ at("keep") = 4
  BY <1>1, SMT
<1>3. at("plan") = 5 /\ at("book") = 6 /\ at("note") = 7
  BY <1>1, SMT
<1> DEFINE next == Steps[1 + at(a.at)]
<1>4. Advance(a) = [a EXCEPT !.at = next, !.done = 0]
  BY DEF Advance
<1> HIDE DEF at
<1>5. /\ a.at = "cache" => next = "row"
      /\ a.at = "row" => next = "derive"
      /\ a.at = "derive" => next = "keep"
      /\ a.at = "keep" => next = "plan"
      /\ a.at = "plan" => next = "book"
      /\ a.at = "book" => next = "note"
      /\ a.at = "note" => next = "complete"
  BY <1>1, <1>2, <1>3, SMT
<1> HIDE DEF next
<1> QED BY <1>4, <1>5
-----------------------------------------------------------------------------
(***************************************************************************)
(* Attempts that have sent nothing.                                        *)
(***************************************************************************)
\* A plan pays someone, and each of its payouts a seat.
LEMMA SomePayouts ==
    /\ Payee \subseteq Nat
    /\ Len(PayoutSeats) \in Nat /\ Len(PayoutSeats) >= 1
    /\ DOMAIN PayoutSeats = 1 .. Len(PayoutSeats)
    /\ \A k \in 1 .. Len(PayoutSeats) : PayoutSeats[k] \in Nat
<1>1. PayoutSeats \in Seq(Nat) /\ PayoutSeats # << >>
  BY PayoutAssumption
<1>2. /\ Len(PayoutSeats) \in Nat /\ Len(PayoutSeats) >= 1
      /\ DOMAIN PayoutSeats = 1 .. Len(PayoutSeats)
  BY <1>1, SMT
<1>3. \A k \in 1 .. Len(PayoutSeats) : PayoutSeats[k] \in Nat
  BY <1>1, SMT
<1>4. Payee \subseteq Nat
  BY <1>2, <1>3 DEF Payee
<1> QED BY <1>2, <1>3, <1>4

\* An attempt sends something.
LEMMA SubCountPositive == SubCount \in Nat /\ SubCount >= 1
BY SomePayouts, SMT DEF SubCount

\* Nothing sent, nothing to say.
LEMMA NothingSent ==
    ASSUME attempt'.subs = << >>, attempt'.receipts = << >>, attempt'.done = 0,
           attempt'.at \notin Submitted \/ mode' = "offchain"
    PROVE  PayOK'
<1>1. (SubCount \in Nat /\ SubCount >= 1)'
  BY SomePayouts, SMT DEF SubCount
<1>2. CountOK'
  BY <1>1, SMT DEF CountOK, Submitted, Persisted, AfterCheck, Updated, Reviewed
<1> QED BY <1>2, SMT DEF PayOK

\* The end of an attempt, however it ends.
LEMMA AttemptEnds ==
    ASSUME AttemptOK, attempt' = Idle, mode' = mode, addressed' \subseteq Nat
    PROVE  AttemptOK' /\ PayOK' /\ attempt'.at \notin {"row", "derive"}
<1>1. /\ attempt'.at = "idle" /\ attempt'.subs = << >> /\ attempt'.receipts = << >>
      /\ attempt'.done = 0 /\ attempt' \in Attempt
  BY SMT DEF Idle, Attempt
<1>2. "idle" \notin Planned \cup Booked \cup Submitted \cup {"addresses", "submit"}
  BY DEF Planned, Booked, Submitted, Persisted, AfterCheck, Updated, Reviewed
<1>3. AttemptOK'
  BY <1>1, <1>2 DEF AttemptOK
<1>4. PayOK'
  BY <1>1, <1>2, NothingSent
<1> QED BY <1>1, <1>3, <1>4

\* What is planned and booked stays so, and what a closed hand was paid with too.
LEMMA PaidStays ==
    ASSUME CompletedIsPaid, completed' = completed, mode' = mode,
           planned \subseteq planned', booked \subseteq booked', noted \subseteq noted',
           txs' = txs, records' = records, flagged \subseteq flagged'
    PROVE  CompletedIsPaid'
BY SMT DEF CompletedIsPaid, PaidBy

\* A step of an attempt that sends nothing.
LEMMA OpeningIInv ==
    ASSUME IInv, attempt.at \in Opening \cup {"note"}, InputOK',
           attempt' \in Attempt, attempt'.at \in Step,
           attempt'.hand = attempt.hand, attempt'.subs = attempt.subs,
           attempt'.receipts = attempt.receipts, attempt'.done = 0,
           UNCHANGED <<mode, roomVars, addressed, flagged, records, audited, chainVars, completed>>,
           planned \subseteq planned', booked \subseteq booked', noted \subseteq noted',
           attempt'.at \in Planned => attempt.hand \in planned',
           attempt'.at \in Booked => attempt.hand \in booked',
           attempt'.at = "note" => mode = "offchain",
           attempt'.at \in {"addresses", "submit"} => mode # "offchain",
           attempt'.at \in Submitted =>
               attempt'.at = "complete" /\ mode = "offchain" /\ attempt.hand \in noted'
    PROVE  IInv'
<1> USE DEF roomVars, chainVars
<1>1. attempt.at # "idle" /\ "idle" \notin Step
  BY DEF Opening, Step, Booked, Submitted, Persisted, AfterCheck, Updated, Reviewed
<1>2. RoomOK'
  BY DEF IInv, RoomOK
<1>3. AttemptOK'
  <2>1. "complete" \in Submitted
    BY DEF Submitted, Persisted, AfterCheck, Updated, Reviewed
  <2> QED BY <1>1, <2>1 DEF IInv, AttemptOK
<1>4. TxsOK'
  BY DEF IInv, TxsOK, OnlyShowdownsPaid
<1>5. PayOK'
  <2>1. attempt.at \notin {"submit"} \cup Submitted
    BY DEF Opening, Submitted, Persisted, AfterCheck, Updated, Reviewed
  <2>2. attempt'.subs = << >> /\ attempt'.receipts = << >>
    BY <2>1 DEF IInv, PayOK, CountOK
  <2> QED BY <2>2, NothingSent
<1>6. RecordOK'
  BY DEF IInv, RecordOK, RecordsAreTrue
<1>7. CompletedIsPaid'
  BY PaidStays DEF IInv
<1> QED BY <1>2, <1>3, <1>4, <1>5, <1>6, <1>7 DEF IInv

\* An attempt at another step is one.
LEMMA MovedOn ==
    ASSUME NEW a \in Attempt, NEW next \in Step
    PROVE  LET b == [a EXCEPT !.at = next, !.done = 0]
           IN  /\ b \in Attempt /\ b.at = next /\ b.done = 0 /\ b.hand = a.hand
               /\ b.known = a.known /\ b.subs = a.subs /\ b.receipts = a.receipts
BY DEF Attempt

\* The attempt of the loop likewise.
LEMMA MovedAttempt ==
    ASSUME attempt \in Attempt, NEW next \in Step,
           attempt' = [attempt EXCEPT !.at = next, !.done = 0]
    PROVE  /\ attempt' \in Attempt /\ attempt'.at = next /\ attempt'.done = 0
           /\ attempt'.hand = attempt.hand /\ attempt'.known = attempt.known
           /\ attempt'.subs = attempt.subs /\ attempt'.receipts = attempt.receipts
BY MovedOn

\* A tick starts an attempt on a hand at its showdown.
LEMMA TickIInv ==
    ASSUME IInv, NEW m \in {"direct", "batch", "offchain"}, Tick(m)
    PROVE  IInv'
<1> USE DEF roomVars, inputVars, opsVars, storeVars, chainVars
<1>1. /\ mode = m /\ attempt = Idle /\ status = "Showdown"
      /\ attempt' = [Idle EXCEPT !.at = "cache", !.hand = hand]
      /\ UNCHANGED <<mode, roomVars, addressed, inputVars, opsVars, storeVars, chainVars, completed>>
  BY DEF Tick
<1>2. hand \in Nat /\ hand \in shown \ completed
  BY <1>1, SMT DEF IInv, RoomOK
<1>3. /\ attempt'.at = "cache" /\ attempt'.hand = hand /\ attempt'.done = 0
      /\ attempt'.subs = << >> /\ attempt'.receipts = << >>
  BY <1>1 DEF Idle
<1>4. attempt' \in Attempt
  <2>1. Idle \in Attempt
    BY SMT DEF Idle, Attempt
  <2>2. "cache" \in Step
    BY DEF Step, Opening
  <2> QED BY <1>1, <1>2, <2>1, <2>2 DEF Attempt
<1>5. "cache" \notin Planned \cup Booked \cup Submitted
  BY DEF Planned, Booked, Submitted, Persisted, AfterCheck, Updated, Reviewed
<1>6. AttemptOK'
  BY <1>1, <1>2, <1>3, <1>4, <1>5 DEF IInv, AttemptOK
<1>7. PayOK'
  BY <1>3, <1>5, NothingSent
<1>8. InputOK' /\ RoomOK' /\ TxsOK' /\ RecordOK'
  BY <1>1, <1>3, SMT DEF IInv, InputOK, OverrideStands, RoomOK, TxsOK, OnlyShowdownsPaid, RecordOK,
                    RecordsAreTrue
<1>9. CompletedIsPaid'
  BY <1>1, PaidStays DEF IInv
<1> QED BY <1>6, <1>7, <1>8, <1>9 DEF IInv

\* What an attempt that is not idle knows of its hand and its mode.
LEMMA Attempting ==
    ASSUME RoomOK, AttemptOK, attempt.at # "idle"
    PROVE  /\ attempt \in Attempt /\ attempt.hand \in Hands /\ attempt.hand \in Nat
           /\ mode \in {"direct", "batch"} \/ mode = "offchain"
<1>1. attempt.hand \in 1 .. hand /\ hand \in 0 .. MaxHands
  BY DEF RoomOK, AttemptOK
<1> QED BY <1>1, BoundAssumption, SMT DEF AttemptOK, Hands

\* The end of an attempt that changes nothing.
LEMMA EndedIInv ==
    ASSUME IInv, attempt' = Idle,
           UNCHANGED <<mode, roomVars, addressed, inputVars, opsVars, storeVars, chainVars,
                       completed>>
    PROVE  IInv'
<1> USE DEF roomVars, inputVars, opsVars, storeVars, chainVars
<1>1. AttemptOK' /\ PayOK' /\ attempt'.at \notin {"row", "derive"}
  BY AttemptEnds DEF IInv, AttemptOK
<1>2. InputOK' /\ RoomOK'
  BY <1>1 DEF IInv, InputOK, OverrideStands, RoomOK
<1>3. TxsOK' /\ RecordOK'
  BY DEF IInv, TxsOK, OnlyShowdownsPaid, RecordOK, RecordsAreTrue
<1>4. CompletedIsPaid'
  BY PaidStays DEF IInv
<1> QED BY <1>1, <1>2, <1>3, <1>4 DEF IInv

\* Where an attempt goes on that has its input.
LEMMA InputThereMoves ==
    ASSUME attempt \in Attempt, mode \in {"direct", "batch"} \/ mode = "offchain"
    PROVE  \E next \in {"addresses", "plan"} :
               /\ InputThere(attempt) = [attempt EXCEPT !.at = next, !.done = 0]
               /\ next = "addresses" => mode # "offchain"
<1> DEFINE kept == [attempt EXCEPT !.at = "keep"]
<1>1. /\ kept.at = "keep"
      /\ \A x : [kept EXCEPT !.at = x, !.done = 0] = [attempt EXCEPT !.at = x, !.done = 0]
  BY DEF Attempt
<1> HIDE DEF kept
<1>2. mode \in {"direct", "batch"} => Advance(kept) = [kept EXCEPT !.at = "addresses", !.done = 0]
  BY <1>1, AdvanceOnChain
<1>3. mode = "offchain" => Advance(kept) = [kept EXCEPT !.at = "plan", !.done = 0]
  BY <1>1, AdvanceOffchain
<1>4. InputThere(attempt) = Advance(kept)
  BY DEF InputThere, kept
<1>5. CASE mode = "offchain"
  BY <1>1, <1>3, <1>4, <1>5
<1>6. CASE mode \in {"direct", "batch"}
  <2>1. InputThere(attempt) = [attempt EXCEPT !.at = "addresses", !.done = 0]
    BY <1>1, <1>2, <1>4, <1>6
  <2>2. mode # "offchain"
    BY <1>6
  <2> QED BY <2>1, <2>2
<1> QED BY <1>5, <1>6

\* A step of an attempt that sends nothing, by where it leads.
LEMMA OpeningMove ==
    ASSUME IInv, attempt.at \in Opening \cup {"note"}, InputOK', NEW next \in Step,
           attempt' = [attempt EXCEPT !.at = next, !.done = 0],
           UNCHANGED <<mode, roomVars, addressed, flagged, records, audited, chainVars, completed>>,
           planned \subseteq planned', booked \subseteq booked', noted \subseteq noted',
           next \in Planned => attempt.hand \in planned',
           next \in Booked => attempt.hand \in booked',
           next = "note" => mode = "offchain",
           next \in {"addresses", "submit"} => mode # "offchain",
           next \in Submitted => next = "complete" /\ mode = "offchain" /\ attempt.hand \in noted'
    PROVE  IInv'
<1>1. /\ attempt' \in Attempt /\ attempt'.at = next /\ attempt'.done = 0
      /\ attempt'.hand = attempt.hand /\ attempt'.subs = attempt.subs
      /\ attempt'.receipts = attempt.receipts
  <2>1. attempt \in Attempt
    BY DEF IInv, AttemptOK
  <2> QED BY <2>1, MovedAttempt
<1> QED BY <1>1, OpeningIInv

\* The steps before the plan is stored.
LEMMA EarlySteps ==
    ASSUME NEW next \in {"row", "derive", "keep", "addresses", "plan"}
    PROVE  next \in Step /\ next \notin Planned \cup Booked \cup Submitted
BY DEF Step, Opening, Planned, Booked, Submitted, Persisted, AfterCheck, Updated, Reviewed

\* The inputs stay what they are.
LEMMA InputStays ==
    ASSUME InputOK, UNCHANGED <<inputVars, ops, standing>>,
           attempt'.at \in {"row", "derive"} => attempt'.hand \notin standing
    PROVE  InputOK'
BY DEF InputOK, OverrideStands, inputVars

\* The cache is looked at first: an attempt that misses no input has none to replace.
LEMMA ReadCacheIInv ==
    ASSUME IInv, ReadCache
    PROVE  IInv'
<1> USE DEF roomVars, inputVars, opsVars, storeVars, chainVars
<1>1. /\ attempt.at = "cache" /\ attempt.at \in Opening
      /\ attempt' = IF cache[attempt.hand] # "none" THEN InputThere(attempt) ELSE Advance(attempt)
      /\ UNCHANGED <<mode, roomVars, addressed, inputVars, opsVars, storeVars, chainVars, completed>>
  BY DEF ReadCache, Opening
<1>2. /\ attempt \in Attempt /\ attempt.hand \in Hands
      /\ mode \in {"direct", "batch"} \/ mode = "offchain"
  BY <1>1, Attempting DEF IInv
<1>3. PICK next \in {"row", "addresses", "plan"} :
        /\ attempt' = [attempt EXCEPT !.at = next, !.done = 0]
        /\ next = "addresses" => mode # "offchain"
        /\ next = "row" => cache[attempt.hand] = "none"
  <2>1. Advance(attempt) = [attempt EXCEPT !.at = "row", !.done = 0]
    BY <1>1, <1>2, AdvanceOnChain, AdvanceOffchain
  <2> QED BY <1>1, <1>2, <2>1, InputThereMoves
<1>4. next \in Step /\ next \notin Planned \cup Booked \cup Submitted /\ next # "note" /\ next # "submit"
  BY EarlySteps
<1>5. attempt'.at = next /\ attempt'.hand = attempt.hand
  BY <1>2, <1>3, <1>4, MovedAttempt
<1>6. InputOK'
  <2>1. next = "row" => attempt.hand \notin standing
    BY <1>3 DEF IInv, InputOK, OverrideStands
  <2> QED BY <1>1, <1>5, <2>1, InputStays DEF IInv
<1> QED BY <1>1, <1>3, <1>4, <1>6, OpeningMove

\* The stored row is kept in the cache, where there was nothing to replace.
LEMMA ReadRowIInv ==
    ASSUME IInv, ReadRow
    PROVE  IInv'
<1> USE DEF roomVars, inputVars, opsVars, storeVars, chainVars
<1>1. /\ attempt.at = "row" /\ attempt.at \in Opening
      /\ \/ /\ cache' = [cache EXCEPT ![attempt.hand] = row[attempt.hand]]
            /\ attempt' = InputThere(attempt)
         \/ attempt' = Advance(attempt) /\ UNCHANGED cache
      /\ UNCHANGED <<mode, roomVars, addressed, row, opsVars, storeVars, chainVars, completed>>
  BY DEF ReadRow, Opening
<1>2. /\ attempt \in Attempt /\ attempt.hand \in Hands
      /\ mode \in {"direct", "batch"} \/ mode = "offchain"
  BY <1>1, Attempting DEF IInv
<1>3. PICK next \in {"derive", "addresses", "plan"} :
        /\ attempt' = [attempt EXCEPT !.at = next, !.done = 0]
        /\ next = "addresses" => mode # "offchain"
  <2>1. Advance(attempt) = [attempt EXCEPT !.at = "derive", !.done = 0]
    BY <1>1, <1>2, AdvanceOnChain, AdvanceOffchain
  <2> QED BY <1>1, <1>2, <2>1, InputThereMoves
<1>4. next \in Step /\ next \notin Planned \cup Booked \cup Submitted /\ next # "note" /\ next # "submit"
  BY EarlySteps
<1>5. attempt'.at = next /\ attempt'.hand = attempt.hand
  BY <1>2, <1>3, <1>4, MovedAttempt
<1>6. InputOK'
  <2>1. attempt.hand \notin standing
    BY <1>1 DEF IInv, InputOK
  <2>2. /\ cache' \in [Hands -> {"none", "derived", "admin"}]
        /\ \A h \in standing : cache'[h] = cache[h]
    BY <1>1, <1>2, <2>1 DEF IInv, InputOK
  <2> QED BY <1>1, <1>5, <2>1, <2>2 DEF IInv, InputOK, OverrideStands
<1> QED BY <1>1, <1>3, <1>4, <1>6, OpeningMove

\* What the engine dealt is kept only where no input of an operator stands.
LEMMA DeriveIInv ==
    ASSUME IInv, Derive
    PROVE  IInv'
<1> USE DEF roomVars, inputVars, opsVars, storeVars, chainVars
<1>1. /\ attempt.at = "derive" /\ attempt.at \in Opening
      /\ \/ /\ hand = attempt.hand
            /\ cache' = [cache EXCEPT ![hand] = "derived"]
            /\ attempt' = Advance(attempt)
         \/ attempt' = Idle /\ UNCHANGED cache
      /\ UNCHANGED <<mode, roomVars, addressed, row, opsVars, storeVars, chainVars, completed>>
  BY DEF Derive, Opening
<1>2. /\ attempt \in Attempt /\ attempt.hand \in Hands
      /\ mode \in {"direct", "batch"} \/ mode = "offchain"
  BY <1>1, Attempting DEF IInv
<1>3. CASE attempt' = Idle /\ UNCHANGED cache
  BY <1>1, <1>3, EndedIInv
<1>4. CASE /\ hand = attempt.hand
           /\ cache' = [cache EXCEPT ![hand] = "derived"]
           /\ attempt' = Advance(attempt)
  <2>1. attempt' = [attempt EXCEPT !.at = "keep", !.done = 0]
    BY <1>1, <1>2, <1>4, AdvanceOnChain, AdvanceOffchain
  <2>2. "keep" \in Step /\ "keep" \notin Planned \cup Booked \cup Submitted
    BY EarlySteps
  <2>3. attempt'.at = "keep" /\ attempt'.hand = attempt.hand
    BY <1>2, <2>1, <2>2, MovedAttempt
  <2>4. InputOK'
    <3>1. attempt.hand \notin standing
      BY <1>1 DEF IInv, InputOK
    <3>2. /\ cache' \in [Hands -> {"none", "derived", "admin"}]
          /\ \A h \in standing : cache'[h] = cache[h]
      BY <1>2, <1>4, <3>1 DEF IInv, InputOK
    <3> QED BY <1>1, <2>3, <3>1, <3>2 DEF IInv, InputOK, OverrideStands
  <2> QED BY <1>1, <2>1, <2>2, <2>4, OpeningMove
<1> QED BY <1>1, <1>3, <1>4

\* The derived input is stored, or not.
LEMMA KeepDerivedIInv ==
    ASSUME IInv, KeepDerived
    PROVE  IInv'
<1> USE DEF roomVars, inputVars, opsVars, storeVars, chainVars
<1>1. /\ attempt.at = "keep" /\ attempt.at \in Opening
      /\ row' = [row EXCEPT ![attempt.hand] = "derived"] \/ UNCHANGED row
      /\ attempt' = Advance(attempt)
      /\ UNCHANGED <<mode, roomVars, addressed, cache, opsVars, storeVars, chainVars, completed>>
  BY DEF KeepDerived, Opening
<1>2. /\ attempt \in Attempt /\ attempt.hand \in Hands
      /\ mode \in {"direct", "batch"} \/ mode = "offchain"
  BY <1>1, Attempting DEF IInv
<1>3. PICK next \in {"addresses", "plan"} :
        /\ attempt' = [attempt EXCEPT !.at = next, !.done = 0]
        /\ next = "addresses" => mode # "offchain"
  <2>1. mode \in {"direct", "batch"} =>
            attempt' = [attempt EXCEPT !.at = "addresses", !.done = 0] /\ mode # "offchain"
    BY <1>1, <1>2, AdvanceOnChain
  <2>2. mode = "offchain" => attempt' = [attempt EXCEPT !.at = "plan", !.done = 0]
    BY <1>1, <1>2, AdvanceOffchain
  <2> QED BY <1>2, <2>1, <2>2
<1>4. next \in Step /\ next \notin Planned \cup Booked \cup Submitted /\ next # "note" /\ next # "submit"
  BY EarlySteps
<1>5. attempt'.at = next /\ attempt'.hand = attempt.hand
  BY <1>2, <1>3, <1>4, MovedAttempt
<1>6. InputOK'
  BY <1>1, <1>5 DEF IInv, InputOK, OverrideStands
<1> QED BY <1>1, <1>3, <1>4, <1>6, OpeningMove

\* The addresses known at the time are taken along, if there are any.
LEMMA AddressesIInv ==
    ASSUME IInv, get_settlement_seat_addresses
    PROVE  IInv'
<1> USE DEF roomVars, inputVars, opsVars, storeVars, chainVars
<1> DEFINE known == [attempt EXCEPT !.known = addressed]
<1>1. /\ attempt.at = "addresses" /\ attempt.at \in Opening
      /\ attempt' = Advance(known) \/ attempt' = Idle
      /\ UNCHANGED <<mode, roomVars, addressed, inputVars, opsVars, storeVars, chainVars, completed>>
  BY DEF get_settlement_seat_addresses, Opening
<1>2. attempt \in Attempt /\ mode \in {"direct", "batch"} /\ addressed \subseteq Nat
  BY <1>1, Attempting DEF IInv, AttemptOK
<1>3. CASE attempt' = Idle
  BY <1>1, <1>3, EndedIInv
<1>4. CASE attempt' = Advance(known)
  <2>1. /\ known \in Attempt /\ known.at = "addresses" /\ known.hand = attempt.hand
        /\ known.subs = attempt.subs /\ known.receipts = attempt.receipts
    BY <1>1, <1>2 DEF Attempt
  <2> HIDE DEF known
  <2>2. attempt' = [known EXCEPT !.at = "plan", !.done = 0]
    BY <1>2, <1>4, <2>1, AdvanceOnChain
  <2>3. "plan" \in Step /\ "plan" \notin Planned \cup Booked \cup Submitted
    BY EarlySteps
  <2>4. /\ attempt' \in Attempt /\ attempt'.at = "plan" /\ attempt'.done = 0
        /\ attempt'.hand = attempt.hand /\ attempt'.subs = attempt.subs
        /\ attempt'.receipts = attempt.receipts
    BY <2>1, <2>2, <2>3 DEF Attempt
  <2>5. InputOK'
    BY <1>1, <2>4, InputStays DEF IInv
  <2> QED BY <1>1, <2>3, <2>4, <2>5, OpeningIInv
<1> QED BY <1>1, <1>3, <1>4

\* The plan is stored before it is booked.
LEMMA PlanIInv ==
    ASSUME IInv, insert_settlement_plan
    PROVE  IInv'
<1> USE DEF roomVars, inputVars, opsVars, storeVars, chainVars
<1>1. /\ attempt.at = "plan" /\ attempt.at \in Opening
      /\ planned' = planned \cup {attempt.hand}
      /\ attempt' = Advance(attempt)
      /\ UNCHANGED <<mode, roomVars, addressed, inputVars, opsVars, booked, noted, records, audited,
                     chainVars, completed>>
  BY DEF insert_settlement_plan, Opening
<1>2. attempt \in Attempt /\ (mode \in {"direct", "batch"} \/ mode = "offchain")
  BY <1>1, Attempting DEF IInv
<1>3. attempt' = [attempt EXCEPT !.at = "book", !.done = 0]
  BY <1>1, <1>2, AdvanceOnChain, AdvanceOffchain
<1>4. "book" \in Step /\ "book" \notin Booked \cup Submitted
  BY DEF Step, Opening, Booked, Submitted, Persisted, AfterCheck, Updated, Reviewed
<1>5. attempt'.at = "book"
  BY <1>2, <1>3, <1>4, MovedAttempt
<1>6. InputOK'
  BY <1>1, <1>5, InputStays DEF IInv
<1> QED BY <1>1, <1>3, <1>4, <1>6, OpeningMove

\* The plan is booked before anything is sent.
LEMMA BookIInv ==
    ASSUME IInv, record_plan
    PROVE  IInv'
<1> USE DEF roomVars, inputVars, opsVars, storeVars, chainVars
<1>1. /\ attempt.at = "book" /\ attempt.at \in Opening /\ attempt.at \in Planned
      /\ booked' = booked \cup {attempt.hand}
      /\ attempt' = Advance(attempt)
      /\ UNCHANGED <<mode, roomVars, addressed, inputVars, opsVars, planned, noted, records, audited,
                     chainVars, completed>>
  BY DEF record_plan, insert_entries, Opening, Planned
<1>2. /\ attempt \in Attempt /\ attempt.hand \in planned
      /\ mode \in {"direct", "batch"} \/ mode = "offchain"
  BY <1>1, Attempting DEF IInv, AttemptOK
<1>3. PICK next \in {"submit", "note"} :
        /\ attempt' = [attempt EXCEPT !.at = next, !.done = 0]
        /\ next = "submit" => mode # "offchain"
        /\ next = "note" => mode = "offchain"
  <2>1. mode \in {"direct", "batch"} =>
            attempt' = [attempt EXCEPT !.at = "submit", !.done = 0] /\ mode # "offchain"
    BY <1>1, <1>2, AdvanceOnChain
  <2>2. mode = "offchain" => attempt' = [attempt EXCEPT !.at = "note", !.done = 0]
    BY <1>1, <1>2, AdvanceOffchain
  <2> QED BY <1>2, <2>1, <2>2
<1>4. next \in Step /\ next \notin Submitted /\ next # "addresses" /\ next \notin {"row", "derive"}
  BY DEF Step, Booked, Submitted, Persisted, AfterCheck, Updated, Reviewed
<1>5. attempt'.at = next
  BY <1>2, <1>3, <1>4, MovedAttempt
<1>6. InputOK'
  BY <1>1, <1>4, <1>5, InputStays DEF IInv
<1> QED BY <1>1, <1>2, <1>3, <1>4, <1>6, OpeningMove

\* Without a wallet the record is the last step but one.
LEMMA NoteIInv ==
    ASSUME IInv, NoteOffchain
    PROVE  IInv'
<1> USE DEF roomVars, inputVars, opsVars, storeVars, chainVars
<1>1. /\ attempt.at = "note" /\ attempt.at \in Planned /\ attempt.at \in Booked
      /\ noted' = noted \cup {attempt.hand}
      /\ attempt' = Advance(attempt)
      /\ UNCHANGED <<mode, roomVars, addressed, inputVars, opsVars, planned, booked, records, audited,
                     chainVars, completed>>
  BY DEF NoteOffchain, Planned, Booked
<1>2. /\ attempt \in Attempt /\ attempt.hand \in planned /\ attempt.hand \in booked
      /\ mode = "offchain"
  BY <1>1 DEF IInv, AttemptOK
<1>3. attempt' = [attempt EXCEPT !.at = "complete", !.done = 0]
  BY <1>1, <1>2, AdvanceOffchain
<1>4. "complete" \in Step
  BY DEF Step, Booked, Submitted, Persisted, AfterCheck, Updated, Reviewed
<1>5. attempt'.at = "complete"
  BY <1>2, <1>3, <1>4, MovedAttempt
<1>6. InputOK'
  BY <1>1, <1>5, InputStays DEF IInv
<1> QED BY <1>1, <1>2, <1>3, <1>4, <1>6, OpeningMove
-----------------------------------------------------------------------------
(***************************************************************************)
(* What happens around an attempt.                                         *)
(***************************************************************************)
\* A step outside the attempt, its transfers and their records.
LEMMA AsideIInv ==
    ASSUME IInv, RoomOK', InputOK', addressed' \subseteq Nat, shown \subseteq shown',
           UNCHANGED <<mode, attempt, flagged, storeVars, chainVars, completed>>
    PROVE  IInv'
<1> USE DEF storeVars, chainVars
<1>1. AttemptOK'
  BY DEF IInv, AttemptOK
<1>2. TxsOK'
  BY DEF IInv, TxsOK, OnlyShowdownsPaid
<1>3. PayOK'
  BY DEF IInv, PayOK, CountOK, SubOK, ReceiptOK, Past, SubCount, PaidSeats
<1>4. RecordOK'
  BY DEF IInv, RecordOK, RecordsAreTrue
<1>5. CompletedIsPaid'
  BY PaidStays DEF IInv
<1> QED BY <1>1, <1>2, <1>3, <1>4, <1>5 DEF IInv

\* The room goes on: its next hand is a new one.
LEMMA RoomStepIInv ==
    ASSUME IInv, RoomStep
    PROVE  IInv'
<1> USE DEF inputVars, opsVars, storeVars, chainVars
<1>1. /\ shown' = IF status' = "Showdown" THEN shown \cup {hand} ELSE shown
      /\ UNCHANGED <<mode, addressed, inputVars, attempt, opsVars, storeVars, chainVars, completed>>
  BY DEF RoomStep
<1>2. RoomOK'
  <2>1. CASE Room!StartHand /\ hand < MaxHands
    BY <1>1, <2>1, BoundAssumption, SMT DEF IInv, RoomOK, Room!StartHand
  <2>2. CASE Room!PlayOut
    BY <1>1, <2>2, SMT DEF IInv, RoomOK, Room!PlayOut
  <2>3. CASE Room!GiveUp
    BY <1>1, <2>3 DEF IInv, RoomOK, Room!GiveUp
  <2> QED BY <2>1, <2>2, <2>3 DEF RoomStep
<1>3. InputOK'
  BY <1>1 DEF IInv, InputOK, OverrideStands
<1> QED BY <1>1, <1>2, <1>3, AsideIInv DEF IInv, AttemptOK

\* A seat gets an address.
LEMMA BindAddressIInv ==
    ASSUME IInv, NEW s \in Payee, BindAddress(s)
    PROVE  IInv'
<1> USE DEF roomVars, inputVars, opsVars, storeVars, chainVars
<1>1. /\ addressed' = addressed \cup {s}
      /\ UNCHANGED <<mode, roomVars, inputVars, attempt, opsVars, storeVars, chainVars, completed>>
  BY DEF BindAddress
<1>2. addressed' \subseteq Nat
  BY <1>1, SomePayouts DEF IInv, AttemptOK
<1>3. RoomOK' /\ InputOK'
  BY <1>1 DEF IInv, RoomOK, InputOK, OverrideStands
<1> QED BY <1>1, <1>2, <1>3, AsideIInv

\* A failure ends the attempt.
LEMMA FailIInv ==
    ASSUME IInv, Fail
    PROVE  IInv'
<1> USE DEF inputVars
<1> QED BY EndedIInv DEF Fail

\* A restart ends it too, and takes the cache with it.
LEMMA RestartIInv ==
    ASSUME IInv, Restart
    PROVE  IInv'
<1> USE DEF storeVars, chainVars
<1>1. /\ status' = "Created" /\ addressed' = {}
      /\ cache' = [h \in Hands |-> "none"] /\ attempt' = Idle
      /\ ops' = [ops EXCEPT !.at = "idle", !.hand = 0] /\ standing' = {}
      /\ UNCHANGED <<mode, hand, shown, row, flagged, storeVars, chainVars, completed>>
  BY DEF Restart
<1>2. AttemptOK' /\ PayOK' /\ attempt'.at \notin {"row", "derive"}
  BY <1>1, AttemptEnds DEF IInv
<1>3. RoomOK'
  BY <1>1 DEF IInv, RoomOK
<1>4. InputOK'
  BY <1>1, <1>2 DEF IInv, InputOK, OverrideStands
<1>5. TxsOK' /\ RecordOK'
  BY <1>1 DEF IInv, TxsOK, OnlyShowdownsPaid, RecordOK, RecordsAreTrue
<1>6. CompletedIsPaid'
  BY <1>1, PaidStays DEF IInv
<1> QED BY <1>2, <1>3, <1>4, <1>5, <1>6 DEF IInv

\* An operator's input stands unless an attempt has already missed it.
LEMMA InjectInputIInv ==
    ASSUME IInv, NEW h \in 1 .. hand, InjectInput(h)
    PROVE  IInv'
<1> USE DEF roomVars, storeVars, chainVars
<1>1. /\ ops' = [at |-> "row", hand |-> h, count |-> ops.count + 1]
      /\ cache' = [cache EXCEPT ![h] = "admin"]
      /\ standing' = IF attempt.hand = h /\ attempt.at \in {"row", "derive"} THEN standing
                     ELSE standing \cup {h}
      /\ UNCHANGED <<mode, roomVars, addressed, row, attempt, flagged, storeVars, chainVars, completed>>
  BY DEF InjectInput
<1>2. h \in Hands /\ h \in Nat
  BY BoundAssumption, SMT DEF IInv, RoomOK, Hands
<1>3. RoomOK'
  BY <1>1 DEF IInv, RoomOK
<1>4. InputOK'
  <2>1. ops' \in [at : {"idle", "row"}, hand : Nat, count : Nat]
    BY <1>1, <1>2, SMT DEF IInv, InputOK
  <2>2. cache' \in [Hands -> {"none", "derived", "admin"}] /\ row' \in [Hands -> {"none", "derived", "admin"}]
    BY <1>1, <1>2 DEF IInv, InputOK
  <2>3. standing' \subseteq Hands /\ \A x \in standing' : cache'[x] = "admin"
    BY <1>1, <1>2 DEF IInv, InputOK, OverrideStands
  <2>4. attempt'.at \in {"row", "derive"} => attempt'.hand \notin standing'
    BY <1>1 DEF IInv, InputOK
  <2> QED BY <2>1, <2>2, <2>3, <2>4 DEF InputOK, OverrideStands
<1> QED BY <1>1, <1>3, <1>4, AsideIInv DEF IInv, AttemptOK

\* The store is told of it afterwards.
LEMMA StoreInputIInv ==
    ASSUME IInv, StoreInput
    PROVE  IInv'
<1> USE DEF roomVars, storeVars, chainVars
<1>1. /\ row' = [row EXCEPT ![ops.hand] = "admin"] \/ UNCHANGED row
      /\ ops' = [ops EXCEPT !.at = "idle", !.hand = 0]
      /\ UNCHANGED <<mode, roomVars, addressed, cache, attempt, standing, flagged, storeVars, chainVars,
                     completed>>
  BY DEF StoreInput
<1>2. RoomOK'
  BY <1>1 DEF IInv, RoomOK
<1>3. InputOK'
  BY <1>1 DEF IInv, InputOK, OverrideStands
<1> QED BY <1>1, <1>2, <1>3, AsideIInv DEF IInv, AttemptOK

\* A record an operator puts up for review is one of the flagged ones.
LEMMA ManualReviewIInv ==
    ASSUME IInv, NEW i \in DOMAIN records, admin_mark_settlement_manual_review(i)
    PROVE  IInv'
<1> USE DEF roomVars, inputVars, chainVars
<1>1. /\ records' = [records EXCEPT ![i] = "manual_review_required"]
      /\ flagged' = flagged \cup {i}
      /\ ops' = [ops EXCEPT !.count = @ + 1]
      /\ UNCHANGED <<mode, roomVars, addressed, inputVars, attempt, standing, planned, booked, noted,
                     audited, chainVars, completed>>
  BY DEF admin_mark_settlement_manual_review, update_settlement_record_status_by_tx_hash
<1>2. /\ DOMAIN records' = DOMAIN records /\ records'[i] = "manual_review_required"
      /\ \A j \in DOMAIN records : j # i => records'[j] = records[j]
  BY <1>1
<1>3. RoomOK' /\ AttemptOK'
  BY <1>1, SMT DEF IInv, RoomOK, AttemptOK
<1>4. InputOK'
  BY <1>1, SMT DEF IInv, InputOK, OverrideStands
<1>5. TxsOK'
  BY <1>1 DEF IInv, TxsOK, OnlyShowdownsPaid
<1>6. RecordOK'
  BY <1>1, <1>2 DEF IInv, RecordOK, RecordsAreTrue
<1>7. CompletedIsPaid'
  <2>1. \A j : j \in DOMAIN records /\ (records[j] = "confirmed" \/ j \in flagged) =>
                   j \in DOMAIN records' /\ (records'[j] = "confirmed" \/ j \in flagged')
    BY <1>1, <1>2
  <2>2. \A h, s : PaidBy(h, s)' = PaidBy(h, s)
    BY <1>1 DEF PaidBy
  <2> QED BY <1>1, <2>1, <2>2 DEF IInv, CompletedIsPaid
<1>8. PayOK'
  <2>1. CountOK'
    BY <1>1 DEF IInv, PayOK, CountOK, SubCount
  <2>2. ASSUME NEW k \in DOMAIN attempt.subs
        PROVE  SubOK(k)'
    <3>1. SubOK(k)
      BY DEF IInv, PayOK
    <3> QED BY <1>1, <1>2, <3>1 DEF SubOK, Past, PaidSeats
  <2>3. ASSUME NEW k \in DOMAIN attempt.receipts
        PROVE  ReceiptOK(k)'
    <3>1. ReceiptOK(k)
      BY DEF IInv, PayOK
    <3>2. attempt.receipts[k] = "confirmed" /\ Past("update", Updated, k) =>
              records'[attempt.subs[k]] = "confirmed" \/ attempt.subs[k] \in flagged'
      <4>1. CASE attempt.subs[k] = i
        BY <1>1, <4>1
      <4>2. CASE attempt.subs[k] # i
        BY <1>1, <1>2, <3>1, <4>2, SMT DEF ReceiptOK
      <4> QED BY <4>1, <4>2
    <3>3. attempt.receipts[k] = "failed" /\ Past("review", Reviewed, k) =>
              records'[attempt.subs[k]] = "manual_review_required"
      BY <1>1, <1>2, <3>1, SMT DEF ReceiptOK
    <3> QED BY <1>1, <3>1, <3>2, <3>3 DEF ReceiptOK, Past
  <2> QED BY <1>1, <2>1, <2>2, <2>3 DEF IInv, PayOK
<1> QED BY <1>3, <1>4, <1>5, <1>6, <1>7, <1>8 DEF IInv
-----------------------------------------------------------------------------
(***************************************************************************)
(* The chain.                                                              *)
(***************************************************************************)
\* Mining changes the state of one transfer.
LEMMA MinedTxs ==
    ASSUME txs \in Seq(Transfer), NEW i \in DOMAIN txs, NEW state \in {"ok", "reverted"},
           txs' = [txs EXCEPT ![i].state = state]
    PROVE  /\ txs' \in Seq(Transfer) /\ DOMAIN txs' = DOMAIN txs
           /\ txs'[i].state = state
           /\ \A j \in DOMAIN txs : /\ txs'[j].hand = txs[j].hand /\ txs'[j].seats = txs[j].seats
                                    /\ txs'[j].id = txs[j].id
                                    /\ j # i => txs'[j].state = txs[j].state
<1>1. txs[i] \in Transfer
  BY SMT
<1>2. [txs[i] EXCEPT !.state = state] \in Transfer
  BY <1>1 DEF Transfer
<1>3. txs' = [txs EXCEPT ![i] = [txs[i] EXCEPT !.state = state]]
  OBVIOUS
<1> DEFINE new == [txs[i] EXCEPT !.state = state]
<1>4. new.state = state /\ new.hand = txs[i].hand /\ new.seats = txs[i].seats /\ new.id = txs[i].id
  BY <1>1 DEF Transfer
<1> HIDE DEF new
<1>5. /\ txs' \in Seq(Transfer) /\ DOMAIN txs' = DOMAIN txs /\ txs'[i] = new
      /\ \A j \in DOMAIN txs : j # i => txs'[j] = txs[j]
  BY <1>2, <1>3, SMT DEF new
<1> QED BY <1>4, <1>5

\* A receipt is one of a transfer the attempt has sent.
LEMMA ReceiptsOfSubs ==
    ASSUME AttemptOK, PayOK
    PROVE  DOMAIN attempt.receipts \subseteq DOMAIN attempt.subs
<1>1. attempt.subs \in Seq(Nat) /\ attempt.receipts \in Seq(Receipt)
  BY DEF AttemptOK, Attempt
<1>2. SubCount \in Nat
  BY SubCountPositive
<1>3. attempt.receipts = << >> \/ Len(attempt.receipts) <= Len(attempt.subs)
  <2>1. CASE attempt.at \notin {"submit"} \cup Submitted \/ mode = "offchain"
    BY <2>1 DEF PayOK, CountOK
  <2>2. CASE attempt.at \in {"submit", "persist", "auditSubs"}
    BY <2>2 DEF PayOK, CountOK
  <2>3. CASE attempt.at = "check" /\ mode # "offchain"
    <3>1. attempt.at \in Submitted
      BY <2>3 DEF Submitted, Persisted
    <3> QED BY <1>1, <1>2, <2>3, <3>1, SMT DEF PayOK, CountOK
  <2>4. CASE attempt.at \in AfterCheck /\ mode # "offchain"
    BY <1>1, <2>4, SMT DEF PayOK, CountOK
  <2> QED BY <2>1, <2>2, <2>3, <2>4 DEF Submitted, Persisted
<1> QED BY <1>1, <1>3, SMT

\* What the chain says of a transfer is final, and a settlement id is settled once.
LEMMA MineIInv ==
    ASSUME IInv, NEW i \in DOMAIN txs, Mine(i)
    PROVE  IInv'
<1> USE DEF roomVars, inputVars, opsVars, storeVars
<1>1. PICK state \in {"ok", "reverted"} :
        /\ txs' = [txs EXCEPT ![i].state = state]
        /\ state = "ok" /\ mode = "batch" =>
               txs[i].id \notin settledIds /\ settledIds' = settledIds \cup {txs[i].id}
        /\ settledIds \subseteq settledIds'
  BY DEF Mine
<1>2. /\ txs[i].state = "sent"
      /\ UNCHANGED <<mode, roomVars, addressed, inputVars, attempt, opsVars, storeVars, completed>>
  BY DEF Mine
<1>3. /\ txs' \in Seq(Transfer) /\ DOMAIN txs' = DOMAIN txs
      /\ txs'[i].state = state
      /\ \A j \in DOMAIN txs : /\ txs'[j].hand = txs[j].hand /\ txs'[j].seats = txs[j].seats
                               /\ txs'[j].id = txs[j].id
                               /\ j # i => txs'[j].state = txs[j].state
  BY <1>1, MinedTxs DEF IInv, TxsOK
<1>4. \A j \in DOMAIN txs : txs[j].state # "sent" => txs'[j].state = txs[j].state
  BY <1>2, <1>3
<1>5. RoomOK' /\ AttemptOK'
  BY <1>2, SMT DEF IInv, RoomOK, AttemptOK
<1>6. InputOK'
  BY <1>2 DEF IInv, InputOK, OverrideStands
<1>7. TxsOK'
  <2>1. OnlyShowdownsPaid'
    BY <1>2, <1>3 DEF IInv, TxsOK, OnlyShowdownsPaid
  <2>2. ASSUME mode = "batch"
        PROVE  /\ \A j \in DOMAIN txs : /\ txs[j].id = txs[j].hand
                                        /\ txs[j].state = "ok" => txs[j].id \in settledIds
               /\ \A j, k \in DOMAIN txs :
                      txs[j].state = "ok" /\ txs[k].state = "ok" /\ txs[j].id = txs[k].id => j = k
    BY <2>2 DEF IInv, TxsOK
  <2>3. ASSUME mode = "batch", NEW j \in DOMAIN txs
        PROVE  txs'[j].id = txs'[j].hand /\ (txs'[j].state = "ok" => txs'[j].id \in settledIds')
    BY <1>1, <1>3, <2>2, <2>3
  <2>4. ASSUME mode = "batch", NEW j \in DOMAIN txs, NEW k \in DOMAIN txs,
               txs'[j].state = "ok", txs'[k].state = "ok", txs'[j].id = txs'[k].id
        PROVE  j = k
    BY <1>1, <1>3, <2>2, <2>4, SMT
  <2> QED BY <1>2, <1>3, <2>1, <2>3, <2>4 DEF TxsOK
<1>8. PayOK'
  <2> HIDE DEF roomVars, inputVars, opsVars, storeVars
  <2>1. UNCHANGED <<mode, attempt, records, audited, flagged>>
    BY <1>2 DEF opsVars, storeVars
  <2>2. CountOK'
    BY <2>1 DEF IInv, PayOK, CountOK, SubCount
  <2>3. \A k : PaidSeats(k)' = PaidSeats(k)
    BY <2>1 DEF PaidSeats
  <2>4. ASSUME NEW k \in DOMAIN attempt.subs
        PROVE  SubOK(k)'
    <3>1. SubOK(k)
      BY DEF IInv, PayOK
    <3>2. attempt.subs[k] \in DOMAIN txs
      BY <3>1 DEF SubOK
    <3>3. /\ txs'[attempt.subs[k]].hand = txs[attempt.subs[k]].hand
          /\ txs'[attempt.subs[k]].seats = txs[attempt.subs[k]].seats
      BY <1>3, <3>2
    <3> QED BY <1>3, <2>1, <2>3, <3>1, <3>3 DEF SubOK, Past
  <2>5. ASSUME NEW k \in DOMAIN attempt.receipts
        PROVE  ReceiptOK(k)'
    <3>1. ReceiptOK(k)
      BY DEF IInv, PayOK
    <3>2. k \in DOMAIN attempt.subs
      BY <2>5, ReceiptsOfSubs DEF IInv
    <3>3. attempt.subs[k] \in DOMAIN txs
      BY <3>2 DEF IInv, PayOK, SubOK
    <3> QED BY <1>4, <2>1, <3>1, <3>3 DEF ReceiptOK, Past
  <2> QED BY <2>1, <2>2, <2>4, <2>5 DEF IInv, PayOK
<1>9. RecordOK'
  BY <1>2, <1>3, <1>4, SMT DEF IInv, RecordOK, RecordsAreTrue
<1>10. CompletedIsPaid'
  <2>1. \A h, s : PaidBy(h, s) \subseteq PaidBy(h, s)'
    BY <1>3, <1>4 DEF PaidBy
  <2> QED BY <1>2, <2>1 DEF IInv, CompletedIsPaid
<1> QED BY <1>5, <1>6, <1>7, <1>8, <1>9, <1>10 DEF IInv
-----------------------------------------------------------------------------
(***************************************************************************)
(* The steps of the payment.                                               *)
(***************************************************************************)
\* One await of a step: there are more to come, or the next step is.
LEMMA Proceeds ==
    ASSUME NEW a \in Attempt, NEW next \in Step,
           Advance(a) = [a EXCEPT !.at = next, !.done = 0], attempt' = Proceed(a)
    PROVE  /\ attempt' \in Attempt /\ attempt'.hand = a.hand
           /\ attempt'.subs = a.subs /\ attempt'.receipts = a.receipts
           /\ \/ attempt'.at = a.at /\ attempt'.done = a.done + 1 /\ a.done + 1 < Len(Items(a))
              \/ attempt'.at = next /\ attempt'.done = 0 /\ a.done + 1 >= Len(Items(a))
<1>1. a.done \in Nat /\ a.subs \in Seq(Nat)
  BY DEF Attempt
<1>2. Len(Items(a)) \in Nat
  BY <1>1, SomePayouts, SMT DEF Items
<1>3. CASE a.done + 1 < Len(Items(a))
  <2>1. attempt' = [a EXCEPT !.done = a.done + 1]
    BY <1>3 DEF Proceed
  <2>2. a.done + 1 \in Nat
    BY <1>1, SMT
  <2> QED BY <1>3, <2>1, <2>2 DEF Attempt
<1>4. CASE ~(a.done + 1 < Len(Items(a)))
  <2> DEFINE b == [a EXCEPT !.at = next, !.done = 0]
  <2>1. attempt' = b
    BY <1>4 DEF Proceed
  <2>2. a.done + 1 >= Len(Items(a))
    BY <1>1, <1>2, <1>4, SMT
  <2>3. /\ b \in Attempt /\ b.at = next /\ b.done = 0 /\ b.hand = a.hand
        /\ b.subs = a.subs /\ b.receipts = a.receipts
    BY MovedOn
  <2> HIDE DEF b
  <2> QED BY <2>1, <2>2, <2>3
<1> QED BY <1>3, <1>4

\* An attempt that is given up once the chain and the records are seen to.
LEMMA LostIInv ==
    ASSUME IInv, attempt' = Idle, TxsOK', RecordOK', CompletedIsPaid',
           UNCHANGED <<mode, roomVars, addressed, inputVars, opsVars>>, completed' = completed
    PROVE  IInv'
<1>1. AttemptOK' /\ PayOK' /\ attempt'.at \notin {"row", "derive"}
  BY AttemptEnds DEF IInv, AttemptOK
<1>2. UNCHANGED <<hand, status, shown, completed>>
  BY DEF roomVars
<1>3. RoomOK'
  BY <1>2 DEF IInv, RoomOK
<1>4. UNCHANGED <<cache, row, ops, standing>>
  BY DEF inputVars, opsVars
<1>5. InputOK'
  BY <1>1, <1>4 DEF IInv, InputOK, OverrideStands
<1> QED BY <1>1, <1>3, <1>5 DEF IInv

\* What a step of the payment leaves as it is.
LEMMA PaymentFrame ==
    ASSUME IInv, attempt.at \in {"submit"} \cup Submitted, mode \in {"direct", "batch"},
           attempt' \in Attempt, attempt'.at \in {"submit"} \cup Submitted,
           attempt'.hand = attempt.hand,
           UNCHANGED <<mode, roomVars, addressed, inputVars, opsVars, planned, booked, noted, completed>>
    PROVE  RoomOK' /\ AttemptOK' /\ InputOK'
<1>1. /\ attempt.at \in Planned /\ attempt.at \in Booked /\ attempt.at # "idle"
      /\ attempt'.at \notin {"idle", "row", "derive", "note"}
  BY DEF Planned, Booked, Submitted, Persisted, AfterCheck, Updated, Reviewed
<1>2. UNCHANGED <<hand, status, shown, completed>>
  BY DEF roomVars
<1>3. RoomOK'
  BY <1>2 DEF IInv, RoomOK
<1>4. /\ attempt.hand \in planned /\ attempt.hand \in booked /\ attempt.hand \in shown \ completed
      /\ addressed \subseteq Nat
  BY <1>1 DEF IInv, AttemptOK
<1>5. UNCHANGED <<mode, addressed, planned, booked>>
  OBVIOUS
<1>6. AttemptOK'
  BY <1>1, <1>2, <1>4, <1>5 DEF AttemptOK
<1>7. UNCHANGED <<cache, row, ops, standing>>
  BY DEF inputVars, opsVars
<1>8. InputOK'
  BY <1>1, <1>7 DEF IInv, InputOK, OverrideStands
<1> QED BY <1>3, <1>6, <1>8

\* What a closed hand was paid with stays while another hand's records change.
LEMMA PaidKept ==
    ASSUME IInv, UNCHANGED <<mode, flagged, planned, booked, noted, completed>>,
           \A i \in DOMAIN txs : i \in DOMAIN txs' /\ txs'[i] = txs[i],
           \A i \in DOMAIN records : i \in DOMAIN records',
           \A i \in DOMAIN records : txs[i].hand \in completed => records'[i] = records[i]
    PROVE  CompletedIsPaid'
<1>1. \A h, s : PaidBy(h, s) \subseteq PaidBy(h, s)'
  BY DEF PaidBy
<1>2. ASSUME NEW h \in completed, mode # "offchain", NEW s \in Payee
      PROVE  \E i \in PaidBy(h, s)' : i \in DOMAIN records' /\ (records'[i] = "confirmed" \/ i \in flagged')
  <2>1. PICK i \in PaidBy(h, s) : i \in DOMAIN records /\ (records[i] = "confirmed" \/ i \in flagged)
    BY <1>2 DEF IInv, CompletedIsPaid
  <2>2. txs[i].hand = h
    BY DEF PaidBy
  <2> QED BY <1>1, <1>2, <2>1, <2>2
<1> QED BY <1>2 DEF IInv, CompletedIsPaid

\* The receipt of the k-th transfer is the k-th receipt.
LEMMA ReceiptForSub ==
    ASSUME PayOK, NEW k \in DOMAIN attempt.subs
    PROVE  ReceiptFor(attempt, attempt.subs[k]) = attempt.receipts[k]
<1> DEFINE j == CHOOSE x \in DOMAIN attempt.subs : attempt.subs[x] = attempt.subs[k]
<1>1. j \in DOMAIN attempt.subs /\ attempt.subs[j] = attempt.subs[k]
  OBVIOUS
<1>2. j = k
  BY <1>1 DEF PayOK
<1> QED BY <1>2 DEF ReceiptFor

\* An attempt that has its transfers out.
Paying == mode \in {"direct", "batch"} /\ attempt.at \in Submitted

\* The transfer a step of the payment is at.
LEMMA ItemOK ==
    ASSUME IInv, Paying
    PROVE  /\ attempt.done + 1 \in DOMAIN attempt.subs
           /\ attempt.done \in Nat /\ attempt.subs \in Seq(Nat) /\ attempt.receipts \in Seq(Receipt)
           /\ DOMAIN attempt.subs = 1 .. Len(attempt.subs)
           /\ Len(attempt.subs) = SubCount /\ SubCount \in Nat /\ SubCount >= 1
           /\ Item(attempt) = attempt.subs[attempt.done + 1] /\ Items(attempt) = attempt.subs
           /\ Item(attempt) \in DOMAIN txs /\ txs[Item(attempt)].hand \notin completed
           /\ attempt \in Attempt /\ attempt.at # "submit"
<1>1. attempt \in Attempt /\ attempt.at # "submit" /\ attempt.at # "idle"
  BY DEF IInv, AttemptOK, Paying, Submitted, Persisted, AfterCheck, Updated, Reviewed
<1>2. attempt.done \in Nat /\ attempt.subs \in Seq(Nat) /\ attempt.receipts \in Seq(Receipt)
  BY <1>1 DEF Attempt
<1>3. attempt.done < SubCount /\ Len(attempt.subs) = SubCount
  BY DEF IInv, PayOK, CountOK, Paying
<1>4. attempt.done + 1 \in DOMAIN attempt.subs /\ DOMAIN attempt.subs = 1 .. Len(attempt.subs)
  BY <1>2, <1>3, SMT
<1>5. Items(attempt) = attempt.subs /\ Item(attempt) = attempt.subs[attempt.done + 1]
  BY <1>1 DEF Items, Item
<1>6. SubOK(attempt.done + 1)
  BY <1>4 DEF IInv, PayOK
<1>7. attempt.hand \notin completed
  BY <1>1 DEF IInv, AttemptOK
<1>8. Item(attempt) \in DOMAIN txs /\ txs[Item(attempt)].hand \notin completed
  BY <1>5, <1>6, <1>7 DEF SubOK
<1> QED BY <1>1, <1>2, <1>3, <1>4, <1>5, <1>8, SubCountPositive

\* Once all receipts are read there is one for every transfer.
LEMMA ReceiptsRead ==
    ASSUME IInv, Paying, attempt.at \in AfterCheck
    PROVE  Len(attempt.receipts) = SubCount /\ DOMAIN attempt.receipts = DOMAIN attempt.subs
<1>1. Len(attempt.receipts) = Len(attempt.subs)
  BY DEF IInv, PayOK, CountOK, Paying
<1>2. attempt.subs \in Seq(Nat) /\ attempt.receipts \in Seq(Receipt) /\ Len(attempt.subs) = SubCount
  BY ItemOK
<1> QED BY <1>1, <1>2, SMT

\* After the submissions a step of the payment works on the receipts, the records and
\* the audit events of the transfers that are out.
PayStep ==
    /\ attempt' \in Attempt /\ attempt'.at \in Submitted
    /\ attempt'.hand = attempt.hand /\ attempt'.subs = attempt.subs
    /\ UNCHANGED <<mode, roomVars, addressed, inputVars, opsVars, planned, booked, noted, chainVars,
                   completed>>

\* What the payment reads and such a step leaves as it is.
LEMMA PayStepSame ==
    ASSUME PayStep
    PROVE  /\ UNCHANGED <<mode, flagged, txs, completed, planned, booked, noted>>
           /\ attempt'.hand = attempt.hand /\ attempt'.subs = attempt.subs
           /\ SubCount' = SubCount /\ \A k : PaidSeats(k)' = PaidSeats(k)
<1>1. UNCHANGED <<mode, flagged, txs, completed, planned, booked, noted>>
  BY DEF PayStep, opsVars, chainVars
<1>2. SubCount' = SubCount /\ \A k : PaidSeats(k)' = PaidSeats(k)
  BY <1>1 DEF SubCount, PaidSeats
<1>3. attempt'.hand = attempt.hand /\ attempt'.subs = attempt.subs
  BY DEF PayStep
<1> QED BY <1>1, <1>2, <1>3

\* What is left to show of such a step.
LEMMA PayStepIInv ==
    ASSUME IInv, Paying, PayStep, CountOK', RecordOK', CompletedIsPaid',
           \A k \in DOMAIN attempt.subs : SubOK(k)',
           \A k \in DOMAIN attempt'.receipts : ReceiptOK(k)'
    PROVE  IInv'
<1>1. RoomOK' /\ AttemptOK' /\ InputOK'
  BY PaymentFrame DEF PayStep, Paying
<1>2. UNCHANGED <<mode, txs, settledIds, shown, planned, booked>>
  BY DEF PayStep, roomVars, chainVars
<1>3. TxsOK'
  BY <1>2 DEF IInv, TxsOK, OnlyShowdownsPaid
<1>4. attempt'.subs = attempt.subs
  BY DEF PayStep
<1>5. \A j, k \in DOMAIN attempt.subs : attempt.subs[j] = attempt.subs[k] => j = k
  BY DEF IInv, PayOK
<1>6. PayOK'
  BY <1>4, <1>5 DEF PayOK
<1> QED BY <1>1, <1>3, <1>6 DEF IInv

\* A transfer stays what it is while its record and its audit event are kept.
LEMMA SubKept ==
    ASSUME PayStep, NEW k, SubOK(k),
           Past("persist", Persisted, k)' => attempt.subs[k] \in DOMAIN records',
           attempt'.at # "complete" /\ attempt.subs[k] \in DOMAIN audited' =>
               audited'[attempt.subs[k]] # "review"
    PROVE  SubOK(k)'
BY PayStepSame DEF SubOK

\* One await of a step of the payment: attempt.subs is worked through in its order.
Moves(next) ==
    \/ /\ attempt'.at = attempt.at /\ attempt'.done = attempt.done + 1
       /\ attempt.done + 1 < SubCount
    \/ attempt'.at = next /\ attempt'.done = 0 /\ attempt.done + 1 >= SubCount

\* A step that leaves the receipts as they are does that.
LEMMA RecordStep ==
    ASSUME IInv, Paying, NEW next \in Submitted, attempt' = Proceed(attempt),
           Advance(attempt) = [attempt EXCEPT !.at = next, !.done = 0],
           UNCHANGED <<mode, roomVars, addressed, inputVars, opsVars, planned, booked, noted,
                       chainVars, completed>>
    PROVE  PayStep /\ Moves(next) /\ attempt'.receipts = attempt.receipts
<1>1. /\ attempt \in Attempt /\ Items(attempt) = attempt.subs /\ Len(attempt.subs) = SubCount
  BY ItemOK
<1>2. next \in Step
  BY DEF Step, Booked
<1>3. /\ attempt' \in Attempt /\ attempt'.hand = attempt.hand
      /\ attempt'.subs = attempt.subs /\ attempt'.receipts = attempt.receipts
      /\ Moves(next)
  BY <1>1, <1>2, Proceeds DEF Moves
<1>4. attempt'.at \in Submitted
  BY <1>3 DEF Moves, Paying
<1> QED BY <1>3, <1>4 DEF PayStep

\* It changes the record of the transfer it is at, and no other.
LEMMA RecordStepIInv ==
    ASSUME IInv, Paying, PayStep, attempt'.receipts = attempt.receipts, audited' = audited,
           \/ attempt.at = "persist" /\ Moves("auditSubs")
           \/ attempt.at = "update" /\ Moves("auditReceipts")
           \/ attempt.at = "review" /\ Moves("auditReview"),
           DOMAIN records' = DOMAIN records \cup {Item(attempt)},
           \A x \in DOMAIN records : x # Item(attempt) => records'[x] = records[x],
           RecordOK', \A k \in DOMAIN attempt.receipts : ReceiptOK(k)'
    PROVE  IInv'
<1>1. /\ attempt.done \in Nat /\ Len(attempt.subs) = SubCount /\ SubCount \in Nat /\ SubCount >= 1
      /\ DOMAIN attempt.subs = 1 .. SubCount /\ attempt.done + 1 \in DOMAIN attempt.subs
      /\ Item(attempt) = attempt.subs[attempt.done + 1]
      /\ Item(attempt) \in DOMAIN txs /\ txs[Item(attempt)].hand \notin completed
  BY ItemOK
<1>2. /\ mode' = mode /\ attempt'.subs = attempt.subs /\ SubCount' = SubCount
      /\ UNCHANGED <<mode, flagged, txs, completed, planned, booked, noted>>
  BY PayStepSame
<1>3. mode \in {"direct", "batch"} /\ attempt'.at \in Submitted
  BY DEF Paying, PayStep
<1>4. attempt'.done \in Nat /\ attempt'.done < SubCount /\ attempt'.at # "complete"
  BY <1>1, SMT DEF Moves
<1>5. CountOK'
  <2>1. CASE attempt.at = "persist" /\ Moves("auditSubs")
    <3>1. attempt'.at \in {"persist", "auditSubs"} /\ attempt.receipts = << >>
      BY <2>1 DEF Moves, IInv, PayOK, CountOK
    <3>2. {"persist", "auditSubs"} \cap AfterCheck = {} /\ "submit" \notin Submitted
      BY DEF AfterCheck, Updated, Reviewed, Submitted, Persisted
    <3> QED BY <1>1, <1>2, <1>3, <1>4, <3>1, <3>2 DEF CountOK
  <2>2. CASE \/ attempt.at = "update" /\ Moves("auditReceipts")
             \/ attempt.at = "review" /\ Moves("auditReview")
    <3>1. attempt'.at \in AfterCheck /\ attempt.at \in AfterCheck
      BY <2>2 DEF Moves, AfterCheck, Updated, Reviewed
    <3>2. Len(attempt.receipts) = SubCount
      BY <3>1, ReceiptsRead
    <3>3. {"submit", "persist", "auditSubs", "check"} \cap AfterCheck = {} /\ "submit" \notin Submitted
      BY DEF AfterCheck, Updated, Reviewed, Submitted, Persisted
    <3> QED BY <1>1, <1>2, <1>3, <1>4, <3>1, <3>2, <3>3 DEF CountOK
  <2> QED BY <2>1, <2>2
<1>6. CompletedIsPaid'
  BY <1>1, <1>2, PaidKept
<1>7. ASSUME NEW k \in DOMAIN attempt.subs
      PROVE  SubOK(k)'
  <2>1. SubOK(k)
    BY DEF IInv, PayOK
  <2>2. Past("persist", Persisted, k)' => attempt.subs[k] \in DOMAIN records'
    <3>1. CASE k = attempt.done + 1
      BY <1>1, <3>1
    <3>2. CASE k # attempt.done + 1
      <4>1. Past("persist", Persisted, k)' => Past("persist", Persisted, k)
        <5>1. "persist" \notin Persisted /\ "update" \in Persisted /\ "review" \in Persisted
          BY DEF Persisted, AfterCheck, Updated, Reviewed
        <5> QED BY <1>1, <3>2, <5>1, SMT DEF Past, Moves
      <4> QED BY <2>1, <4>1 DEF SubOK
    <3> QED BY <3>1, <3>2
  <2>3. attempt.at # "complete"
    OBVIOUS
  <2>4. attempt.subs[k] \in DOMAIN audited => audited[attempt.subs[k]] # "review"
    BY <2>1, <2>3 DEF SubOK
  <2> QED BY <2>1, <2>2, <2>4, SubKept
<1> QED BY <1>5, <1>6, <1>7, PayStepIInv

\* A record is made of each transfer.
LEMMA PersistIInv ==
    ASSUME IInv, PersistSubmission, mode \in {"direct", "batch"}
    PROVE  IInv'
<1> DEFINE i == Item(attempt)
<1>1. /\ attempt.at = "persist"
      /\ records' = [x \in DOMAIN records \cup {i} |-> IF x = i THEN "submitted" ELSE records[x]]
      /\ attempt' = Proceed(attempt) /\ audited' = audited
      /\ UNCHANGED <<mode, roomVars, addressed, inputVars, opsVars, planned, booked, noted,
                     chainVars, completed>>
  BY DEF PersistSubmission
<1>2. Paying /\ "auditSubs" \in Submitted
  BY <1>1 DEF Paying, Submitted, Persisted
<1>3. PayStep /\ Moves("auditSubs") /\ attempt'.receipts = attempt.receipts
  <2>1. Advance(attempt) = [attempt EXCEPT !.at = "auditSubs", !.done = 0]
    BY <1>1, AdvanceOnChain
  <2> QED BY <1>1, <1>2, <2>1, RecordStep
<1>4. /\ attempt.done + 1 \in DOMAIN attempt.subs /\ i = attempt.subs[attempt.done + 1]
      /\ i \in DOMAIN txs
  BY <1>2, ItemOK
<1> HIDE DEF i
<1>5. /\ DOMAIN records' = DOMAIN records \cup {i} /\ records'[i] = "submitted"
      /\ \A x \in DOMAIN records : x # i => records'[x] = records[x]
  BY <1>1
<1>6. i \in DOMAIN audited => audited[i] # "review"
  BY <1>1, <1>4 DEF IInv, PayOK, SubOK
<1>7. RecordOK'
  <2>1. txs' = txs /\ flagged' = flagged
    BY <1>3, PayStepSame
  <2> QED BY <1>1, <1>4, <1>5, <1>6, <2>1, SMT DEF IInv, RecordOK, RecordsAreTrue
<1>8. DOMAIN attempt.receipts = {}
  BY <1>1, SMT DEF IInv, PayOK, CountOK
<1> QED BY <1>1, <1>2, <1>3, <1>5, <1>7, <1>8, RecordStepIInv DEF i

\* The receipt of each transfer is read.
LEMMA CheckedIInv ==
    ASSUME IInv, mode \in {"direct", "batch"}, Checked(get_transfer_receipt(txs[Item(attempt)]))
    PROVE  IInv'
<1> DEFINE i == Item(attempt)
           r == get_transfer_receipt(txs[i])
           a == [attempt EXCEPT !.receipts = Append(attempt.receipts, r)]
<1>1. /\ attempt.at = "check" /\ attempt' = Proceed(a)
      /\ UNCHANGED <<mode, roomVars, addressed, inputVars, opsVars, planned, booked, noted,
                     chainVars, completed>>
      /\ UNCHANGED <<records, audited>>
  BY DEF Checked, storeVars
<1>2. Paying /\ "update" \in Submitted /\ "update" \in Step
  BY <1>1 DEF Paying, Submitted, Persisted, AfterCheck, Step, Booked
<1>3. /\ attempt.done + 1 \in DOMAIN attempt.subs
      /\ attempt.done \in Nat /\ attempt.receipts \in Seq(Receipt)
      /\ Len(attempt.subs) = SubCount /\ SubCount \in Nat /\ SubCount >= 1
      /\ i = attempt.subs[attempt.done + 1]
      /\ i \in DOMAIN txs /\ attempt \in Attempt
  BY <1>2, ItemOK
<1>4. /\ r \in Receipt
      /\ r = "confirmed" => txs[i].state = "ok"
      /\ r = "failed" => txs[i].state = "reverted"
  <2>1. txs[i] \in Transfer
    BY <1>3, SMT DEF IInv, TxsOK
  <2> QED BY <2>1 DEF Transfer, get_transfer_receipt, Receipt
<1> HIDE DEF i, r
<1>5. /\ a \in Attempt /\ a.at = "check" /\ a.hand = attempt.hand /\ a.subs = attempt.subs
      /\ a.done = attempt.done /\ a.receipts = Append(attempt.receipts, r)
  <2>1. Append(attempt.receipts, r) \in Seq(Receipt)
    BY <1>3, <1>4, SMT
  <2> QED BY <1>1, <1>3, <2>1 DEF Attempt
<1> HIDE DEF a
<1>6. /\ attempt' \in Attempt /\ attempt'.hand = attempt.hand
      /\ attempt'.subs = attempt.subs /\ attempt'.receipts = Append(attempt.receipts, r)
      /\ Moves("update")
  <2>1. Advance(a) = [a EXCEPT !.at = "update", !.done = 0]
    BY <1>5, AdvanceOnChain
  <2>2. Items(a) = attempt.subs
    BY <1>5 DEF Items
  <2> QED BY <1>1, <1>2, <1>3, <1>5, <2>1, <2>2, Proceeds DEF Moves
<1>7. attempt'.at \in {"check", "update"} /\ PayStep
  <2>1. attempt'.at \in {"check", "update"} /\ attempt'.at \in Submitted
    BY <1>1, <1>2, <1>6 DEF Moves, Paying
  <2> QED BY <1>1, <1>6, <2>1 DEF PayStep
<1>8. UNCHANGED <<mode, flagged, txs, completed, planned, booked, noted>> /\ SubCount' = SubCount
  BY <1>7, PayStepSame
<1>9. RecordOK' /\ CompletedIsPaid'
  BY <1>1, <1>8, PaidStays DEF IInv, RecordOK, RecordsAreTrue
<1>10. Len(attempt.receipts) = attempt.done
  BY <1>1 DEF IInv, PayOK, CountOK
<1>11. /\ Len(attempt'.receipts) = attempt.done + 1
       /\ DOMAIN attempt'.receipts = 1 .. attempt.done + 1
       /\ attempt'.receipts[attempt.done + 1] = r
       /\ \A k \in DOMAIN attempt.receipts : attempt'.receipts[k] = attempt.receipts[k]
       /\ DOMAIN attempt.receipts = 1 .. attempt.done
  BY <1>3, <1>6, <1>10, SMT
<1>12. CountOK'
  <2>1. /\ "check" \notin AfterCheck
        /\ {"submit", "persist", "auditSubs"} \cap {"check", "update"} = {}
        /\ attempt'.at \in Submitted /\ mode \in {"direct", "batch"}
    BY <1>7 DEF AfterCheck, Updated, Reviewed, PayStep
  <2>2. /\ attempt'.done < SubCount
        /\ attempt'.at = "check" => attempt'.done = attempt.done + 1
        /\ attempt'.at = "update" => attempt.done + 1 = SubCount
    <3>1. attempt.done + 1 <= SubCount
      BY <1>2, ItemOK, SMT
    <3> QED BY <1>1, <1>3, <1>6, <3>1, SMT DEF Moves
  <2> QED BY <1>3, <1>6, <1>7, <1>8, <1>11, <2>1, <2>2 DEF CountOK
<1>13. ASSUME NEW k \in DOMAIN attempt.subs
       PROVE  SubOK(k)'
  <2>1. SubOK(k)
    BY DEF IInv, PayOK
  <2>2. "check" \in Persisted /\ attempt.at # "complete"
    BY <1>1 DEF Persisted
  <2>3. /\ attempt.subs[k] \in DOMAIN records
        /\ attempt.subs[k] \in DOMAIN audited => audited[attempt.subs[k]] # "review"
    BY <1>1, <2>1, <2>2 DEF SubOK, Past
  <2> QED BY <1>1, <1>7, <2>1, <2>3, SubKept
<1>14. ASSUME NEW k \in DOMAIN attempt'.receipts
       PROVE  ReceiptOK(k)'
  <2>1. ~Past("update", Updated, k)' /\ ~Past("review", Reviewed, k)' /\ attempt'.at # "complete"
    <3>1. {"check", "update"} \cap Updated = {} /\ {"check", "update"} \cap Reviewed = {}
      BY DEF Updated, Reviewed
    <3>2. attempt'.at = "update" => attempt'.done = 0
      BY <1>1, <1>6 DEF Moves
    <3>3. k \in Nat /\ k >= 1
      BY <1>3, <1>11, SMT
    <3> QED BY <1>7, <3>1, <3>2, <3>3, SMT DEF Past
  <2>2. CASE k = attempt.done + 1
    BY <1>3, <1>4, <1>6, <1>8, <1>11, <2>1, <2>2 DEF ReceiptOK
  <2>3. CASE k # attempt.done + 1
    <3>1. k \in DOMAIN attempt.receipts
      BY <1>3, <1>11, <2>3, SMT
    <3>2. ReceiptOK(k)
      BY <3>1 DEF IInv, PayOK
    <3> QED BY <1>6, <1>8, <1>11, <2>1, <3>1, <3>2 DEF ReceiptOK
  <2> QED BY <2>2, <2>3
<1> QED BY <1>2, <1>7, <1>9, <1>12, <1>13, <1>14, PayStepIInv

\* The record of a transfer whose receipt was read.
LEMMA ItemRead ==
    ASSUME IInv, Paying, attempt.at \in AfterCheck \ {"complete"}
    PROVE  LET d == attempt.done + 1
               i == Item(attempt)
           IN  /\ i \in DOMAIN records /\ ReceiptFor(attempt, i) = attempt.receipts[d]
               /\ attempt.receipts[d] \in Receipt
               /\ attempt.receipts[d] = "confirmed" => txs[i].state = "ok"
               /\ attempt.receipts[d] = "failed" => txs[i].state = "reverted"
               /\ i \in DOMAIN audited => audited[i] # "review"
<1> DEFINE d == attempt.done + 1
           i == Item(attempt)
<1>1. d \in DOMAIN attempt.subs /\ i = attempt.subs[d] /\ attempt.receipts \in Seq(Receipt)
  BY ItemOK
<1>2. d \in DOMAIN attempt.receipts
  BY <1>1, ReceiptsRead
<1> HIDE DEF d, i
<1>3. SubOK(d) /\ ReceiptOK(d)
  BY <1>1, <1>2 DEF IInv, PayOK
<1>4. attempt.at \in Persisted
  BY DEF Persisted
<1>5. i \in DOMAIN records /\ (i \in DOMAIN audited => audited[i] # "review")
  BY <1>1, <1>3, <1>4 DEF SubOK, Past
<1>6. ReceiptFor(attempt, i) = attempt.receipts[d] /\ attempt.receipts[d] \in Receipt
  BY <1>1, <1>2, ReceiptForSub, SMT DEF IInv
<1>7. /\ attempt.receipts[d] = "confirmed" => txs[i].state = "ok"
      /\ attempt.receipts[d] = "failed" => txs[i].state = "reverted"
  BY <1>1, <1>3 DEF ReceiptOK
<1> QED BY <1>5, <1>6, <1>7 DEF d, i

\* What a step that works on the record of one transfer knows of the k-th receipt.
LEMMA OtherReceipt ==
    ASSUME IInv, Paying, PayStep, attempt.at \in AfterCheck, NEW k \in DOMAIN attempt.receipts,
           \A x \in DOMAIN records : x # Item(attempt) => records'[x] = records[x]
    PROVE  /\ k \in Nat /\ k \in DOMAIN attempt.subs /\ attempt.subs[k] \in DOMAIN records
           /\ ReceiptOK(k)
           /\ k = attempt.done + 1 => attempt.subs[k] = Item(attempt)
           /\ k # attempt.done + 1 => records'[attempt.subs[k]] = records[attempt.subs[k]]
<1>1. k \in DOMAIN attempt.subs
  BY ReceiptsRead
<1>2. SubOK(k) /\ ReceiptOK(k)
  BY <1>1 DEF IInv, PayOK
<1>3. /\ attempt.done + 1 \in DOMAIN attempt.subs /\ Item(attempt) = attempt.subs[attempt.done + 1]
      /\ DOMAIN attempt.subs = 1 .. Len(attempt.subs)
  BY ItemOK
<1>4. k \in Nat
  BY <1>1, <1>3, SMT
<1>5. attempt.subs[k] \in DOMAIN records
  <2>1. attempt.at \in Persisted
    BY DEF Persisted
  <2> QED BY <1>2, <2>1 DEF SubOK, Past
<1>6. k # attempt.done + 1 => attempt.subs[k] # Item(attempt)
  BY <1>1, <1>3 DEF IInv, PayOK
<1> QED BY <1>1, <1>2, <1>3, <1>4, <1>5, <1>6

\* The record of each transfer is brought up to its receipt.
LEMMA UpdateIInv ==
    ASSUME IInv, mode \in {"direct", "batch"}, UpdateRecord
    PROVE  IInv'
<1> DEFINE i == Item(attempt)
           d == attempt.done + 1
<1>1. /\ attempt.at = "update" /\ attempt' = Proceed(attempt) /\ audited' = audited
      /\ records' = [records EXCEPT ![i] = ReceiptFor(attempt, i)]
      /\ UNCHANGED <<mode, roomVars, addressed, inputVars, opsVars, planned, booked, noted,
                     chainVars, completed>>
  BY DEF UpdateRecord, update_settlement_record_status_by_tx_hash
<1>2. /\ Paying /\ "auditReceipts" \in Submitted /\ attempt.at \in AfterCheck \ {"complete"}
  BY <1>1 DEF Paying, Submitted, Persisted, AfterCheck, Updated
<1>3. PayStep /\ Moves("auditReceipts") /\ attempt'.receipts = attempt.receipts
  <2>1. Advance(attempt) = [attempt EXCEPT !.at = "auditReceipts", !.done = 0]
    BY <1>1, AdvanceOnChain
  <2> QED BY <1>1, <1>2, <2>1, RecordStep
<1>4. /\ i \in DOMAIN records /\ ReceiptFor(attempt, i) = attempt.receipts[d]
      /\ attempt.receipts[d] \in Receipt
      /\ attempt.receipts[d] = "confirmed" => txs[i].state = "ok"
      /\ attempt.receipts[d] = "failed" => txs[i].state = "reverted"
      /\ i \in DOMAIN audited => audited[i] # "review"
  BY <1>2, ItemRead
<1>5. attempt.done \in Nat
  BY <1>2, ItemOK
<1>6. UNCHANGED <<txs, flagged>> /\ attempt'.subs = attempt.subs
  BY <1>3, PayStepSame
<1> HIDE DEF i
<1>7. /\ DOMAIN records' = DOMAIN records /\ records'[i] = attempt.receipts[d]
      /\ \A x \in DOMAIN records : x # i => records'[x] = records[x]
  BY <1>1, <1>4
<1>8. RecordOK'
  <2>1. attempt.receipts[d] # "manual_review_required"
    BY <1>4 DEF Receipt
  <2> HIDE DEF d
  <2> QED BY <1>1, <1>4, <1>6, <1>7, <2>1, SMT DEF IInv, RecordOK, RecordsAreTrue
<1>9. ASSUME NEW k \in DOMAIN attempt.receipts
      PROVE  ReceiptOK(k)'
  <2>1. /\ k \in Nat /\ attempt.subs[k] \in DOMAIN records /\ ReceiptOK(k)
        /\ k = d => attempt.subs[k] = i
        /\ k # d => records'[attempt.subs[k]] = records[attempt.subs[k]]
    BY <1>2, <1>3, <1>7, OtherReceipt DEF i
  <2>2. ~Past("review", Reviewed, k)' /\ attempt'.at # "complete"
    BY <1>1, <1>3 DEF Past, Moves, Reviewed
  <2>3. attempt.receipts[k] = "confirmed" /\ Past("update", Updated, k)' =>
            records'[attempt.subs[k]] = "confirmed" \/ attempt.subs[k] \in flagged'
    <3>1. CASE k = d
      BY <1>7, <2>1, <3>1
    <3>2. CASE k # d
      <4>1. Past("update", Updated, k)' => Past("update", Updated, k)
        <5>1. "update" \notin Updated /\ "auditReceipts" \in Updated
          BY DEF Updated, Reviewed
        <5>2. Moves("auditReceipts") /\ attempt'.at = "auditReceipts" => k <= attempt.done + 1
          <6>1. /\ DOMAIN attempt.receipts = 1 .. SubCount /\ SubCount \in Nat
            BY <1>2, ItemOK, ReceiptsRead
          <6> QED BY <1>1, <1>5, <6>1, SMT DEF Moves
        <5> QED BY <1>1, <1>3, <1>5, <2>1, <3>2, <5>1, <5>2, SMT DEF Past, Moves
      <4> QED BY <1>6, <2>1, <3>2, <4>1 DEF ReceiptOK
    <3> QED BY <3>1, <3>2
  <2> QED BY <1>3, <1>6, <2>1, <2>2, <2>3 DEF ReceiptOK
<1> QED BY <1>1, <1>2, <1>3, <1>4, <1>7, <1>8, <1>9, RecordStepIInv DEF i

\* The records of the transfers that failed go up for review.
LEMMA ReviewIInv ==
    ASSUME IInv, mode \in {"direct", "batch"}, MarkForReview
    PROVE  IInv'
<1> DEFINE i == Item(attempt)
           d == attempt.done + 1
<1>1. /\ attempt.at = "review" /\ attempt' = Proceed(attempt) /\ audited' = audited
      /\ IF ReceiptFor(attempt, i) # "failed" THEN UNCHANGED records
         ELSE records' = [records EXCEPT ![i] = "manual_review_required"]
      /\ UNCHANGED <<mode, roomVars, addressed, inputVars, opsVars, planned, booked, noted,
                     chainVars, completed>>
  BY DEF MarkForReview, update_settlement_record_status_by_tx_hash
<1>2. Paying /\ "auditReview" \in Submitted /\ attempt.at \in AfterCheck \ {"complete"}
  BY <1>1 DEF Paying, Submitted, Persisted, AfterCheck, Updated, Reviewed
<1>3. PayStep /\ Moves("auditReview") /\ attempt'.receipts = attempt.receipts
  <2>1. Advance(attempt) = [attempt EXCEPT !.at = "auditReview", !.done = 0]
    BY <1>1, AdvanceOnChain
  <2> QED BY <1>1, <1>2, <2>1, RecordStep
<1>4. /\ i \in DOMAIN records /\ ReceiptFor(attempt, i) = attempt.receipts[d]
      /\ attempt.receipts[d] = "failed" => txs[i].state = "reverted"
  BY <1>2, ItemRead
<1>5. attempt.done \in Nat
  BY <1>2, ItemOK
<1>6. UNCHANGED <<txs, flagged>> /\ attempt'.subs = attempt.subs
  BY <1>3, PayStepSame
<1> HIDE DEF i
<1>7. /\ DOMAIN records' = DOMAIN records
      /\ attempt.receipts[d] = "failed" => records'[i] = "manual_review_required"
      /\ attempt.receipts[d] # "failed" => records'[i] = records[i]
      /\ \A x \in DOMAIN records : x # i => records'[x] = records[x]
  BY <1>1, <1>4
<1>8. RecordOK'
  <2> HIDE DEF d
  <2> QED BY <1>1, <1>4, <1>6, <1>7, SMT DEF IInv, RecordOK, RecordsAreTrue
<1>9. ASSUME NEW k \in DOMAIN attempt.receipts
      PROVE  ReceiptOK(k)'
  <2>1. /\ k \in Nat /\ attempt.subs[k] \in DOMAIN records /\ ReceiptOK(k)
        /\ k = d => attempt.subs[k] = i
        /\ k # d => records'[attempt.subs[k]] = records[attempt.subs[k]]
    BY <1>2, <1>3, <1>7, OtherReceipt DEF i
  <2>2. Past("update", Updated, k) /\ attempt'.at # "complete"
    BY <1>1, <1>3 DEF Past, Moves, Updated
  <2>3. CASE k = d
    BY <1>3, <1>6, <1>7, <2>1, <2>2, <2>3 DEF ReceiptOK
  <2>4. CASE k # d
    <3>1. Past("review", Reviewed, k)' => Past("review", Reviewed, k)
      <4>1. "review" \notin Reviewed /\ "auditReview" \in Reviewed
        BY DEF Reviewed
      <4>2. attempt'.at = "auditReview" => k <= attempt.done + 1
        <5>1. DOMAIN attempt.receipts = 1 .. SubCount /\ SubCount \in Nat
          BY <1>2, ItemOK, ReceiptsRead
        <5> QED BY <1>1, <1>3, <1>5, <5>1, SMT DEF Moves
      <4> QED BY <1>1, <1>3, <1>5, <2>1, <2>4, <4>1, <4>2, SMT DEF Past, Moves
    <3> QED BY <1>3, <1>6, <2>1, <2>2, <2>4, <3>1 DEF ReceiptOK
  <2> QED BY <2>3, <2>4
<1> QED BY <1>1, <1>2, <1>3, <1>4, <1>7, <1>8, <1>9, RecordStepIInv DEF i

\* Events about transfers of the attempt claim no more than it knows.
LEMMA EmitRecords ==
    ASSUME IInv, NEW events, Emit(events), DOMAIN events \subseteq Subs(attempt),
           attempt.at \in Persisted,
           \A i \in DOMAIN events :
               /\ events[i] = "confirmed" => txs[i].state = "ok"
               /\ events[i] \in {"failed", "review"} => txs[i].state = "reverted"
               /\ events[i] = "review" => records[i] = "manual_review_required"
    PROVE  RecordOK' /\ CompletedIsPaid'
<1>1. PICK kept \in SUBSET DOMAIN events :
          audited' = [i \in DOMAIN audited \cup kept |-> IF i \in kept THEN events[i] ELSE audited[i]]
  BY DEF Emit
<1>2. UNCHANGED <<mode, flagged, txs, records, completed, planned, booked, noted>>
  BY DEF Emit, opsVars, chainVars
<1>3. CompletedIsPaid'
  BY <1>2, PaidStays DEF IInv
<1>4. \A i \in kept : i \in DOMAIN records
  <2>1. \A k \in DOMAIN attempt.subs : attempt.subs[k] \in DOMAIN records
    BY DEF IInv, PayOK, SubOK, Past
  <2> QED BY <2>1 DEF Subs
<1>5. RecordsAreTrue
  BY DEF IInv, RecordOK
<1>6. ASSUME NEW i \in DOMAIN audited'
      PROVE  /\ i \in DOMAIN records
             /\ audited'[i] = "confirmed" => txs[i].state = "ok"
             /\ audited'[i] \in {"failed", "review"} => txs[i].state = "reverted"
             /\ audited'[i] = "review" => records[i] = "manual_review_required"
  <2>1. CASE i \in kept
    BY <1>1, <1>4, <2>1
  <2>2. CASE i \notin kept
    BY <1>1, <1>5, <2>2 DEF RecordsAreTrue
  <2> QED BY <2>1, <2>2
<1>7. RecordsAreTrue'
  BY <1>2, <1>5, <1>6 DEF RecordsAreTrue
<1> QED BY <1>2, <1>3, <1>7 DEF IInv, RecordOK

\* An audit that leads on to the next step.
LEMMA AuditStep ==
    ASSUME IInv, Paying, NEW events, Emit(events), NEW next \in Submitted,
           attempt' = [attempt EXCEPT !.at = next, !.done = 0]
    PROVE  /\ PayStep /\ attempt'.at = next /\ attempt'.done = 0
           /\ attempt'.receipts = attempt.receipts /\ records' = records
<1>1. attempt \in Attempt /\ next \in Step
  BY ItemOK DEF Step, Booked
<1>2. /\ attempt' \in Attempt /\ attempt'.at = next /\ attempt'.done = 0
      /\ attempt'.hand = attempt.hand /\ attempt'.subs = attempt.subs
      /\ attempt'.receipts = attempt.receipts
  BY <1>1, MovedAttempt
<1>3. /\ UNCHANGED <<mode, roomVars, addressed, inputVars, opsVars, planned, booked, noted,
                     chainVars, completed>>
      /\ records' = records
  BY DEF Emit
<1> QED BY <1>2, <1>3 DEF PayStep

\* An audit before the last step.
LEMMA AuditMove ==
    ASSUME IInv, mode \in {"direct", "batch"}, NEW events, Emit(events),
           DOMAIN events \subseteq Subs(attempt),
           attempt.at \in {"auditSubs", "auditReceipts"}, attempt' = Advance(attempt),
           \A i \in DOMAIN events :
               /\ events[i] = "confirmed" => txs[i].state = "ok"
               /\ events[i] = "failed" => txs[i].state = "reverted"
               /\ events[i] # "review"
    PROVE  IInv'
<1>1. Paying /\ attempt.at \in Persisted /\ attempt.at # "complete"
  BY DEF Paying, Submitted, Persisted, AfterCheck, Updated
<1>2. PICK next \in {"check", "review"} :
        /\ attempt' = [attempt EXCEPT !.at = next, !.done = 0]
        /\ next = "check" <=> attempt.at = "auditSubs"
  <2>1. CASE attempt.at = "auditSubs"
    BY <2>1, AdvanceOnChain
  <2>2. CASE attempt.at = "auditReceipts"
    <3>1. attempt' = [attempt EXCEPT !.at = "review", !.done = 0] /\ attempt.at # "auditSubs"
      BY <2>2, AdvanceOnChain
    <3> QED BY <3>1
  <2> QED BY <2>1, <2>2
<1>3. /\ PayStep /\ attempt'.at = next /\ attempt'.done = 0
      /\ attempt'.receipts = attempt.receipts /\ records' = records
  <2>1. next \in Submitted
    BY DEF Submitted, Persisted, AfterCheck, Updated
  <2> QED BY <1>1, <1>2, <2>1, AuditStep
<1>4. RecordOK' /\ CompletedIsPaid'
  BY <1>1, EmitRecords
<1>5. /\ UNCHANGED <<mode, txs, flagged>> /\ SubCount' = SubCount /\ attempt'.subs = attempt.subs
  BY <1>3, PayStepSame
<1>6. /\ Len(attempt.subs) = SubCount /\ SubCount \in Nat /\ SubCount >= 1
      /\ attempt.receipts \in Seq(Receipt)
  BY <1>1, ItemOK
<1>7. /\ attempt.at = "auditSubs" => attempt.receipts = << >>
      /\ attempt.at = "auditReceipts" => Len(attempt.receipts) = SubCount
  <2>1. attempt.at = "auditReceipts" => attempt.at \in AfterCheck
    BY DEF AfterCheck, Updated
  <2>2. attempt.at = "auditSubs" => attempt.receipts = << >>
    BY DEF IInv, PayOK, CountOK
  <2> QED BY <1>1, <2>1, <2>2, ReceiptsRead
<1>8. CountOK'
  <2>1. /\ "check" \notin AfterCheck /\ next \notin {"submit", "persist", "auditSubs"}
        /\ next \in Submitted
    BY DEF AfterCheck, Updated, Reviewed, Submitted, Persisted
  <2> QED BY <1>2, <1>3, <1>5, <1>6, <1>7, <2>1, SMT DEF CountOK
<1>9. ASSUME NEW k \in DOMAIN attempt.subs
      PROVE  SubOK(k)'
  <2>1. SubOK(k)
    BY DEF IInv, PayOK
  <2>2. attempt.subs[k] \in DOMAIN records
    BY <1>1, <2>1 DEF SubOK, Past
  <2>3. attempt.subs[k] \in DOMAIN audited => audited[attempt.subs[k]] # "review"
    BY <1>1, <2>1 DEF SubOK
  <2>4. attempt.subs[k] \in DOMAIN audited' => audited'[attempt.subs[k]] # "review"
    BY <2>3 DEF Emit
  <2> QED BY <1>3, <2>1, <2>2, <2>4, SubKept
<1>10. ASSUME NEW k \in DOMAIN attempt'.receipts
       PROVE  ReceiptOK(k)'
  <2>1. ReceiptOK(k) /\ attempt.at = "auditReceipts" /\ next = "review" /\ k \in Nat /\ k >= 1
    BY <1>2, <1>3, <1>6, <1>7, SMT DEF IInv, PayOK
  <2>2. /\ Past("update", Updated, k)
        /\ ~Past("review", Reviewed, k)' /\ attempt'.at # "complete"
    BY <1>3, <2>1, SMT DEF Past, Updated, Reviewed
  <2> QED BY <1>3, <1>5, <2>1, <2>2 DEF ReceiptOK
<1> QED BY <1>1, <1>3, <1>4, <1>8, <1>9, <1>10, PayStepIInv

\* The submissions are audited.
LEMMA AuditSubmissionsIInv ==
    ASSUME IInv, mode \in {"direct", "batch"}, AuditSubmissions
    PROVE  IInv'
<1> DEFINE events == [i \in Subs(attempt) |-> "submitted"]
<1>1. /\ DOMAIN events = Subs(attempt)
      /\ \A i \in DOMAIN events : events[i] = "submitted"
  OBVIOUS
<1>2. /\ attempt.at = "auditSubs" /\ attempt' = Advance(attempt) /\ Emit(events)
  BY DEF AuditSubmissions
<1> HIDE DEF events
<1> QED BY <1>1, <1>2, AuditMove

\* The receipt of every transfer, once all are read.
LEMMA ReceiptsKnown ==
    ASSUME IInv, mode \in {"direct", "batch"}, attempt.at \in AfterCheck,
           NEW i \in Subs(attempt)
    PROVE  \E k \in DOMAIN attempt.subs :
               /\ i = attempt.subs[k] /\ k \in DOMAIN attempt.receipts
               /\ ReceiptFor(attempt, i) = attempt.receipts[k] /\ ReceiptFor(attempt, i) \in Receipt
               /\ SubOK(k) /\ ReceiptOK(k)
<1>1. Paying
  BY DEF Paying, Submitted, Persisted
<1>2. attempt.receipts \in Seq(Receipt) /\ DOMAIN attempt.receipts = DOMAIN attempt.subs
  BY <1>1, ItemOK, ReceiptsRead
<1>3. PICK k \in DOMAIN attempt.subs : i = attempt.subs[k]
  BY DEF Subs
<1>4. k \in DOMAIN attempt.receipts /\ attempt.receipts[k] \in Receipt
  BY <1>2, SMT
<1>5. ReceiptFor(attempt, i) = attempt.receipts[k]
  BY <1>3, ReceiptForSub DEF IInv
<1>6. SubOK(k) /\ ReceiptOK(k)
  BY <1>4 DEF IInv, PayOK
<1> QED BY <1>3, <1>4, <1>5, <1>6

\* The receipts are audited.
LEMMA AuditReceiptsIInv ==
    ASSUME IInv, mode \in {"direct", "batch"}, AuditReceipts
    PROVE  IInv'
<1> DEFINE events == [i \in Subs(attempt) |-> ReceiptFor(attempt, i)]
<1>1. attempt.at = "auditReceipts" /\ attempt' = Advance(attempt) /\ Emit(events)
  BY DEF AuditReceipts
<1>2. attempt.at \in AfterCheck
  BY <1>1 DEF AfterCheck, Updated
<1>3. ASSUME NEW i \in Subs(attempt)
      PROVE  /\ ReceiptFor(attempt, i) = "confirmed" => txs[i].state = "ok"
             /\ ReceiptFor(attempt, i) = "failed" => txs[i].state = "reverted"
             /\ ReceiptFor(attempt, i) # "review"
  <2>1. PICK k \in DOMAIN attempt.subs :
               /\ i = attempt.subs[k] /\ k \in DOMAIN attempt.receipts
               /\ ReceiptFor(attempt, i) = attempt.receipts[k] /\ ReceiptFor(attempt, i) \in Receipt
               /\ SubOK(k) /\ ReceiptOK(k)
    BY <1>2, ReceiptsKnown
  <2> QED BY <2>1 DEF ReceiptOK, Receipt
<1>4. /\ DOMAIN events = Subs(attempt)
      /\ \A i \in DOMAIN events : events[i] = ReceiptFor(attempt, i)
  OBVIOUS
<1> HIDE DEF events
<1>5. \A i \in DOMAIN events :
               /\ events[i] = "confirmed" => txs[i].state = "ok"
               /\ events[i] = "failed" => txs[i].state = "reverted"
               /\ events[i] # "review"
  BY <1>3, <1>4
<1> QED BY <1>1, <1>4, <1>5, AuditMove

\* The attempt comes to its end only if every transfer is confirmed.
LEMMA AuditReviewIInv ==
    ASSUME IInv, mode \in {"direct", "batch"}, emit_manual_review_audits
    PROVE  IInv'
<1> DEFINE events == [i \in FailedSubs(attempt) |-> "review"]
<1>1. /\ attempt.at = "auditReview" /\ Emit(events)
      /\ attempt' = IF AllConfirmed(attempt) THEN Advance(attempt) ELSE Idle
  BY DEF emit_manual_review_audits
<1>2. /\ Paying /\ attempt.at \in Persisted /\ attempt.at \in AfterCheck
      /\ attempt.at \in Updated /\ attempt.at \in Reviewed
  BY <1>1 DEF Paying, Submitted, Persisted, AfterCheck, Updated, Reviewed
<1>3. RecordOK' /\ CompletedIsPaid'
  <2>1. /\ DOMAIN events = FailedSubs(attempt) /\ DOMAIN events \subseteq Subs(attempt)
        /\ \A i \in DOMAIN events : events[i] = "review"
    BY DEF FailedSubs
  <2>2. ASSUME NEW i \in FailedSubs(attempt)
        PROVE  txs[i].state = "reverted" /\ records[i] = "manual_review_required"
    <3>1. i \in Subs(attempt) /\ ReceiptFor(attempt, i) = "failed"
      BY DEF FailedSubs
    <3>2. PICK k \in DOMAIN attempt.subs :
               /\ i = attempt.subs[k]
               /\ ReceiptFor(attempt, i) = attempt.receipts[k]
               /\ ReceiptOK(k)
      BY <1>2, <3>1, ReceiptsKnown
    <3> QED BY <1>2, <3>1, <3>2 DEF ReceiptOK, Past
  <2> HIDE DEF events
  <2> QED BY <1>1, <1>2, <2>1, <2>2, EmitRecords
<1>4. CASE ~AllConfirmed(attempt)
  <2>1. /\ attempt' = Idle
        /\ UNCHANGED <<mode, roomVars, addressed, inputVars, opsVars, planned, booked, noted,
                       chainVars, completed>>
    BY <1>1, <1>4 DEF Emit
  <2>2. UNCHANGED <<mode, txs, settledIds, shown, planned, booked>>
    BY <2>1 DEF roomVars, chainVars
  <2>3. TxsOK'
    BY <2>2 DEF IInv, TxsOK, OnlyShowdownsPaid
  <2> QED BY <1>3, <2>1, <2>3, LostIInv
<1>5. CASE AllConfirmed(attempt)
  <2>1. attempt' = [attempt EXCEPT !.at = "complete", !.done = 0] /\ "complete" \in Submitted
    BY <1>1, <1>5, AdvanceOnChain DEF Submitted, Persisted, AfterCheck, Updated, Reviewed
  <2>2. /\ PayStep /\ attempt'.at = "complete" /\ attempt'.done = 0
        /\ attempt'.receipts = attempt.receipts /\ records' = records
    BY <1>1, <1>2, <2>1, AuditStep
  <2>3. /\ UNCHANGED <<mode, txs, flagged>> /\ SubCount' = SubCount /\ attempt'.subs = attempt.subs
    BY <2>2, PayStepSame
  <2>4. /\ Len(attempt.subs) = SubCount /\ SubCount \in Nat /\ SubCount >= 1
        /\ Len(attempt.receipts) = SubCount /\ DOMAIN attempt.receipts = DOMAIN attempt.subs
    BY <1>2, ItemOK, ReceiptsRead
  <2>5. CountOK'
    BY <2>1, <2>2, <2>3, <2>4, SMT DEF CountOK
  <2>6. ASSUME NEW k \in DOMAIN attempt.subs
        PROVE  SubOK(k)'
    <3>1. SubOK(k)
      BY DEF IInv, PayOK
    <3>2. attempt.subs[k] \in DOMAIN records
      BY <1>2, <3>1 DEF SubOK, Past
    <3> QED BY <2>2, <3>1, <3>2, SubKept
  <2>7. ASSUME NEW k \in DOMAIN attempt'.receipts
        PROVE  ReceiptOK(k)'
    <3>1. ReceiptOK(k) /\ k \in DOMAIN attempt.subs
      BY <2>2, <2>4 DEF IInv, PayOK
    <3>2. attempt.receipts[k] = "confirmed"
      <4>1. attempt.subs[k] \in Subs(attempt) /\ ReceiptFor(attempt, attempt.subs[k]) = attempt.receipts[k]
        BY <3>1, ReceiptForSub DEF IInv, Subs
      <4> QED BY <1>5, <4>1 DEF AllConfirmed
    <3>3. Past("update", Updated, k)
      BY <1>2 DEF Past
    <3> QED BY <2>2, <2>3, <3>1, <3>2, <3>3 DEF ReceiptOK
  <2> QED BY <1>2, <1>3, <2>2, <2>5, <2>6, <2>7, PayStepIInv
<1> QED BY <1>4, <1>5

\* An attempt at its end has its hand planned, booked and paid.
LEMMA AttemptPaid ==
    ASSUME IInv, attempt.at = "complete"
    PROVE  /\ attempt.hand \in planned \cap booked
           /\ mode = "offchain" => attempt.hand \in noted
           /\ mode # "offchain" => \A s \in Payee : \E i \in PaidBy(attempt.hand, s) :
                  i \in DOMAIN records /\ (records[i] = "confirmed" \/ i \in flagged)
<1>1. /\ attempt.at \in Planned /\ attempt.at \in Booked /\ attempt.at \in Submitted
      /\ attempt.at \in Persisted /\ attempt.at \in AfterCheck /\ attempt.at \in Updated
  BY DEF Planned, Booked, Submitted, Persisted, AfterCheck, Updated, Reviewed
<1>2. attempt.hand \in planned \cap booked /\ (mode = "offchain" => attempt.hand \in noted)
  BY <1>1 DEF IInv, AttemptOK
<1>3. ASSUME mode # "offchain", NEW s \in Payee
      PROVE  \E i \in PaidBy(attempt.hand, s) :
                 i \in DOMAIN records /\ (records[i] = "confirmed" \/ i \in flagged)
  <2>1. mode \in {"direct", "batch"}
    BY <1>3, Attempting DEF IInv
  <2>2. /\ DOMAIN attempt.subs = 1 .. SubCount /\ DOMAIN attempt.receipts = DOMAIN attempt.subs
    <3>1. attempt.subs \in Seq(Nat) /\ attempt.receipts \in Seq(Receipt)
      BY <1>1, <2>1, ItemOK DEF Paying
    <3> QED BY <1>1, <1>3, <3>1, SMT DEF IInv, PayOK, CountOK
  <2>3. \E k \in 1 .. SubCount : s \in PaidSeats(k)
    <3>1. CASE mode = "direct"
      <4>1. PICK k \in DOMAIN PayoutSeats : s = PayoutSeats[k]
        BY DEF Payee
      <4> QED BY <3>1, <4>1, SomePayouts DEF SubCount, PaidSeats
    <3>2. CASE mode = "batch"
      BY <3>2, SMT DEF SubCount, PaidSeats
    <3> QED BY <2>1, <3>1, <3>2
  <2>4. PICK k \in DOMAIN attempt.subs : s \in PaidSeats(k)
    BY <2>2, <2>3
  <2>5. SubOK(k) /\ ReceiptOK(k)
    BY <2>2 DEF IInv, PayOK
  <2>6. attempt.subs[k] \in PaidBy(attempt.hand, s)
    BY <2>4, <2>5 DEF SubOK, ReceiptOK, PaidBy
  <2> QED BY <1>1, <2>5, <2>6 DEF SubOK, ReceiptOK, Past
<1> QED BY <1>2, <1>3

\* The hand is closed, if it is still at its showdown.
LEMMA CompleteIInv ==
    ASSUME IInv, Complete
    PROVE  IInv'
<1> USE DEF inputVars, opsVars, storeVars, chainVars
<1>1. /\ attempt.at = "complete" /\ attempt' = Idle
      /\ IF hand = attempt.hand /\ status = "Showdown"
         THEN hand' = hand /\ status' = "Settled" /\ completed' = completed \cup {hand}
         ELSE UNCHANGED <<hand, status, completed>>
      /\ UNCHANGED <<mode, shown, addressed, inputVars, opsVars, storeVars, chainVars>>
  BY DEF Complete, Room!Close
<1>2. AttemptOK' /\ PayOK' /\ attempt'.at \notin {"row", "derive"}
  BY <1>1, AttemptEnds DEF IInv, AttemptOK
<1>3. InputOK' /\ TxsOK' /\ RecordOK'
  BY <1>1, <1>2, SMT DEF IInv, InputOK, OverrideStands, TxsOK, OnlyShowdownsPaid, RecordOK, RecordsAreTrue
<1>4. RoomOK'
  <2>1. CASE hand = attempt.hand /\ status = "Showdown"
    <3>1. hand' = hand /\ status' = "Settled" /\ completed' = completed \cup {hand} /\ shown' = shown
      BY <1>1, <2>1
    <3>2. hand \in 1 .. hand
      BY <2>1 DEF IInv, RoomOK
    <3> QED BY <3>1, <3>2 DEF IInv, RoomOK
  <2>2. CASE ~(hand = attempt.hand /\ status = "Showdown")
    <3>1. hand' = hand /\ status' = status /\ completed' = completed /\ shown' = shown
      BY <1>1, <2>2
    <3> QED BY <3>1 DEF IInv, RoomOK
  <2> QED BY <2>1, <2>2
<1>5. CompletedIsPaid'
  <2>1. \A h, s : PaidBy(h, s)' = PaidBy(h, s)
    BY <1>1 DEF PaidBy
  <2>2. completed' \subseteq completed \cup {attempt.hand}
    BY <1>1
  <2> QED BY <1>1, <2>1, <2>2, AttemptPaid DEF IInv, CompletedIsPaid
<1> QED BY <1>2, <1>3, <1>4, <1>5 DEF IInv
-----------------------------------------------------------------------------
(***************************************************************************)
(* The transfers.                                                          *)
(***************************************************************************)
\* The node takes a transfer of the attempt's hand: it has no record yet, and it is
\* for a hand that is planned and booked.
LEMMA Sent ==
    ASSUME IInv, attempt.at = "submit", mode \in {"direct", "batch"},
           NEW call, call.seats \subseteq Nat, call.id \in Nat,
           mode = "batch" => call.id = attempt.hand, Send(call),
           UNCHANGED <<mode, roomVars, opsVars, storeVars, settledIds, completed>>
    PROVE  /\ Len(txs) \in Nat /\ DOMAIN txs = 1 .. Len(txs)
           /\ Len(txs') = Len(txs) + 1 /\ DOMAIN txs' = 1 .. Len(txs) + 1
           /\ \A i \in DOMAIN txs : i \in DOMAIN txs' /\ txs'[i] = txs[i]
           /\ txs'[Len(txs) + 1].hand = attempt.hand /\ txs'[Len(txs) + 1].seats = call.seats
           /\ Len(txs) + 1 \notin DOMAIN audited
           /\ TxsOK' /\ RecordOK' /\ CompletedIsPaid'
<1> USE DEF roomVars, opsVars, storeVars
<1> DEFINE tx == [hand |-> attempt.hand, state |-> "sent", seats |-> call.seats, id |-> call.id]
<1>1. txs' = Append(txs, tx) /\ txs \in Seq(Transfer)
  BY DEF Send, IInv, TxsOK
<1>2. attempt.hand \in Nat /\ attempt.hand \in shown /\ attempt.hand \in planned \cap booked
  <2>1. attempt.at \in Planned /\ attempt.at \in Booked /\ attempt.at # "idle"
    BY DEF Planned, Booked
  <2> QED BY <2>1, Attempting DEF IInv, AttemptOK
<1>3. /\ tx \in Transfer /\ tx.hand = attempt.hand /\ tx.state = "sent" /\ tx.seats = call.seats
      /\ tx.id = call.id
  BY <1>2 DEF Transfer
<1> HIDE DEF tx
<1>4. /\ Len(txs) \in Nat /\ DOMAIN txs = 1 .. Len(txs)
      /\ txs' \in Seq(Transfer)
      /\ Len(txs') = Len(txs) + 1 /\ DOMAIN txs' = 1 .. Len(txs) + 1
      /\ \A i \in DOMAIN txs : i \in DOMAIN txs' /\ txs'[i] = txs[i]
      /\ txs'[Len(txs) + 1] = tx
  BY <1>1, <1>3, SMT
<1>5. \A i \in DOMAIN txs' : i \in DOMAIN txs \/ i = Len(txs) + 1
  BY <1>4, SMT
<1>6. Len(txs) + 1 \notin DOMAIN txs
  BY <1>4, SMT
<1>7. Len(txs) + 1 \notin DOMAIN audited
  BY <1>6 DEF IInv, RecordOK, RecordsAreTrue
<1>8. TxsOK'
  <2> DEFINE n == Len(txs) + 1
  <2>1. /\ \A i \in DOMAIN txs : i \in DOMAIN txs' /\ txs'[i] = txs[i]
        /\ \A i \in DOMAIN txs' : i \in DOMAIN txs \/ i = n
        /\ txs'[n] = tx
    BY <1>4, <1>5
  <2> HIDE DEF n
  <2>2. OnlyShowdownsPaid'
    BY <1>2, <1>3, <2>1 DEF IInv, TxsOK, OnlyShowdownsPaid
  <2>3. ASSUME mode = "batch", NEW i \in DOMAIN txs'
        PROVE  txs'[i].id = txs'[i].hand /\ (txs'[i].state = "ok" => txs'[i].id \in settledIds')
    BY <1>3, <2>1, <2>3 DEF IInv, TxsOK
  <2>4. ASSUME mode = "batch", NEW i \in DOMAIN txs', NEW j \in DOMAIN txs',
               txs'[i].state = "ok", txs'[j].state = "ok", txs'[i].id = txs'[j].id
        PROVE  i = j
    <3>1. i \in DOMAIN txs /\ j \in DOMAIN txs
      BY <1>3, <2>1, <2>4
    <3> QED BY <2>1, <2>4, <3>1 DEF IInv, TxsOK
  <2> QED BY <1>4, <2>2, <2>3, <2>4 DEF TxsOK
<1>9. RecordOK'
  BY <1>4, SMT DEF IInv, RecordOK, RecordsAreTrue
<1>10. CompletedIsPaid'
  BY <1>4, PaidKept
<1> QED BY <1>3, <1>4, <1>7, <1>8, <1>9, <1>10

\* One more element at the end of a sequence.
LEMMA OneMore ==
    ASSUME NEW s \in Seq(Nat), NEW n
    PROVE  /\ Len(Append(s, n)) = Len(s) + 1 /\ DOMAIN Append(s, n) = 1 .. Len(s) + 1
           /\ DOMAIN s = 1 .. Len(s) /\ Append(s, n)[Len(s) + 1] = n
           /\ \A k \in DOMAIN s : Append(s, n)[k] = s[k]
BY SMT

\* One more transfer of the attempt.
LEMMA SubmittedIInv ==
    ASSUME IInv, attempt.at = "submit", mode \in {"direct", "batch"},
           NEW seats, Len(txs) \in Nat, DOMAIN txs = 1 .. Len(txs),
           DOMAIN txs' = 1 .. Len(txs) + 1,
           \A i \in DOMAIN txs : i \in DOMAIN txs' /\ txs'[i] = txs[i],
           txs'[Len(txs) + 1].hand = attempt.hand, txs'[Len(txs) + 1].seats = seats,
           seats = PaidSeats(attempt.done + 1),
           Len(txs) + 1 \notin DOMAIN audited, TxsOK', RecordOK', CompletedIsPaid',
           attempt' \in Attempt, attempt'.hand = attempt.hand,
           attempt'.subs = Append(attempt.subs, Len(txs) + 1),
           attempt'.receipts = attempt.receipts,
           \/ /\ attempt'.at = "submit" /\ attempt'.done = attempt.done + 1
              /\ attempt.done + 1 < SubCount
           \/ /\ attempt'.at = "persist" /\ attempt'.done = 0 /\ attempt.done + 1 >= SubCount,
           UNCHANGED <<mode, roomVars, addressed, inputVars, opsVars, storeVars, completed>>
    PROVE  IInv'
<1>1. /\ "persist" \in Submitted
      /\ {"submit", "persist"} \cap Persisted = {} /\ {"submit", "persist"} \cap AfterCheck = {}
      /\ "submit" \notin Submitted
  BY DEF Submitted, Persisted, AfterCheck, Updated, Reviewed
<1>2. RoomOK' /\ AttemptOK' /\ InputOK'
  <2>1. UNCHANGED <<planned, booked, noted>>
    BY DEF storeVars
  <2>2. attempt'.at \in {"submit"} \cup Submitted
    BY <1>1
  <2> QED BY <2>1, <2>2, PaymentFrame
<1>3. attempt.done \in Nat /\ attempt.subs \in Seq(Nat)
  BY DEF IInv, AttemptOK, Attempt
<1>4. /\ mode' = mode /\ audited' = audited /\ SubCount' = SubCount
      /\ \A k : PaidSeats(k)' = PaidSeats(k)
  BY DEF SubCount, PaidSeats, storeVars
<1>5. /\ Len(attempt.subs) = attempt.done /\ attempt.receipts = << >>
      /\ attempt.done < SubCount /\ SubCount \in Nat
  BY SubCountPositive DEF IInv, PayOK, CountOK
<1> DEFINE n == Len(txs) + 1
           d == attempt.done + 1
<1>6. /\ Len(attempt'.subs) = d /\ DOMAIN attempt'.subs = 1 .. d
      /\ DOMAIN attempt.subs = 1 .. attempt.done
      /\ attempt'.subs[d] = n /\ \A k \in DOMAIN attempt.subs : attempt'.subs[k] = attempt.subs[k]
  BY <1>3, <1>5, OneMore, SMT
<1>7. \A k \in DOMAIN attempt'.subs : k \in DOMAIN attempt.subs \/ k = d
  BY <1>3, <1>6, SMT
<1>8. \A k \in DOMAIN attempt.subs : attempt.subs[k] \in DOMAIN txs
  BY DEF IInv, PayOK, SubOK
<1>9. CountOK'
  <2>1. /\ attempt'.at \in {"submit", "persist"} /\ attempt'.done < SubCount
        /\ attempt'.at = "submit" => attempt'.done = d
        /\ attempt'.at = "persist" => SubCount = d
    BY <1>3, <1>5, SMT
  <2> QED BY <1>1, <1>4, <1>5, <1>6, <2>1 DEF CountOK
<1>10. n \notin DOMAIN txs /\ n \in DOMAIN txs'
  BY SMT
<1>11. ASSUME NEW k \in DOMAIN attempt'.subs
       PROVE  SubOK(k)'
  <2>1. k \in Nat /\ k >= 1 /\ ~Past("persist", Persisted, k)'
    BY <1>1, <1>3, <1>6, SMT DEF Past
  <2>2. CASE k = d
    <3>1. txs'[n].hand = attempt.hand /\ txs'[n].seats = PaidSeats(k) /\ n \notin DOMAIN audited
      BY <2>2
    <3>2. attempt'.subs[k] = n
      BY <1>6, <2>2
    <3> HIDE DEF n
    <3> QED BY <1>4, <1>10, <2>1, <3>1, <3>2 DEF SubOK
  <2>3. CASE k # d
    <3>1. k \in DOMAIN attempt.subs /\ attempt'.subs[k] = attempt.subs[k]
      BY <1>6, <1>7, <2>3
    <3>2. SubOK(k)
      BY <3>1 DEF IInv, PayOK
    <3>3. /\ attempt.subs[k] \in DOMAIN txs' /\ txs'[attempt.subs[k]] = txs[attempt.subs[k]]
      BY <1>8, <3>1
    <3> QED BY <1>4, <2>1, <3>1, <3>2, <3>3 DEF SubOK
  <2> QED BY <2>2, <2>3
<1>12. ASSUME NEW j \in DOMAIN attempt'.subs, NEW k \in DOMAIN attempt'.subs,
              attempt'.subs[j] = attempt'.subs[k]
       PROVE  j = k
  <2>1. \A x, y \in DOMAIN attempt.subs : attempt.subs[x] = attempt.subs[y] => x = y
    BY DEF IInv, PayOK
  <2> HIDE DEF n, d
  <2>2. CASE j \in DOMAIN attempt.subs /\ k \in DOMAIN attempt.subs
    BY <1>6, <1>12, <2>1, <2>2
  <2>3. CASE j \in DOMAIN attempt.subs /\ k = d
    BY <1>6, <1>8, <1>10, <1>12, <2>3
  <2>4. CASE j = d /\ k \in DOMAIN attempt.subs
    BY <1>6, <1>8, <1>10, <1>12, <2>4
  <2> QED BY <1>7, <2>2, <2>3, <2>4
<1>13. PayOK'
  BY <1>5, <1>9, <1>11, <1>12, SMT DEF PayOK
<1> QED BY <1>2, <1>13 DEF IInv

\* One transfer for each payout.
LEMMA SubmitDirectIInv ==
    ASSUME IInv, submit_direct_payouts
    PROVE  IInv'
<1> DEFINE s == Item(attempt)
           call == [seats |-> {s}, id |-> 0]
           a == [attempt EXCEPT !.subs = Append(attempt.subs, Len(txs'))]
<1>1. /\ mode = "direct" /\ attempt.at = "submit" /\ Send(call)
      /\ attempt' = Proceed(a) \/ attempt' = Idle
      /\ UNCHANGED <<mode, roomVars, addressed, inputVars, opsVars, storeVars, settledIds, completed>>
  BY DEF submit_direct_payouts, submit_transfer
<1>2. attempt \in Attempt /\ attempt.done \in Nat /\ attempt.subs \in Seq(Nat)
  BY DEF IInv, AttemptOK, Attempt
<1>3. attempt.done < Len(PayoutSeats) /\ SubCount = Len(PayoutSeats) /\ Len(PayoutSeats) \in Nat
  BY <1>1, SomePayouts DEF IInv, PayOK, CountOK, SubCount
<1>4. s = PayoutSeats[attempt.done + 1] /\ s \in Nat
  BY <1>1, <1>2, <1>3, SomePayouts, SMT DEF Item, Items
<1>5. call.seats = {s} /\ call.seats \subseteq Nat /\ call.id \in Nat
  BY <1>4
<1>6. call.seats = PaidSeats(attempt.done + 1)
  BY <1>1, <1>4, <1>5 DEF PaidSeats
<1> HIDE DEF s, call
<1>7. /\ Len(txs) \in Nat /\ DOMAIN txs = 1 .. Len(txs)
      /\ Len(txs') = Len(txs) + 1 /\ DOMAIN txs' = 1 .. Len(txs) + 1
      /\ \A i \in DOMAIN txs : i \in DOMAIN txs' /\ txs'[i] = txs[i]
      /\ txs'[Len(txs) + 1].hand = attempt.hand /\ txs'[Len(txs) + 1].seats = call.seats
      /\ Len(txs) + 1 \notin DOMAIN audited
      /\ TxsOK' /\ RecordOK' /\ CompletedIsPaid'
  BY <1>1, <1>5, Sent
<1>8. CASE attempt' = Idle
  BY <1>1, <1>7, <1>8, LostIInv
<1>9. CASE attempt' = Proceed(a)
  <2>1. /\ a \in Attempt /\ a.at = "submit" /\ a.hand = attempt.hand /\ a.done = attempt.done
        /\ a.receipts = attempt.receipts /\ a.subs = Append(attempt.subs, Len(txs) + 1)
    <3>1. Append(attempt.subs, Len(txs')) \in Seq(Nat)
      BY <1>2, <1>7, SMT
    <3> QED BY <1>1, <1>2, <1>7, <3>1 DEF Attempt
  <2> HIDE DEF a
  <2>2. "persist" \in Step
    BY DEF Step, Booked, Submitted
  <2>3. Advance(a) = [a EXCEPT !.at = "persist", !.done = 0]
    BY <1>1, <2>1, AdvanceOnChain
  <2>4. Items(a) = PayoutSeats
    BY <2>1 DEF Items
  <2>5. /\ attempt' \in Attempt /\ attempt'.hand = attempt.hand
        /\ attempt'.subs = Append(attempt.subs, Len(txs) + 1)
        /\ attempt'.receipts = attempt.receipts
        /\ \/ /\ attempt'.at = "submit" /\ attempt'.done = attempt.done + 1
              /\ attempt.done + 1 < SubCount
           \/ /\ attempt'.at = "persist" /\ attempt'.done = 0 /\ attempt.done + 1 >= SubCount
    BY <1>3, <1>9, <2>1, <2>2, <2>3, <2>4, Proceeds
  <2> QED BY <1>1, <1>6, <1>7, <2>5, SubmittedIInv
<1> QED BY <1>1, <1>8, <1>9

\* One transaction for all of them.
LEMMA SubmitBatchIInv ==
    ASSUME IInv, submit_batch_payouts
    PROVE  IInv'
<1> DEFINE call == [seats |-> Payee, id |-> attempt.hand]
           a == [attempt EXCEPT !.subs = <<Len(txs')>>]
<1>1. /\ mode = "batch" /\ attempt.at = "submit" /\ Send(call)
      /\ attempt' = Advance(a) \/ attempt' = Idle
      /\ UNCHANGED <<mode, roomVars, addressed, inputVars, opsVars, storeVars, settledIds, completed>>
  BY DEF submit_batch_payouts, submit_batch_transfer, encode_batch_settlement_call,
         build_settlement_batch_id
<1>2. attempt \in Attempt /\ attempt.done \in Nat /\ attempt.subs \in Seq(Nat) /\ attempt.hand \in Nat
  BY DEF IInv, AttemptOK, Attempt
<1>3. attempt.done = 0 /\ SubCount = 1 /\ attempt.subs = << >>
  BY <1>1, <1>2, SMT DEF IInv, PayOK, CountOK, SubCount
<1>4. call.seats = Payee /\ call.id = attempt.hand /\ Payee \subseteq Nat
  BY SomePayouts
<1>5. call.seats = PaidSeats(attempt.done + 1)
  BY <1>1, <1>4 DEF PaidSeats
<1> HIDE DEF call
<1>6. /\ Len(txs) \in Nat /\ DOMAIN txs = 1 .. Len(txs)
      /\ Len(txs') = Len(txs) + 1 /\ DOMAIN txs' = 1 .. Len(txs) + 1
      /\ \A i \in DOMAIN txs : i \in DOMAIN txs' /\ txs'[i] = txs[i]
      /\ txs'[Len(txs) + 1].hand = attempt.hand /\ txs'[Len(txs) + 1].seats = call.seats
      /\ Len(txs) + 1 \notin DOMAIN audited
      /\ TxsOK' /\ RecordOK' /\ CompletedIsPaid'
  BY <1>1, <1>2, <1>4, Sent
<1>7. CASE attempt' = Idle
  BY <1>1, <1>6, <1>7, LostIInv
<1>8. CASE attempt' = Advance(a)
  <2>1. /\ a \in Attempt /\ a.at = "submit" /\ a.hand = attempt.hand /\ a.done = attempt.done
        /\ a.receipts = attempt.receipts /\ a.subs = <<Len(txs) + 1>>
    <3>1. <<Len(txs')>> \in Seq(Nat)
      BY <1>6, SMT
    <3>2. <<Len(txs')>> = <<Len(txs) + 1>>
      BY <1>6
    <3> QED BY <1>1, <1>2, <3>1, <3>2 DEF Attempt
  <2>2. <<Len(txs) + 1>> = Append(attempt.subs, Len(txs) + 1)
    BY <1>3, <1>6, SMT
  <2> HIDE DEF a
  <2>3. "persist" \in Step
    BY DEF Step, Booked, Submitted
  <2>4. attempt' = [a EXCEPT !.at = "persist", !.done = 0]
    BY <1>1, <1>8, <2>1, AdvanceOnChain
  <2>5. /\ attempt' \in Attempt /\ attempt'.hand = a.hand /\ attempt'.subs = a.subs
        /\ attempt'.receipts = a.receipts /\ attempt'.at = "persist" /\ attempt'.done = 0
    BY <2>1, <2>3, <2>4 DEF Attempt
  <2>6. attempt.done + 1 >= SubCount
    BY <1>3, SMT
  <2> QED BY <1>1, <1>5, <1>6, <2>1, <2>2, <2>5, <2>6, SubmittedIInv
<1> QED BY <1>1, <1>7, <1>8
-----------------------------------------------------------------------------
(***************************************************************************)
(* The theorems.                                                           *)
(***************************************************************************)
\* Nothing has happened at first.
LEMMA InitIInv == Init => IInv
<1> SUFFICES ASSUME Init PROVE IInv
  OBVIOUS
<1>1. mode \in {"direct", "batch", "offchain", "none"}
  BY ModesAssumption DEF Init
<1>2. RoomOK
  BY BoundAssumption, SMT DEF Init, Room!Init, RoomOK
<1>3. /\ attempt = Idle /\ Idle.at = "idle" /\ Idle.subs = << >> /\ Idle.receipts = << >>
      /\ Idle.done = 0 /\ Idle \in Attempt
  BY SMT DEF Init, Idle, Attempt
<1>4. "idle" \notin Planned \cup Booked \cup Submitted \cup {"submit", "addresses"}
  BY DEF Planned, Booked, Submitted, Persisted, AfterCheck, Updated, Reviewed
<1>5. addressed \subseteq Nat
  BY SomePayouts DEF Init
<1>6. AttemptOK
  BY <1>1, <1>3, <1>4, <1>5 DEF AttemptOK
<1>7. InputOK
  BY <1>3 DEF Init, InputOK, OverrideStands
<1>8. txs = << >> /\ records = << >> /\ audited = << >> /\ completed = {} /\ flagged = {}
  BY DEF Init
<1>9. TxsOK
  BY <1>8, SMT DEF TxsOK, OnlyShowdownsPaid
<1>10. PayOK
  <2>1. CountOK
    BY <1>3, <1>4, SubCountPositive DEF CountOK, Submitted, Persisted
  <2> QED BY <1>3, <2>1, SMT DEF PayOK
<1>11. RecordOK /\ CompletedIsPaid
  BY <1>8, SMT DEF RecordOK, RecordsAreTrue, CompletedIsPaid
<1> QED BY <1>2, <1>6, <1>7, <1>9, <1>10, <1>11 DEF IInv

\* A payment step runs on the chain.
LEMMA PayingOnChain ==
    ASSUME IInv, attempt.at \in Submitted \ {"complete"}
    PROVE  mode \in {"direct", "batch"}
<1>1. attempt.at # "idle"
  BY DEF Submitted, Persisted, AfterCheck, Updated, Reviewed
<1> QED BY <1>1, Attempting DEF IInv, AttemptOK

\* Every step of the loop keeps the invariant.
LEMMA LoopStepIInv ==
    ASSUME IInv, LoopStep
    PROVE  IInv'
<1>1. CASE spawn_auto_settlement_loop
  BY <1>1, TickIInv DEF spawn_auto_settlement_loop
<1>2. CASE spawn_auto_settlement_loop_with_batch
  BY <1>2, TickIInv DEF spawn_auto_settlement_loop_with_batch
<1>3. CASE spawn_auto_settlement_loop_without_wallet
  BY <1>3, TickIInv DEF spawn_auto_settlement_loop_without_wallet
<1>4. CASE ReadCache
  BY <1>4, ReadCacheIInv
<1>5. CASE ReadRow
  BY <1>5, ReadRowIInv
<1>6. CASE Derive
  BY <1>6, DeriveIInv
<1>7. CASE KeepDerived
  BY <1>7, KeepDerivedIInv
<1>8. CASE get_settlement_seat_addresses
  BY <1>8, AddressesIInv
<1>9. CASE insert_settlement_plan
  BY <1>9, PlanIInv
<1>10. CASE record_plan
  BY <1>10, BookIInv
<1>11. CASE NoteOffchain
  BY <1>11, NoteIInv
<1>12. CASE submit_direct_payouts
  BY <1>12, SubmitDirectIInv
<1>13. CASE submit_batch_payouts
  BY <1>13, SubmitBatchIInv
<1>14. CASE PersistSubmission
  <2>1. mode \in {"direct", "batch"}
    BY <1>14, PayingOnChain DEF PersistSubmission, Submitted
  <2> QED BY <1>14, <2>1, PersistIInv
<1>15. CASE check_payout_submissions
  BY <1>15, CheckedIInv DEF check_payout_submissions
<1>16. CASE check_batch_payout_submission
  BY <1>16, CheckedIInv DEF check_batch_payout_submission, get_batch_transfer_receipt
<1>17. CASE UpdateRecord
  <2>1. mode \in {"direct", "batch"}
    BY <1>17, PayingOnChain DEF UpdateRecord, Submitted, Persisted, AfterCheck
  <2> QED BY <1>17, <2>1, UpdateIInv
<1>18. CASE MarkForReview
  <2>1. mode \in {"direct", "batch"}
    BY <1>18, PayingOnChain DEF MarkForReview, Submitted, Persisted, AfterCheck, Updated
  <2> QED BY <1>18, <2>1, ReviewIInv
<1>19. CASE emit_settlement_submission_audits \/ emit_batch_submission_audit
  BY <1>19, AuditSubmissionsIInv DEF emit_settlement_submission_audits, emit_batch_submission_audit
<1>20. CASE emit_settlement_receipt_audits \/ emit_batch_receipt_audit
  BY <1>20, AuditReceiptsIInv DEF emit_settlement_receipt_audits, emit_batch_receipt_audit
<1>21. CASE emit_manual_review_audits
  <2>1. mode \in {"direct", "batch"}
    BY <1>21, PayingOnChain
       DEF emit_manual_review_audits, Submitted, Persisted, AfterCheck, Updated, Reviewed
  <2> QED BY <1>21, <2>1, AuditReviewIInv
<1>22. CASE Complete
  BY <1>22, CompleteIInv
<1>23. CASE Fail
  BY <1>23, FailIInv
<1> QED BY <1>1, <1>2, <1>3, <1>4, <1>5, <1>6, <1>7, <1>8, <1>9, <1>10, <1>11, <1>12, <1>13, <1>14,
           <1>15, <1>16, <1>17, <1>18, <1>19, <1>20, <1>21, <1>22, <1>23 DEF LoopStep

\* So does every step there is.
LEMMA NextIInv ==
    ASSUME IInv, [Next]_vars
    PROVE  IInv'
<1>1. CASE RoomStep
  BY <1>1, RoomStepIInv
<1>2. CASE Restart
  BY <1>2, RestartIInv
<1>3. CASE \E s \in Payee : BindAddress(s)
  BY <1>3, BindAddressIInv
<1>4. CASE LoopStep
  BY <1>4, LoopStepIInv
<1>5. CASE Operator
  BY <1>5, InjectInputIInv, StoreInputIInv, ManualReviewIInv DEF Operator
<1>6. CASE \E i \in DOMAIN txs : Mine(i)
  BY <1>6, MineIInv
<1>7. CASE UNCHANGED vars
  <2> USE DEF vars, roomVars, inputVars, opsVars, storeVars, chainVars
  <2>1. RoomOK' /\ InputOK'
    BY <1>7 DEF IInv, RoomOK, InputOK, OverrideStands
  <2> QED BY <1>7, <2>1, AsideIInv DEF IInv, AttemptOK
<1> QED BY <1>1, <1>2, <1>3, <1>4, <1>5, <1>6, <1>7 DEF Next

\* The invariant holds in every state of the loop, whatever fails, gets lost or
\* restarts (spawn_auto_settlement_loop).
THEOREM Invariance == Spec => []IInv
BY InitIInv, NextIInv, PTL DEF Spec

\* A hand is closed by the settlement only when its plan is stored and booked and,
\* with a wallet, every seat of it was paid on the chain and has a record of that
\* (the all_confirmed of try_auto_settle_showdown_room before complete_settlement).
THEOREM ClosedHandsArePaid == Spec => []CompletedIsPaid
<1>1. IInv => CompletedIsPaid
  BY DEF IInv
<1> QED BY <1>1, Invariance, PTL

\* Chips leave the room's address only for hands that came to a showdown and whose
\* plan the store and the ledger have (record_plan before submit_direct_payouts).
THEOREM PaymentsAreOfShowdowns == Spec => []OnlyShowdownsPaid
<1>1. IInv => OnlyShowdownsPaid
  BY DEF IInv, TxsOK
<1> QED BY <1>1, Invariance, PTL

\* Neither a record nor an audit event claims what the chain does not say
\* (check_payout_submissions, mark_failed_receipts_for_manual_review).
THEOREM RecordsSayWhatHappened == Spec => []RecordsAreTrue
<1>1. IInv => RecordsAreTrue
  BY DEF IInv, RecordOK
<1> QED BY <1>1, Invariance, PTL

\* An input an operator injects is not replaced by what the engine dealt, unless an
\* attempt had already missed it in the cache (get_showdown_input).
THEOREM InjectedInputsStand == Spec => []OverrideStands
<1>1. IInv => OverrideStands
  BY DEF IInv, InputOK
<1> QED BY <1>1, Invariance, PTL

\* In batch mode the chain pays a seat at most once for a hand, however many attempts
\* submit it again (build_settlement_batch_id).
THEOREM BatchesPayOnce == Spec => []BatchPaysOnce
<1>1. IInv => BatchPaysOnce
  BY DEF IInv, TxsOK, BatchPaysOnce, PaidBy
<1> QED BY <1>1, Invariance, PTL
=============================================================================
