------------------------------ MODULE ChainWatch ------------------------------
(***************************************************************************)
(* The chain-watcher crate and the app-server's callback sink: verifying   *)
(* one transaction of a room on the chain and passing the verdict on.      *)
(*                                                                         *)
(* A verification reads the node in three calls, between which the chain   *)
(* goes on; it classifies what it read, and then stores the verdict, adds  *)
(* it to the audit, opens an exception credit where one is due and tells   *)
(* the room, each of which can fail and end it.  Several verifications of  *)
(* the same transaction may run at once.                                   *)
(***************************************************************************)
EXTENDS Naturals

CONSTANTS
    Task,               \* verifications that may run at the same time
    Clients,            \* the clients in use: see null_result
    MaxAttempts,        \* RetryPolicy.max_attempts
    MinConfirmations,   \* TxVerificationInput.min_confirmations
    MaxBlock,           \* bound: height of the chain
    MaxRpcFaults        \* bound: calls that fail

ASSUME WatchAssumption ==
    /\ Clients \subseteq {"json_rpc", "scripted"} /\ Clients # {}
    /\ MaxAttempts \in Nat \ {0}
    /\ MinConfirmations \in Nat \ {0}

VARIABLES
    client,     \* the client the watcher was built with
    height,     \* external: the number of the latest block
    tx,         \* external: the transaction on the chain
    task,       \* the verifications
    stored,     \* tx_verifications: the row of the transaction
    credit,     \* exception_credits: the row of the transaction
    rpcFaults

chainVars == <<height, tx>>
watchVars == <<client, chainVars, task, stored, credit, rpcFaults>>

Status == {"pending", "matched", "late", "unmatched", "failed"}

\* What a verification was asked: where the transaction is not the one expected (its
\* hash, or one of to, from and value), and whether the hand and action are known.
Input == [differs : {"none", "hash", "fields"}, bound : BOOLEAN]

Absent == [found |-> FALSE, block |-> 0, ok |-> TRUE]
Idle == [at |-> "idle", input |-> [differs |-> "none", bound |-> FALSE], attempt |-> 0,
         block |-> 0, ok |-> TRUE, status |-> "pending"]

WatchInit ==
    /\ client \in Clients
    /\ height = 1
    /\ tx = Absent
    /\ task = [w \in Task |-> Idle]
    /\ stored = "none" /\ credit = "none"
    /\ rpcFaults = 0
-----------------------------------------------------------------------------
(***************************************************************************)
(* The chain: the transaction is sent, mined in the next block with some   *)
(* outcome, and blocks are added.                                          *)
(***************************************************************************)
SendTx ==
    /\ ~tx.found
    /\ tx' = [tx EXCEPT !.found = TRUE]
    /\ UNCHANGED <<client, height, task, stored, credit, rpcFaults>>

AddBlock ==
    /\ height < MaxBlock
    /\ height' = height + 1
    /\ \/ tx.found /\ tx.block = 0
          /\ \E ok \in BOOLEAN : tx' = [tx EXCEPT !.block = height', !.ok = ok]
       \/ UNCHANGED tx
    /\ UNCHANGED <<client, task, stored, credit, rpcFaults>>
-----------------------------------------------------------------------------
(***************************************************************************)
(* query_tx_with_retry over get_tx.                                        *)
(***************************************************************************)
Verify(w, i) ==
    /\ task[w] = Idle
    /\ task' = [task EXCEPT ![w] = [Idle EXCEPT !.at = "tx", !.input = i]]
    /\ UNCHANGED <<client, chainVars, stored, credit, rpcFaults>>

Ends(w) == task' = [task EXCEPT ![w] = Idle]

SinkIdle == UNCHANGED <<client, chainVars, stored, credit, rpcFaults>>

\* rpc_call takes a null result for a malformed answer, so the JSON-RPC client
\* reports an error for what the node does not have; a client that passes None on
\* is the one the retries are written for.
null_result(w, goOn) ==
    \/ client = "json_rpc" /\ Ends(w)
    \/ client = "scripted" /\ goOn

\* TxVerificationResult: the verdict, and what it is about.
Reports(input, status) == [Idle EXCEPT !.at = "store", !.input = input, !.status = status]

NotFound(w) ==
    LET t == task[w]
    IN  task' = [task EXCEPT ![w] =
                    IF t.attempt + 1 < MaxAttempts THEN [t EXCEPT !.attempt = @ + 1]
                    ELSE Reports(t.input, "pending")]

eth_getTransactionByHash(w) ==
    /\ task[w].at = "tx"
    /\ IF tx.found
       THEN task' = [task EXCEPT ![w] = [@ EXCEPT !.at = "receipt", !.block = tx.block]]
       ELSE null_result(w, NotFound(w))
    /\ SinkIdle

\* Without a receipt the transaction counts as successful.
eth_getTransactionReceipt(w) ==
    /\ task[w].at = "receipt"
    /\ IF tx.block # 0
       THEN task' = [task EXCEPT ![w] = [@ EXCEPT !.at = "block", !.ok = tx.ok]]
       ELSE null_result(w, task' = [task EXCEPT ![w] = [@ EXCEPT !.at = "block"]])
    /\ SinkIdle

Confirmations(block) ==
    IF block = 0 \/ height < block THEN 0 ELSE height - block + 1
-----------------------------------------------------------------------------
(***************************************************************************)
(* classify_tx_verification, in its order.                                 *)
(***************************************************************************)
check_tx_status_and_identity(t) == t.input.differs = "hash" \/ ~t.ok

evaluate_confirmations(block) == Confirmations(block) >= MinConfirmations

check_tx_fields(t) == t.input.differs = "fields"

classifyFieldsFirst(t) ==
    IF check_tx_status_and_identity(t) THEN "failed"
    ELSE IF check_tx_fields(t) THEN "unmatched"
    ELSE IF ~evaluate_confirmations(t.block) THEN "pending"
    ELSE IF t.input.bound THEN "matched" ELSE "late"

classify_tx_verification(t) ==
    IF check_tx_status_and_identity(t) THEN "failed"
    ELSE IF ~evaluate_confirmations(t.block) THEN "pending"
    ELSE IF check_tx_fields(t) THEN "unmatched"
    ELSE IF t.input.bound THEN "matched" ELSE "late"

eth_blockNumber(w) ==
    /\ task[w].at = "block"
    /\ task' = [task EXCEPT ![w] = Reports(@.input, classify_tx_verification(@))]
    /\ SinkIdle
-----------------------------------------------------------------------------
(***************************************************************************)
(* on_verification_result.  Alerts are only logged when they fail.         *)
(***************************************************************************)
Goto(w, at) == task' = [task EXCEPT ![w].at = at]
Credited(s) == s \in {"late", "unmatched"}

upsert_tx_verification(w) ==
    /\ task[w].at = "store"
    /\ stored' = task[w].status
    /\ Goto(w, "audit")
    /\ UNCHANGED <<client, chainVars, credit, rpcFaults>>

insert_behavior_event(w) ==
    /\ task[w].at = "audit"
    /\ Goto(w, IF Credited(task[w].status) THEN "credit" ELSE "tell")
    /\ UNCHANGED <<client, chainVars, stored, credit, rpcFaults>>

upsert_exception_credit(w) ==
    /\ task[w].at = "credit"
    /\ credit' = task[w].status
    /\ Goto(w, "tell")
    /\ UNCHANGED <<client, chainVars, stored, rpcFaults>>

chain_tx_verified(w) ==
    /\ task[w].at = "tell"
    /\ Ends(w)
    /\ UNCHANGED <<client, chainVars, stored, credit, rpcFaults>>

\* Any of the calls may fail; the error ends the verification.
CallFails(w) ==
    /\ task[w] # Idle /\ rpcFaults < MaxRpcFaults
    /\ rpcFaults' = rpcFaults + 1
    /\ Ends(w)
    /\ UNCHANGED <<client, chainVars, stored, credit>>
-----------------------------------------------------------------------------
WatchNext ==
    \/ SendTx
    \/ AddBlock
    \/ \E w \in Task :
          \/ \E i \in Input : Verify(w, i)
          \/ eth_getTransactionByHash(w)
          \/ eth_getTransactionReceipt(w)
          \/ eth_blockNumber(w)
          \/ upsert_tx_verification(w)
          \/ insert_behavior_event(w)
          \/ upsert_exception_credit(w)
          \/ chain_tx_verified(w)
          \/ CallFails(w)

WatchSpec == WatchInit /\ [][WatchNext]_watchVars
-----------------------------------------------------------------------------
(***************************************************************************)
(* Properties.                                                             *)
(***************************************************************************)
Confirmed == tx.ok /\ Confirmations(tx.block) >= MinConfirmations

Truthful(t) ==
    /\ t.status \in {"matched", "late", "unmatched"} => Confirmed
    /\ t.status \in {"matched", "late"} =>
           t.input.differs = "none" /\ t.input.bound = (t.status = "matched")
    /\ t.status = "unmatched" => t.input.differs = "fields"
    /\ t.status = "failed" => (tx.block # 0 /\ ~tx.ok) \/ t.input.differs = "hash"

\* What a verification reports is so on the chain, though it was put together from
\* three answers of a node that went on in between (get_tx): an action is only paid
\* for, and a credit only opened, by a transaction that succeeded and has its
\* confirmations, and only one that failed, or is not the one asked for, is failed.
VerdictIsTrue ==
    \A w \in Task :
        task[w].at \in {"store", "audit", "credit", "tell"} => Truthful(task[w])

\* The room hears a verdict only once the transaction is on record and, when chips
\* came that no action claims, with a credit, whichever calls failed
\* (on_verification_result).
ToldIsRecorded ==
    \A w \in Task :
        task[w].at = "tell" =>
            stored # "none" /\ (Credited(task[w].status) => credit # "none")

===============================================================================
