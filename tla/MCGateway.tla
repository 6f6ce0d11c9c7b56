----------------------------- MODULE MCGateway -----------------------------
(***************************************************************************)
(* Requests of one seat from its first join to a fold, and a call without  *)
(* its amount.  Every one may be repeated; the client stamps them in the   *)
(* order in which it makes them.                                           *)
(***************************************************************************)
EXTENDS Gateway

Request(n, method, action, ts) ==
    [nonce |-> n, method |-> method, seat |-> 1, addr |-> "a", signer |-> "a", prover |-> "a",
     ts |-> ts, expiry |-> 1, action |-> action, amount |-> FALSE, tx |-> FALSE]

MCMsg ==
    {Request(1, "room.create", "", 0), Request(2, "room.join", "", 0),
     Request(3, "room.bind_address", "", 0), Request(4, "room.bind_session_keys", "", 0),
     Request(5, "room.ready", "", 2), Request(6, "game.get_state", "", 1),
     Request(0, "subscribe.events", "", 1),
     Request(7, "game.act", "fold", 3), Request(8, "game.act", "call", 3)}
=============================================================================
