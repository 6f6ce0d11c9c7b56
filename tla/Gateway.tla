------------------------------ MODULE Gateway ------------------------------
(***************************************************************************)
(* The RPC server in front of one room: the methods that                   *)
(* build_rpc_module_with_subscriptions_and_limits_and_audit registers      *)
(* (rpc-gateway/src/lib.rs), the room service they call                    *)
(* (app-server/src/room_service_port.rs) and the queue into the room's     *)
(* actor (table-service/src/lib.rs).                                       *)
(*                                                                         *)
(* A request is a record of Msg; any request may arrive any number of      *)
(* times, on any connection.  An admitted request is a call: it holds a    *)
(* permit of its connection and has checks and effects still to do, one    *)
(* step each, in the order of its handler.  Every other call may run       *)
(* between two of them.                                                    *)
(*                                                                         *)
(* The rate limiter's clock, in ticks, is also the wall clock that the     *)
(* request window is compared with.                                        *)
(***************************************************************************)
EXTENDS Integers, FiniteSets, Sequences, FiniteSetsExt

CONSTANTS
    Conn,           \* connections
    Seat,
    Msg,            \* the requests clients send
    MaxCalls,       \* bound: calls in flight
    MaxConcurrent,  \* RpcGatewayLimits.max_concurrent_per_connection
    MaxPerWindow,   \* RpcGatewayLimits.max_requests_per_second_per_connection
    Window,         \* one second
    Skew,           \* 5000 ms
    QueueCapacity,  \* of the room actor's channel
    MaxTime         \* bound on the clock

VARIABLES
    now,
    rate,           \* ConnectionRateLimiter: [Conn -> [start, count]]
    active,         \* ConnectionConcurrencyLimiter: permits out, per connection
    calls,          \* calls in flight: id -> [conn, msg, todo]
    nonces,         \* InMemoryReplayNonceStore
    room,           \* AppRoomService.rooms has the room, and so a chain account
    row,            \* its row in the database: none, or naming this account or a lost one
    joined,         \* AppRoomService.joined_seats
    bound,          \* AppRoomService.bound_addresses: seat -> address
    queue,          \* commands on their way to the room actor
    seated,         \* the actor's seats
    created,        \* history: a room.create was answered
    counted,        \* history: when the limiter let a request by, per connection
    reached,        \* history: nonces of the requests handed to the service
    repeated,       \* history: a request was handed over twice
    ignored         \* history: the actor dropped a command of an unknown seat

limits == <<rate, active, counted>>
service == <<room, row, created, joined, bound>>
actor == <<queue, seated, ignored>>
history == <<reached, repeated>>
vars == <<now, limits, calls, nonces, service, actor, history>>

Ids == 1 .. MaxCalls
Without(f, x) == [y \in DOMAIN f \ {x} |-> f[y]]

ASSUME LimitsAssumption ==
    /\ MaxCalls \in Nat /\ MaxConcurrent \in Nat \ {0} /\ MaxPerWindow \in Nat \ {0}
    /\ Window \in Nat \ {0} /\ MaxTime \in Nat /\ QueueCapacity \in Nat \ {0}

\* main.rs: a server starts with no room, no seat, no nonce and full limits.
Init ==
    /\ now = 0
    /\ rate = << >> /\ active = [c \in Conn |-> 0] /\ calls = << >>
    /\ nonces = {}
    /\ room = FALSE /\ row = "none" /\ created = FALSE /\ joined = {} /\ bound = << >>
    /\ queue = << >> /\ seated = {} /\ ignored = FALSE
    /\ counted = [c \in Conn |-> << >>]
    /\ reached = {} /\ repeated = FALSE
-----------------------------------------------------------------------------
(***************************************************************************)
(* What each method's handler goes through, after the permit.  A read      *)
(* asks the actor and waits for its reply.                                 *)
(***************************************************************************)
BusMethods == {"subscribe.events", "unsubscribe.events"}
ReadMethods == {"game.get_state", "game.get_legal_actions", "game.get_private_payloads"}

handle_room_create == <<"room", "record">>
handle_room_list == <<"room">>
handle_subscribe_events == <<"room">>
handle_get_state == <<"room", "send", "reply">>
handle_room_joinMarksFirst == <<"meta", "room", "joined", "send">>

handle_room_join == <<"meta", "room", "send", "joined">>
handle_room_ready == <<"meta", "signature", "room", "send">>
handle_bind_address == <<"meta", "signature", "room", "send">>
handle_bind_session_keys == <<"meta", "proof", "signature", "room", "send">>
handle_game_act == <<"funding", "meta", "signature", "room", "send", "reply">>

Handler(m) ==
    CASE m.method = "room.create" -> handle_room_create
      [] m.method = "room.list" -> handle_room_list
      [] m.method \in BusMethods -> handle_subscribe_events
      [] m.method \in ReadMethods -> handle_get_state
      [] m.method = "room.join" -> handle_room_join
      [] m.method = "room.ready" -> handle_room_ready
      [] m.method = "room.bind_address" -> handle_bind_address
      [] m.method = "room.bind_session_keys" -> handle_bind_session_keys
      [] m.method = "game.act" -> handle_game_act

Signed(m) == m.method \notin ReadMethods \cup BusMethods \cup {"room.create", "room.list"}

\* The server dispatches only the methods that were registered.
Methods == ReadMethods \cup BusMethods \cup
    {"room.create", "room.list", "room.join", "room.ready", "room.bind_address",
     "room.bind_session_keys", "game.act"}

ASSUME MsgAssumption == \A m \in Msg : m.method \in Methods
-----------------------------------------------------------------------------
(***************************************************************************)
(* Limits.                                                                 *)
(***************************************************************************)
CurrentWindow(c) == c \in DOMAIN rate /\ now - rate[c].start < Window

RateEntryKeepsStart(c) ==
    IF CurrentWindow(c) THEN rate[c]
    ELSE [start |-> IF c \in DOMAIN rate THEN rate[c].start ELSE now, count |-> 0]

\* The first request, and the first after a window is over, starts a window.
RateEntry(c) == IF CurrentWindow(c) THEN rate[c] ELSE [start |-> now, count |-> 0]

\* check_and_record: a refusal leaves the entry as it was.
RateAllows(c) == RateEntry(c).count < MaxPerWindow

RecordRequest(c) ==
    /\ rate' = [d \in DOMAIN rate \cup {c} |->
                   IF d = c THEN [RateEntry(c) EXCEPT !.count = @ + 1] ELSE rate[d]]
    /\ counted' = [counted EXCEPT ![c] = Append(@, now)]

PermitFree(c) == active[c] < MaxConcurrent

\* try_acquire_ctx_connection_permit, then the handler's first step.
Admit(c, m, i) ==
    /\ i = Min(Ids \ DOMAIN calls)
    /\ RateAllows(c) /\ RecordRequest(c)
    /\ PermitFree(c)
    /\ active' = [active EXCEPT ![c] = @ + 1]
    /\ calls' = [j \in DOMAIN calls \cup {i} |->
                    IF j = i THEN [conn |-> c, msg |-> m, todo |-> Handler(m)] ELSE calls[j]]
    /\ UNCHANGED <<now, nonces, service, actor, history>>

\* The rate limiter is asked first: a request that finds no permit has
\* already spent its place in the window.
PermitRefused(c) ==
    /\ RateAllows(c) /\ RecordRequest(c)
    /\ ~PermitFree(c)
    /\ UNCHANGED <<now, active, calls, nonces, service, actor, history>>

\* Drop of ConnectionConcurrencyPermit, whichever way the call ends.
ReleasePermit(c) == active' = [active EXCEPT ![c] = IF @ > 0 THEN @ - 1 ELSE 0]

EndCall(i) ==
    /\ calls' = Without(calls, i)
    /\ ReleasePermit(calls[i].conn)
    /\ UNCHANGED <<rate, counted>>

\* The call goes on to its next step, and ends after the last one.
GoOn(i) ==
    IF Len(calls[i].todo) > 1
    THEN calls' = [calls EXCEPT ![i].todo = Tail(@)] /\ UNCHANGED limits
    ELSE EndCall(i)

At(i, step) == calls[i].todo # << >> /\ Head(calls[i].todo) = step
-----------------------------------------------------------------------------
(***************************************************************************)
(* Checks.                                                                 *)
(***************************************************************************)
Monetary == {"call", "raise_to", "all_in"}
parse_action_type == Monetary \cup {"fold", "check"}

\* validate_game_act_funding_fields
FundingFieldsOk(m) ==
    /\ m.action \in parse_action_type
    /\ m.amount = (m.action \in Monetary)
    /\ m.tx = (m.action \in Monetary)

\* validate_request_window
InWindow(m) == m.ts - now <= Skew /\ now - m.ts <= m.expiry

\* consume_once: the store takes a nonce it does not have.
consume_once(n) == n \notin nonces /\ nonces' = nonces \cup {n}

\* verify_evm_personal_signature: the address recovered from the signature.
Recovers(signer, addr) == signer = addr

\* AppRpcRequestSignatureVerifier: a binding is checked against the address it
\* names, any other request against the address bound to its seat, if any.
verify_bind_address(m) == Recovers(m.signer, m.addr)
verify_bind_session_keys(m) == Recovers(m.signer, m.addr)
verify_room_ready(m) == m.seat \in DOMAIN bound /\ Recovers(m.signer, bound[m.seat])
verify_game_act(m) == m.seat \in DOMAIN bound /\ Recovers(m.signer, bound[m.seat])

SignatureOk(m) ==
    CASE m.method = "room.bind_address" -> verify_bind_address(m)
      [] m.method = "room.bind_session_keys" -> verify_bind_session_keys(m)
      [] m.method = "room.ready" -> verify_room_ready(m)
      [] m.method = "game.act" -> verify_game_act(m)

CheckFunding(i) ==
    /\ At(i, "funding")
    /\ IF FundingFieldsOk(calls[i].msg) THEN GoOn(i) ELSE EndCall(i)
    /\ UNCHANGED <<now, nonces, service, actor, history>>

CheckMetaStoresOnReach(i) ==
    /\ At(i, "meta")
    /\ IF InWindow(calls[i].msg) /\ calls[i].msg.nonce \notin nonces \cup reached
       THEN GoOn(i) ELSE EndCall(i)
    /\ UNCHANGED <<now, nonces, service, actor, history>>

\* validate_request_meta_with_audit: consume_once is one critical section,
\* and it comes before every later check.
CheckMeta(i) ==
    /\ At(i, "meta")
    /\ \/ InWindow(calls[i].msg) /\ consume_once(calls[i].msg.nonce) /\ GoOn(i)
       \/ /\ ~InWindow(calls[i].msg) \/ calls[i].msg.nonce \in nonces
          /\ EndCall(i) /\ UNCHANGED nonces
    /\ UNCHANGED <<now, service, actor, history>>

\* validate_bind_session_keys_proof
CheckProof(i) ==
    /\ At(i, "proof")
    /\ IF Recovers(calls[i].msg.prover, calls[i].msg.addr) THEN GoOn(i) ELSE EndCall(i)
    /\ UNCHANGED <<now, nonces, service, actor, history>>

CheckSignature(i) ==
    /\ At(i, "signature")
    /\ IF SignatureOk(calls[i].msg) THEN GoOn(i) ELSE EndCall(i)
    /\ UNCHANGED <<now, nonces, service, actor, history>>
-----------------------------------------------------------------------------
(***************************************************************************)
(* The room service.                                                       *)
(***************************************************************************)
HandedOver(i) ==
    IF Signed(calls[i].msg)
    THEN /\ reached' = reached \cup {calls[i].msg.nonce}
         /\ repeated' = (repeated \/ calls[i].msg.nonce \in reached)
    ELSE UNCHANGED history

InService(i, method) == At(i, "room") /\ calls[i].msg.method = method

ensure_room == room' = TRUE

\* A room keeps the account it was spawned with; a new one is not the row's.
ensure_room_chain_account == row' = IF room \/ row = "none" THEN row ELSE "stale"

get_room == room
ensure_joined(s) == s \in joined

CreateRoom(i) ==
    /\ InService(i, "room.create")
    /\ ensure_room /\ ensure_room_chain_account
    /\ GoOn(i)
    /\ UNCHANGED <<now, nonces, created, joined, bound, actor, history>>

\* upsert_room_record: the row comes to name the room's account, or the database
\* fails and the answer is an error; the room stays either way.
UpsertRoomRecord(i) ==
    /\ At(i, "record")
    /\ \/ row' = "current" /\ created' = TRUE /\ GoOn(i)
       \/ EndCall(i) /\ UNCHANGED <<row, created>>
    /\ UNCHANGED <<now, nonces, room, joined, bound, actor, history>>

\* Reads the map of rooms, or goes to the event bus (EventDelivery).
ListRooms(i) ==
    /\ \E method \in {"room.list"} \cup BusMethods : InService(i, method)
    /\ GoOn(i)
    /\ UNCHANGED <<now, nonces, service, actor, history>>

ReadRoom(i) ==
    /\ \E method \in ReadMethods : InService(i, method)
    /\ IF get_room THEN GoOn(i) ELSE EndCall(i)
    /\ UNCHANGED <<now, nonces, service, actor, history>>

Join(i) ==
    /\ InService(i, "room.join")
    /\ HandedOver(i)
    /\ IF get_room THEN GoOn(i) ELSE EndCall(i)
    /\ UNCHANGED <<now, nonces, service, actor>>

Ready(i) ==
    /\ InService(i, "room.ready")
    /\ HandedOver(i)
    /\ IF ensure_joined(calls[i].msg.seat) /\ get_room THEN GoOn(i) ELSE EndCall(i)
    /\ UNCHANGED <<now, nonces, service, actor>>

BindSessionKeys(i) ==
    /\ InService(i, "room.bind_session_keys")
    /\ HandedOver(i)
    /\ IF ensure_joined(calls[i].msg.seat) /\ get_room THEN GoOn(i) ELSE EndCall(i)
    /\ UNCHANGED <<now, nonces, service, actor>>

\* The service's own map comes first, the actor afterwards.
BindAddress(i) ==
    /\ InService(i, "room.bind_address")
    /\ HandedOver(i)
    /\ LET m == calls[i].msg IN
       IF ensure_joined(m.seat) /\ get_room
       THEN /\ GoOn(i)
            /\ bound' = [s \in DOMAIN bound \cup {m.seat} |->
                             IF s = m.seat THEN m.addr ELSE bound[s]]
       ELSE EndCall(i) /\ UNCHANGED bound
    /\ UNCHANGED <<now, nonces, room, row, created, joined, actor>>

\* The seat need not have joined.  RoomActor has the binding of a transaction.
Act(i) ==
    /\ InService(i, "game.act")
    /\ HandedOver(i)
    /\ IF get_room THEN GoOn(i) ELSE EndCall(i)
    /\ UNCHANGED <<now, nonces, service, actor>>

\* The command waits for room in the bounded queue.  Only a read and an
\* action wait for the actor's answer; the other calls end here.
Send(i) ==
    /\ At(i, "send")
    /\ Len(queue) < QueueCapacity
    /\ queue' = Append(queue, [method |-> calls[i].msg.method, seat |-> calls[i].msg.seat,
                               from |-> IF calls[i].todo = <<"send", "reply">> THEN i ELSE 0])
    /\ GoOn(i)
    /\ UNCHANGED <<now, nonces, service, seated, ignored, history>>

\* join: the seat counts as joined once its command is in the queue.
Joined(i) ==
    /\ At(i, "joined")
    /\ joined' = joined \cup {calls[i].msg.seat}
    /\ GoOn(i)
    /\ UNCHANGED <<now, nonces, room, row, created, bound, actor, history>>

CancelKeepsPermit(i) ==
    /\ At(i, "record") \/ At(i, "send") \/ At(i, "reply")
    /\ queue' = [k \in DOMAIN queue |->
                    IF queue[k].from = i THEN [queue[k] EXCEPT !.from = 0] ELSE queue[k]]
    /\ calls' = Without(calls, i)
    /\ UNCHANGED <<now, limits, nonces, service, seated, ignored, history>>

\* The request is dropped while it waits, with what it has done so far: the row
\* may be written yet, and a command in the queue stays there.
Cancel(i) ==
    /\ At(i, "record") \/ At(i, "send") \/ At(i, "reply")
    /\ queue' = [k \in DOMAIN queue |->
                    IF queue[k].from = i THEN [queue[k] EXCEPT !.from = 0] ELSE queue[k]]
    /\ EndCall(i)
    /\ row' \in {row} \cup (IF At(i, "record") THEN {"current"} ELSE {})
    /\ UNCHANGED <<now, nonces, room, created, joined, bound, seated, ignored, history>>
-----------------------------------------------------------------------------
(***************************************************************************)
(* The room actor takes the next command.  Binding and readiness of a seat *)
(* that is not seated are passed over without an answer.  RoomActor has    *)
(* what the commands do.                                                   *)
(***************************************************************************)
NeedsSeat(cmd) == cmd.method \in {"room.ready", "room.bind_address", "room.bind_session_keys"}

ActorTakes ==
    /\ queue # << >>
    /\ LET cmd == Head(queue) IN
       /\ queue' = Tail(queue)
       /\ seated' = IF cmd.method = "room.join" THEN seated \cup {cmd.seat} ELSE seated
       /\ ignored' = (ignored \/ (NeedsSeat(cmd) /\ cmd.seat \notin seated))
       /\ IF cmd.from # 0 THEN EndCall(cmd.from) ELSE UNCHANGED <<limits, calls>>
    /\ UNCHANGED <<now, nonces, service, history>>

Tick ==
    /\ now < MaxTime
    /\ now' = now + 1
    /\ UNCHANGED <<limits, calls, nonces, service, actor, history>>

\* The process ends and starts again.  Of the above only the room's row persists;
\* the key of the account it names does not.
Restart ==
    /\ rate' = << >> /\ active' = [c \in Conn |-> 0] /\ calls' = << >>
    /\ nonces' = {}
    /\ room' = FALSE /\ joined' = {} /\ bound' = << >>
    /\ created' = FALSE
    /\ queue' = << >> /\ seated' = {}
    /\ counted' = [c \in Conn |-> << >>]
    /\ reached' = {}
    /\ UNCHANGED <<now, row, ignored, repeated>>

CallStep(i) ==
    \/ CheckFunding(i) \/ CheckMeta(i) \/ CheckProof(i) \/ CheckSignature(i)
    \/ CreateRoom(i) \/ UpsertRoomRecord(i) \/ ListRooms(i) \/ ReadRoom(i) \/ Join(i) \/ Ready(i)
    \/ BindAddress(i) \/ BindSessionKeys(i) \/ Act(i)
    \/ Send(i) \/ Joined(i)

Serve ==
    \/ \E c \in Conn, m \in Msg, i \in Ids \ DOMAIN calls : Admit(c, m, i)
    \/ \E c \in Conn : PermitRefused(c)
    \/ \E i \in DOMAIN calls : CallStep(i) \/ Cancel(i)
    \/ ActorTakes

Next == Serve \/ Tick \/ Restart

Spec == Init /\ [][Next]_vars
-----------------------------------------------------------------------------
CallsOn(c) == {i \in DOMAIN calls : calls[i].conn = c}

\* The permits out on a connection are the calls in flight on it, whichever way
\* earlier calls ended (refused by a check, answered, cancelled), and they never
\* exceed the limit: try_acquire and the permit's Drop balance.
PermitsAreCalls ==
    \A c \in Conn : active[c] = Cardinality(CallsOn(c)) /\ active[c] <= MaxConcurrent

\* No interleaving of duplicates of a signed request gets two of them past the
\* checks of validate_request_meta_with_audit and on to the room service, as long
\* as the server keeps running.
ReachesRoomOnce == ~repeated

\* What the service accepts (ensure_joined) the actor does not silently pass over:
\* a bind or a ready never overtakes the join of its seat.
NoCommandIgnored == ~ignored

\* Once a room.create was answered, the row names the account whose key this
\* process holds, though creations repeat, overlap and fail, and though an earlier
\* process left a row with an account of its own.
RoomRowIsCurrent == created => row = "current"

\* The fixed windows of check_and_record let less than twice the limit through in any
\* stretch of that length, wherever it starts: the request that starts a window is not
\* in the same stretch as one of the next.
RateIsBounded ==
    \A c \in Conn :
        Cardinality({i \in DOMAIN counted[c] : now - counted[c][i] < Window}) < 2 * MaxPerWindow
=============================================================================
