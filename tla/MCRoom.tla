------------------------------- MODULE MCRoom -------------------------------
(***************************************************************************)
(* Rooms in which some seats have joined and bound their address and keys: *)
(* the state after Join, BindAddress and BindSessionKeys of each.          *)
(***************************************************************************)
EXTENDS RoomActor

InitWith(S) ==
    /\ eng = [NewEngineState EXCEPT !.seated = S]
    /\ seated = S /\ ready = {} /\ bound = S /\ keyed = S
    /\ pending = << >> /\ callbacks = << >> /\ bindings = << >> /\ submitted = {}
    /\ chain = [t \in Tx |-> "unknown"]
    /\ timer = NoTimer
    /\ announced = NoSeat
    /\ closed = [h \in 1 .. MaxHands |-> 0]
    /\ funded = [t \in Tx |-> 0]
    /\ turnAge = 0

\* Every seat is there and stays.
PlaySpec == InitWith(Seat) /\ [][Play]_vars

FairPlaySpec == PlaySpec /\ Fairness

\* Seat 0 is there; the others come and go.
ComeAndGo(s) == Join(s) \/ Leave(s) \/ BindAddress(s) \/ BindSessionKeys(s)
GuestNext == Play \/ \E s \in Seat \ {0} : ComeAndGo(s)

GuestSpec == InitWith({0}) /\ [][GuestNext]_vars
=============================================================================
