---------------------------- MODULE GatewayProofs ----------------------------
(***************************************************************************)
(* PermitsAreCalls, ReachesRoomOnce, NoCommandIgnored, RoomRowIsCurrent    *)
(* and RateIsBounded for any number of connections, seats, requests and    *)
(* calls in flight.                                                        *)
(***************************************************************************)
EXTENDS Gateway, FiniteSetTheorems, TLAPS

Step == {"funding", "meta", "proof", "signature", "room", "record", "send", "joined", "reply"}
Call == [conn : Conn, msg : Msg, todo : Seq(Step)]
Cmd == [method : {m.method : m \in Msg}, seat : {m.seat : m \in Msg}, from : Ids \cup {0}]

CallsOK ==
    /\ DOMAIN calls \subseteq Ids
    /\ \A i \in DOMAIN calls : calls[i] \in Call

\* A command that somebody waits for is the only one its call has in the queue, and
\* the call has nothing else to do but to wait.
WaitersOK ==
    /\ queue \in Seq(Cmd)
    /\ \A k \in DOMAIN queue : queue[k].from # 0 =>
           /\ queue[k].from \in DOMAIN calls
           /\ calls[queue[k].from].todo = <<"reply">>
           /\ \A l \in DOMAIN queue : queue[l].from = queue[k].from => l = k

PermitsOK ==
    /\ active \in [Conn -> Nat]
    /\ PermitsAreCalls

PInv == CallsOK /\ WaitersOK /\ PermitsOK
-----------------------------------------------------------------------------
(***************************************************************************)
(* The steps a call takes.                                                 *)
(***************************************************************************)
LEMMA HandlerSteps == \A m \in Msg : Handler(m) \in Seq(Step)
  <1>1. /\ handle_room_create \in Seq(Step) /\ handle_room_list \in Seq(Step)
        /\ handle_subscribe_events \in Seq(Step) /\ handle_get_state \in Seq(Step)
    BY DEF handle_room_create, handle_room_list, handle_subscribe_events, handle_get_state, Step
  <1>2. handle_room_join \in Seq(Step) /\ handle_room_ready \in Seq(Step)
    BY DEF handle_room_join, handle_room_ready, Step
  <1>3. handle_bind_address \in Seq(Step) /\ handle_bind_session_keys \in Seq(Step)
    BY DEF handle_bind_address, handle_bind_session_keys, Step
  <1>4. handle_game_act \in Seq(Step)
    BY DEF handle_game_act, Step
  <1> QED
    BY <1>1, <1>2, <1>3, <1>4, MsgAssumption
    DEF MsgAssumption, Methods, Handler, ReadMethods, BusMethods

\* GoOn, when it does not end the call.
Advance(i) ==
    /\ Len(calls[i].todo) > 1
    /\ calls' = [calls EXCEPT ![i].todo = Tail(@)]
    /\ UNCHANGED limits

\* A step of a call goes on to the next one or ends the call.
LEMMA GoOnCases == \A i : GoOn(i) => Advance(i) \/ EndCall(i)
  BY DEF GoOn, Advance

\* The calls in flight on a connection can be counted: there are only so many ids.
LEMMA FiniteCalls ==
  ASSUME CallsOK, NEW c \in Conn
  PROVE  IsFiniteSet(CallsOn(c)) /\ Cardinality(CallsOn(c)) \in Nat
  <1>1. IsFiniteSet(Ids)
    BY FS_Interval, LimitsAssumption DEF Ids, LimitsAssumption
  <1>2. CallsOn(c) \subseteq Ids
    BY DEF CallsOn, CallsOK
  <1> QED
    BY <1>1, <1>2, FS_Subset, FS_CardinalityType

\* Going on drops the step just done from this call and leaves the other calls alone.
LEMMA AdvanceKeepsCalls ==
  ASSUME CallsOK, NEW i \in DOMAIN calls, Advance(i)
  PROVE  /\ CallsOK'
         /\ DOMAIN calls' = DOMAIN calls
         /\ calls'[i].conn = calls[i].conn /\ calls'[i].msg = calls[i].msg
         /\ calls'[i].todo = Tail(calls[i].todo)
         /\ \A j \in DOMAIN calls \ {i} : calls'[j] = calls[j]
  <1> DEFINE c == calls[i]
  <1>1. c \in Call /\ Len(c.todo) > 1
    BY DEF CallsOK, Advance
  <1>2. Tail(c.todo) \in Seq(Step)
    BY <1>1 DEF Call
  <1> DEFINE d == [c EXCEPT !.todo = Tail(c.todo)]
  <1>3. d \in Call /\ d.conn = c.conn /\ d.msg = c.msg /\ d.todo = Tail(c.todo)
    BY <1>1, <1>2 DEF Call
  <1>4. DOMAIN calls' = DOMAIN calls /\ calls'[i] = d
        /\ \A j \in DOMAIN calls \ {i} : calls'[j] = calls[j]
    BY DEF Advance
  <1> HIDE DEF d
  <1> QED
    BY <1>3, <1>4 DEF CallsOK

\* A call that ends is forgotten, and the other calls are left alone.
LEMMA EndKeepsCalls ==
  ASSUME CallsOK, NEW i \in DOMAIN calls, EndCall(i)
  PROVE  /\ CallsOK'
         /\ DOMAIN calls' = DOMAIN calls \ {i}
         /\ \A j \in DOMAIN calls \ {i} : calls'[j] = calls[j]
  BY DEF CallsOK, EndCall, Without
-----------------------------------------------------------------------------
(***************************************************************************)
(* Permits.                                                                *)
(***************************************************************************)
LEMMA AdvanceKeepsPermits ==
  ASSUME PInv, NEW i \in DOMAIN calls, Advance(i)
  PROVE  PermitsOK'
  <1>1. ASSUME NEW c \in Conn PROVE CallsOn(c)' = CallsOn(c)
    BY AdvanceKeepsCalls DEF PInv, CallsOn
  <1>2. active' = active
    BY DEF Advance, limits
  <1> QED
    BY <1>1, <1>2 DEF PInv, PermitsOK, PermitsAreCalls

\* A call that ends gives back the one permit it held.
LEMMA EndKeepsPermits ==
  ASSUME PInv, NEW i \in DOMAIN calls, EndCall(i)
  PROVE  PermitsOK'
  <1>1. PICK d \in Conn : d = calls[i].conn
    BY DEF PInv, CallsOK, Call
  <1>2. active \in [Conn -> Nat]
    BY DEF PInv, PermitsOK
  <1>3. CallsOn(d)' = CallsOn(d) \ {i} /\ i \in CallsOn(d)
    BY <1>1, EndKeepsCalls, Zenon DEF PInv, CallsOn
  <1>4. ASSUME NEW c \in Conn \ {d} PROVE CallsOn(c)' = CallsOn(c)
    BY <1>1, EndKeepsCalls, Zenon DEF PInv, CallsOn
  <1>5. Cardinality(CallsOn(d)') = Cardinality(CallsOn(d)) - 1 /\ Cardinality(CallsOn(d)) \in Nat
    <2>1. IsFiniteSet(CallsOn(d)) /\ Cardinality(CallsOn(d)) \in Nat
      BY FiniteCalls DEF PInv
    <2>2. Cardinality(CallsOn(d) \ {i}) = Cardinality(CallsOn(d)) - 1
      BY <1>3, <2>1, FS_RemoveElement, Zenon
    <2> QED
      BY <1>3, <2>1, <2>2
  <1>6. active[d] = Cardinality(CallsOn(d)) /\ active[d] # 0
    <2>1. active[d] = Cardinality(CallsOn(d))
      BY <1>1 DEF PInv, PermitsOK, PermitsAreCalls
    <2>2. Cardinality(CallsOn(d)) # 0
      BY <1>1, <1>3, FiniteCalls, FS_EmptySet DEF PInv
    <2> QED
      BY <2>1, <2>2
  <1>7. active' = [active EXCEPT ![d] = active[d] - 1]
    <2>1. active[d] > 0
      BY <1>2, <1>6
    <2>2. active' = [active EXCEPT ![d] = IF @ > 0 THEN @ - 1 ELSE 0]
      BY <1>1 DEF EndCall, ReleasePermit
    <2> QED
      BY <2>1, <2>2, Zenon
  <1>8. active' \in [Conn -> Nat]
    BY <1>1, <1>2, <1>6, <1>7
  <1>9. ASSUME NEW c \in Conn
        PROVE  active'[c] = Cardinality(CallsOn(c)') /\ active'[c] <= MaxConcurrent
    <2>1. active[c] = Cardinality(CallsOn(c)) /\ active[c] <= MaxConcurrent /\ active[c] \in Nat
      BY <1>2 DEF PInv, PermitsOK, PermitsAreCalls
    <2>2. CASE c = d
      BY <1>1, <1>2, <1>5, <1>6, <1>7, <2>1, <2>2, LimitsAssumption DEF LimitsAssumption
    <2>3. CASE c # d
      BY <1>2, <1>4, <1>7, <2>1, <2>3
    <2> QED
      BY <2>2, <2>3
  <1> QED
    BY <1>8, <1>9 DEF PermitsOK, PermitsAreCalls

\* An admitted call takes a permit that was free.
LEMMA AdmitKeepsPermits ==
  ASSUME PInv, NEW d \in Conn, NEW m \in Msg, NEW i \in Ids \ DOMAIN calls, Admit(d, m, i)
  PROVE  CallsOK' /\ PermitsOK'
  <1> DEFINE new == [conn |-> d, msg |-> m, todo |-> Handler(m)]
  <1>0. new \in Call /\ new.conn = d
    BY HandlerSteps DEF Call
  <1>1. /\ DOMAIN calls' = DOMAIN calls \cup {i}
        /\ calls'[i] = new
        /\ \A j \in DOMAIN calls : calls'[j] = calls[j]
    BY DEF Admit
  <1> HIDE DEF new
  <1>2. CallsOK'
    BY <1>0, <1>1 DEF PInv, CallsOK
  <1>3. CallsOn(d)' = CallsOn(d) \cup {i} /\ i \notin CallsOn(d)
    BY <1>0, <1>1 DEF CallsOn
  <1>4. ASSUME NEW c \in Conn \ {d} PROVE CallsOn(c)' = CallsOn(c)
    BY <1>0, <1>1 DEF CallsOn
  <1>5. Cardinality(CallsOn(d)') = Cardinality(CallsOn(d)) + 1
    BY <1>3, FiniteCalls, FS_AddElement, Zenon DEF PInv
  <1>6. active \in [Conn -> Nat] /\ active' = [active EXCEPT ![d] = @ + 1] /\ active[d] < MaxConcurrent
    BY DEF PInv, PermitsOK, Admit, PermitFree
  <1>7. ASSUME NEW c \in Conn
        PROVE  active'[c] = Cardinality(CallsOn(c)') /\ active'[c] <= MaxConcurrent
    <2>1. active[c] = Cardinality(CallsOn(c)) /\ active[c] <= MaxConcurrent /\ active[c] \in Nat
      BY <1>6 DEF PInv, PermitsOK, PermitsAreCalls
    <2>2. CASE c = d
      BY <1>5, <1>6, <2>1, <2>2, LimitsAssumption DEF LimitsAssumption
    <2>3. CASE c # d
      BY <1>4, <1>6, <2>1, <2>3
    <2> QED
      BY <2>2, <2>3
  <1>8. active' \in [Conn -> Nat]
    BY <1>6
  <1> QED
    BY <1>2, <1>7, <1>8 DEF PermitsOK, PermitsAreCalls
-----------------------------------------------------------------------------
(***************************************************************************)
(* Waiting for the actor.                                                  *)
(***************************************************************************)
\* Every step of a call but its last wait moves it on or ends it, and only Send
\* touches the queue.
LEMMA CallSteps ==
  ASSUME NEW i, CallStep(i)
  PROVE  /\ calls[i].todo # << >> /\ Head(calls[i].todo) # "reply"
         /\ Advance(i) \/ EndCall(i)
         /\ Send(i) \/ UNCHANGED <<queue, seated, ignored>>
  <1>1. CASE CheckFunding(i) \/ CheckMeta(i) \/ CheckProof(i) \/ CheckSignature(i)
    BY <1>1, GoOnCases DEF CheckFunding, CheckMeta, CheckProof, CheckSignature, At, actor
  <1>2. CASE CreateRoom(i) \/ UpsertRoomRecord(i) \/ ListRooms(i) \/ ReadRoom(i)
    BY <1>2, GoOnCases DEF CreateRoom, UpsertRoomRecord, ListRooms, ReadRoom, InService, At, actor
  <1>3. CASE Join(i) \/ Ready(i) \/ BindSessionKeys(i) \/ Act(i)
    BY <1>3, GoOnCases DEF Join, Ready, BindSessionKeys, Act, InService, At, actor
  <1>4. CASE BindAddress(i)
    BY <1>4, GoOnCases DEF BindAddress, InService, At, actor
  <1>5. CASE Send(i) \/ Joined(i)
    BY <1>5, GoOnCases DEF Send, Joined, At, actor
  <1> QED
    BY <1>1, <1>2, <1>3, <1>4, <1>5 DEF CallStep

\* A step of a call that does not wait for a reply leaves the waiting calls alone.
LEMMA OtherStepsKeepWaiters ==
  ASSUME PInv, NEW i \in DOMAIN calls, calls[i].todo # <<"reply">>, queue' = queue,
         Advance(i) \/ EndCall(i)
  PROVE  WaitersOK'
  <1>1. /\ DOMAIN calls \ {i} \subseteq DOMAIN calls'
        /\ \A j \in DOMAIN calls \ {i} : calls'[j] = calls[j]
    BY AdvanceKeepsCalls, EndKeepsCalls, Zenon DEF PInv
  <1>2. \A k \in DOMAIN queue : queue[k].from # i \/ queue[k].from = 0
    BY DEF PInv, WaitersOK
  <1> QED
    BY <1>1, <1>2 DEF PInv, WaitersOK

\* A call that sends its command to the room waits for the reply to that command.
LEMMA SendKeepsWaiters ==
  ASSUME PInv, NEW i \in DOMAIN calls, Send(i)
  PROVE  WaitersOK'
  <1> DEFINE waits == calls[i].todo = <<"send", "reply">>
             n == [method |-> calls[i].msg.method, seat |-> calls[i].msg.seat,
                   from |-> IF waits THEN i ELSE 0]
  <1>1. calls[i] \in Call /\ i \in Ids
    BY DEF PInv, CallsOK
  <1>2. n \in Cmd /\ n.from = IF waits THEN i ELSE 0
    BY <1>1 DEF Cmd, Call
  <1>3. queue \in Seq(Cmd) /\ queue' = Append(queue, n)
    BY DEF PInv, WaitersOK, Send
  <1> HIDE DEF n
  <1>4. /\ queue' \in Seq(Cmd) /\ Len(queue') = Len(queue) + 1
        /\ \A k \in DOMAIN queue : queue'[k] = queue[k]
        /\ queue'[Len(queue) + 1] = n
        /\ DOMAIN queue' = DOMAIN queue \cup {Len(queue) + 1}
        /\ Len(queue) + 1 \notin DOMAIN queue
    BY <1>2, <1>3
  <1>5. Head(calls[i].todo) = "send" /\ calls[i].todo # <<"reply">>
    BY DEF Send, At
  <1>6. Advance(i) \/ EndCall(i)
    BY GoOnCases DEF Send
  <1>7. /\ DOMAIN calls \ {i} \subseteq DOMAIN calls'
        /\ \A j \in DOMAIN calls \ {i} : calls'[j] = calls[j]
    BY <1>6, AdvanceKeepsCalls, EndKeepsCalls, Zenon DEF PInv
  <1>8. \A k \in DOMAIN queue : queue[k].from # i \/ queue[k].from = 0
    BY <1>5 DEF PInv, WaitersOK
  <1>9. waits => i \in DOMAIN calls' /\ calls'[i].todo = <<"reply">>
    <2> SUFFICES ASSUME waits PROVE i \in DOMAIN calls' /\ calls'[i].todo = <<"reply">>
      OBVIOUS
    <2>1. Len(calls[i].todo) = 2 /\ Tail(calls[i].todo) = <<"reply">>
      OBVIOUS
    <2>2. Advance(i)
      BY <2>1 DEF Send, GoOn, Advance
    <2> QED
      BY <2>1, <2>2, AdvanceKeepsCalls, Zenon DEF PInv
  <1>10. ASSUME NEW k \in DOMAIN queue', queue'[k].from # 0
         PROVE  /\ queue'[k].from \in DOMAIN calls'
                /\ calls'[queue'[k].from].todo = <<"reply">>
                /\ \A l \in DOMAIN queue' : queue'[l].from = queue'[k].from => l = k
    <2>1. CASE k \in DOMAIN queue
      <3>1. /\ queue[k].from \in DOMAIN calls \ {i}
            /\ calls[queue[k].from].todo = <<"reply">>
            /\ \A l \in DOMAIN queue : queue[l].from = queue[k].from => l = k
        BY <1>4, <1>8, <1>10, <2>1 DEF PInv, WaitersOK
      <3>2. n.from # queue[k].from
        BY <1>2, <1>4, <1>10, <2>1, <3>1
      <3> QED
        BY <1>4, <1>7, <2>1, <3>1, <3>2
    <2>2. CASE k = Len(queue) + 1
      BY <1>2, <1>4, <1>8, <1>9, <1>10, <2>2
    <2> QED
      BY <1>4, <2>1, <2>2
  <1> QED
    BY <1>4, <1>10 DEF WaitersOK

\* A cancelled call no longer waits; its command stays in the queue.
LEMMA CancelKeepsWaiters ==
  ASSUME PInv, NEW i \in DOMAIN calls, Cancel(i)
  PROVE  WaitersOK'
  <1>1. queue \in Seq(Cmd) /\ DOMAIN queue = 1 .. Len(queue)
    BY DEF PInv, WaitersOK
  <1>2. /\ queue' = [k \in DOMAIN queue |->
                        IF queue[k].from = i THEN [queue[k] EXCEPT !.from = 0] ELSE queue[k]]
        /\ EndCall(i)
    BY DEF Cancel
  <1>3. ASSUME NEW k \in DOMAIN queue
        PROVE  /\ queue'[k] \in Cmd
               /\ queue'[k].from = IF queue[k].from = i THEN 0 ELSE queue[k].from
    <2>1. queue[k] \in Cmd
      BY <1>1
    <2>2. [queue[k] EXCEPT !.from = 0] \in Cmd /\ [queue[k] EXCEPT !.from = 0].from = 0
      BY <2>1 DEF Cmd
    <2> QED
      BY <1>2, <2>1, <2>2
  <1>4. queue' \in Seq(Cmd) /\ DOMAIN queue' = DOMAIN queue
    BY <1>1, <1>2, <1>3
  <1>5. /\ DOMAIN calls' = DOMAIN calls \ {i}
        /\ \A j \in DOMAIN calls \ {i} : calls'[j] = calls[j]
    BY <1>2, EndKeepsCalls DEF PInv
  <1> QED
    BY <1>3, <1>4, <1>5 DEF PInv, WaitersOK

\* The room takes a command and answers only the call that waits for it.
LEMMA ActorKeepsWaiters ==
  ASSUME PInv, ActorTakes
  PROVE  CallsOK' /\ PermitsOK' /\ WaitersOK'
  <1> DEFINE w == queue[1].from
  <1>1. /\ queue \in Seq(Cmd) /\ Len(queue) > 0 /\ Head(queue) = queue[1] /\ queue' = Tail(queue)
        /\ 1 \in DOMAIN queue
    BY DEF PInv, WaitersOK, ActorTakes
  <1>2. /\ queue' \in Seq(Cmd)
        /\ \A k \in DOMAIN queue' : k + 1 \in DOMAIN queue /\ queue'[k] = queue[k + 1] /\ k + 1 # 1
                                    /\ k \in Int
    BY <1>1
  <1>3. IF w # 0 THEN EndCall(w) ELSE UNCHANGED <<limits, calls>>
    BY <1>1 DEF ActorTakes
  <1>4. CASE w = 0
    <2>1. UNCHANGED <<calls, active>>
      BY <1>3, <1>4 DEF limits
    <2>2. CallsOK' /\ PermitsOK'
      BY <2>1 DEF PInv, CallsOK, PermitsOK, PermitsAreCalls, CallsOn
    <2>3. WaitersOK'
      BY <1>2, <2>1 DEF PInv, WaitersOK
    <2> QED
      BY <2>2, <2>3
  <1>5. CASE w # 0
    <2>1. /\ w \in DOMAIN calls
          /\ \A l \in DOMAIN queue : queue[l].from = w => l = 1
      BY <1>1, <1>5 DEF PInv, WaitersOK
    <2>2. /\ CallsOK' /\ PermitsOK'
          /\ DOMAIN calls' = DOMAIN calls \ {w}
          /\ \A j \in DOMAIN calls \ {w} : calls'[j] = calls[j]
      BY <1>3, <1>5, <2>1, EndKeepsCalls, EndKeepsPermits, Zenon DEF PInv
    <2>3. WaitersOK'
      BY <1>2, <2>1, <2>2 DEF PInv, WaitersOK
    <2> QED
      BY <2>2, <2>3
  <1> QED
    BY <1>4, <1>5

\* A call that has just been admitted waits for nobody.
LEMMA AdmitKeepsWaiters ==
  ASSUME PInv, NEW d \in Conn, NEW m \in Msg, NEW i \in Ids \ DOMAIN calls, Admit(d, m, i)
  PROVE  WaitersOK'
  <1>1. /\ DOMAIN calls \subseteq DOMAIN calls' /\ queue' = queue
        /\ \A j \in DOMAIN calls : calls'[j] = calls[j]
    BY DEF Admit, actor
  <1> QED
    BY <1>1 DEF PInv, WaitersOK

\* The invariant of permits and waiting calls.
LEMMA PInvHolds == Spec => []PInv
  <1>1. Init => PInv
    <2> SUFFICES ASSUME Init PROVE PInv
      OBVIOUS
    <2>1. calls = << >> /\ DOMAIN calls = {} /\ queue = << >> /\ active = [c \in Conn |-> 0]
      BY DEF Init
    <2>2. \A c \in Conn : CallsOn(c) = {}
      BY <2>1 DEF CallsOn
    <2>3. PermitsOK
      BY <2>1, <2>2, FS_EmptySet, LimitsAssumption DEF PermitsOK, PermitsAreCalls, LimitsAssumption
    <2> QED
      BY <2>1, <2>3 DEF PInv, CallsOK, WaitersOK
  <1>2. PInv /\ [Next]_vars => PInv'
    <2> SUFFICES ASSUME PInv, [Next]_vars PROVE PInv'
      OBVIOUS
    <2>1. ASSUME NEW c \in Conn, NEW m \in Msg, NEW i \in Ids \ DOMAIN calls, Admit(c, m, i)
          PROVE  PInv'
      BY <2>1, AdmitKeepsPermits, AdmitKeepsWaiters DEF PInv
    <2>2. ASSUME UNCHANGED <<active, calls, queue>> PROVE PInv'
      BY <2>2 DEF PInv, CallsOK, WaitersOK, PermitsOK, PermitsAreCalls, CallsOn
    <2>3. ASSUME NEW i \in DOMAIN calls, CallStep(i) PROVE PInv'
      <3>1. (Advance(i) \/ EndCall(i)) /\ calls[i].todo # <<"reply">>
        BY <2>3, CallSteps
      <3>2. CallsOK' /\ PermitsOK'
        BY <3>1, AdvanceKeepsCalls, AdvanceKeepsPermits, EndKeepsCalls, EndKeepsPermits, Zenon DEF PInv
      <3>3. WaitersOK'
        BY <2>3, <3>1, CallSteps, OtherStepsKeepWaiters, SendKeepsWaiters
      <3> QED
        BY <3>2, <3>3 DEF PInv
    <2>4. ASSUME NEW i \in DOMAIN calls, Cancel(i) PROVE PInv'
      <3>1. EndCall(i)
        BY <2>4 DEF Cancel
      <3> QED
        BY <2>4, <3>1, EndKeepsCalls, EndKeepsPermits, CancelKeepsWaiters, Zenon DEF PInv
    <2>5. CASE ActorTakes
      BY <2>5, ActorKeepsWaiters DEF PInv
    <2>6. CASE Restart
      <3>1. calls' = << >> /\ queue' = << >> /\ active' = [c \in Conn |-> 0]
        BY <2>6 DEF Restart
      <3>2. \A c \in Conn : CallsOn(c)' = {}
        BY <3>1 DEF CallsOn
      <3>3. PermitsOK'
        BY <3>1, <3>2, FS_EmptySet, LimitsAssumption DEF PermitsOK, PermitsAreCalls, LimitsAssumption
      <3> QED
        BY <3>1, <3>3 DEF PInv, CallsOK, WaitersOK
    <2>7. ASSUME NEW c \in Conn, PermitRefused(c) PROVE PInv'
      BY <2>2, <2>7 DEF PermitRefused, actor
    <2>8. CASE Tick \/ UNCHANGED vars
      BY <2>2, <2>8 DEF Tick, vars, limits, actor
    <2> QED
      BY <2>1, <2>3, <2>4, <2>5, <2>6, <2>7, <2>8 DEF Next, Serve
  <1> QED
    BY <1>1, <1>2, PTL DEF Spec

\* For any limits, connections and requests: however a call ends (a check refuses
\* it, the actor answers it, its connection drops it), it returns its permit once,
\* and no connection has more calls in flight than the limit.
THEOREM PermitsBalance == Spec => []PermitsAreCalls
  <1>1. PInv => PermitsAreCalls
    BY DEF PInv, PermitsOK
  <1> QED
    BY <1>1, PInvHolds, PTL
-----------------------------------------------------------------------------
(***************************************************************************)
(* Replays.                                                                *)
(***************************************************************************)
\* The order that all handlers have in common.
Rank == [s \in Step |->
            CASE s = "funding" -> 1 [] s = "meta" -> 2 [] s = "proof" -> 3
              [] s = "signature" -> 4 [] s = "room" -> 5 [] s \in {"record", "send"} -> 6
              [] s \in {"joined", "reply"} -> 7]

Ordered(t) == \A k, l \in DOMAIN t : k < l => Rank[t[k]] < Rank[t[l]]

\* What a call has still to do.
Left(t) == {t[k] : k \in DOMAIN t}

\* The steps of the handlers are numbered.
LEMMA RankType == \A s \in Step : Rank[s] \in Int
  BY DEF Rank, Step

\* Dropping the first step leaves exactly the later ones, still in order.
LEMMA TailLeaves ==
  ASSUME NEW t \in Seq(Step), t # << >>, Ordered(t)
  PROVE  /\ Ordered(Tail(t))
         /\ Left(Tail(t)) = Left(t) \ {Head(t)}
         /\ Head(t) \in Left(t)
         /\ \A s \in Left(t) : s = Head(t) \/ Rank[Head(t)] < Rank[s]
  <1>1. /\ Tail(t) \in Seq(Step) /\ Head(t) = t[1] /\ 1 \in DOMAIN t
        /\ DOMAIN Tail(t) = 1 .. Len(t) - 1
        /\ \A k \in DOMAIN Tail(t) : Tail(t)[k] = t[k + 1]
        /\ DOMAIN t = 1 .. Len(t)
        /\ \A k \in DOMAIN t : t[k] \in Step
    OBVIOUS
  <1>2. Ordered(Tail(t))
    BY <1>1 DEF Ordered
  <1>3. \A k \in DOMAIN t : k # 1 => Rank[t[1]] < Rank[t[k]]
    BY <1>1 DEF Ordered
  <1>4. \A s \in Left(t) : s = Head(t) \/ Rank[Head(t)] < Rank[s]
    BY <1>1, <1>3 DEF Left
  <1>5. \A k \in DOMAIN t : k # 1 => t[k] # t[1]
    BY <1>1, <1>3, RankType
  <1>6. ASSUME NEW s \in Left(t) \ {Head(t)} PROVE s \in Left(Tail(t))
    <2>1. PICK k \in DOMAIN t : s = t[k]
      BY <1>6 DEF Left
    <2>2. k # 1 /\ k - 1 \in DOMAIN Tail(t)
      BY <1>1, <1>6, <2>1
    <2>3. Tail(t)[k - 1] = s
      BY <1>1, <2>1, <2>2
    <2> QED
      BY <2>2, <2>3 DEF Left
  <1>7. ASSUME NEW s \in Left(Tail(t)) PROVE s \in Left(t) \ {Head(t)}
    <2>1. PICK k \in DOMAIN Tail(t) : s = Tail(t)[k]
      BY <1>7 DEF Left
    <2>2. k + 1 \in DOMAIN t /\ k + 1 # 1
      BY <1>1
    <2> QED
      BY <1>1, <1>5, <2>1, <2>2 DEF Left
  <1>8. Head(t) \in Left(t)
    BY <1>1 DEF Left
  <1> QED
    BY <1>2, <1>4, <1>6, <1>7, <1>8

\* Every handler goes through its steps in the one order, the signed ones past all checks.
LEMMA HandlersAreOrdered ==
  ASSUME NEW m \in Msg
  PROVE  /\ Handler(m) # << >> /\ Ordered(Handler(m))
         /\ Signed(m) => {"meta", "room", "send"} \subseteq Left(Handler(m))
         /\ "joined" \in Left(Handler(m)) => m.method = "room.join"
         /\ "record" \in Left(Handler(m)) =>
               m.method = "room.create" /\ "room" \in Left(Handler(m))
  <1> DEFINE Fine(t) == t # << >> /\ Ordered(t) /\ "record" \notin Left(t)
             Creates(t) == t # << >> /\ Ordered(t) /\ "room" \in Left(t)
  <1> USE DEF Ordered, Left, Rank, Step
  <1>1. Creates(handle_room_create) /\ "joined" \notin Left(handle_room_create)
    BY DEF handle_room_create
  <1>2. /\ Fine(handle_room_list) /\ "joined" \notin Left(handle_room_list)
        /\ Fine(handle_subscribe_events) /\ "joined" \notin Left(handle_subscribe_events)
    BY DEF handle_room_list, handle_subscribe_events
  <1>3. Fine(handle_get_state) /\ "joined" \notin Left(handle_get_state)
    BY DEF handle_get_state
  <1>4. Fine(handle_room_join) /\ {"meta", "room", "send"} \subseteq Left(handle_room_join)
    BY DEF handle_room_join
  <1>5. /\ Fine(handle_room_ready) /\ "joined" \notin Left(handle_room_ready)
        /\ {"meta", "room", "send"} \subseteq Left(handle_room_ready)
    BY DEF handle_room_ready
  <1>6. /\ Fine(handle_bind_address) /\ "joined" \notin Left(handle_bind_address)
        /\ {"meta", "room", "send"} \subseteq Left(handle_bind_address)
    BY DEF handle_bind_address
  <1>7. /\ Fine(handle_bind_session_keys) /\ "joined" \notin Left(handle_bind_session_keys)
        /\ {"meta", "room", "send"} \subseteq Left(handle_bind_session_keys)
    BY DEF handle_bind_session_keys
  <1>8. /\ Fine(handle_game_act) /\ "joined" \notin Left(handle_game_act)
        /\ {"meta", "room", "send"} \subseteq Left(handle_game_act)
    BY DEF handle_game_act
  <1> HIDE DEF Fine, Creates, Ordered, Left, Rank, Step
  <1>9. /\ Fine(Handler(m)) \/ (Creates(Handler(m)) /\ m.method = "room.create")
        /\ ("joined" \in Left(Handler(m)) => m.method = "room.join")
    BY <1>1, <1>2, <1>3, <1>4, <1>5, <1>6, <1>7, <1>8, MsgAssumption
    DEF MsgAssumption, Methods, Handler, ReadMethods, BusMethods
  <1>10. Signed(m) => {"meta", "room", "send"} \subseteq Left(Handler(m))
    BY <1>4, <1>5, <1>6, <1>7, <1>8, MsgAssumption
    DEF MsgAssumption, Methods, Handler, ReadMethods, BusMethods, Signed
  <1> QED
    BY <1>9, <1>10 DEF Fine, Creates

\* The calls go through their handlers in order.
OrderOK ==
    \A i \in DOMAIN calls :
        /\ calls[i].todo # << >> /\ Ordered(calls[i].todo)
        /\ Left(calls[i].todo) \subseteq Left(Handler(calls[i].msg))

\* Something is left to do after the first of several steps.
LEMMA TailIsLeft ==
  ASSUME NEW t \in Seq(Step), Len(t) > 1
  PROVE  Tail(t) # << >>
  <1>0. Tail(t) \in Seq(Step)
    OBVIOUS
  <1>1. PICK u \in Seq(Step) : u = Tail(t)
    BY <1>0, Zenon
  <1>2. Len(u) > 0
    BY <1>1
  <1>3. u # << >>
    BY <1>2
  <1> QED
    BY <1>1, <1>3

\* A call that moves leaves exactly the step it did; the other calls stay where they are.
LEMMA MovesLeave ==
  ASSUME CallsOK, OrderOK, NEW i \in DOMAIN calls, Advance(i) \/ EndCall(i)
  PROVE  /\ OrderOK'
         /\ \A j \in DOMAIN calls' :
               /\ j \in DOMAIN calls /\ calls'[j].msg = calls[j].msg
               /\ j # i => Left(calls'[j].todo) = Left(calls[j].todo)
               /\ j = i => Left(calls'[j].todo) = Left(calls[j].todo) \ {Head(calls[j].todo)}
  <1>1. CASE EndCall(i)
    BY <1>1, EndKeepsCalls, Zenon DEF OrderOK
  <1>2. CASE Advance(i)
    <2>1. calls[i].todo \in Seq(Step) /\ calls[i].todo # << >> /\ Ordered(calls[i].todo)
      BY DEF CallsOK, Call, OrderOK
    <2>2. /\ Ordered(Tail(calls[i].todo))
          /\ Left(Tail(calls[i].todo)) = Left(calls[i].todo) \ {Head(calls[i].todo)}
      BY <2>1, TailLeaves
    <2>3. Tail(calls[i].todo) # << >>
      BY <1>2, <2>1, TailIsLeft DEF Advance
    <2> QED
      BY <1>2, <2>2, <2>3, AdvanceKeepsCalls DEF OrderOK
  <1> QED
    BY <1>1, <1>2

\* What comes before the step a call is at, is done.
LEMMA HeadIsFirst ==
  ASSUME CallsOK, OrderOK, NEW i \in DOMAIN calls, NEW s \in Step, At(i, s)
  PROVE  /\ s \in Left(calls[i].todo) /\ Head(calls[i].todo) = s
         /\ \A r \in Step : Rank[r] < Rank[s] => r \notin Left(calls[i].todo)
  <1>1. calls[i].todo \in Seq(Step) /\ calls[i].todo # << >> /\ Ordered(calls[i].todo)
    BY DEF CallsOK, Call, OrderOK
  <1>2. Head(calls[i].todo) = s
    BY DEF At
  <1> QED
    BY <1>1, <1>2, TailLeaves, RankType

\* A signed call that has spent its nonce and is on its way to the service.
Waiting(i) == /\ Signed(calls[i].msg)
              /\ "meta" \notin Left(calls[i].todo) /\ "room" \in Left(calls[i].todo)

NoncesOK ==
    /\ reached \subseteq nonces
    /\ \A i \in DOMAIN calls :
          Signed(calls[i].msg) /\ "meta" \notin Left(calls[i].todo) => calls[i].msg.nonce \in nonces
    /\ \A i \in DOMAIN calls : Waiting(i) =>
          /\ calls[i].msg.nonce \notin reached
          /\ \A j \in DOMAIN calls :
                Waiting(j) /\ calls[j].msg.nonce = calls[i].msg.nonce => j = i
    /\ repeated = FALSE

RInv == CallsOK /\ OrderOK /\ NoncesOK

\* A step that neither spends a nonce nor hands a request over.
LEMMA OtherStepsKeepNonces ==
  ASSUME RInv, NEW i \in DOMAIN calls, EndCall(i) \/ (Advance(i) /\ Head(calls[i].todo) # "meta"),
         UNCHANGED <<nonces, reached, repeated>>
  PROVE  NoncesOK'
  <1>1. \A j \in DOMAIN calls' :
           /\ j \in DOMAIN calls /\ calls'[j].msg = calls[j].msg
           /\ Left(calls'[j].todo) \subseteq Left(calls[j].todo)
           /\ "meta" \in Left(calls[j].todo) => "meta" \in Left(calls'[j].todo)
    BY MovesLeave, EndKeepsCalls, Zenon DEF RInv
  <1>2. \A j \in DOMAIN calls' : Waiting(j)' => Waiting(j)
    BY <1>1 DEF Waiting, Signed
  <1> QED
    BY <1>1, <1>2 DEF RInv, NoncesOK, Signed

\* A nonce is spent by one call only.
LEMMA CheckMetaKeepsNonces ==
  ASSUME RInv, NEW i \in DOMAIN calls, CheckMeta(i)
  PROVE  NoncesOK'
  <1>0. UNCHANGED <<reached, repeated>>
    BY DEF CheckMeta, history
  <1>1. CASE EndCall(i) /\ UNCHANGED nonces
    BY <1>0, <1>1, OtherStepsKeepNonces
  <1>2. CASE consume_once(calls[i].msg.nonce) /\ GoOn(i)
    <2> DEFINE n == calls[i].msg.nonce
    <2>1. n \notin nonces /\ nonces' = nonces \cup {n}
      BY <1>2 DEF consume_once
    <2>2. Head(calls[i].todo) = "meta"
      BY DEF CheckMeta, At
    <2>3. \A j \in DOMAIN calls' :
             /\ j \in DOMAIN calls /\ calls'[j].msg = calls[j].msg
             /\ j # i => Left(calls'[j].todo) = Left(calls[j].todo)
      BY <1>2, GoOnCases, MovesLeave DEF RInv
    <2>4. \A j \in DOMAIN calls' : Waiting(j)' /\ j # i => Waiting(j)
      BY <2>3 DEF Waiting, Signed
    <2>5. \A j \in DOMAIN calls : Waiting(j) => calls[j].msg.nonce # n
      BY <2>1 DEF RInv, NoncesOK, Waiting
    <2>6. n \notin reached
      BY <2>1 DEF RInv, NoncesOK
    <2> HIDE DEF n
    <2>7. ASSUME NEW j \in DOMAIN calls', Waiting(j)'
          PROVE  /\ calls'[j].msg.nonce \notin reached'
                 /\ \A k \in DOMAIN calls' :
                       Waiting(k)' /\ calls'[k].msg.nonce = calls'[j].msg.nonce => k = j
      <3>1. CASE j = i
        BY <1>0, <2>3, <2>4, <2>5, <2>6, <2>7, <3>1 DEF n
      <3>2. CASE j # i
        BY <1>0, <2>3, <2>4, <2>5, <2>7, <3>2 DEF RInv, NoncesOK, n
      <3> QED
        BY <3>1, <3>2
    <2>8. \A j \in DOMAIN calls' :
             Signed(calls'[j].msg) /\ "meta" \notin Left(calls'[j].todo)
                => calls'[j].msg.nonce \in nonces'
      BY <2>1, <2>3 DEF RInv, NoncesOK, n
    <2> QED
      BY <1>0, <2>1, <2>7, <2>8 DEF RInv, NoncesOK, Signed
  <1> QED
    BY <1>1, <1>2 DEF CheckMeta

\* The request that is handed over is the only one with its nonce.
LEMMA HandOverKeepsNonces ==
  ASSUME RInv, NEW i \in DOMAIN calls, At(i, "room"), HandedOver(i),
         Advance(i) \/ EndCall(i), UNCHANGED nonces
  PROVE  NoncesOK'
  <1> DEFINE n == calls[i].msg.nonce
  <1>1. Head(calls[i].todo) = "room" /\ "room" \in Left(calls[i].todo) /\ "meta" \notin Left(calls[i].todo)
    <2>1. "room" \in Step /\ "meta" \in Step /\ Rank["meta"] < Rank["room"]
      BY DEF Step, Rank
    <2> QED
      BY <2>1, HeadIsFirst DEF RInv
  <1>2. CASE ~Signed(calls[i].msg)
    BY <1>1, <1>2, OtherStepsKeepNonces DEF HandedOver, history
  <1>3. CASE Signed(calls[i].msg)
    <2>1. Waiting(i)
      BY <1>1, <1>3 DEF Waiting
    <2>2. n \in nonces /\ n \notin reached
      BY <1>1, <1>3, <2>1 DEF RInv, NoncesOK
    <2>3. reached' = reached \cup {n} /\ repeated' = FALSE
      BY <1>3, <2>2, Zenon DEF HandedOver, RInv, NoncesOK
    <2>4. \A j \in DOMAIN calls' :
             /\ j \in DOMAIN calls /\ calls'[j].msg = calls[j].msg
             /\ j # i => Left(calls'[j].todo) = Left(calls[j].todo)
             /\ j = i => Left(calls'[j].todo) = Left(calls[j].todo) \ {"room"}
      BY <1>1, MovesLeave DEF RInv
    <2>5. \A j \in DOMAIN calls' : Waiting(j)' => Waiting(j) /\ j # i
      BY <2>4 DEF Waiting, Signed
    <2>6. \A j \in DOMAIN calls : Waiting(j) /\ j # i => calls[j].msg.nonce # n
      BY <2>1 DEF RInv, NoncesOK
    <2>7. \A j \in DOMAIN calls' :
             Signed(calls'[j].msg) /\ "meta" \notin Left(calls'[j].todo)
                => calls'[j].msg.nonce \in nonces'
      BY <2>2, <2>4 DEF RInv, NoncesOK
    <2> HIDE DEF n
    <2> QED
      BY <2>2, <2>3, <2>4, <2>5, <2>6, <2>7 DEF RInv, NoncesOK, Signed
  <1> QED
    BY <1>2, <1>3

\* What the steps do to the nonces.
LEMMA CallStepKeepsNonces ==
  ASSUME RInv, NEW i \in DOMAIN calls, CallStep(i)
  PROVE  OrderOK' /\ NoncesOK'
  <1>0. Advance(i) \/ EndCall(i)
    BY CallSteps
  <1>1. OrderOK'
    BY <1>0, MovesLeave DEF RInv
  <1>2. CASE CheckMeta(i)
    BY <1>1, <1>2, CheckMetaKeepsNonces
  <1>3. CASE Join(i) \/ Ready(i) \/ BindSessionKeys(i) \/ BindAddress(i) \/ Act(i)
    <2>1. At(i, "room") /\ HandedOver(i) /\ UNCHANGED nonces
      BY <1>3 DEF Join, Ready, BindSessionKeys, BindAddress, Act, InService
    <2> QED
      BY <1>0, <1>1, <2>1, HandOverKeepsNonces
  <1>4. CASE CheckFunding(i) \/ CheckProof(i) \/ CheckSignature(i)
    <2>1. Head(calls[i].todo) # "meta" /\ UNCHANGED <<nonces, reached, repeated>>
      BY <1>4 DEF CheckFunding, CheckProof, CheckSignature, At, history
    <2> QED
      BY <1>0, <1>1, <2>1, OtherStepsKeepNonces
  <1>5. CASE CreateRoom(i) \/ UpsertRoomRecord(i) \/ ListRooms(i) \/ ReadRoom(i)
    <2>1. Head(calls[i].todo) # "meta" /\ UNCHANGED <<nonces, reached, repeated>>
      BY <1>5 DEF CreateRoom, UpsertRoomRecord, ListRooms, ReadRoom, InService, At, history
    <2> QED
      BY <1>0, <1>1, <2>1, OtherStepsKeepNonces
  <1>6. CASE Send(i) \/ Joined(i)
    <2>1. Head(calls[i].todo) # "meta" /\ UNCHANGED <<nonces, reached, repeated>>
      BY <1>6 DEF Send, Joined, At, history
    <2> QED
      BY <1>0, <1>1, <2>1, OtherStepsKeepNonces
  <1> QED
    BY <1>2, <1>3, <1>4, <1>5, <1>6 DEF CallStep

\* A call that has just been admitted has not spent its nonce.
LEMMA AdmitKeepsNonces ==
  ASSUME RInv, NEW d \in Conn, NEW m \in Msg, NEW i \in Ids \ DOMAIN calls, Admit(d, m, i)
  PROVE  OrderOK' /\ NoncesOK'
  <1>1. /\ DOMAIN calls' = DOMAIN calls \cup {i}
        /\ calls'[i].msg = m /\ calls'[i].todo = Handler(m)
        /\ \A j \in DOMAIN calls : calls'[j] = calls[j]
        /\ UNCHANGED <<nonces, reached, repeated>>
    BY DEF Admit, history
  <1>2. OrderOK'
    BY <1>1, HandlersAreOrdered DEF RInv, OrderOK
  <1>3. Signed(m) => "meta" \in Left(Handler(m))
    BY HandlersAreOrdered
  <1>4. \A j \in DOMAIN calls' : Waiting(j)' => j \in DOMAIN calls /\ Waiting(j)
    BY <1>1, <1>3 DEF Waiting, Signed
  <1>5. NoncesOK'
    BY <1>1, <1>3, <1>4 DEF RInv, NoncesOK, Signed
  <1> QED
    BY <1>2, <1>5

\* The invariant of nonces and the order of steps.
LEMMA RInvHolds == Spec => []RInv
  <1>1. Init => RInv
    BY DEF Init, RInv, CallsOK, OrderOK, NoncesOK
  <1>2. PInv /\ PInv' /\ RInv /\ [Next]_vars => RInv'
    <2> SUFFICES ASSUME PInv, PInv', RInv, [Next]_vars PROVE OrderOK' /\ NoncesOK'
      BY DEF RInv, PInv
    <2>1. ASSUME NEW c \in Conn, NEW m \in Msg, NEW i \in Ids \ DOMAIN calls, Admit(c, m, i)
          PROVE  OrderOK' /\ NoncesOK'
      BY <2>1, AdmitKeepsNonces
    <2>2. ASSUME UNCHANGED <<calls, nonces, reached, repeated>> PROVE OrderOK' /\ NoncesOK'
      BY <2>2 DEF RInv, OrderOK, NoncesOK, Waiting
    <2>3. ASSUME NEW i \in DOMAIN calls, CallStep(i) PROVE OrderOK' /\ NoncesOK'
      BY <2>3, CallStepKeepsNonces
    <2>4. ASSUME NEW i \in DOMAIN calls, EndCall(i), UNCHANGED <<nonces, reached, repeated>>
          PROVE  OrderOK' /\ NoncesOK'
      BY <2>4, MovesLeave, OtherStepsKeepNonces DEF RInv
    <2>5. ASSUME NEW i \in DOMAIN calls, Cancel(i) PROVE OrderOK' /\ NoncesOK'
      BY <2>4, <2>5 DEF Cancel, history
    <2>6. CASE ActorTakes
      <3>1. queue \in Seq(Cmd) /\ 1 \in DOMAIN queue /\ Head(queue) = queue[1]
        BY <2>6 DEF PInv, WaitersOK, ActorTakes
      <3>2. UNCHANGED <<nonces, reached, repeated>>
        BY <2>6 DEF ActorTakes, history
      <3>3. CASE queue[1].from = 0
        BY <2>2, <2>6, <3>1, <3>2, <3>3 DEF ActorTakes
      <3>4. CASE queue[1].from # 0
        BY <2>4, <2>6, <3>1, <3>2, <3>4 DEF ActorTakes, PInv, WaitersOK
      <3> QED
        BY <3>3, <3>4
    <2>7. CASE Restart
      BY <2>7 DEF Restart, RInv, OrderOK, NoncesOK
    <2>8. ASSUME NEW c \in Conn, PermitRefused(c) PROVE OrderOK' /\ NoncesOK'
      BY <2>2, <2>8 DEF PermitRefused, history
    <2>9. CASE Tick \/ UNCHANGED vars
      BY <2>2, <2>9 DEF Tick, vars, history
    <2> QED
      BY <2>1, <2>3, <2>5, <2>6, <2>7, <2>8, <2>9 DEF Next, Serve
  <1> QED
    BY <1>1, <1>2, PInvHolds, PTL DEF Spec

\* For any requests, repeated on any connections in any order: the nonce store lets
\* one request of a nonce through, and every handler asks it before the service.
THEOREM RequestsReachRoomOnce == Spec => []ReachesRoomOnce
  <1>1. RInv => ReachesRoomOnce
    BY DEF RInv, NoncesOK, ReachesRoomOnce
  <1> QED
    BY <1>1, RInvHolds, PTL
-----------------------------------------------------------------------------
(***************************************************************************)
(* Joins come first.                                                       *)
(***************************************************************************)
JoinOf(cmd, s) == cmd.method = "room.join" /\ cmd.seat = s

\* The actor has seated s, or will before it takes a command that is queued from now on.
Coming(s, q, seats) == s \in seats \/ \E k \in DOMAIN q : JoinOf(q[k], s)

\* The k-th command of q finds its seat seated.
Behind(q, k, seats) == q[k].seat \in seats \/ \E l \in 1 .. k - 1 : JoinOf(q[l], q[k].seat)

SeatsOK ==
    /\ \A s \in joined : Coming(s, queue, seated)
    /\ \A i \in DOMAIN calls :
          /\ calls[i].msg.method = "room.join" /\ "send" \notin Left(calls[i].todo)
                => Coming(calls[i].msg.seat, queue, seated)
          /\ NeedsSeat(calls[i].msg) /\ "room" \notin Left(calls[i].todo)
                => calls[i].msg.seat \in joined
    /\ \A k \in DOMAIN queue : NeedsSeat(queue[k]) => Behind(queue, k, seated)
    /\ ignored = FALSE

SInv == PInv /\ OrderOK /\ SeatsOK

\* Steps that neither send nor join do not change what is known of the seats.
LEMMA OtherStepsKeepSeats ==
  ASSUME SInv, NEW i \in DOMAIN calls,
         \/ EndCall(i)
         \/ /\ Advance(i) /\ Head(calls[i].todo) # "send"
            /\ Head(calls[i].todo) = "room" /\ NeedsSeat(calls[i].msg) => calls[i].msg.seat \in joined,
         UNCHANGED <<queue, seated, joined, ignored>>
  PROVE  SeatsOK'
  <1>1. \A j \in DOMAIN calls' :
           /\ j \in DOMAIN calls /\ calls'[j].msg = calls[j].msg
           /\ "send" \in Left(calls[j].todo) => "send" \in Left(calls'[j].todo)
           /\ "room" \in Left(calls[j].todo) =>
                 \/ "room" \in Left(calls'[j].todo)
                 \/ NeedsSeat(calls[j].msg) => calls[j].msg.seat \in joined
    BY MovesLeave, EndKeepsCalls DEF SInv, PInv
  <1>2. \A s : Coming(s, queue', seated') <=> Coming(s, queue, seated)
    BY DEF Coming
  <1> QED
    BY <1>1, <1>2 DEF SInv, SeatsOK, NeedsSeat, JoinOf

\* A command that needs its seat enters the queue behind the join of the seat.
LEMMA SendKeepsSeats ==
  ASSUME SInv, NEW i \in DOMAIN calls, Send(i)
  PROVE  SeatsOK'
  <1> DEFINE m == calls[i].msg
             e == Len(queue) + 1
  <1>1. /\ queue \in Seq(Cmd)
        /\ DOMAIN queue' = DOMAIN queue \cup {e}
        /\ \A k \in DOMAIN queue : queue'[k] = queue[k]
        /\ queue'[e].method = m.method /\ queue'[e].seat = m.seat
        /\ DOMAIN queue = 1 .. e - 1 /\ e \in Nat
    <2> DEFINE n == [method |-> m.method, seat |-> m.seat,
                     from |-> IF calls[i].todo = <<"send", "reply">> THEN i ELSE 0]
    <2>1. n.method = m.method /\ n.seat = m.seat
      OBVIOUS
    <2>2. queue \in Seq(Cmd) /\ queue' = Append(queue, n)
      BY DEF SInv, PInv, WaitersOK, Send
    <2>3. n \in Cmd
      BY DEF SInv, PInv, CallsOK, Call, Cmd
    <2> HIDE DEF n
    <2> QED
      BY <2>1, <2>2, <2>3
  <1>2. UNCHANGED <<seated, joined, ignored>>
    BY DEF Send, service
  <1>3. Head(calls[i].todo) = "send" /\ "room" \notin Left(calls[i].todo)
    <2>1. "send" \in Step /\ "room" \in Step /\ Rank["room"] < Rank["send"]
      BY DEF Step, Rank
    <2>2. At(i, "send")
      BY DEF Send
    <2> QED
      BY <2>1, <2>2, HeadIsFirst DEF SInv, PInv
  <1>4. \A j \in DOMAIN calls' :
           /\ j \in DOMAIN calls /\ calls'[j].msg = calls[j].msg
           /\ j # i => Left(calls'[j].todo) = Left(calls[j].todo)
           /\ j = i => Left(calls'[j].todo) = Left(calls[j].todo) \ {"send"}
    BY <1>3, GoOnCases, MovesLeave DEF SInv, PInv, Send
  <1> HIDE DEF e
  <1>5. \A s : Coming(s, queue, seated) => Coming(s, queue', seated')
    BY <1>1, <1>2 DEF Coming, JoinOf
  <1>6. m.method = "room.join" => Coming(m.seat, queue', seated')
    BY <1>1 DEF Coming, JoinOf
  <1>7. NeedsSeat(m) => m.seat \in seated \/ \E l \in 1 .. e - 1 : JoinOf(queue'[l], m.seat)
    <2>1. NeedsSeat(m) => Coming(m.seat, queue, seated)
      BY <1>3 DEF SInv, SeatsOK
    <2> QED
      BY <1>1, <2>1 DEF Coming
  <1>8. ASSUME NEW k \in DOMAIN queue', NeedsSeat(queue'[k])
        PROVE  Behind(queue', k, seated')
    <2>1. CASE k = e
      BY <1>1, <1>2, <1>7, <1>8, <2>1 DEF NeedsSeat, Behind
    <2>2. CASE k \in DOMAIN queue
      <3>1. queue[k].seat \in seated \/ \E l \in 1 .. k - 1 : JoinOf(queue[l], queue[k].seat)
        BY <1>1, <1>8, <2>2 DEF SInv, SeatsOK, Behind
      <3>2. \A l \in 1 .. k - 1 : l \in DOMAIN queue
        BY <1>1, <2>2
      <3> QED
        BY <1>1, <1>2, <2>2, <3>1, <3>2 DEF Behind
    <2> QED
      BY <1>1, <2>1, <2>2
  <1>9. \A j \in DOMAIN calls' :
          /\ calls'[j].msg.method = "room.join" /\ "send" \notin Left(calls'[j].todo)
                => Coming(calls'[j].msg.seat, queue', seated')
          /\ NeedsSeat(calls'[j].msg) /\ "room" \notin Left(calls'[j].todo)
                => calls'[j].msg.seat \in joined'
    BY <1>2, <1>3, <1>4, <1>5, <1>6 DEF SInv, SeatsOK
  <1> QED
    BY <1>2, <1>5, <1>8, <1>9 DEF SInv, SeatsOK

\* A seat is noted as joined only when its join has been sent to the room.
LEMMA JoinedKeepsSeats ==
  ASSUME SInv, NEW i \in DOMAIN calls, Joined(i)
  PROVE  SeatsOK'
  <1>1. /\ joined' = joined \cup {calls[i].msg.seat} /\ UNCHANGED <<queue, seated, ignored>>
        /\ Advance(i) \/ EndCall(i)
    BY GoOnCases DEF Joined, actor
  <1>2. /\ Head(calls[i].todo) = "joined" /\ "joined" \in Left(calls[i].todo)
        /\ "send" \notin Left(calls[i].todo)
    <2>1. "send" \in Step /\ "joined" \in Step /\ Rank["send"] < Rank["joined"]
      BY DEF Step, Rank
    <2>2. At(i, "joined")
      BY DEF Joined
    <2> QED
      BY <2>1, <2>2, HeadIsFirst DEF SInv, PInv
  <1>3. calls[i].msg.method = "room.join"
    BY <1>2, HandlersAreOrdered, Zenon DEF SInv, PInv, CallsOK, Call, OrderOK
  <1>4. Coming(calls[i].msg.seat, queue, seated)
    BY <1>2, <1>3 DEF SInv, SeatsOK
  <1>5. \A j \in DOMAIN calls' :
           /\ j \in DOMAIN calls /\ calls'[j].msg = calls[j].msg
           /\ "send" \in Left(calls[j].todo) => "send" \in Left(calls'[j].todo)
           /\ "room" \in Left(calls[j].todo) => "room" \in Left(calls'[j].todo)
    BY <1>1, <1>2, MovesLeave DEF SInv, PInv
  <1>6. \A s : Coming(s, queue', seated') <=> Coming(s, queue, seated)
    BY <1>1 DEF Coming
  <1> QED
    BY <1>1, <1>4, <1>5, <1>6 DEF SInv, SeatsOK, NeedsSeat, JoinOf

\* The room takes a command: a join seats the seat, the others find it seated.
LEMMA ActorKeepsSeats ==
  ASSUME SInv, ActorTakes
  PROVE  SeatsOK'
  <1>1. queue \in Seq(Cmd) /\ queue # << >>
    BY DEF SInv, PInv, WaitersOK, ActorTakes
  <1>2. /\ Head(queue) = queue[1] /\ 1 \in DOMAIN queue /\ queue' = Tail(queue)
        /\ DOMAIN queue = 1 .. Len(queue) /\ Len(queue) \in Nat
        /\ DOMAIN queue' = 1 .. Len(queue) - 1
        /\ \A k \in DOMAIN queue' : queue'[k] = queue[k + 1]
    BY <1>1 DEF ActorTakes
  <1>3. /\ seated' = IF queue[1].method = "room.join" THEN seated \cup {queue[1].seat} ELSE seated
        /\ ignored' = (ignored \/ (NeedsSeat(queue[1]) /\ queue[1].seat \notin seated))
        /\ UNCHANGED joined
    BY <1>2 DEF ActorTakes, service
  <1>4. \A j \in DOMAIN calls' : j \in DOMAIN calls /\ calls'[j] = calls[j]
    BY <1>2, EndKeepsCalls, Zenon DEF SInv, PInv, WaitersOK, ActorTakes
  <1>5. ASSUME NEW s, NEW k \in DOMAIN queue, JoinOf(queue[k], s)
        PROVE  s \in seated' \/ (k # 1 /\ k - 1 \in DOMAIN queue' /\ JoinOf(queue'[k - 1], s))
    <2>1. CASE k = 1
      BY <1>3, <1>5, <2>1 DEF JoinOf
    <2>2. CASE k # 1
      <3>1. k - 1 \in DOMAIN queue' /\ (k - 1) + 1 = k
        BY <1>2, <2>2
      <3> QED
        BY <1>2, <1>5, <2>2, <3>1
    <2> QED
      BY <2>1, <2>2
  <1>6. \A s : Coming(s, queue, seated) => Coming(s, queue', seated')
    BY <1>3, <1>5 DEF Coming
  <1>7. ASSUME NEW k \in DOMAIN queue', NeedsSeat(queue'[k])
        PROVE  Behind(queue', k, seated')
    <2>1. k \in Nat /\ k + 1 \in DOMAIN queue /\ queue'[k] = queue[k + 1]
      BY <1>2
    <2>2. CASE queue[k + 1].seat \in seated
      BY <1>3, <2>1, <2>2 DEF Behind
    <2>3. ASSUME NEW l \in 1 .. k, JoinOf(queue[l], queue[k + 1].seat)
          PROVE  Behind(queue', k, seated')
      <3>1. l \in DOMAIN queue
        BY <1>2, <2>1
      <3>2. CASE queue[k + 1].seat \in seated'
        BY <2>1, <3>2 DEF Behind
      <3>3. CASE l # 1 /\ JoinOf(queue'[l - 1], queue[k + 1].seat)
        <4>1. l - 1 \in 1 .. k - 1
          BY <2>1, <3>3
        <4> QED
          BY <2>1, <3>3, <4>1 DEF Behind
      <3> QED
        BY <1>5, <2>3, <3>1, <3>2, <3>3
    <2>4. (k + 1) - 1 = k
      BY <2>1
    <2>5. NeedsSeat(queue[k + 1])
      BY <1>7, <2>1
    <2> QED
      BY <2>1, <2>2, <2>3, <2>4, <2>5 DEF SInv, SeatsOK, Behind
  <1>8. ignored' = FALSE
    <2>1. NeedsSeat(queue[1]) => queue[1].seat \in seated
      <3>1. 1 .. 1 - 1 = {}
        OBVIOUS
      <3> QED
        BY <1>2, <3>1 DEF SInv, SeatsOK, Behind
    <2> QED
      BY <1>3, <2>1, Zenon DEF SInv, SeatsOK
  <1> QED
    BY <1>3, <1>4, <1>6, <1>7, <1>8, Zenon DEF SInv, SeatsOK

\* Cancelling only takes the waiter off its commands.
LEMMA CancelKeepsSeats ==
  ASSUME SInv, NEW i \in DOMAIN calls, Cancel(i)
  PROVE  SeatsOK'
  <1>1. /\ DOMAIN queue' = DOMAIN queue
        /\ \A k \in DOMAIN queue :
              queue'[k].method = queue[k].method /\ queue'[k].seat = queue[k].seat
    <2>1. \A k \in DOMAIN queue : queue[k] \in Cmd
      BY DEF SInv, PInv, WaitersOK
    <2>2. DOMAIN queue' = DOMAIN queue
          /\ \A k \in DOMAIN queue : queue'[k] \in {queue[k], [queue[k] EXCEPT !.from = 0]}
      BY DEF Cancel
    <2> QED
      BY <2>1, <2>2 DEF Cmd
  <1>2. UNCHANGED <<seated, joined, ignored>> /\ EndCall(i)
    BY DEF Cancel
  <1>3. \A s : Coming(s, queue', seated') <=> Coming(s, queue, seated)
    BY <1>1, <1>2 DEF Coming, JoinOf
  <1>4. \A j \in DOMAIN calls' : j \in DOMAIN calls /\ calls'[j] = calls[j]
    BY <1>2, EndKeepsCalls, Zenon DEF SInv, PInv
  <1>5. DOMAIN queue = 1 .. Len(queue) /\ Len(queue) \in Nat
    <2>1. queue \in Seq(Cmd)
      BY DEF SInv, PInv, WaitersOK
    <2> QED
      BY <2>1
  <1>6. \A k \in DOMAIN queue : \A l \in 1 .. k - 1 : l \in DOMAIN queue
    BY <1>5
  <1>7. \A k \in DOMAIN queue' : NeedsSeat(queue'[k]) => Behind(queue', k, seated')
    <2> SUFFICES ASSUME NEW k \in DOMAIN queue, NeedsSeat(queue'[k])
                 PROVE  Behind(queue', k, seated')
      BY <1>1
    <2>1. NeedsSeat(queue[k])
      BY <1>1 DEF NeedsSeat
    <2>2. queue[k].seat \in seated \/ \E l \in 1 .. k - 1 : JoinOf(queue[l], queue[k].seat)
      BY <2>1 DEF SInv, SeatsOK, Behind
    <2>3. \A l \in 1 .. k - 1 : JoinOf(queue[l], queue[k].seat) => JoinOf(queue'[l], queue'[k].seat)
      BY <1>1, <1>6 DEF JoinOf
    <2> QED
      BY <1>1, <1>2, <2>2, <2>3 DEF Behind
  <1> QED
    BY <1>2, <1>3, <1>4, <1>7, Zenon DEF SInv, SeatsOK

\* No step of a call breaks what is known of the seats.
LEMMA CallStepKeepsSeats ==
  ASSUME SInv, NEW i \in DOMAIN calls, CallStep(i)
  PROVE  SeatsOK'
  <1>0. Advance(i) \/ EndCall(i)
    BY CallSteps
  <1>1. CASE Send(i)
    BY <1>1, SendKeepsSeats
  <1>2. CASE Joined(i)
    BY <1>2, JoinedKeepsSeats
  <1>3. CASE ~Send(i) /\ ~Joined(i)
    <2>1. UNCHANGED <<queue, seated, ignored>>
      BY <1>3, CallSteps
    <2>2. CASE CheckFunding(i) \/ CheckMeta(i) \/ CheckProof(i) \/ CheckSignature(i)
      <3>1. Head(calls[i].todo) \notin {"send", "room"} /\ UNCHANGED joined
        BY <2>2 DEF CheckFunding, CheckMeta, CheckProof, CheckSignature, At, service
      <3> QED
        BY <1>0, <2>1, <3>1, OtherStepsKeepSeats
    <2>3. CASE CreateRoom(i) \/ UpsertRoomRecord(i) \/ ListRooms(i) \/ ReadRoom(i) \/ Join(i) \/ Act(i)
      <3>1. /\ Head(calls[i].todo) # "send" /\ UNCHANGED joined
            /\ Head(calls[i].todo) = "room" => ~NeedsSeat(calls[i].msg)
        BY <2>3 DEF CreateRoom, UpsertRoomRecord, ListRooms, ReadRoom, Join, Act, InService, At,
                    service, NeedsSeat, BusMethods, ReadMethods
      <3> QED
        BY <1>0, <2>1, <3>1, OtherStepsKeepSeats
    <2>4. CASE Ready(i) \/ BindAddress(i) \/ BindSessionKeys(i)
      <3>1. /\ Head(calls[i].todo) = "room" /\ UNCHANGED joined
            /\ EndCall(i) \/ calls[i].msg.seat \in joined
        BY <2>4 DEF Ready, BindAddress, BindSessionKeys, InService, At, service, ensure_joined
      <3> QED
        BY <1>0, <2>1, <3>1, OtherStepsKeepSeats
    <2> QED
      BY <1>3, <2>2, <2>3, <2>4 DEF CallStep
  <1> QED
    BY <1>1, <1>2, <1>3

\* A call that has just been admitted changes nothing about the seats.
LEMMA AdmitKeepsSeats ==
  ASSUME SInv, NEW d \in Conn, NEW m \in Msg, NEW i \in Ids \ DOMAIN calls, Admit(d, m, i)
  PROVE  SeatsOK'
  <1>1. /\ DOMAIN calls' = DOMAIN calls \cup {i}
        /\ calls'[i].msg = m /\ calls'[i].todo = Handler(m)
        /\ \A j \in DOMAIN calls : calls'[j] = calls[j]
        /\ UNCHANGED <<queue, seated, joined, ignored>>
    BY DEF Admit, service, actor
  <1>2. m.method = "room.join" \/ NeedsSeat(m) => Signed(m)
    BY DEF NeedsSeat, Signed, ReadMethods, BusMethods
  <1>3. Signed(m) => "send" \in Left(Handler(m)) /\ "room" \in Left(Handler(m))
    BY HandlersAreOrdered
  <1>4. \A j \in DOMAIN calls' :
          /\ calls'[j].msg.method = "room.join" /\ "send" \notin Left(calls'[j].todo)
                => Coming(calls'[j].msg.seat, queue', seated')
          /\ NeedsSeat(calls'[j].msg) /\ "room" \notin Left(calls'[j].todo)
                => calls'[j].msg.seat \in joined'
    <2>1. \A j \in DOMAIN calls' : j = i \/ j \in DOMAIN calls
      BY <1>1
    <2> QED
      BY <1>1, <1>2, <1>3, <2>1, Zenon DEF SInv, SeatsOK
  <1> QED
    BY <1>1, <1>4, Zenon DEF SInv, SeatsOK

\* The invariant of the seats.
LEMMA SeatsHold == Spec => []SeatsOK
  <1>0. DOMAIN << >> = {}
    OBVIOUS
  <1>1. Init => SeatsOK
    BY <1>0, Zenon DEF Init, SeatsOK
  <1>2. PInv /\ RInv /\ SeatsOK /\ [Next]_vars => SeatsOK'
    <2> SUFFICES ASSUME SInv, [Next]_vars PROVE SeatsOK'
      BY DEF SInv, RInv
    <2>1. ASSUME NEW c \in Conn, NEW m \in Msg, NEW i \in Ids \ DOMAIN calls, Admit(c, m, i)
          PROVE  SeatsOK'
      BY <2>1, AdmitKeepsSeats
    <2>2. ASSUME UNCHANGED <<calls, queue, seated, joined, ignored>> PROVE SeatsOK'
      <3>1. calls' = calls /\ queue' = queue /\ seated' = seated /\ joined' = joined /\ ignored' = ignored
        BY <2>2
      <3> QED
        BY <3>1 DEF SInv, SeatsOK
    <2>3. ASSUME NEW i \in DOMAIN calls, CallStep(i) \/ Cancel(i) PROVE SeatsOK'
      BY <2>3, CallStepKeepsSeats, CancelKeepsSeats
    <2>4. CASE ActorTakes
      BY <2>4, ActorKeepsSeats
    <2>5. CASE Restart
      BY <1>0, <2>5 DEF Restart, SInv, SeatsOK
    <2>6. ASSUME NEW c \in Conn, PermitRefused(c) PROVE SeatsOK'
      BY <2>2, <2>6 DEF PermitRefused, service, actor
    <2>7. CASE Tick \/ UNCHANGED vars
      BY <2>2, <2>7 DEF Tick, vars, service, actor
    <2> QED
      BY <2>1, <2>3, <2>4, <2>5, <2>6, <2>7 DEF Next, Serve
  <1> QED
    BY <1>1, <1>2, PInvHolds, RInvHolds, PTL DEF Spec

\* For any seats and queue: join counts a seat as joined only once its command is in
\* the actor's queue, so the commands ensure_joined lets by are queued behind it.
THEOREM JoinsComeFirst == Spec => []NoCommandIgnored
  <1>1. SeatsOK => NoCommandIgnored
    BY DEF SeatsOK, NoCommandIgnored
  <1> QED
    BY <1>1, SeatsHold, PTL
-----------------------------------------------------------------------------
(***************************************************************************)
(* The room's row.                                                         *)
(***************************************************************************)
\* A creation that comes to its row has spawned the room, and nothing but the end
\* of the process takes the room away.
RowOK ==
    /\ created => room /\ row = "current"
    /\ \A i \in DOMAIN calls :
          "record" \in Left(calls[i].todo) /\ "room" \notin Left(calls[i].todo) => room

\* A step that brings no creation past the room without one keeps the row in order.
LEMMA OtherStepsKeepRow ==
  ASSUME PInv, OrderOK, RowOK, NEW i \in DOMAIN calls, Advance(i) \/ EndCall(i),
         \/ room'
         \/ UNCHANGED room /\ (Head(calls[i].todo) # "room" \/ "record" \notin Left(calls[i].todo))
         \/ UNCHANGED room /\ EndCall(i),
         created' => room' /\ row' = "current"
  PROVE  RowOK'
  <1>1. \A j \in DOMAIN calls' :
           /\ j \in DOMAIN calls
           /\ j # i => Left(calls'[j].todo) = Left(calls[j].todo)
           /\ j = i => Left(calls'[j].todo) = Left(calls[j].todo) \ {Head(calls[j].todo)}
    BY MovesLeave DEF PInv
  <1>2. EndCall(i) => i \notin DOMAIN calls'
    BY EndKeepsCalls, Zenon DEF PInv
  <1> QED
    BY <1>1, <1>2 DEF RowOK

\* No step of a call breaks what is known of the room's row.
LEMMA CallStepKeepsRow ==
  ASSUME PInv, OrderOK, RowOK, NEW i \in DOMAIN calls, CallStep(i)
  PROVE  RowOK'
  <1>0. Advance(i) \/ EndCall(i)
    BY CallSteps
  <1>1. CASE CreateRoom(i)
    <2>1. room' /\ created' = created /\ (room => row' = row)
      BY <1>1 DEF CreateRoom, ensure_room, ensure_room_chain_account
    <2> QED
      BY <1>0, <2>1, OtherStepsKeepRow DEF RowOK
  <1>2. CASE UpsertRoomRecord(i)
    <2>1. /\ Head(calls[i].todo) = "record" /\ "record" \in Left(calls[i].todo)
          /\ "room" \notin Left(calls[i].todo)
      <3>1. "room" \in Step /\ "record" \in Step /\ Rank["room"] < Rank["record"]
        BY DEF Step, Rank
      <3>2. At(i, "record")
        BY <1>2 DEF UpsertRoomRecord
      <3> QED
        BY <3>1, <3>2, HeadIsFirst DEF PInv
    <2>2. room
      BY <2>1 DEF RowOK
    <2>3. UNCHANGED room /\ (row' = "current" \/ UNCHANGED <<row, created>>)
      BY <1>2 DEF UpsertRoomRecord
    <2>4. created' => room' /\ row' = "current"
      BY <2>2, <2>3, Zenon DEF RowOK
    <2>5. room'
      BY <2>2, <2>3
    <2> QED
      BY <1>0, <2>4, <2>5, OtherStepsKeepRow
  <1>3. CASE ~CreateRoom(i) /\ ~UpsertRoomRecord(i)
    <2>1. UNCHANGED <<room, row, created>>
      <3>1. CASE CheckFunding(i) \/ CheckMeta(i) \/ CheckProof(i) \/ CheckSignature(i)
        BY <3>1 DEF CheckFunding, CheckMeta, CheckProof, CheckSignature, service
      <3>2. CASE ListRooms(i) \/ ReadRoom(i) \/ Join(i) \/ Act(i) \/ Send(i)
        BY <3>2 DEF ListRooms, ReadRoom, Join, Act, Send, service
      <3>3. CASE Ready(i) \/ BindAddress(i) \/ BindSessionKeys(i) \/ Joined(i)
        BY <3>3 DEF Ready, BindAddress, BindSessionKeys, Joined, service
      <3> QED
        BY <1>3, <3>1, <3>2, <3>3 DEF CallStep
    <2>2. Head(calls[i].todo) # "room" \/ "record" \notin Left(calls[i].todo)
      <3>1. ASSUME Head(calls[i].todo) = "room" PROVE calls[i].msg.method # "room.create"
        BY <1>3, <3>1 DEF CallStep, CheckFunding, CheckMeta, CheckProof, CheckSignature, ListRooms,
             ReadRoom, Join, Ready, BindAddress, BindSessionKeys, Act, Send, Joined, InService, At,
             BusMethods, ReadMethods
      <3>2. "record" \in Left(calls[i].todo) => calls[i].msg.method = "room.create"
        BY HandlersAreOrdered DEF PInv, CallsOK, Call, OrderOK
      <3> QED
        BY <3>1, <3>2
    <2> QED
      BY <1>0, <2>1, <2>2, OtherStepsKeepRow DEF RowOK
  <1> QED
    BY <1>1, <1>2, <1>3

\* The invariant of the room's row.
LEMMA RowHolds == Spec => []RowOK
  <1>1. Init => RowOK
    <2>1. DOMAIN << >> = {}
      OBVIOUS
    <2> QED
      BY <2>1, Zenon DEF Init, RowOK
  <1>2. PInv /\ RInv /\ RowOK /\ [Next]_vars => RowOK'
    <2> SUFFICES ASSUME PInv, OrderOK, RowOK, [Next]_vars PROVE RowOK'
      BY DEF RInv
    <2>1. ASSUME NEW c \in Conn, NEW m \in Msg, NEW i \in Ids \ DOMAIN calls, Admit(c, m, i)
          PROVE  RowOK'
      <3>1. /\ DOMAIN calls' = DOMAIN calls \cup {i} /\ calls'[i].todo = Handler(m)
            /\ \A j \in DOMAIN calls : calls'[j] = calls[j]
            /\ UNCHANGED <<room, row, created>>
        BY <2>1 DEF Admit, service
      <3> QED
        BY <3>1, HandlersAreOrdered DEF RowOK
    <2>2. ASSUME UNCHANGED <<calls, room, row, created>> PROVE RowOK'
      BY <2>2 DEF RowOK
    <2>3. ASSUME NEW i \in DOMAIN calls, CallStep(i) PROVE RowOK'
      BY <2>3, CallStepKeepsRow
    <2>4. ASSUME NEW i \in DOMAIN calls, Cancel(i) PROVE RowOK'
      <3>1. EndCall(i) /\ UNCHANGED <<room, created>> /\ row' \in {row, "current"}
        BY <2>4 DEF Cancel
      <3> QED
        BY <3>1, OtherStepsKeepRow, Zenon DEF RowOK
    <2>5. CASE ActorTakes
      <3>1. UNCHANGED <<room, row, created>>
        BY <2>5 DEF ActorTakes, service
      <3>2. queue \in Seq(Cmd) /\ 1 \in DOMAIN queue /\ Head(queue) = queue[1]
        BY <2>5 DEF PInv, WaitersOK, ActorTakes
      <3>3. \A j \in DOMAIN calls' : j \in DOMAIN calls /\ calls'[j] = calls[j]
        BY <2>5, <3>2, EndKeepsCalls, Zenon DEF PInv, WaitersOK, ActorTakes
      <3> QED
        BY <3>1, <3>3 DEF RowOK
    <2>6. CASE Restart
      BY <2>6 DEF Restart, RowOK
    <2>7. ASSUME NEW c \in Conn, PermitRefused(c) PROVE RowOK'
      BY <2>2, <2>7 DEF PermitRefused, service
    <2>8. CASE Tick \/ UNCHANGED vars
      BY <2>2, <2>8 DEF Tick, vars, service
    <2> QED
      BY <2>1, <2>3, <2>4, <2>5, <2>6, <2>7, <2>8 DEF Next, Serve
  <1> QED
    BY <1>1, <1>2, PInvHolds, RInvHolds, PTL DEF Spec

\* However creations repeat, overlap, fail, are cancelled or follow a restart: the
\* account is settled by ensure_room before upsert_room_record writes it, and
\* does not change while the process lives.
THEOREM AnsweredRoomHasItsRow == Spec => []RoomRowIsCurrent
  <1>1. RowOK => RoomRowIsCurrent
    BY DEF RowOK, RoomRowIsCurrent
  <1> QED
    BY <1>1, RowHolds, PTL
-----------------------------------------------------------------------------
(***************************************************************************)
(* The rate limit.                                                         *)
(***************************************************************************)
\* The requests of the current window are the last ones let by, and the first of them
\* started it.  Of those before, all but MaxPerWindow - 1, the ones of the window before
\* without its first, are older than its start by a whole Window.
WindowOK(c) ==
    LET n == Len(counted[c])
        k == rate[c].count
        s == rate[c].start
    IN  /\ rate[c] \in [start : Nat, count : Nat] /\ 1 <= k /\ k <= MaxPerWindow /\ s <= now
        /\ \A i \in 1 .. n : i <= n - k + 1 => counted[c][i] <= s
        /\ \A i \in 1 .. n : i <= n - k - MaxPerWindow + 1 => counted[c][i] + Window <= s

RateOK ==
    /\ now \in Nat
    /\ DOMAIN rate \subseteq Conn
    /\ counted \in [Conn -> Seq(Nat)]
    /\ \A c \in Conn : \A i \in DOMAIN counted[c] : counted[c][i] <= now
    /\ \A c \in Conn : IF c \in DOMAIN rate THEN WindowOK(c) ELSE counted[c] = << >>

\* The request that is recorded is the first of a new window or one more of the current.
LEMMA RecordKeepsRate ==
  ASSUME RateOK, NEW c \in Conn, RateAllows(c), RecordRequest(c), UNCHANGED now
  PROVE  RateOK'
  <1> DEFINE e == RateEntry(c)
             n == Len(counted[c])
             f == [e EXCEPT !.count = @ + 1]
  <1>1. /\ now \in Nat /\ counted \in [Conn -> Seq(Nat)] /\ counted[c] \in Seq(Nat) /\ n \in Nat
        /\ MaxPerWindow \in Nat /\ MaxPerWindow > 0 /\ Window \in Nat
    BY LimitsAssumption DEF RateOK
  <1>2. \A i \in 1 .. n : counted[c][i] \in Nat /\ counted[c][i] <= now
    BY <1>1 DEF RateOK
  <1>3. /\ e \in [start : Nat, count : Nat] /\ e.count < MaxPerWindow /\ e.start <= now
        /\ \A i \in 1 .. n : i <= n - e.count + 1 => counted[c][i] <= e.start
        /\ \A i \in 1 .. n : i <= n - e.count - MaxPerWindow + 1 => counted[c][i] + Window <= e.start
        /\ e.count = 0 => e.start = now
    <2>1. CASE CurrentWindow(c)
      <3>1. c \in DOMAIN rate /\ e = rate[c] /\ WindowOK(c)
        BY <2>1 DEF CurrentWindow, RateEntry, RateOK
      <3> HIDE DEF e
      <3> QED
        BY <3>1 DEF WindowOK, RateAllows, e
    <2>2. CASE ~CurrentWindow(c)
      <3>1. e = [start |-> now, count |-> 0]
        BY <2>2 DEF RateEntry
      <3>2. /\ e \in [start : Nat, count : Nat] /\ e.count = 0 /\ e.start = now
        BY <1>1, <3>1
      <3>3. CASE c \in DOMAIN rate
        <4>1. WindowOK(c) /\ ~(now - rate[c].start < Window)
          BY <2>2, <3>3 DEF RateOK, CurrentWindow
        <4>2. /\ rate[c].start \in Nat /\ rate[c].count \in Nat /\ 1 <= rate[c].count
              /\ rate[c].count <= MaxPerWindow
              /\ rate[c].start + Window <= now
              /\ \A i \in 1 .. n : i <= n - rate[c].count + 1 => counted[c][i] <= rate[c].start
          BY <1>1, <4>1 DEF WindowOK
        <4>3. ASSUME NEW i \in 1 .. n, i <= n - MaxPerWindow + 1
              PROVE  counted[c][i] + Window <= now
          <5>1. i <= n - rate[c].count + 1
            <6>1. i \in Int /\ n \in Int /\ MaxPerWindow \in Int /\ rate[c].count \in Int
              BY <1>1, <4>2
            <6>2. rate[c].count <= MaxPerWindow
              BY <4>2
            <6> HIDE DEF n
            <6> QED
              BY <4>3, <6>1, <6>2
          <5>2. counted[c][i] <= rate[c].start /\ counted[c][i] \in Nat
            BY <1>2, <4>2, <5>1
          <5> QED
            BY <1>1, <4>2, <5>2
        <4> HIDE DEF e, n
        <4> QED
          BY <1>1, <1>2, <3>2, <4>3
      <3>4. CASE c \notin DOMAIN rate
        <4>1. n = 0
          BY <3>4 DEF RateOK
        <4> HIDE DEF e, n
        <4> QED
          BY <1>1, <3>2, <4>1
      <3> QED
        BY <3>3, <3>4
    <2> QED
      BY <2>1, <2>2
  <1>4. f \in [start : Nat, count : Nat] /\ f.start = e.start /\ f.count = e.count + 1
    <2> HIDE DEF e
    <2> QED
      BY <1>3
  <1>5. /\ DOMAIN rate' = DOMAIN rate \cup {c} /\ rate'[c] = f
        /\ \A d \in DOMAIN rate \ {c} : rate'[d] = rate[d]
    BY DEF RecordRequest
  <1> HIDE DEF e, f
  <1>6. /\ counted' \in [Conn -> Seq(Nat)] /\ Len(counted'[c]) = n + 1
        /\ counted'[c][n + 1] = now
        /\ \A i \in 1 .. n : counted'[c][i] = counted[c][i]
        /\ \A d \in Conn \ {c} : counted'[d] = counted[d]
        /\ DOMAIN counted'[c] = 1 .. n + 1
    BY <1>1 DEF RecordRequest
  <1>7. WindowOK(c)'
    <2>1. /\ e.start \in Nat /\ e.count \in Nat
      BY <1>3
    <2>2. \A i \in 1 .. n + 1 : i <= (n + 1) - (e.count + 1) + 1 =>
              \/ i \in 1 .. n /\ i <= n - e.count + 1
              \/ i = n + 1 /\ e.count = 0
      BY <1>1, <2>1
    <2>3. \A i \in 1 .. n + 1 : i <= (n + 1) - (e.count + 1) - MaxPerWindow + 1 =>
              i \in 1 .. n /\ i <= n - e.count - MaxPerWindow + 1
      <3> DEFINE k == e.count
      <3>1. n \in Nat /\ k \in Nat /\ MaxPerWindow \in Nat /\ MaxPerWindow > 0
        BY <1>1, <2>1
      <3> HIDE DEF n, k
      <3>2. \A i \in 1 .. n + 1 : i <= (n + 1) - (k + 1) - MaxPerWindow + 1 =>
                i \in 1 .. n /\ i <= n - k - MaxPerWindow + 1
        BY <3>1
      <3> QED
        BY <3>2 DEF k
    <2>4. 1 <= f.count /\ f.count <= MaxPerWindow /\ f.start <= now
      BY <1>1, <1>3, <1>4, <2>1
    <2>5. ASSUME NEW i \in 1 .. n + 1, i <= (n + 1) - f.count + 1 PROVE counted'[c][i] <= f.start
      <3>1. CASE i \in 1 .. n /\ i <= n - e.count + 1
        <4>1. counted[c][i] <= e.start /\ counted'[c][i] = counted[c][i]
          BY <1>3, <1>6, <3>1
        <4> QED
          BY <1>4, <4>1
      <3>2. CASE i = n + 1 /\ e.count = 0
        <4>1. counted'[c][i] = now /\ e.start = now
          BY <1>3, <1>6, <3>2
        <4> QED
          BY <1>1, <1>4, <4>1
      <3> QED
        BY <1>4, <2>2, <2>5, <3>1, <3>2
    <2>6. ASSUME NEW i \in 1 .. n + 1, i <= (n + 1) - f.count - MaxPerWindow + 1
          PROVE  counted'[c][i] + Window <= f.start
      <3>1. i \in 1 .. n /\ i <= n - e.count - MaxPerWindow + 1
        BY <1>4, <2>3, <2>6
      <3>2. counted[c][i] + Window <= e.start /\ counted'[c][i] = counted[c][i]
        BY <1>3, <1>6, <3>1
      <3> QED
        BY <1>4, <3>2
    <2> HIDE DEF n
    <2>7. rate'[c] = f /\ Len(counted'[c]) = n + 1 /\ now' = now
      BY <1>5, <1>6
    <2>8. /\ rate'[c] \in [start : Nat, count : Nat] /\ 1 <= rate'[c].count
          /\ rate'[c].count <= MaxPerWindow /\ rate'[c].start <= now'
      BY <1>4, <2>4, <2>7
    <2>9. \A i \in 1 .. Len(counted'[c]) : i <= Len(counted'[c]) - rate'[c].count + 1 =>
              counted'[c][i] <= rate'[c].start
      BY <1>1, <1>4, <2>5, <2>7
    <2>10. \A i \in 1 .. Len(counted'[c]) :
              i <= Len(counted'[c]) - rate'[c].count - MaxPerWindow + 1 =>
                  counted'[c][i] + Window <= rate'[c].start
      <3> DEFINE l == Len(counted'[c])
                 k == rate'[c].count
                 s == rate'[c].start
      <3>1. l = n + 1 /\ k = f.count /\ s = f.start
        BY <2>7
      <3> HIDE DEF l, k, s
      <3>2. ASSUME NEW i \in 1 .. l, i <= l - k - MaxPerWindow + 1
            PROVE  counted'[c][i] + Window <= s
        <4>1. i \in 1 .. n + 1
          BY <3>1, Zenon
        <4>2. i <= (n + 1) - f.count - MaxPerWindow + 1
          BY <3>1, <3>2, Zenon
        <4>3. counted'[c][i] + Window <= f.start
          BY <2>6, <4>1, <4>2, Zenon
        <4> QED
          BY <3>1, <4>3, Zenon
      <3> QED
        BY <3>2 DEF l, k, s
    <2> QED
      BY <2>8, <2>9, <2>10 DEF WindowOK
  <1>8. ASSUME NEW d \in Conn
        PROVE  /\ \A i \in DOMAIN counted'[d] : counted'[d][i] <= now'
               /\ IF d \in DOMAIN rate' THEN WindowOK(d)' ELSE counted'[d] = << >>
    <2>1. CASE d = c
      <3>1. \A i \in 1 .. n + 1 : i \in 1 .. n \/ i = n + 1
        BY <1>1
      <3>2. ASSUME NEW i \in 1 .. n + 1 PROVE counted'[c][i] <= now
        <4>1. CASE i \in 1 .. n
          <5>1. counted'[c][i] = counted[c][i] /\ counted[c][i] <= now
            BY <1>2, <1>6, <4>1
          <5> QED
            BY <5>1
        <4>2. CASE i = n + 1
          <5>1. counted'[c][i] = now
            BY <1>6, <4>2
          <5> QED
            BY <1>1, <5>1
        <4> QED
          BY <3>1, <4>1, <4>2
      <3> HIDE DEF n
      <3> QED
        BY <1>5, <1>6, <1>7, <2>1, <3>2
    <2>2. CASE d # c
      <3>1. /\ counted'[d] = counted[d] /\ (d \in DOMAIN rate' <=> d \in DOMAIN rate)
            /\ (d \in DOMAIN rate => rate'[d] = rate[d])
        BY <1>5, <1>6, <2>2
      <3>2. d \in DOMAIN rate => WindowOK(d)'
        BY <3>1 DEF RateOK, WindowOK
      <3> QED
        BY <3>1, <3>2 DEF RateOK
    <2> QED
      BY <2>1, <2>2
  <1> QED
    BY <1>1, <1>5, <1>6, <1>8 DEF RateOK

\* The invariant of the rate limits.
LEMMA RateHolds == Spec => []RateOK
  <1>1. Init => RateOK
    BY DEF Init, RateOK
  <1>2. PInv /\ RateOK /\ [Next]_vars => RateOK'
    <2> SUFFICES ASSUME PInv, RateOK, [Next]_vars PROVE RateOK'
      OBVIOUS
    <2>1. ASSUME UNCHANGED <<rate, counted>>, now' = now \/ now' = now + 1 PROVE RateOK'
      <3>1. now \in Nat /\ now' \in Nat /\ now <= now'
        BY <2>1 DEF RateOK
      <3>2. ASSUME NEW c \in Conn, c \in DOMAIN rate PROVE WindowOK(c)'
        <4>1. WindowOK(c) /\ rate' = rate /\ counted' = counted
          BY <2>1, <3>2 DEF RateOK
        <4>2. rate[c].start <= now'
          <5>1. rate[c].start \in Nat /\ rate[c].start <= now
            BY <4>1 DEF WindowOK
          <5> QED
            BY <3>1, <5>1
        <4> QED
          BY <4>1, <4>2, Zenon DEF WindowOK
      <3>3. \A c \in Conn : \A i \in DOMAIN counted[c] : counted[c][i] \in Nat /\ counted[c][i] <= now'
        BY <2>1, <3>1 DEF RateOK
      <3> QED
        BY <2>1, <3>1, <3>2, <3>3 DEF RateOK
    <2>2. ASSUME NEW c \in Conn, NEW m \in Msg, NEW i \in Ids \ DOMAIN calls, Admit(c, m, i)
          PROVE  RateOK'
      BY <2>2, RecordKeepsRate DEF Admit
    <2>3. ASSUME NEW c \in Conn, PermitRefused(c) PROVE RateOK'
      BY <2>3, RecordKeepsRate DEF PermitRefused
    <2>4. ASSUME NEW i \in DOMAIN calls, CallStep(i) PROVE RateOK'
      <3>1. UNCHANGED <<rate, counted>>
        BY <2>4, CallSteps DEF Advance, EndCall, limits
      <3>2. UNCHANGED now
        BY <2>4 DEF CallStep, CheckFunding, CheckMeta, CheckProof, CheckSignature, CreateRoom,
             UpsertRoomRecord, ListRooms, ReadRoom, Join, Ready, BindAddress, BindSessionKeys, Act,
             Send, Joined
      <3> QED
        BY <2>1, <3>1, <3>2
    <2>5. ASSUME NEW i \in DOMAIN calls, Cancel(i) PROVE RateOK'
      BY <2>1, <2>5 DEF Cancel, EndCall
    <2>6. CASE ActorTakes
      BY <2>1, <2>6 DEF ActorTakes, EndCall, limits
    <2>7. CASE Tick \/ UNCHANGED vars
      BY <2>1, <2>7 DEF Tick, vars, limits
    <2>8. CASE Restart
      BY <2>8 DEF Restart, RateOK
    <2> QED
      BY <2>2, <2>3, <2>4, <2>5, <2>6, <2>7, <2>8 DEF Next, Serve
  <1> QED
    BY <1>1, <1>2, PInvHolds, PTL DEF Spec

\* check_and_record counts in windows that start with a request.  A stretch as long as a
\* window holds fewer requests than two of them may, whatever the clock does between.
THEOREM RateLimitHolds == Spec => []RateIsBounded
  <1>1. RateOK => RateIsBounded
    <2> SUFFICES ASSUME RateOK, NEW c \in Conn
                 PROVE  Cardinality({i \in DOMAIN counted[c] : now - counted[c][i] < Window})
                            < 2 * MaxPerWindow
      BY DEF RateIsBounded
    <2> DEFINE n == Len(counted[c])
               S == {i \in DOMAIN counted[c] : now - counted[c][i] < Window}
    <2>1. /\ now \in Nat /\ counted[c] \in Seq(Nat) /\ n \in Nat /\ DOMAIN counted[c] = 1 .. n
          /\ MaxPerWindow \in Nat \ {0} /\ Window \in Nat /\ \A i \in 1 .. n : counted[c][i] \in Nat
      BY LimitsAssumption DEF RateOK
    <2>2. CASE c \in DOMAIN rate
      <3> DEFINE k == rate[c].count
                 m == n - k - MaxPerWindow + 2
      <3>1. /\ k \in Nat /\ 1 <= k /\ k <= MaxPerWindow /\ rate[c].start \in Nat /\ rate[c].start <= now
            /\ \A i \in 1 .. n : i <= n - k - MaxPerWindow + 1 => counted[c][i] + Window <= rate[c].start
        BY <2>2 DEF RateOK, WindowOK
      <3> HIDE DEF k, n
      <3>2. ASSUME NEW i \in 1 .. n, now - counted[c][i] < Window PROVE i \in m .. n
        <4>1. ASSUME i <= n - k - MaxPerWindow + 1 PROVE FALSE
          <5>1. counted[c][i] + Window <= rate[c].start /\ rate[c].start <= now
            BY <3>1, <4>1
          <5>2. counted[c][i] \in Int /\ Window \in Int /\ rate[c].start \in Int /\ now \in Int
            BY <2>1, <3>1
          <5> QED
            BY <3>2, <5>1, <5>2
        <4> QED
          BY <2>1, <3>1, <4>1
      <3>3. S \subseteq m .. n
        BY <2>1, <3>2
      <3>4. m \in Int /\ m <= n + 1 /\ n - m + 1 < 2 * MaxPerWindow
        BY <2>1, <3>1
      <3> HIDE DEF m, S
      <3>5. IsFiniteSet(m .. n) /\ Cardinality(m .. n) < 2 * MaxPerWindow
        <4>1. n \in Int /\ 0 < 2 * MaxPerWindow
          BY <2>1
        <4>2. /\ IsFiniteSet(m .. n)
              /\ Cardinality(m .. n) = IF m > n THEN 0 ELSE n - m + 1
          BY <3>4, <4>1, FS_Interval
        <4> QED
          BY <3>4, <4>1, <4>2
      <3>6. Cardinality(S) <= Cardinality(m .. n) /\ IsFiniteSet(S)
        BY <3>3, <3>5, FS_Subset
      <3>7. Cardinality(S) \in Nat /\ Cardinality(m .. n) \in Nat
        BY <3>5, <3>6, FS_CardinalityType
      <3> QED
        BY <2>1, <3>5, <3>6, <3>7 DEF S
    <2>3. CASE c \notin DOMAIN rate
      <3>1. S = {}
        BY <2>3 DEF RateOK
      <3> HIDE DEF S
      <3>2. Cardinality(S) = 0
        BY <3>1, FS_EmptySet
      <3> QED
        BY <2>1, <3>2 DEF S
    <2> QED
      BY <2>2, <2>3
  <1> QED
    BY <1>1, RateHolds, PTL
=============================================================================
