--------------------------- MODULE SeatClientProofs ---------------------------
(***************************************************************************)
(* The theorems about the resident client of a seat, for any number of     *)
(* hands, turns and failures and for both policies.                        *)
(***************************************************************************)
EXTENDS SeatClient, SequenceTheorems, FiniteSetTheorems, TLAPS

-----------------------------------------------------------------------------
(***************************************************************************)
(* The inductive invariant.                                                *)
(***************************************************************************)
\* The steps of maybe_execute_turn, and all steps of the client's task.
TurnSteps == {"legal", "decide", "recheck", "execute", "act"}
Task == TurnSteps \cup {"join", "address", "keys", "ready", "connect", "subscribe", "sync", "poll",
                        "collect", "exit"}

TurnKey == Nat \X Nat
Table ==
    [hand : Nat, seq : Nat, acting : {"none", "me", "other"},
     status : {"Created", "Running", "Showdown", "Closed"}, facing : BOOLEAN]
Action == {"fold", "check", "call", "raiseto"}
TurnInput == [key : TurnKey, legal : SUBSET Action, fits : BOOLEAN, cards : SUBSET Nat]
Payment == [key : TurnKey, fits : BOOLEAN, seen : SUBSET Nat]

TypeOK ==
    /\ table \in Table
    /\ privateEvents \subseteq [hand : 1 .. table.hand, key : {CardKey}]
    /\ turn \in TurnInput
    /\ lastAttempted \in TurnKey
    /\ observed \in [hand : Int, closed : BOOLEAN]
    /\ observed.hand <= table.hand
    /\ payments \in Seq(Payment)
    /\ failures \in Seq(TurnKey)

\* Tasks none of which is of a turn.
Free(s) == s \in Seq(Task) /\ \A i \in DOMAIN s : s[i] \notin TurnSteps

\* Only the first task is of a turn: one turn is executed at a time.
TodoOK == todo \in Seq(Task) /\ (todo # << >> => Free(Tail(todo)))

\* Turns are ordered by hand and number.
Before(k, l) == k[1] < l[1] \/ (k[1] = l[1] /\ k[2] < l[2])

\* What the client knows of its turn is of the turn it names, or the room is past it,
\* and an execution is marked before it begins.
TurnOK ==
    /\ \A step \in TurnSteps : At(step) => ~Before(Key, turn.key)
    /\ \A step \in {"decide", "recheck"} : At(step) =>
           /\ turn.fits \/ Before(turn.key, Key)
           /\ turn.key # lastAttempted
    /\ \A step \in {"execute", "act"} : At(step) => turn.fits /\ lastAttempted = turn.key
    /\ \A step \in TurnSteps \ {"legal"} : At(step) => turn.cards = {turn.key[1]} \cap CardsOut
    /\ ~Before(Key, lastAttempted)

\* What was paid was right, and for a turn there was.
PayOK ==
    /\ PaysWhatTheTurnAsks
    /\ PaysSeeingItsCards
    /\ \A i \in DOMAIN payments : payments[i].key[1] <= table.hand

\* A turn may be paid for once more after the poll has seen its hand.
Seen(k) == IF observed.hand < k[1] THEN 0 ELSE 1

\* A turn that may be executed, or is about to be paid for, has been paid for only as
\* often as there are causes.
CauseOK ==
    \A k \in Turns :
        /\ Paying(k) <= 1 + Seen(k) + Failing(k)
        /\ lastAttempted # k /\ ~Before(k, Key) => Paying(k) <= Seen(k) + Failing(k)
        /\ At("execute") /\ turn.key = k => Paying(k) <= Seen(k) + Failing(k)

IInv == TypeOK /\ TodoOK /\ TurnOK /\ PayOK /\ CauseOK
-----------------------------------------------------------------------------
(***************************************************************************)
(* The tasks.                                                              *)
(***************************************************************************)
\* Tasks that are not of a turn.
LEMMA FreeTodo ==
    ASSUME Free(todo')
    PROVE  TodoOK' /\ \A step \in TurnSteps : ~At(step)'
<1>1. todo' \in Seq(Task) /\ \A i \in DOMAIN todo' : todo'[i] \notin TurnSteps
  BY DEF Free
<1>2. CASE todo' = << >>
  BY <1>1, <1>2 DEF TodoOK, At
<1>3. CASE todo' # << >>
  <2>1. /\ Head(todo') = todo'[1] /\ 1 \in DOMAIN todo' /\ Tail(todo') \in Seq(Task)
        /\ \A i \in DOMAIN Tail(todo') : i + 1 \in DOMAIN todo' /\ Tail(todo')[i] = todo'[i + 1]
    BY <1>1, <1>3
  <2>2. Free(Tail(todo'))
    BY <1>1, <2>1 DEF Free
  <2> QED BY <1>1, <2>1, <2>2 DEF TodoOK, At
<1> QED BY <1>2, <1>3

\* The first task is done.
LEMMA DoneTodo ==
    ASSUME TodoOK, todo # << >>, todo' = Tail(todo)
    PROVE  TodoOK' /\ \A step \in TurnSteps : ~At(step)'
BY FreeTodo DEF TodoOK

\* The first task leads on to another one.
LEMMA NextTodo ==
    ASSUME TodoOK, todo # << >>, NEW x \in Task, todo' = <<x>> \o Tail(todo)
    PROVE  TodoOK' /\ \A step : At(step)' <=> step = x
<1> DEFINE rest == Tail(todo)
           new == <<x>> \o rest
<1>1. Free(rest) /\ rest \in Seq(Task) /\ <<x>> \in Seq(Task) /\ Len(<<x>>) = 1 /\ <<x>>[1] = x
  BY DEF TodoOK, Free
<1> HIDE DEF rest
<1> DEFINE one == <<x>>
<1>2. one \in Seq(Task) /\ Len(one) = 1 /\ one[1] = x /\ new = one \o rest
  BY <1>1
<1> HIDE DEF one, new
<1>3. /\ new \in Seq(Task) /\ Len(new) = Len(one) + Len(rest)
      /\ \A k \in 1 .. Len(one) + Len(rest) :
             new[k] = IF k <= Len(one) THEN one[k] ELSE rest[k - Len(one)]
  BY <1>1, <1>2, ConcatProperties, Zenon
<1>4. /\ new # << >> /\ Head(new) = x /\ Tail(new) \in Seq(Task) /\ Len(Tail(new)) = Len(rest)
      /\ \A k \in DOMAIN Tail(new) : k \in DOMAIN rest /\ Tail(new)[k] = rest[k]
  BY <1>1, <1>2, <1>3
<1>5. Free(Tail(new))
  BY <1>1, <1>4 DEF Free
<1>6. todo' = new
  BY DEF new, rest
<1> QED BY <1>3, <1>4, <1>5, <1>6 DEF TodoOK, At
-----------------------------------------------------------------------------
(***************************************************************************)
(* The room.                                                               *)
(***************************************************************************)
\* The room is where it was, one turn on, or at another hand.
Onward ==
    \/ table' = table
    \/ table'.hand = table.hand /\ table'.seq = table.seq + 1
    \/ table'.hand = table.hand + 1

\* The room never goes back to an earlier turn.
LEMMA KeyGrows ==
    ASSUME table \in Table, table' \in Table, Onward
    PROVE  /\ Key \in TurnKey /\ Key' \in TurnKey /\ Key[1] = table.hand /\ Key'[1] = table'.hand
           /\ table.hand \in Nat /\ table'.hand \in Nat /\ table.hand <= table'.hand
           /\ \A k \in TurnKey : /\ Before(k, Key) => Before(k, Key')
                                 /\ ~Before(Key, k) => ~Before(Key', k)
<1>1. /\ table.hand \in Nat /\ table.seq \in Nat /\ table'.hand \in Nat /\ table'.seq \in Nat
  BY DEF Table
<1>2. /\ Key \in TurnKey /\ Key[1] = table.hand /\ Key[2] = table.seq
      /\ Key' \in TurnKey /\ Key'[1] = table'.hand /\ Key'[2] = table'.seq
  BY <1>1 DEF Key, TurnKey
<1>3. table.hand <= table'.hand /\ (table'.hand = table.hand => table.seq <= table'.seq)
  BY <1>1 DEF Onward
<1>4. ASSUME NEW k \in TurnKey
      PROVE  /\ Before(k, Key) => Before(k, Key')
             /\ ~Before(Key, k) => ~Before(Key', k)
  <2>1. k[1] \in Nat /\ k[2] \in Nat
    BY DEF TurnKey
  <2> QED BY <1>1, <1>2, <1>3, <2>1 DEF Before
<1> QED BY <1>1, <1>2, <1>3, <1>4

\* Who is to act at a new turn, and whether it faces a bet.
LEMMA NewTurnOK ==
    ASSUME NEW t \in {<<"me", TRUE>>, <<"me", FALSE>>, <<"other", FALSE>>}
    PROVE  t[1] \in {"none", "me", "other"} /\ t[2] \in BOOLEAN
<1>1. CASE t = <<"me", TRUE>>
  BY <1>1
<1>2. CASE t = <<"me", FALSE>>
  BY <1>2
<1>3. CASE t = <<"other", FALSE>>
  BY <1>3
<1> QED BY <1>1, <1>2, <1>3

\* Whoever acts, the room is one turn on.
LEMMA AdvanceTable ==
    ASSUME table \in Table, Advance
    PROVE  table' \in Table /\ Onward /\ table'.hand = table.hand
<1>1. table.hand \in Nat /\ table.seq \in Nat /\ table.seq + 1 \in Nat
  BY DEF Table
<1>2. CASE NewTurn(table.hand, table.seq + 1)
  <2>1. PICK t \in {<<"me", TRUE>>, <<"me", FALSE>>, <<"other", FALSE>>} :
            table' = [hand |-> table.hand, seq |-> table.seq + 1, acting |-> t[1],
                      status |-> "Running", facing |-> t[2]]
    BY <1>2 DEF NewTurn
  <2>2. t[1] \in {"none", "me", "other"} /\ t[2] \in BOOLEAN
    BY NewTurnOK
  <2> QED BY <1>1, <2>1, <2>2 DEF Table, Onward
<1>3. CASE EndHand
  BY <1>1, <1>3 DEF EndHand, Table, Onward
<1>4. CASE table' = [table EXCEPT !.seq = @ + 1, !.acting = "none", !.status = "Showdown"]
  BY <1>1, <1>4 DEF Table, Onward
<1> QED BY <1>2, <1>3, <1>4 DEF Advance

\* The cards of the hands there were.
CardsStand == \A h \in Nat : h <= table.hand => {h} \cap CardsOut' = {h} \cap CardsOut

\* A step that pays nothing and begins nothing.
LEMMA Quiet ==
    ASSUME IInv, TodoOK', table' \in Table, Onward,
           privateEvents' \subseteq [hand : 1 .. table'.hand, key : {CardKey}], CardsStand,
           UNCHANGED <<lastAttempted, observed, payments, failures>>, turn' \in TurnInput,
           \/ \A step \in TurnSteps : ~At(step)'
           \/ UNCHANGED <<todo, turn>>
    PROVE  IInv'
<1>1. /\ table \in Table /\ turn \in TurnInput /\ turn.key \in TurnKey /\ lastAttempted \in TurnKey
      /\ observed \in [hand : Int, closed : BOOLEAN] /\ observed.hand \in Int
      /\ observed.hand <= table.hand /\ payments \in Seq(Payment)
  BY DEF IInv, TypeOK, TurnInput
<1>2. /\ Key \in TurnKey /\ Key[1] = table.hand
      /\ table.hand \in Nat /\ table'.hand \in Nat /\ table.hand <= table'.hand
      /\ \A k \in TurnKey : /\ Before(k, Key) => Before(k, Key')
                            /\ ~Before(Key, k) => ~Before(Key', k)
  BY <1>1, KeyGrows
<1>3. TypeOK'
  BY <1>1, <1>2 DEF IInv, TypeOK
<1>4. TurnOK'
  <2>1. CASE \A step \in TurnSteps : ~At(step)'
    BY <1>1, <1>2, <2>1 DEF IInv, TurnOK, TurnSteps
  <2>2. CASE UNCHANGED <<todo, turn>>
    <3>1. \A step : At(step)' <=> At(step)
      BY <2>2 DEF At
    <3>2. \A step \in TurnSteps : At(step) => {turn.key[1]} \cap CardsOut' = {turn.key[1]} \cap CardsOut
      <4>1. turn.key[1] \in Nat /\ turn.key[2] \in Nat
        BY <1>1 DEF TurnKey
      <4>2. ~Before(Key, turn.key) => turn.key[1] <= table.hand
        BY <1>2, <4>1 DEF Before
      <4> QED BY <4>1, <4>2 DEF IInv, TurnOK, CardsStand
    <3>3. /\ \A step \in TurnSteps : At(step)' => ~Before(Key, turn.key)'
          /\ ~Before(Key, lastAttempted)'
      BY <1>1, <1>2, <2>2, <3>1 DEF IInv, TurnOK
    <3>4. \A step \in {"decide", "recheck"} : At(step)' =>
             /\ turn'.fits \/ Before(turn.key, Key)'
             /\ turn'.key # lastAttempted'
      BY <1>1, <1>2, <2>2, <3>1 DEF IInv, TurnOK
    <3>5. /\ \A step \in {"execute", "act"} : At(step)' => turn'.fits /\ lastAttempted' = turn'.key
          /\ \A step \in TurnSteps \ {"legal"} : At(step)' => turn'.cards = {turn'.key[1]} \cap CardsOut'
      BY <2>2, <3>1, <3>2 DEF IInv, TurnOK
    <3> QED BY <3>3, <3>4, <3>5 DEF TurnOK
  <2> QED BY <2>1, <2>2
<1>5. PayOK'
  <2>1. ASSUME NEW i \in DOMAIN payments
        PROVE  payments[i].key[1] \in Nat /\ payments[i].key[1] <= table.hand
    <3>1. payments[i] \in Payment
      BY <1>1
    <3> QED BY <3>1 DEF IInv, PayOK, Payment, TurnKey
  <2>2. PaysWhatTheTurnAsks' /\ PaysSeeingItsCards'
    BY <2>1 DEF IInv, PayOK, PaysWhatTheTurnAsks, PaysSeeingItsCards, CardsStand
  <2> QED BY <1>2, <2>1, <2>2 DEF PayOK
<1>6. CauseOK'
  <2>1. \A k : Paying(k)' = Paying(k) /\ Failing(k)' = Failing(k) /\ Seen(k)' = Seen(k)
    BY DEF Paying, Failing, Seen
  <2>2. At("execute")' => At("execute") /\ turn' = turn
    BY DEF At, TurnSteps
  <2>3. \A k \in Turns : k \in TurnKey
    BY BoundAssumption DEF Turns, TurnKey
  <2> QED BY <1>2, <2>1, <2>2, <2>3 DEF IInv, CauseOK
<1> QED BY <1>3, <1>4, <1>5, <1>6 DEF IInv

\* What the client keeps when nothing of the room changes.
LEMMA RoomStands ==
    ASSUME IInv, UNCHANGED <<table, privateEvents>>
    PROVE  /\ table' \in Table /\ Onward /\ CardsStand
           /\ privateEvents' \subseteq [hand : 1 .. table'.hand, key : {CardKey}]
BY DEF IInv, TypeOK, Onward, CardsStand, CardsOut

\* The room goes on without the client.
LEMMA RoomMovesIInv ==
    ASSUME IInv, RoomMoves
    PROVE  IInv'
<1> USE DEF turnVars, history
<1>1. UNCHANGED <<seat, privateEvents, todo, link, turnVars, observed, synced, history, faults>>
  BY DEF RoomMoves
<1>2. table \in Table /\ turn \in TurnInput
      /\ privateEvents \subseteq [hand : 1 .. table.hand, key : {CardKey}]
  BY DEF IInv, TypeOK
<1>3. table' \in Table /\ Onward /\ table'.hand = table.hand
  <2>1. CASE Advance
    BY <1>2, <2>1, AdvanceTable
  <2>2. CASE EndHand
    <3>1. Advance
      BY <2>2 DEF Advance
    <3> QED BY <1>2, <3>1, AdvanceTable
  <2> QED BY <2>1, <2>2 DEF RoomMoves
<1>4. CardsStand /\ TodoOK'
  BY <1>1 DEF CardsStand, CardsOut, IInv, TodoOK
<1> QED BY <1>1, <1>2, <1>3, <1>4, Quiet

\* The cards of a new hand are of no hand there was.
LEMMA DealIInv ==
    ASSUME IInv, Deal
    PROVE  IInv'
<1> USE DEF turnVars, history
<1>1. UNCHANGED <<seat, todo, link, turnVars, observed, synced, history, faults>>
  BY DEF Deal
<1>2. /\ table \in Table /\ turn \in TurnInput /\ table.hand \in Nat
      /\ privateEvents \subseteq [hand : 1 .. table.hand, key : {CardKey}]
  BY DEF IInv, TypeOK, Table
<1>3. table' \in Table /\ table'.hand = table.hand + 1
  <2>1. PICK t \in {<<"me", TRUE>>, <<"me", FALSE>>, <<"other", FALSE>>} :
            table' = [hand |-> table.hand + 1, seq |-> 1, acting |-> t[1],
                      status |-> "Running", facing |-> t[2]]
    BY DEF Deal, NewTurn
  <2>2. t[1] \in {"none", "me", "other"} /\ t[2] \in BOOLEAN
    BY NewTurnOK
  <2> QED BY <1>2, <2>1, <2>2 DEF Table
<1>4. privateEvents' = privateEvents
      \/ privateEvents' = privateEvents \cup {[hand |-> table.hand + 1, key |-> CardKey]}
  BY DEF Deal, build_hole_cards_private_events, encrypt_hole_cards_dealt_payload
<1>5. /\ privateEvents' \subseteq [hand : 1 .. table'.hand, key : {CardKey}]
      /\ privateEvents \subseteq privateEvents'
      /\ \A e \in privateEvents' : e \in privateEvents \/ e.hand = table.hand + 1
  BY <1>2, <1>3, <1>4
<1>6. CardsStand
  BY <1>2, <1>5 DEF CardsStand, CardsOut
<1>7. TodoOK' /\ Onward
  BY <1>1, <1>3 DEF IInv, TodoOK, Onward
<1> QED BY <1>1, <1>2, <1>3, <1>5, <1>6, <1>7, Quiet
-----------------------------------------------------------------------------
(***************************************************************************)
(* The client outside its turns.                                           *)
(***************************************************************************)
\* No turn is a turn too.
LEMMA UndecidedOK == NoTurn \in TurnKey /\ NoTurn[1] = 0 /\ NoTurn[2] = 0 /\ Undecided \in TurnInput
<1>1. NoTurn \in TurnKey /\ NoTurn[1] = 0 /\ NoTurn[2] = 0
  BY DEF NoTurn, TurnKey
<1>2. Undecided \in TurnInput
  BY <1>1 DEF Undecided, TurnInput
<1> QED BY <1>1, <1>2

\* Such a step of the client, with the room as it was.
LEMMA ClientQuiet ==
    ASSUME IInv, TodoOK', \A step \in TurnSteps : ~At(step)',
           UNCHANGED <<table, privateEvents, lastAttempted, observed, payments, failures>>,
           turn' = turn \/ turn' = Undecided
    PROVE  IInv'
<1>1. turn' \in TurnInput
  BY UndecidedOK DEF IInv, TypeOK
<1> QED BY <1>1, RoomStands, Quiet

\* A list of one to three tasks that are not of a turn.
LEMMA FreeLists ==
    ASSUME NEW x \in Task \ TurnSteps, NEW y \in Task \ TurnSteps, NEW z \in Task \ TurnSteps
    PROVE  Free(<<x>>) /\ Free(<<x, y>>) /\ Free(<<x, y, z>>)
BY DEF Free

\* What is left of the tasks is not of a turn.
LEMMA FreeRest ==
    ASSUME TodoOK, todo # << >>, NEW m \in 2 .. 5
    PROVE  Free(SubSeq(todo, m, Len(todo)))
<1>1. /\ todo \in Seq(Task) /\ Len(todo) \in Nat /\ Len(todo) >= 1
      /\ \A i \in 2 .. Len(todo) : todo[i] \notin TurnSteps
  <2>1. todo \in Seq(Task) /\ Free(Tail(todo)) /\ Len(todo) \in Nat /\ Len(todo) >= 1
    BY DEF TodoOK
  <2>2. ASSUME NEW i \in 2 .. Len(todo)
        PROVE  todo[i] \notin TurnSteps
    <3>1. i - 1 \in DOMAIN Tail(todo) /\ Tail(todo)[i - 1] = todo[i]
      BY <2>1
    <3> QED BY <2>1, <3>1 DEF Free
  <2> QED BY <2>1, <2>2
<1>2. CASE m <= Len(todo)
  <2>1. /\ SubSeq(todo, m, Len(todo)) \in Seq(Task)
        /\ \A i \in DOMAIN SubSeq(todo, m, Len(todo)) :
               /\ i + m - 1 \in 2 .. Len(todo)
               /\ SubSeq(todo, m, Len(todo))[i] = todo[i + m - 1]
    BY <1>1, <1>2
  <2> QED BY <1>1, <2>1 DEF Free
<1>3. CASE m > Len(todo)
  <2>1. SubSeq(todo, m, Len(todo)) = << >>
    BY <1>1, <1>3
  <2> QED BY <2>1 DEF Free
<1> QED BY <1>1, <1>2, <1>3

\* The steps of the preparation.
LEMMA PrepareStepsOK ==
    /\ ToSet(PrepareSteps) = {"join", "address", "keys", "ready"}
    /\ Free(PrepareSteps) /\ Len(PrepareSteps) = 4 /\ DOMAIN PrepareSteps = 1 .. 4
<1>1. /\ PrepareSteps \in Seq(Task) /\ Len(PrepareSteps) = 4 /\ DOMAIN PrepareSteps = 1 .. 4
      /\ PrepareSteps[1] = "join" /\ PrepareSteps[2] = "address" /\ PrepareSteps[3] = "keys"
      /\ PrepareSteps[4] = "ready"
  BY DEF PrepareSteps, Task
<1>2. ToSet(PrepareSteps) = {"join", "address", "keys", "ready"}
  BY <1>1 DEF ToSet
<1>3. Free(PrepareSteps)
  BY <1>1 DEF Free, TurnSteps
<1> QED BY <1>1, <1>2, <1>3

\* A preparation that fails is over.
LEMMA AfterPreparingFree ==
    ASSUME TodoOK, todo # << >>, NEW step \in ToSet(PrepareSteps)
    PROVE  Free(AfterPreparing(step))
<1> DEFINE k == CHOOSE i \in DOMAIN PrepareSteps : PrepareSteps[i] = step
<1>1. k \in DOMAIN PrepareSteps
  BY DEF ToSet
<1> HIDE DEF k
<1>2. k \in 1 .. 4 /\ Len(PrepareSteps) - k + 2 \in 2 .. 5
  BY <1>1, PrepareStepsOK
<1>3. AfterPreparing(step) = SubSeq(todo, Len(PrepareSteps) - k + 2, Len(todo))
  BY DEF AfterPreparing, k
<1> QED BY <1>2, <1>3, FreeRest

\* A step of the preparation.
LEMMA PrepareIInv ==
    ASSUME IInv, NEW step \in ToSet(PrepareSteps), prepare_seat(step)
    PROVE  IInv'
<1> USE DEF turnVars, history
<1>1. UNCHANGED <<table, privateEvents, link, inbox, turnVars, observed, synced, history>>
  BY DEF prepare_seat
<1>2. todo # << >> /\ TodoOK
  BY DEF prepare_seat, At, IInv
<1>3. TodoOK' /\ \A x \in TurnSteps : ~At(x)'
  <2>1. CASE Done
    BY <1>2, <2>1, DoneTodo DEF Done
  <2>2. CASE PrepareFails(step)
    <3>1. Free(<<"exit">>) /\ Free(AfterPreparing(step))
      <4>1. "exit" \in Task \ TurnSteps
        BY DEF Task, TurnSteps
      <4> QED BY <1>2, <4>1, AfterPreparingFree, FreeLists
    <3> QED BY <2>2, <3>1, FreeTodo DEF PrepareFails
  <2> QED BY <2>1, <2>2 DEF prepare_seat
<1> QED BY <1>1, <1>3, ClientQuiet

\* The session: connecting, subscribing, ticks and events.
LEMMA SessionIInv ==
    ASSUME IInv, Session
    PROVE  IInv'
<1> USE DEF turnVars, history, roomVars
<1> DEFINE new == {<<"subscribe">>, <<"sync", "poll", "collect">>, <<"connect">>,
                   <<"poll", "sync", "collect">>, <<"collect">>, <<"poll">>}
<1>1. \A s \in new : Free(s)
  <2>1. {"subscribe", "sync", "poll", "collect", "connect"} \subseteq Task \ TurnSteps
    BY DEF Task, TurnSteps
  <2> QED BY <2>1, FreeLists
<1>2. CASE connect_ws /\ UNCHANGED todo
  <2>1. UNCHANGED <<table, privateEvents, turn, lastAttempted, observed, payments, failures>>
    BY <1>2 DEF connect_ws
  <2>2. TodoOK' /\ turn' \in TurnInput
    BY <1>2, <2>1 DEF IInv, TodoOK, TypeOK
  <2> QED BY <1>2, <2>1, <2>2, RoomStands, Quiet
<1>3. CASE ~(connect_ws /\ UNCHANGED todo)
  <2>1. /\ todo' \in new
        /\ UNCHANGED <<table, privateEvents, turn, lastAttempted, observed, payments, failures>>
    <3>1. CASE connect_ws
      BY <1>3, <3>1 DEF connect_ws
    <3>2. CASE subscribe_events
      BY <3>2 DEF subscribe_events
    <3>3. CASE SafetyTick
      BY <3>3 DEF SafetyTick
    <3>4. CASE SocketCloses
      BY <3>4 DEF SocketCloses
    <3>5. CASE \E e \in {"turn_started", "hand_closed"} : HandleEvent(e)
      BY <3>5 DEF HandleEvent
    <3> QED BY <3>1, <3>2, <3>3, <3>4, <3>5 DEF Session
  <2>2. Free(todo')
    BY <1>1, <2>1
  <2>3. TodoOK' /\ \A x \in TurnSteps : ~At(x)'
    BY <2>2, FreeTodo
  <2> QED BY <2>1, <2>3, ClientQuiet
<1> QED BY <1>2, <1>3

\* The cards of the hand are asked for.
LEMMA SyncIInv ==
    ASSUME IInv, sync_hole_cards_for_current_hand
    PROVE  IInv'
<1> USE DEF turnVars, history, roomVars
<1>1. /\ UNCHANGED <<table, privateEvents, turn, lastAttempted, observed, payments, failures>>
      /\ todo # << >> /\ todo' = Tail(todo)
  BY DEF sync_hole_cards_for_current_hand, At, Done
<1>2. TodoOK' /\ \A x \in TurnSteps : ~At(x)'
  BY <1>1, DoneTodo DEF IInv
<1> QED BY <1>1, <1>2, ClientQuiet

\* Tasks after tasks.
LEMMA FreeConcat ==
    ASSUME NEW s, NEW t, Free(s), Free(t)
    PROVE  Free(s \o t)
<1>1. s \in Seq(Task) /\ t \in Seq(Task)
  BY DEF Free
<1> DEFINE new == s \o t
<1>2. /\ new \in Seq(Task) /\ Len(new) = Len(s) + Len(t)
      /\ \A k \in 1 .. Len(s) + Len(t) : new[k] = IF k <= Len(s) THEN s[k] ELSE t[k - Len(s)]
  BY <1>1, ConcatProperties, Zenon
<1> HIDE DEF new
<1>3. ASSUME NEW k \in DOMAIN new
      PROVE  new[k] \notin TurnSteps
  <2>1. CASE k <= Len(s)
    <3>1. k \in DOMAIN s /\ new[k] = s[k]
      BY <1>1, <1>2, <2>1
    <3> QED BY <3>1 DEF Free
  <2>2. CASE ~(k <= Len(s))
    <3>1. k - Len(s) \in DOMAIN t /\ new[k] = t[k - Len(s)]
      BY <1>1, <1>2, <2>2
    <3> QED BY <3>1 DEF Free
  <2> QED BY <2>1, <2>2
<1>4. Free(new)
  BY <1>2, <1>3 DEF Free
<1> QED BY <1>4 DEF new

\* The numbers of payments and failures.
LEMMA CountsOK ==
    ASSUME TypeOK, NEW k
    PROVE  Paying(k) \in Nat /\ Failing(k) \in Nat
<1>1. /\ DOMAIN payments = 1 .. Len(payments) /\ Len(payments) \in Nat
      /\ DOMAIN failures = 1 .. Len(failures) /\ Len(failures) \in Nat
  BY DEF TypeOK
<1>2. IsFiniteSet(DOMAIN payments) /\ IsFiniteSet(DOMAIN failures)
  BY <1>1, FS_Interval
<1>3. /\ IsFiniteSet({i \in DOMAIN payments : payments[i].key = k})
      /\ IsFiniteSet({i \in DOMAIN failures : failures[i] = k})
  BY <1>2, FS_Subset
<1> QED BY <1>3, FS_CardinalityType DEF Paying, Failing

\* The poll that sees a new hand forgets the attempted turn: a turn of that hand may be
\* paid for once more.
LEMMA PollIInv ==
    ASSUME IInv, poll_room_hand_state
    PROVE  IInv'
<1> USE DEF turnVars, history, roomVars
<1>1. /\ UNCHANGED <<table, privateEvents, turn, payments, failures>>
      /\ todo # << >> /\ TodoOK
  BY DEF poll_room_hand_state, At, IInv
<1>2. TodoOK' /\ \A x \in TurnSteps : ~At(x)'
  <2>1. Free(Tail(todo)) /\ Free(PrepareSteps)
    BY <1>1, PrepareStepsOK DEF TodoOK
  <2>2. Free(PrepareSteps \o Tail(todo))
    BY <2>1, FreeConcat
  <2>3. todo' = Tail(todo) \/ todo' = PrepareSteps \o Tail(todo)
    BY DEF poll_room_hand_state, Done
  <2> QED BY <2>1, <2>2, <2>3, FreeTodo
<1>3. CASE UNCHANGED <<observed, lastAttempted>>
  BY <1>1, <1>2, <1>3, ClientQuiet
<1>4. CASE /\ observed' = [hand |-> table.hand, closed |-> HandOver]
           /\ lastAttempted' = IF observed.hand \notin {-1, table.hand} THEN NoTurn ELSE lastAttempted
  <2>1. /\ table \in Table /\ table.hand \in Nat /\ Key \in TurnKey /\ Key[1] = table.hand
        /\ lastAttempted \in TurnKey /\ observed.hand \in Int /\ observed.hand <= table.hand
        /\ Key[2] \in Nat
    BY DEF IInv, TypeOK, Table, Key, TurnKey
  <2>2. /\ lastAttempted' \in TurnKey
        /\ lastAttempted' = lastAttempted
             \/ (lastAttempted' = NoTurn /\ observed.hand # table.hand)
    BY <1>4, <2>1, UndecidedOK
  <2>3. ~Before(Key, lastAttempted) /\ ~Before(Key, lastAttempted')
    BY <2>1, <2>2, UndecidedOK DEF IInv, TurnOK, Before
  <2>4. TypeOK'
    <3>1. observed' \in [hand : Int, closed : BOOLEAN] /\ observed'.hand = table.hand
      BY <1>4, <2>1 DEF HandOver
    <3> QED BY <1>1, <2>1, <2>2, <3>1 DEF IInv, TypeOK
  <2>5. TurnOK'
    <3>1. Key' = Key
      BY <1>1 DEF Key
    <3> QED BY <1>2, <2>3, <3>1 DEF TurnOK, TurnSteps
  <2>6. PayOK'
    BY <1>1 DEF IInv, PayOK, PaysWhatTheTurnAsks, PaysSeeingItsCards, CardsOut
  <2>7. ASSUME NEW k \in Turns
        PROVE  /\ Paying(k)' <= 1 + Seen(k)' + Failing(k)'
               /\ lastAttempted' # k /\ ~Before(k, Key') => Paying(k)' <= Seen(k)' + Failing(k)'
    <3>1. Paying(k)' = Paying(k) /\ Failing(k)' = Failing(k) /\ Key' = Key
      BY <1>1 DEF Paying, Failing, Key
    <3>2. Paying(k) \in Nat /\ Failing(k) \in Nat
      BY CountsOK DEF IInv
    <3>3. k \in TurnKey /\ k[1] \in Nat /\ k[2] \in Nat
      BY BoundAssumption DEF Turns, TurnKey
    <3>4. Seen(k) \in 0 .. 1 /\ Seen(k)' \in 0 .. 1 /\ Seen(k) <= Seen(k)'
      BY <1>4, <2>1, <3>3 DEF Seen
    <3>5. Paying(k) <= 1 + Seen(k) + Failing(k)
      BY DEF IInv, CauseOK
    <3>6. lastAttempted # k /\ ~Before(k, Key) => Paying(k) <= Seen(k) + Failing(k)
      BY DEF IInv, CauseOK
    <3>7. CASE lastAttempted # k \/ lastAttempted' = lastAttempted
      BY <3>1, <3>2, <3>4, <3>5, <3>6, <3>7
    <3>8. CASE lastAttempted = k /\ lastAttempted' = NoTurn /\ observed.hand # table.hand
      <4>1. ~Before(k, Key) => k[1] = table.hand
        BY <2>1, <2>3, <3>3, <3>8 DEF Before
      <4>2. ~Before(k, Key) => Seen(k) = 0 /\ Seen(k)' = 1
        BY <1>4, <2>1, <3>3, <3>8, <4>1 DEF Seen
      <4> QED BY <3>1, <3>2, <3>4, <3>5, <4>2
    <3> QED BY <2>2, <3>7, <3>8
  <2>8. CauseOK'
    <3>1. ~At("execute")'
      BY <1>2 DEF TurnSteps
    <3> QED BY <2>7, <3>1 DEF CauseOK
  <2> QED BY <1>2, <2>4, <2>5, <2>6, <2>8 DEF IInv
<1> QED BY <1>3, <1>4 DEF poll_room_hand_state
-----------------------------------------------------------------------------
(***************************************************************************)
(* A turn of the client.                                                   *)
(***************************************************************************)
\* A step of a turn before its execution.
LEMMA Unpaid ==
    ASSUME IInv, UNCHANGED <<table, privateEvents, lastAttempted, observed, payments, failures>>,
           TodoOK', TurnOK', ~At("execute")', turn' \in TurnInput
    PROVE  IInv'
<1>1. TypeOK'
  BY DEF IInv, TypeOK
<1>2. PayOK'
  BY DEF IInv, PayOK, PaysWhatTheTurnAsks, PaysSeeingItsCards, CardsOut
<1>3. \A k : /\ Paying(k)' = Paying(k) /\ Failing(k)' = Failing(k) /\ Seen(k)' = Seen(k)
             /\ Before(k, Key') = Before(k, Key)
  BY DEF Paying, Failing, Seen, Key
<1>4. CauseOK'
  BY <1>3 DEF IInv, CauseOK
<1> QED BY <1>1, <1>2, <1>4 DEF IInv

\* maybe_execute_turn returns.
LEMMA ReturnIInv ==
    ASSUME IInv, todo # << >>, Return,
           UNCHANGED <<table, privateEvents, lastAttempted, observed, payments, failures>>
    PROVE  IInv'
<1>1. TodoOK' /\ \A step \in TurnSteps : ~At(step)'
  BY DoneTodo DEF Return, Done, IInv
<1> QED BY <1>1, ClientQuiet DEF Return

\* The turn is the one the room is at.
LEMMA CollectStateIInv ==
    ASSUME IInv, CollectState
    PROVE  IInv'
<1> USE DEF roomVars, history
<1>1. /\ todo # << >> /\ TodoOK
      /\ UNCHANGED <<table, privateEvents, lastAttempted, observed, payments, failures>>
  BY DEF CollectState, At, IInv
<1>2. CASE Return
  BY <1>1, <1>2, ReturnIInv
<1>3. CASE turn' = [Undecided EXCEPT !.key = Key] /\ todo' = <<"legal">> \o Tail(todo)
  <2>1. Key \in TurnKey /\ Key' = Key /\ Key[1] \in Nat /\ Key[2] \in Nat
    BY <1>1 DEF IInv, TypeOK, Table, Key, TurnKey
  <2>2. turn' \in TurnInput /\ turn'.key = Key
    BY <1>3, <2>1, UndecidedOK DEF TurnInput
  <2>3. TodoOK' /\ \A step : At(step)' <=> step = "legal"
    BY <1>1, <1>3, NextTodo DEF Task, TurnSteps
  <2>4. ~Before(Key', turn'.key) /\ ~Before(Key', lastAttempted')
    BY <1>1, <2>1, <2>2 DEF Before, IInv, TurnOK
  <2>5. TurnOK'
    BY <2>3, <2>4 DEF TurnOK
  <2> QED BY <1>1, <2>2, <2>3, <2>5, Unpaid
<1> QED BY <1>2, <1>3 DEF CollectState

\* The client's secret opens the envelope of the hand, if there is one.
LEMMA CardsOfHand ==
    ASSUME TypeOK, NEW h
    PROVE  build_private_state_json(GetPrivateEvents(h)) = {h} \cap CardsOut
<1>1. \A e \in privateEvents : e.key = CardKey
  BY DEF TypeOK
<1> QED BY <1>1 DEF build_private_state_json, GetPrivateEvents, decrypt_with_recipient_x25519, CardsOut

\* The legal actions are of the turn, or the room is past it.
LEMMA CollectLegalIInv ==
    ASSUME IInv, CollectLegal
    PROVE  IInv'
<1> USE DEF roomVars, history
<1> DEFINE cards == build_private_state_json(GetPrivateEvents(turn.key[1]))
<1>1. /\ todo # << >> /\ TodoOK /\ At("legal")
      /\ UNCHANGED <<table, privateEvents, lastAttempted, observed, payments, failures>>
  BY DEF CollectLegal, At, IInv
<1>2. CASE Return
  BY <1>1, <1>2, ReturnIInv
<1>3. CASE /\ turn.key # lastAttempted
           /\ turn' = [turn EXCEPT !.legal = legal_actions, !.fits = Key = turn.key, !.cards = cards]
           /\ todo' = <<"decide">> \o Tail(todo)
  <2>1. /\ Key \in TurnKey /\ Key' = Key /\ Key[1] \in Nat /\ Key[2] \in Nat /\ Key = <<Key[1], Key[2]>>
        /\ CardsOut' = CardsOut
    BY <1>1 DEF IInv, TypeOK, Table, Key, TurnKey, CardsOut
  <2>2. cards = {turn.key[1]} \cap CardsOut /\ cards \subseteq Nat
    <3>1. CardsOut \subseteq Nat
      BY DEF CardsOut, IInv, TypeOK, Table
    <3> QED BY <3>1, CardsOfHand DEF IInv
  <2>3. legal_actions \in SUBSET Action /\ (Key = turn.key) \in BOOLEAN
    <3>1. (Key = turn.key) \in BOOLEAN
      OBVIOUS
    <3>2. \/ legal_actions = {} \/ legal_actions = {"fold", "raiseto"} \cup {"call"}
          \/ legal_actions = {"fold", "raiseto"} \cup {"check"}
      BY Zenon DEF legal_actions
    <3> QED BY <3>1, <3>2 DEF Action
  <2>4. turn \in TurnInput /\ turn.key \in TurnKey
    BY DEF IInv, TypeOK, TurnInput
  <2> HIDE DEF cards
  <2>5. /\ turn' \in TurnInput /\ turn'.key = turn.key /\ turn'.cards = cards
        /\ turn'.fits = (Key = turn.key)
    BY <1>3, <2>2, <2>3, <2>4 DEF TurnInput
  <2>6. TodoOK' /\ \A step : At(step)' <=> step = "decide"
    BY <1>1, <1>3, NextTodo DEF Task, TurnSteps
  <2>7. ~Before(Key, turn.key)
    BY <1>1 DEF IInv, TurnOK, TurnSteps
  <2>8. Key = turn.key \/ Before(turn.key, Key)
    <3>1. turn.key[1] \in Nat /\ turn.key[2] \in Nat /\ turn.key = <<turn.key[1], turn.key[2]>>
      BY <2>4 DEF TurnKey
    <3> QED BY <2>1, <2>7, <3>1 DEF Before
  <2>9. TurnOK'
    BY <1>1, <1>3, <2>1, <2>2, <2>5, <2>6, <2>7, <2>8 DEF TurnOK, IInv
  <2> QED BY <1>1, <2>5, <2>6, <2>9, Unpaid
<1> QED BY <1>2, <1>3 DEF CollectLegal

\* The decision changes nothing the client knows.
LEMMA DecideIInv ==
    ASSUME IInv, Decide
    PROVE  IInv'
<1> USE DEF roomVars, history
<1>1. /\ todo # << >> /\ TodoOK /\ At("decide")
      /\ UNCHANGED <<table, privateEvents, lastAttempted, observed, payments, failures>>
  BY DEF Decide, At, IInv
<1>2. CASE Return
  BY <1>1, <1>2, ReturnIInv
<1>3. CASE turn' = [turn EXCEPT !.legal = {}] /\ todo' = <<"recheck">> \o Tail(todo)
  <2>1. Key' = Key /\ CardsOut' = CardsOut
    BY <1>1 DEF Key, CardsOut
  <2>2. /\ turn' \in TurnInput /\ turn'.key = turn.key /\ turn'.cards = turn.cards
        /\ turn'.fits = turn.fits
    BY <1>3 DEF IInv, TypeOK, TurnInput
  <2>3. TodoOK' /\ \A step : At(step)' <=> step = "recheck"
    BY <1>1, <1>3, NextTodo DEF Task, TurnSteps
  <2>4. TurnOK'
    BY <1>1, <2>1, <2>2, <2>3 DEF TurnOK, IInv, TurnSteps
  <2> QED BY <1>1, <2>2, <2>3, <2>4, Unpaid
<1> QED BY <1>2, <1>3 DEF Decide

\* The turn is still the one decided, so what was read of it between belongs to it.
LEMMA RecheckIInv ==
    ASSUME IInv, Recheck
    PROVE  IInv'
<1> USE DEF roomVars, history
<1>1. /\ todo # << >> /\ TodoOK /\ At("recheck")
      /\ UNCHANGED <<table, privateEvents, observed, payments, failures>>
  BY DEF Recheck, At, IInv
<1>2. CASE Return /\ UNCHANGED lastAttempted
  BY <1>1, <1>2, ReturnIInv
<1>3. CASE /\ StillMyTurn /\ todo' = <<"execute">> \o Tail(todo)
           /\ lastAttempted' = turn.key /\ UNCHANGED <<turn, decision, faults>>
  <2>1. /\ Key' = Key /\ CardsOut' = CardsOut /\ turn' = turn /\ turn.key = Key
        /\ lastAttempted' = turn.key
    BY <1>1, <1>3 DEF Key, CardsOut, StillMyTurn
  <2>2. /\ Key \in TurnKey /\ Key[1] \in Nat /\ Key[2] \in Nat /\ Key = <<Key[1], Key[2]>>
        /\ lastAttempted \in TurnKey
    BY <1>1 DEF IInv, TypeOK, Table, Key, TurnKey
  <2>3. ~Before(Key, Key)
    BY <2>2 DEF Before
  <2>4. turn.fits /\ turn.key # lastAttempted /\ turn.cards = {turn.key[1]} \cap CardsOut
    BY <1>1, <2>1, <2>3 DEF IInv, TurnOK, TurnSteps
  <2>5. TodoOK' /\ \A step : At(step)' <=> step = "execute"
    BY <1>1, <1>3, NextTodo DEF Task, TurnSteps
  <2>6. TypeOK'
    BY <1>1, <2>1, <2>2 DEF IInv, TypeOK
  <2>7. TurnOK'
    BY <2>1, <2>3, <2>4, <2>5 DEF TurnOK
  <2>8. PayOK'
    BY <1>1 DEF IInv, PayOK, PaysWhatTheTurnAsks, PaysSeeingItsCards, CardsOut
  <2>9. \A k : Paying(k)' = Paying(k) /\ Failing(k)' = Failing(k) /\ Seen(k)' = Seen(k)
    BY <1>1 DEF Paying, Failing, Seen
  <2>10. CauseOK'
    <3>1. ASSUME NEW k \in Turns, lastAttempted = k, ~Before(k, Key)
          PROVE  k = Key
      <4>1. k[1] \in Nat /\ k[2] \in Nat /\ k = <<k[1], k[2]>>
        BY <2>2, <3>1 DEF TurnKey
      <4>2. ~Before(Key, k)
        BY <3>1 DEF IInv, TurnOK
      <4> QED BY <2>2, <3>1, <4>1, <4>2 DEF Before
    <3> QED BY <2>1, <2>3, <2>4, <2>5, <2>9, <3>1 DEF IInv, CauseOK
  <2> QED BY <2>5, <2>6, <2>7, <2>8, <2>10 DEF IInv
<1> QED BY <1>2, <1>3 DEF Recheck

\* A payment is counted for its own turn.
LEMMA PayingAppend ==
    ASSUME TypeOK, NEW p \in Payment, payments' = Append(payments, p), NEW k
    PROVE  Paying(k)' = IF p.key = k THEN Paying(k) + 1 ELSE Paying(k)
<1> DEFINE N == Len(payments)
           S == {i \in DOMAIN payments : payments[i].key = k}
           T == {i \in DOMAIN payments' : payments'[i].key = k}
<1>1. /\ payments \in Seq(Payment) /\ N \in Nat /\ DOMAIN payments = 1 .. N
      /\ DOMAIN payments' = 1 .. N + 1 /\ payments'[N + 1] = p
      /\ \A i \in 1 .. N : payments'[i] = payments[i]
  BY DEF TypeOK
<1>2. IsFiniteSet(DOMAIN payments)
  BY <1>1, FS_Interval
<1>3. IsFiniteSet(S) /\ N + 1 \notin S
  BY <1>1, <1>2, FS_Subset
<1>4. T = IF p.key = k THEN S \cup {N + 1} ELSE S
  BY <1>1
<1> HIDE DEF S, T
<1>5. Cardinality(S \cup {N + 1}) = Cardinality(S) + 1
  BY <1>3, FS_AddElement
<1>6. Paying(k) = Cardinality(S) /\ Paying(k)' = Cardinality(T)
  BY DEF Paying, S, T
<1> QED BY <1>4, <1>5, <1>6

\* And so is a failure.
LEMMA FailingAppend ==
    ASSUME TypeOK, NEW t \in TurnKey, failures' = Append(failures, t), NEW k
    PROVE  Failing(k)' = IF t = k THEN Failing(k) + 1 ELSE Failing(k)
<1> DEFINE N == Len(failures)
           S == {i \in DOMAIN failures : failures[i] = k}
           T == {i \in DOMAIN failures' : failures'[i] = k}
<1>1. /\ failures \in Seq(TurnKey) /\ N \in Nat /\ DOMAIN failures = 1 .. N
      /\ DOMAIN failures' = 1 .. N + 1 /\ failures'[N + 1] = t
      /\ \A i \in 1 .. N : failures'[i] = failures[i]
  BY DEF TypeOK
<1>2. IsFiniteSet(DOMAIN failures)
  BY <1>1, FS_Interval
<1>3. IsFiniteSet(S) /\ N + 1 \notin S
  BY <1>1, <1>2, FS_Subset
<1>4. T = IF t = k THEN S \cup {N + 1} ELSE S
  BY <1>1
<1> HIDE DEF S, T
<1>5. Cardinality(S \cup {N + 1}) = Cardinality(S) + 1
  BY <1>3, FS_AddElement
<1>6. Failing(k) = Cardinality(S) /\ Failing(k)' = Cardinality(T)
  BY DEF Failing, S, T
<1> QED BY <1>4, <1>5, <1>6

\* A transfer of the turn being executed is right.
LEMMA PaidOK ==
    ASSUME IInv, At("execute"), Paid, UNCHANGED <<table, privateEvents>>
    PROVE  /\ PayOK' /\ payments' \in Seq(Payment)
           /\ \A k : Paying(k)' = IF turn.key = k THEN Paying(k) + 1 ELSE Paying(k)
<1> DEFINE p == [key |-> turn.key, fits |-> turn.fits, seen |-> turn.cards]
<1>1. /\ turn.key \in TurnKey /\ turn.fits \in BOOLEAN /\ turn.cards \subseteq Nat
      /\ table.hand \in Nat /\ Key = <<table.hand, table.seq>>
  BY DEF IInv, TypeOK, TurnInput, Table, Key
<1>2. /\ turn.fits /\ turn.cards = {turn.key[1]} \cap CardsOut /\ ~Before(Key, turn.key)
  BY DEF IInv, TurnOK, TurnSteps
<1>3. p \in Payment /\ p.key = turn.key /\ p.fits /\ p.seen = {p.key[1]} \cap CardsOut
  BY <1>1, <1>2 DEF Payment
<1>4. p.key[1] <= table.hand
  BY <1>1, <1>2, <1>3 DEF Before, TurnKey
<1>5. payments' = Append(payments, p)
  BY DEF Paid
<1> HIDE DEF p
<1>6. /\ payments \in Seq(Payment) /\ payments' \in Seq(Payment) /\ Len(payments) \in Nat
      /\ DOMAIN payments = 1 .. Len(payments) /\ DOMAIN payments' = 1 .. Len(payments) + 1
      /\ payments'[Len(payments) + 1] = p
      /\ \A i \in 1 .. Len(payments) : payments'[i] = payments[i]
  BY <1>3, <1>5 DEF IInv, TypeOK
<1>7. CardsOut' = CardsOut /\ table' = table
  BY DEF CardsOut
<1>8. \A i \in DOMAIN payments' : i \in DOMAIN payments \/ payments'[i] = p
  BY <1>6
<1>9. PayOK'
  BY <1>3, <1>4, <1>6, <1>7, <1>8 DEF IInv, PayOK, PaysWhatTheTurnAsks, PaysSeeingItsCards
<1>10. ASSUME NEW k
       PROVE  Paying(k)' = IF turn.key = k THEN Paying(k) + 1 ELSE Paying(k)
  BY <1>3, <1>5, PayingAppend DEF IInv
<1> QED BY <1>6, <1>9, <1>10

\* Nothing more is paid for the turn than it has causes for.
LEMMA TransferIInv ==
    ASSUME IInv, Transfer
    PROVE  IInv'
<1> USE DEF roomVars
<1>1. /\ todo # << >> /\ TodoOK /\ At("execute")
      /\ UNCHANGED <<table, privateEvents, observed>>
  BY DEF Transfer, At, IInv
<1>2. /\ Key' = Key /\ CardsOut' = CardsOut /\ turn.key \in TurnKey
      /\ \A k : Seen(k)' = Seen(k) /\ Seen(k) \in {0, 1}
      /\ \A k : Paying(k) \in Nat /\ Failing(k) \in Nat
  BY <1>1, CountsOK DEF Key, CardsOut, Seen, IInv, TypeOK, TurnInput
<1>3. turn.fits /\ lastAttempted = turn.key /\ ~Before(Key, turn.key)
      /\ turn.cards = {turn.key[1]} \cap CardsOut
  BY <1>1 DEF IInv, TurnOK, TurnSteps
<1>4. \/ Paid \/ UNCHANGED payments
  BY DEF Transfer, WalletCallFails
<1>5. /\ PayOK' /\ payments' \in Seq(Payment)
      /\ \A k : Paying(k)' \in {Paying(k), IF turn.key = k THEN Paying(k) + 1 ELSE Paying(k)}
  <2>1. CASE Paid
    BY <1>1, <2>1, PaidOK
  <2>2. CASE UNCHANGED payments
    BY <1>1, <1>2, <2>2 DEF IInv, TypeOK, PayOK, PaysWhatTheTurnAsks, PaysSeeingItsCards, Paying
  <2> QED BY <1>4, <2>1, <2>2
<1>6. CASE Return /\ UNCHANGED <<payments, lastAttempted, failures>>
  BY <1>1, <1>6, ReturnIInv
<1>7. CASE todo' = <<"act">> \o Tail(todo) /\ UNCHANGED <<turn, lastAttempted, failures>>
  <2>1. TodoOK' /\ \A step : At(step)' <=> step = "act"
    BY <1>1, <1>7, NextTodo DEF Task, TurnSteps
  <2>2. TypeOK'
    BY <1>1, <1>5, <1>7 DEF IInv, TypeOK
  <2>3. TurnOK'
    BY <1>2, <1>3, <1>7, <2>1 DEF TurnOK, TurnSteps
  <2>4. \A k : Failing(k)' = Failing(k)
    BY <1>7 DEF Failing
  <2>5. ASSUME NEW k \in Turns
        PROVE  /\ Paying(k)' <= 1 + Seen(k)' + Failing(k)'
               /\ lastAttempted' # k /\ ~Before(k, Key') => Paying(k)' <= Seen(k)' + Failing(k)'
    <3>1. CASE turn.key = k
      <4>1. Paying(k) <= Seen(k) + Failing(k)
        BY <1>1, <3>1 DEF IInv, CauseOK
      <4> QED BY <1>2, <1>3, <1>5, <1>7, <2>4, <3>1, <4>1
    <3>2. CASE turn.key # k
      <4>1. Paying(k)' = Paying(k) /\ lastAttempted' = lastAttempted
        BY <1>5, <1>7, <3>2
      <4> QED BY <1>2, <2>4, <4>1 DEF IInv, CauseOK
    <3> QED BY <3>1, <3>2
  <2>6. CauseOK'
    BY <2>1, <2>5 DEF CauseOK
  <2> QED BY <1>5, <2>1, <2>2, <2>3, <2>6 DEF IInv
<1>8. CASE Transient
  <2>1. /\ todo' = Tail(todo) /\ turn' = Undecided /\ lastAttempted' = NoTurn
        /\ failures' = Append(failures, turn.key)
    BY <1>8 DEF Transient, Return, Done
  <2>2. TodoOK' /\ \A step \in TurnSteps : ~At(step)'
    BY <1>1, <2>1, DoneTodo
  <2>3. TypeOK'
    BY <1>1, <1>2, <1>5, <2>1, UndecidedOK DEF IInv, TypeOK
  <2>4. ~Before(Key', lastAttempted')
    <3>1. Key = <<table.hand, table.seq>> /\ table.hand \in Nat /\ table.seq \in Nat
      BY DEF Key, IInv, TypeOK, Table
    <3> QED BY <1>2, <2>1, <3>1, UndecidedOK DEF Before
  <2>5. TurnOK'
    BY <2>2, <2>4 DEF TurnOK, TurnSteps
  <2>6. \A k : Failing(k)' = IF turn.key = k THEN Failing(k) + 1 ELSE Failing(k)
    BY <1>2, <2>1, FailingAppend DEF IInv
  <2>7. ASSUME NEW k \in Turns
        PROVE  /\ Paying(k)' <= 1 + Seen(k)' + Failing(k)'
               /\ ~Before(k, Key') => Paying(k)' <= Seen(k)' + Failing(k)'
    <3>1. CASE turn.key = k
      <4>1. Paying(k) <= Seen(k) + Failing(k)
        BY <1>1, <3>1 DEF IInv, CauseOK
      <4> QED BY <1>2, <1>5, <2>6, <3>1, <4>1
    <3>2. CASE turn.key # k
      <4>1. Paying(k)' = Paying(k) /\ Failing(k)' = Failing(k) /\ lastAttempted # k
        BY <1>3, <1>5, <2>6, <3>2
      <4> QED BY <1>2, <4>1 DEF IInv, CauseOK
    <3> QED BY <3>1, <3>2
  <2>8. CauseOK'
    BY <2>2, <2>7 DEF CauseOK, TurnSteps
  <2> QED BY <1>5, <2>2, <2>3, <2>5, <2>8 DEF IInv
<1> QED BY <1>6, <1>7, <1>8 DEF Transfer, WalletCallFails

\* The action is sent: the room may take it, and the call may fail either way.
LEMMA ActIInv ==
    ASSUME IInv, Act
    PROVE  IInv'
<1>1. /\ todo # << >> /\ TodoOK /\ At("act") /\ table \in Table
      /\ privateEvents \subseteq [hand : 1 .. table.hand, key : {CardKey}]
      /\ UNCHANGED <<privateEvents, observed, payments>> /\ Return
  BY DEF Act, At, IInv, TypeOK, Transient
<1>2. table' \in Table /\ Onward /\ table'.hand = table.hand
  <2>1. CASE Advance
    BY <1>1, <2>1, AdvanceTable
  <2>2. CASE UNCHANGED table
    BY <1>1, <2>2 DEF Onward
  <2> QED BY <2>1, <2>2 DEF Act, Takes
<1>3. /\ CardsOut' = CardsOut /\ CardsStand
      /\ privateEvents' \subseteq [hand : 1 .. table'.hand, key : {CardKey}]
  BY <1>1, <1>2 DEF CardsOut, CardsStand
<1>4. /\ TodoOK' /\ (\A step \in TurnSteps : ~At(step)') /\ turn' = Undecided /\ turn' \in TurnInput
  BY <1>1, DoneTodo, UndecidedOK DEF Return, Done
<1>5. CASE UNCHANGED <<lastAttempted, failures>>
  BY <1>1, <1>2, <1>3, <1>4, <1>5, Quiet
<1>6. CASE Transient
  <2>1. /\ lastAttempted' = NoTurn /\ failures' = Append(failures, turn.key)
        /\ turn.key \in TurnKey /\ lastAttempted = turn.key
    BY <1>1, <1>6 DEF Transient, IInv, TypeOK, TurnInput, TurnOK
  <2>2. TypeOK'
    BY <1>1, <1>2, <1>3, <1>4, <2>1, UndecidedOK DEF IInv, TypeOK
  <2>3. /\ Key' = <<table'.hand, table'.seq>> /\ table'.hand \in Nat /\ table'.seq \in Nat
        /\ \A k \in TurnKey : Before(k, Key) => Before(k, Key')
    BY <1>1, <1>2, KeyGrows DEF Key, Table
  <2>4. ~Before(Key', lastAttempted')
    BY <2>1, <2>3, UndecidedOK DEF Before
  <2>5. TurnOK'
    BY <1>4, <2>4 DEF TurnOK, TurnSteps
  <2>6. PayOK'
    BY <1>1, <1>2, <1>3 DEF IInv, PayOK, PaysWhatTheTurnAsks, PaysSeeingItsCards
  <2>7. \A k : Failing(k)' = IF turn.key = k THEN Failing(k) + 1 ELSE Failing(k)
    BY <2>1, FailingAppend DEF IInv
  <2>8. /\ \A k : Seen(k)' = Seen(k) /\ Seen(k) \in {0, 1} /\ Paying(k)' = Paying(k)
        /\ \A k : Paying(k) \in Nat /\ Failing(k) \in Nat
    BY <1>1, CountsOK DEF Seen, Paying, IInv
  <2>9. ASSUME NEW k \in Turns
        PROVE  /\ Paying(k)' <= 1 + Seen(k)' + Failing(k)'
               /\ ~Before(k, Key') => Paying(k)' <= Seen(k)' + Failing(k)'
    <3>1. CASE turn.key = k
      <4>1. Paying(k) <= 1 + Seen(k) + Failing(k)
        BY DEF IInv, CauseOK
      <4> QED BY <2>7, <2>8, <3>1, <4>1
    <3>2. CASE turn.key # k
      <4>1. Failing(k)' = Failing(k) /\ lastAttempted # k
        BY <2>1, <2>7, <3>2
      <4>2. k \in TurnKey
        BY BoundAssumption DEF Turns, TurnKey
      <4> QED BY <2>3, <2>8, <4>1, <4>2 DEF IInv, CauseOK
    <3> QED BY <3>1, <3>2
  <2>10. CauseOK'
    BY <1>4, <2>9 DEF CauseOK, TurnSteps
  <2> QED BY <1>4, <2>2, <2>5, <2>6, <2>10 DEF IInv
<1> QED BY <1>5, <1>6 DEF Act
-----------------------------------------------------------------------------
(***************************************************************************)
(* The theorems.                                                           *)
(***************************************************************************)
\* The client has paid for nothing when it starts.
LEMMA InitIInv == Init => IInv
<1> SUFFICES ASSUME Init PROVE IInv
  OBVIOUS
<1>1. /\ payments = << >> /\ failures = << >> /\ todo = Startup /\ privateEvents = {}
      /\ turn = Undecided /\ lastAttempted = NoTurn
      /\ table = [hand |-> 0, seq |-> 0, acting |-> "none", status |-> "Created", facing |-> FALSE]
      /\ observed = [hand |-> -1, closed |-> FALSE]
  BY DEF Init
<1>2. TypeOK
  BY <1>1, UndecidedOK DEF TypeOK, Table
<1>3. Free(todo)
  <2>1. "connect" \in Task \ TurnSteps
    BY DEF Task, TurnSteps
  <2>2. Free(<<"connect">>)
    BY <2>1, FreeLists
  <2> QED BY <1>1, <2>2, PrepareStepsOK, FreeConcat DEF Startup
<1>4. TodoOK
  <2>1. /\ todo \in Seq(Task) /\ Len(todo) \in Nat
        /\ \A i \in 1 .. Len(todo) : todo[i] \notin TurnSteps
    BY <1>3 DEF Free
  <2>2. ASSUME todo # << >>
        PROVE  Free(Tail(todo))
    <3>1. /\ Tail(todo) \in Seq(Task) /\ DOMAIN Tail(todo) = 1 .. Len(todo) - 1
          /\ \A i \in 1 .. Len(todo) - 1 : Tail(todo)[i] = todo[i + 1] /\ i + 1 \in 1 .. Len(todo)
      BY <2>1, <2>2
    <3> QED BY <2>1, <3>1 DEF Free
  <2> QED BY <2>1, <2>2 DEF TodoOK
<1>5. \A step \in TurnSteps : ~At(step)
  <2>1. todo \in Seq(Task) /\ (todo # << >> => Head(todo) = todo[1] /\ 1 \in DOMAIN todo)
    BY <1>3 DEF Free
  <2> QED BY <1>3, <2>1 DEF At, Free
<1>6. Key = NoTurn
  BY <1>1 DEF Key, NoTurn
<1>7. TurnOK
  BY <1>1, <1>5, <1>6, UndecidedOK DEF TurnOK, TurnSteps, Before
<1>8. PayOK
  BY <1>1 DEF PayOK, PaysWhatTheTurnAsks, PaysSeeingItsCards
<1>9. \A k : Paying(k) = 0 /\ Failing(k) \in Nat /\ Seen(k) \in {0, 1}
  <2>1. ASSUME NEW k
        PROVE  Paying(k) = 0
    <3>1. {i \in DOMAIN payments : payments[i].key = k} = {}
      BY <1>1
    <3> QED BY <3>1, FS_EmptySet DEF Paying
  <2> QED BY <1>2, <2>1, CountsOK DEF Seen
<1>10. CauseOK
  BY <1>9 DEF CauseOK
<1> QED BY <1>2, <1>4, <1>7, <1>8, <1>10 DEF IInv

\* Every step of the client and of the room.
LEMMA NextIInv == IInv /\ [Next]_vars => IInv'
<1> SUFFICES ASSUME IInv, [Next]_vars PROVE IInv'
  OBVIOUS
<1>1. ASSUME NEW step \in ToSet(PrepareSteps), prepare_seat(step)
      PROVE  IInv'
  BY <1>1, PrepareIInv
<1>2. CASE poll_room_hand_state
  BY <1>2, PollIInv
<1>3. CASE sync_hole_cards_for_current_hand
  BY <1>3, SyncIInv
<1>4. CASE Turn
  BY <1>4, CollectStateIInv, CollectLegalIInv, DecideIInv, RecheckIInv, TransferIInv, ActIInv DEF Turn
<1>5. CASE Session
  BY <1>5, SessionIInv
<1>6. CASE RoomMoves
  BY <1>6, RoomMovesIInv
<1>7. CASE Deal
  BY <1>7, DealIInv
<1>8. CASE UNCHANGED vars
  <2>1. UNCHANGED <<table, privateEvents, lastAttempted, observed, payments, failures, todo, turn>>
    BY <1>8 DEF vars, roomVars, turnVars, history
  <2>2. TodoOK'
    BY <2>1 DEF IInv, TodoOK, Free
  <2>3. turn' \in TurnInput
    BY <2>1 DEF IInv, TypeOK
  <2> QED BY <2>1, <2>2, <2>3, RoomStands, Quiet
<1> QED BY <1>1, <1>2, <1>3, <1>4, <1>5, <1>6, <1>7, <1>8 DEF Next, ClientStep

\* The inductive invariant holds in every state the client and the room can reach.
THEOREM Invariance == Spec => []IInv
BY InitIInv, NextIInv, PTL DEF Spec

\* A turn is paid for again only for a cause: an execution of it that failed on the
\* way, or, once, the poll that comes to see its hand.
THEOREM PaymentsHaveCauses == Spec => []PaidAgainForCause
<1>1. IInv => PaidAgainForCause
  <2> SUFFICES ASSUME IInv, NEW k \in Turns PROVE Paying(k) <= 2 + Failing(k)
    BY DEF PaidAgainForCause
  <2>1. Paying(k) <= 1 + Seen(k) + Failing(k)
    BY DEF IInv, CauseOK
  <2>2. Paying(k) \in Nat /\ Failing(k) \in Nat /\ Seen(k) \in {0, 1}
    BY CountsOK DEF IInv, Seen
  <2> QED BY <2>1, <2>2
<1> QED BY <1>1, Invariance, PTL

\* The amount of a transfer is of the turn it pays for: maybe_execute_turn reads the
\* state and the legal actions apart, and its second look at the state excludes a mixture.
THEOREM AmountsAreOfTheTurn == Spec => []PaysWhatTheTurnAsks
<1>1. IInv => PaysWhatTheTurnAsks
  BY DEF IInv, PayOK
<1> QED BY <1>1, Invariance, PTL

\* What is paid for was decided with the cards of its own hand, those that were dealt to
\* the seat's key, and with no others.
THEOREM DecisionsSeeTheirCards == Spec => []PaysSeeingItsCards
<1>1. IInv => PaysSeeingItsCards
  BY DEF IInv, PayOK
<1> QED BY <1>1, Invariance, PTL
=============================================================================
