------------------------ MODULE UpdateHistoryProofs ------------------------
(***************************************************************************)
(* The type invariant of UpdatePush, that it implements Input, and where   *)
(* every change of an input has gone, proved for any number of inputs, any *)
(* values, any commands and any capacity of the sockets.                   *)
(***************************************************************************)
EXTENDS UpdateHistory, TLAPS

-----------------------------------------------------------------------------
(* UpdatePush                                                               *)

\* The outputs come before the analog inputs, and there is one of each at least.
LEMMA Numbers ==
    /\ IoCount \in Nat /\ IoCount > 0 /\ AdcCount \in Nat /\ AdcCount > 0
    /\ InputCount \in Nat /\ IoCount < InputCount
    /\ Io \subseteq Inputs /\ Adc \subseteq Inputs
    /\ IoCount \in Inputs /\ 0 \in Inputs
BY CountAssumption DEF CountAssumption, InputCount, Inputs, Io, Adc

\* A payload ends where one of its two keys ends.
LEMMA LimitIsAKeyEnd == Limit \in {IoCount, InputCount}
BY DEF Limit

\* An error reply tells of no input, and is a reply all the same.
LEMMA EmptyIsReply == Empty \in Replies
<1>1. Empty \in [{} -> Values]
  BY DEF Empty
<1>2. {} \in SUBSET Inputs
  OBVIOUS
<1>3. QED
  BY <1>1, <1>2 DEF Replies

\* The cursor is on an input whenever a driver is called with it.
LEMMA CursorIsInput ==
    ASSUME TypeOK, pc \in {"check", "get", "clear"}
    PROVE  cursor \in Inputs /\ cursor + 1 \in 0..InputCount
<1>1. cursor \in Nat /\ cursor < Limit
  BY DEF TypeOK
<1>2. Limit \in Nat /\ Limit <= InputCount
  BY Numbers, LimitIsAKeyEnd
<1>3. QED
  BY <1>1, <1>2, Numbers DEF Inputs

\* Storing a value keeps the driver's state well typed.
LEMMA StoreKeepsTypes ==
    ASSUME TypeOK, NEW id \in Inputs, NEW v \in Values, Store(id, v)
    PROVE  value' \in [Inputs -> Values] /\ is_updated' \in [Inputs -> BOOLEAN]
BY DEF TypeOK, Store, driver

\* The state both threads start from is well typed.
LEMMA TypeInit == Init => TypeOK
<1> SUFFICES ASSUME Init PROVE TypeOK
  OBVIOUS
<1>1. value \in [Inputs -> Values] /\ fetched \in Values
  BY ValueAssumption DEF Init, ValueAssumption
<1>2. is_updated \in [Inputs -> BOOLEAN]
  BY DEF Init
<1>3. pc \in Steps /\ pc \notin {"check", "get", "clear", "room"}
  BY DEF Init, Steps
<1>4. request \in Requests
  BY DEF Init, Requests, Idle, Kinds
<1>5. reply \in Replies
  BY EmptyIsReply DEF Init
<1>6. cursor \in 0..InputCount
  BY Numbers DEF Init
<1>7. todo \in Seq(Io \X Values) /\ wire \in Seq(Replies) /\ Len(wire) <= MaxWire
  BY WireAssumption DEF Init, WireAssumption
<1>8. view \in [Inputs -> Values \cup {NoValue}]
  BY DEF Init
<1>9. scan \in Inputs \cup {GpioInit, AdcInit} /\ waiting \in BOOLEAN
      /\ link \in {"none", "up", "gone"}
  BY DEF Init
<1>10. QED
  BY <1>1, <1>2, <1>3, <1>4, <1>5, <1>6, <1>7, <1>8, <1>9 DEF TypeOK

-----------------------------------------------------------------------------
(* One lemma per group of actions *)

\* The main loop.
LEMMA MainloopKeepsTypes == ASSUME TypeOK, Mainloop PROVE TypeOK'
<1> USE DEF TypeOK, Limit
<1>1. CASE gpio_init
  <2>1. PICK levels \in [Io -> Values] :
          value' = [id \in Inputs |-> IF id \in Io THEN levels[id] ELSE value[id]]
    BY <1>1 DEF gpio_init
  <2>2. value' \in [Inputs -> Values]
    BY <2>1
  <2>3. is_updated' \in [Inputs -> BOOLEAN]
    BY <1>1 DEF gpio_init
  <2>4. scan' \in Inputs \cup {GpioInit, AdcInit}
    BY <1>1 DEF gpio_init
  <2>5. QED
    BY <1>1, <2>2, <2>3, <2>4 DEF gpio_init, builder, client
<1>2. CASE adc_mcp3008_init
  <2>1. value' \in [Inputs -> Values]
    BY <1>2, ValueAssumption DEF adc_mcp3008_init, ValueAssumption
  <2>2. is_updated' \in [Inputs -> BOOLEAN]
    BY <1>2 DEF adc_mcp3008_init
  <2>3. scan' \in Inputs \cup {GpioInit, AdcInit}
    BY <1>2, Numbers DEF adc_mcp3008_init
  <2>4. QED
    BY <1>2, <2>1, <2>2, <2>3 DEF adc_mcp3008_init, builder, client
<1>3. CASE ReadInput
  <2>1. PICK v \in Values : mainloop_exec(v)
    BY <1>3 DEF ReadInput
  <2>2. scan \in Inputs
    BY <2>1 DEF mainloop_exec
  <2>3. value' \in [Inputs -> Values] /\ is_updated' \in [Inputs -> BOOLEAN]
    BY <2>1, <2>2, StoreKeepsTypes DEF mainloop_exec
  <2>4. scan' \in Inputs
    BY <2>1, <2>2, Numbers DEF mainloop_exec, NextScan, Inputs
  <2>5. QED
    BY <2>1, <2>3, <2>4 DEF mainloop_exec, builder, client
<1>4. QED
  BY <1>1, <1>2, <1>3 DEF Mainloop

\* Connections that begin, fail or end.
LEMMA ConnectionKeepsTypes ==
    ASSUME TypeOK,
           \/ accept \/ api_server_fails
           \/ WakeForSecondClient \/ ClientIsDisconnected
    PROVE  TypeOK'
<1> USE DEF TypeOK, Limit, Steps
<1>1. CASE accept
  <2>1. wire' \in Seq(Replies) /\ Len(wire') <= MaxWire
    BY <1>1, WireAssumption DEF accept, WireAssumption
  <2>2. view' \in [Inputs -> Values \cup {NoValue}]
    BY <1>1 DEF accept
  <2>3. QED
    BY <1>1, <2>1, <2>2 DEF accept, driver, builder
<1>2. CASE api_server_fails
  BY <1>2 DEF api_server_fails, driver, builder
<1>3. CASE WakeForSecondClient
  BY <1>3 DEF WakeForSecondClient, driver, builder, client
<1>4. CASE ClientIsDisconnected
  BY <1>4 DEF ClientIsDisconnected, driver, builder
<1>5. QED
  BY <1>1, <1>2, <1>3, <1>4

\* What every action that starts a payload does.
LEMMA BuildKeepsTypes ==
    ASSUME TypeOK, NEW kind \in Kinds, NEW roomy \in BOOLEAN,
           BuildPayload(kind, roomy),
           UNCHANGED <<driver, scan, todo, client>>
    PROVE  TypeOK'
<1>1. request' \in Requests /\ reply' \in Replies
  BY EmptyIsReply DEF BuildPayload, Requests
<1>2. cursor' = 0 /\ pc' = "check" /\ 0 \in 0..InputCount /\ 0 < Limit'
  BY Numbers DEF BuildPayload, Limit
<1>3. QED
  BY <1>1, <1>2 DEF TypeOK, BuildPayload, Steps, driver, client

\* Requests, accepted or refused.
LEMMA RequestKeepsTypes ==
    ASSUME TypeOK, Timeout \/ Request \/ exec_set_out_done
    PROVE  TypeOK'
<1>1. CASE Timeout
  BY <1>1, BuildKeepsTypes DEF Timeout, Kinds
<1>2. ASSUME NEW roomy \in Roominess, GetAll(roomy)
      PROVE  TypeOK'
  <2>1. roomy \in BOOLEAN
    BY RoomAssumption DEF RoomAssumption
  <2>2. QED
    BY <1>2, <2>1, BuildKeepsTypes DEF GetAll, Kinds
<1>3. ASSUME NEW command \in Commands, NEW roomy \in Roominess,
             SetOut(command, roomy)
      PROVE  TypeOK'
  <2>1. request' \in Requests
    BY <1>3, RoomAssumption DEF RoomAssumption, SetOut, Requests, Kinds
  <2>2. todo' \in Seq(Io \X Values)
    BY <1>3, CommandAssumption DEF CommandAssumption, SetOut
  <2>3. QED
    BY <1>3, <2>1, <2>2 DEF SetOut, TypeOK, Steps, driver, client
<1>4. CASE BadRequest
  BY <1>4, EmptyIsReply DEF BadRequest, TypeOK, Steps, Limit, driver, client
<1>5. CASE exec_set_out_done
  <2>1. request.roomy \in BOOLEAN
    BY DEF TypeOK, Requests
  <2>2. QED
    BY <1>5, <2>1, BuildKeepsTypes DEF exec_set_out_done, Kinds
<1>6. QED
  BY <1>1, <1>2, <1>3, <1>4, <1>5 DEF Request

\* set/out, pair by pair.
LEMMA SetOutKeepsTypes ==
    ASSUME TypeOK, gpio_write \/ gpio_write_fails
    PROVE  TypeOK'
<1>1. CASE gpio_write
  <2> DEFINE id == Head(todo)[1]
             v  == Head(todo)[2]
  <2>1. Head(todo) \in Io \X Values /\ Tail(todo) \in Seq(Io \X Values)
    BY <1>1 DEF gpio_write, TypeOK
  <2>2. id \in Inputs /\ v \in Values
    BY <2>1, Numbers
  <2>3. Store(id, v)
    BY <1>1 DEF gpio_write
  <2>4. value' \in [Inputs -> Values] /\ is_updated' \in [Inputs -> BOOLEAN]
    BY <2>2, <2>3, StoreKeepsTypes
  <2>5. QED
    BY <1>1, <2>1, <2>4 DEF gpio_write, TypeOK, Limit, client
<1>2. CASE gpio_write_fails
  BY <1>2, EmptyIsReply DEF gpio_write_fails, TypeOK, Steps, Limit, driver, client
<1>3. QED
  BY <1>1, <1>2

\* The cursor moves to the next input of the key or to the end of the key.
LEMMA AdvanceKeepsTypes ==
    ASSUME TypeOK, pc \in {"check", "clear"}, Advance, UNCHANGED request
    PROVE  /\ cursor' \in 0..InputCount /\ pc' \in Steps
           /\ pc' \in {"check", "get", "clear"} => cursor' < Limit'
           /\ pc' = "room" => cursor' \in {IoCount, Limit'}
<1>1. cursor \in Nat /\ cursor < Limit /\ Limit' = Limit
  BY DEF TypeOK, Limit
<1>2. Limit \in Nat
  BY Numbers, LimitIsAKeyEnd
<1>3. cursor' = cursor + 1 /\ cursor' \in 0..InputCount
  BY CursorIsInput DEF Advance
<1>4. CASE cursor + 1 \in {IoCount, Limit}
  BY <1>1, <1>3, <1>4 DEF Advance, Steps
<1>5. CASE cursor + 1 \notin {IoCount, Limit}
  <2>1. cursor' < Limit'
    BY <1>1, <1>2, <1>3, <1>5
  <2>2. pc' = "check"
    BY <1>5 DEF Advance
  <2>3. QED
    BY <1>3, <2>1, <2>2 DEF Steps
<1>6. QED
  BY <1>4, <1>5

\* The calls and the room checks of add_to_payload.
LEMMA PayloadKeepsTypes ==
    ASSUME TypeOK,
           \/ is_updated_call \/ get_value_call \/ set_is_updated_call
           \/ RoomIsLeft \/ build_payload_overflows
    PROVE  TypeOK'
<1>1. CASE is_updated_call
  <2>1. CASE WithAll \/ is_updated[cursor]
    BY <1>1, <2>1 DEF is_updated_call, TypeOK, Steps, Limit, driver, client
  <2>2. CASE ~(WithAll \/ is_updated[cursor])
    <3>1. pc = "check" /\ Advance /\ UNCHANGED request
      BY <1>1, <2>2 DEF is_updated_call
    <3>2. QED
      BY <1>1, <3>1, AdvanceKeepsTypes DEF is_updated_call, TypeOK, driver, client
  <2>3. QED
    BY <2>1, <2>2
<1>2. CASE get_value_call
  <2>1. value[cursor] \in Values
    BY <1>2, CursorIsInput DEF get_value_call, TypeOK
  <2>2. QED
    BY <1>2, <2>1 DEF get_value_call, TypeOK, Steps, Limit, client
<1>3. CASE set_is_updated_call
  <2>1. cursor \in Inputs
    BY <1>3, CursorIsInput DEF set_is_updated_call
  <2>2. is_updated' \in [Inputs -> BOOLEAN]
    BY <1>3, <2>1 DEF set_is_updated_call, TypeOK
  <2>3. reply' \in Replies
    <3>1. PICK S \in SUBSET Inputs : reply \in [S -> Values]
      BY DEF TypeOK, Replies
    <3>2. S \cup {cursor} \in SUBSET Inputs
      BY <2>1
    <3>3. reply' \in [S \cup {cursor} -> Values]
      BY <1>3, <3>1 DEF set_is_updated_call, TypeOK
    <3>4. QED
      BY <3>2, <3>3 DEF Replies
  <2>4. fetched' \in Values
    BY <1>3, ValueAssumption DEF set_is_updated_call, ValueAssumption
  <2>5. pc = "clear" /\ Advance /\ UNCHANGED request
    BY <1>3 DEF set_is_updated_call
  <2>6. QED
    BY <1>3, <2>2, <2>3, <2>4, <2>5, AdvanceKeepsTypes
       DEF set_is_updated_call, TypeOK, client
<1>4. CASE RoomIsLeft
  <2>1. pc' \in Steps /\ pc' \in {"write", "check"}
    BY <1>4 DEF RoomIsLeft, Steps
  <2>2. ASSUME pc' = "check" PROVE cursor' < Limit'
    <3>1. cursor # Limit /\ cursor = IoCount
      BY <1>4, <2>2 DEF RoomIsLeft, TypeOK
    <3>2. Limit = InputCount
      BY <3>1, LimitIsAKeyEnd
    <3>3. cursor' = cursor /\ Limit' = Limit
      BY <1>4 DEF RoomIsLeft, builder, Limit
    <3>4. QED
      BY <3>1, <3>2, <3>3, Numbers
  <2>3. QED
    BY <1>4, <2>1, <2>2 DEF RoomIsLeft, TypeOK, driver, builder, client
<1>5. CASE build_payload_overflows
  BY <1>5, EmptyIsReply
     DEF build_payload_overflows, TypeOK, Steps, Limit, driver, client
<1>6. QED
  BY <1>1, <1>2, <1>3, <1>4, <1>5

\* write_to_client.
LEMMA WriteKeepsTypes ==
    ASSUME TypeOK, write_to_client \/ write_to_closed_client
    PROVE  TypeOK'
<1>1. ASSUME Forget
      PROVE  /\ reply' \in Replies /\ request' \in Requests
             /\ cursor' \in 0..InputCount /\ fetched' \in Values
  BY <1>1, EmptyIsReply, Numbers, ValueAssumption
     DEF Forget, Requests, Idle, Kinds, ValueAssumption
<1>2. CASE write_to_client
  <2>1. wire' \in Seq(Replies) /\ Len(wire') <= MaxWire
    BY <1>2, WireAssumption DEF write_to_client, TypeOK, WireAssumption
  <2>2. Forget /\ pc' = "select"
    BY <1>2 DEF write_to_client
  <2>3. QED
    BY <1>1, <1>2, <2>1, <2>2 DEF write_to_client, Forget, TypeOK, Steps, driver
<1>3. CASE write_to_closed_client
  <2>1. Forget /\ pc' \in {"select", "accept", "ended"}
        /\ link' \in {"none", "gone"}
    BY <1>3 DEF write_to_closed_client
  <2>2. QED
    BY <1>1, <1>3, <2>1
       DEF write_to_closed_client, Forget, TypeOK, Steps, driver
<1>4. QED
  BY <1>2, <1>3

\* What the clients do.
LEMMA EnvironmentKeepsTypes == ASSUME TypeOK, Environment PROVE TypeOK'
<1> USE DEF TypeOK, Limit
<1>1. CASE ClientReceives
  <2> DEFINE items == Head(wire)
  <2>1. items \in Replies /\ wire' \in Seq(Replies) /\ Len(wire') <= MaxWire
    BY <1>1, WireAssumption DEF ClientReceives, WireAssumption
  <2>2. PICK S \in SUBSET Inputs : items \in [S -> Values]
    BY <2>1 DEF Replies
  <2>3. view' \in [Inputs -> Values \cup {NoValue}]
    BY <1>1, <2>2 DEF ClientReceives
  <2>4. QED
    BY <1>1, <2>1, <2>3 DEF ClientReceives, driver, builder
<1>2. CASE ClientCloses
  BY <1>2, WireAssumption DEF ClientCloses, driver, builder, WireAssumption
<1>3. CASE SecondClientConnects
  BY <1>3 DEF SecondClientConnects, driver, builder
<1>4. QED
  BY <1>1, <1>2, <1>3 DEF Environment

\* Every step keeps the state well typed.
LEMMA TypeStep == TypeOK /\ [Next]_vars => TypeOK'
<1> SUFFICES ASSUME TypeOK, [Next]_vars PROVE TypeOK'
  OBVIOUS
<1>1. CASE Next
  BY <1>1, MainloopKeepsTypes, ConnectionKeepsTypes, RequestKeepsTypes,
     SetOutKeepsTypes, PayloadKeepsTypes, WriteKeepsTypes, EnvironmentKeepsTypes
     DEF Next, ApiStep
<1>2. CASE UNCHANGED vars
  BY <1>2 DEF vars, driver, builder, client, TypeOK, Limit
<1>3. QED
  BY <1>1, <1>2

\* The state always has its types; above all, no driver is ever called with an
\* id it does not have, which would end the process.
THEOREM TypeCorrect == Spec => []TypeOK
BY TypeInit, TypeStep, PTL DEF Spec

-----------------------------------------------------------------------------
(* Each input is one that a driver implements *)

\* Whether the driver of an input has been initialised.
Started(id) == IF id \in Io THEN scan # GpioInit ELSE scan \in Inputs

\* The analog inputs are as the program starts until their driver is up.
AdcUntouched ==
    scan \in {GpioInit, AdcInit} =>
        \A id \in Adc : value[id] = 0 /\ is_updated[id] = FALSE

\* The two kinds of input share no number, and no input has a negative one.
LEMMA KindsAreApart ==
    /\ \A id \in Inputs : id \in Io \/ id \in Adc
    /\ \A id \in Io : id \notin Adc
    /\ GpioInit \notin Inputs /\ AdcInit \notin Inputs /\ GpioInit # AdcInit
BY Numbers DEF Inputs, Io, Adc, GpioInit, AdcInit

\* The steps that call no driver.
LEMMA OthersTouchNoInput ==
    ASSUME Next, ~Mainloop, ~gpio_write, ~set_is_updated_call
    PROVE  UNCHANGED <<driver, scan>>
BY DEF Next, accept, api_server_fails, Timeout, Request, GetAll, SetOut, BadRequest,
       ApiStep, WakeForSecondClient, ClientIsDisconnected, gpio_write_fails,
       exec_set_out_done, is_updated_call, get_value_call, RoomIsLeft,
       build_payload_overflows, write_to_client, write_to_closed_client,
       Environment, ClientReceives, ClientCloses, SecondClientConnects, driver

\* gpio_write is called with an output and a value it can have.
LEMMA WriteStores ==
    ASSUME TypeOK, gpio_write
    PROVE  \E id \in Io, v \in Values :
             /\ Store(id, v) /\ UNCHANGED scan
             /\ scan # GpioInit \/ v = value[id]
<1>1. Head(todo) \in Io \X Values
  BY DEF gpio_write, TypeOK
<1>2. Head(todo)[1] \in Io /\ Head(todo)[2] \in Values
  BY <1>1
<1>3. QED
  BY <1>2 DEF gpio_write

\* No step touches an analog input before its driver is up.
LEMMA AdcUntouchedStep ==
    TypeOK /\ AdcUntouched /\ [Next]_vars => AdcUntouched'
<1> SUFFICES ASSUME TypeOK, AdcUntouched, [Next]_vars,
                    scan' \in {GpioInit, AdcInit}, NEW id \in Adc
             PROVE  value'[id] = 0 /\ is_updated'[id] = FALSE
  BY DEF AdcUntouched, Adc
<1>1. id \in Inputs /\ id \notin Io
  BY Numbers, KindsAreApart
<1>2. CASE gpio_init
  <2>1. value[id] = 0 /\ is_updated[id] = FALSE
    BY <1>2 DEF gpio_init, AdcUntouched
  <2>2. value'[id] = value[id]
    BY <1>1, <1>2 DEF gpio_init
  <2>3. is_updated'[id] = (id \in Io \/ is_updated[id])
    BY <1>1, <1>2 DEF gpio_init
  <2>4. is_updated'[id] = FALSE
    BY <1>1, <2>1, <2>3
  <2>5. QED
    BY <2>1, <2>2, <2>4
<1>3. CASE adc_mcp3008_init
  BY <1>3, Numbers, KindsAreApart DEF adc_mcp3008_init
<1>4. CASE ReadInput
  <2>1. scan' = NextScan(scan) /\ scan \in Inputs
    BY <1>4 DEF ReadInput, mainloop_exec
  <2>2. scan' \in Inputs
    BY <2>1, Numbers DEF NextScan, Inputs
  <2>3. QED
    BY <2>2, KindsAreApart
<1>5. CASE gpio_write
  <2>1. PICK other \in Io, v \in Values : Store(other, v) /\ UNCHANGED scan
    BY <1>5, WriteStores
  <2>2. other # id
    BY <2>1, KindsAreApart
  <2>3. value'[id] = value[id] /\ is_updated'[id] = is_updated[id]
    BY <1>1, <2>1, <2>2 DEF Store, driver, TypeOK
  <2>4. QED
    BY <2>1, <2>3 DEF AdcUntouched
<1>6. CASE set_is_updated_call
  <2>1. UNCHANGED <<value, scan>>
        /\ is_updated' = [is_updated EXCEPT ![cursor] = FALSE]
    BY <1>6 DEF set_is_updated_call
  <2>2. QED
    BY <1>1, <2>1 DEF AdcUntouched, TypeOK
<1>7. CASE UNCHANGED <<driver, scan>>
  BY <1>7 DEF driver, AdcUntouched
<1>8. QED
  BY <1>2, <1>3, <1>4, <1>5, <1>6, <1>7, OthersTouchNoInput DEF Mainloop, vars

\* A driver that stores a value of an input, its own or another one's.
LEMMA StoreIsAChange ==
    ASSUME TypeOK, NEW id \in Inputs, NEW other \in Inputs, NEW v \in Values,
           Store(other, v), Started(id)' = Started(id),
           other = id => Started(id) \/ v = value[id]
    PROVE  [Interface(id)!Next]_(Interface(id)!vars)
<1>1. CASE other = id /\ v # value[id]
  <2>1. value'[id] = v /\ is_updated'[id] = TRUE
    BY <1>1 DEF Store, TypeOK
  <2>2. QED
    BY <1>1, <2>1 DEF Started, Interface!Next, Interface!Change
<1>2. CASE other # id \/ v = value[id]
  <2>1. value'[id] = value[id] /\ is_updated'[id] = is_updated[id]
    BY <1>2 DEF Store, driver, TypeOK
  <2>2. QED
    BY <2>1 DEF Started, Interface!vars
<1>3. QED
  BY <1>1, <1>2

\* Every step is one of each input's driver, or none.
LEMMA InputStep ==
    ASSUME NEW id \in Inputs
    PROVE  TypeOK /\ AdcUntouched /\ [Next]_vars
               => [Interface(id)!Next]_(Interface(id)!vars)
<1> SUFFICES ASSUME TypeOK, AdcUntouched, [Next]_vars
             PROVE  [Interface(id)!Next]_(Interface(id)!vars)
  OBVIOUS
<1>1. CASE gpio_init
  <2>1. scan = GpioInit /\ scan' = AdcInit
        /\ is_updated' = [i \in Inputs |-> i \in Io \/ is_updated[i]]
    BY <1>1 DEF gpio_init
  <2>2. PICK levels \in [Io -> Values] :
          value' = [i \in Inputs |-> IF i \in Io THEN levels[i] ELSE value[i]]
    BY <1>1 DEF gpio_init
  <2>3. CASE id \in Io
    <3>1. value'[id] \in Values /\ is_updated'[id] = TRUE
      BY <2>1, <2>2, <2>3
    <3>2. ~Started(id) /\ Started(id)' = TRUE
      BY <2>1, <2>3, KindsAreApart DEF Started, Io
    <3>3. QED
      BY <3>1, <3>2 DEF Started, Interface!Next, Interface!Start
  <2>4. CASE id \notin Io
    <3>1. value'[id] = value[id]
      BY <2>2, <2>4
    <3>2. is_updated'[id] = is_updated[id]
      BY <2>1, <2>4 DEF TypeOK
    <3>3. Started(id)' = Started(id)
      BY <2>1, <2>4, KindsAreApart DEF Started, Io, Inputs
    <3>4. QED
      BY <3>1, <3>2, <3>3 DEF Started, Interface!vars
  <2>5. QED
    BY <2>3, <2>4
<1>2. CASE adc_mcp3008_init
  <2>1. /\ scan = AdcInit /\ scan' = IoCount
        /\ value' = [i \in Inputs |-> IF i \in Adc THEN 0 ELSE value[i]]
        /\ is_updated' = [i \in Inputs |-> i \in Io /\ is_updated[i]]
    BY <1>2 DEF adc_mcp3008_init
  <2>2. CASE id \in Io
    <3>1. value'[id] = value[id]
      BY <2>1, <2>2, KindsAreApart
    <3>2. is_updated'[id] = is_updated[id]
      BY <2>1, <2>2 DEF TypeOK
    <3>3. Started(id)' = Started(id)
      BY <2>1, <2>2, Numbers, KindsAreApart DEF Started, Io
    <3>4. QED
      BY <3>1, <3>2, <3>3 DEF Started, Interface!vars
  <2>3. CASE id \in Adc
    <3>1. id \notin Io /\ value[id] = 0 /\ is_updated[id] = FALSE
      BY <2>1, <2>3, KindsAreApart DEF AdcUntouched
    <3>2. value'[id] = value[id] /\ is_updated'[id] = is_updated[id]
      BY <2>1, <2>3, <3>1
    <3>3. ~Started(id) /\ Started(id)' = TRUE
      BY <2>1, <3>1, Numbers, KindsAreApart DEF Started, Io, Inputs
    <3>4. QED
      BY <3>2, <3>3 DEF Started, Interface!Next, Interface!Start
  <2>4. QED
    BY <2>2, <2>3, KindsAreApart
<1>3. CASE ReadInput
  <2>1. PICK v \in Values : mainloop_exec(v)
    BY <1>3 DEF ReadInput
  <2>2. scan \in Inputs /\ scan' \in Inputs /\ Store(scan, v)
    BY <2>1, Numbers DEF mainloop_exec, NextScan, Inputs
  <2>3. Started(id) = TRUE /\ Started(id)' = TRUE
    BY <2>2, KindsAreApart DEF Started, Io, Inputs
  <2>4. QED
    BY <2>2, <2>3, StoreIsAChange
<1>4. CASE gpio_write
  <2>1. PICK other \in Io, v \in Values :
          /\ Store(other, v) /\ UNCHANGED scan
          /\ scan # GpioInit \/ v = value[other]
    BY <1>4, WriteStores
  <2>2. other \in Inputs /\ Started(id)' = Started(id)
    BY <2>1, Numbers DEF Started, Io, Inputs
  <2>3. other = id => Started(id) \/ v = value[id]
    BY <2>1 DEF Started
  <2>4. QED
    BY <2>1, <2>2, <2>3, StoreIsAChange
<1>5. CASE set_is_updated_call
  <2>1. UNCHANGED <<value, scan>>
        /\ is_updated' = [is_updated EXCEPT ![cursor] = FALSE]
    BY <1>5 DEF set_is_updated_call
  <2>2. Started(id)' = Started(id)
    BY <2>1 DEF Started, Io, Inputs
  <2>3. CASE cursor = id
    BY <2>1, <2>2, <2>3
       DEF TypeOK, Started, Interface!Next, Interface!Acknowledge
  <2>4. CASE cursor # id
    BY <2>1, <2>2, <2>4 DEF TypeOK, Started, Interface!vars
  <2>5. QED
    BY <2>3, <2>4
<1>6. CASE UNCHANGED <<driver, scan>>
  BY <1>6 DEF driver, Interface!vars, Io, Inputs
<1>7. QED
  BY <1>1, <1>2, <1>3, <1>4, <1>5, <1>6, OthersTouchNoInput DEF Mainloop, vars

\* Whatever the main loop, the API thread and the clients do, each input is one
\* that a driver implements: GpioProofs and AdcMcp3008Proofs show that theirs
\* are, so what holds of any input here holds of the two drivers' inputs.
THEOREM InputsAreTheDrivers ==
    ASSUME NEW id \in Inputs
    PROVE  Spec => Interface(id)!Spec
<1>1. Init => AdcUntouched
  BY Numbers DEF Init, AdcUntouched
<1>2. Init => Interface(id)!Init
  <2> SUFFICES ASSUME Init PROVE Interface(id)!Init
    OBVIOUS
  <2>1. value[id] = 0 /\ is_updated[id] = FALSE
    BY DEF Init
  <2>2. Started(id) \in BOOLEAN
    <3>1. (scan # GpioInit) \in BOOLEAN /\ (scan \in Inputs) \in BOOLEAN
      OBVIOUS
    <3>2. QED
      BY <3>1, Zenon DEF Started
  <2>3. QED
    BY <2>1, <2>2 DEF Started, Interface!Init
<1>3. QED
  BY <1>1, <1>2, InputStep, AdcUntouchedStep, TypeCorrect, PTL
     DEF Spec, Interface!Spec

-----------------------------------------------------------------------------
(* UpdateHistory                                                            *)

\* The history variables add no behaviour.
LEMMA HistoryIsNext == HistoryNext => Next
BY DEF HistoryNext, Next, ApiStep

\* The history starts well typed.
LEMMA HistoryTypeInit == HistoryInit => HistoryTypeOK
BY TypeInit DEF HistoryInit, HistoryTypeOK

\* Every step keeps the history well typed.
LEMMA HistoryTypeStep ==
    HistoryTypeOK /\ [HistoryNext]_<<vars, history>> => HistoryTypeOK'
<1> SUFFICES ASSUME HistoryTypeOK, [HistoryNext]_<<vars, history>>
             PROVE  HistoryTypeOK'
  OBVIOUS
<1>1. TypeOK'
  BY TypeStep, HistoryIsNext DEF HistoryTypeOK
<1>2. SUFFICES /\ told' \in [Inputs -> Values \cup {NoValue}]
               /\ unseen' \subseteq Inputs /\ lost' \subseteq Inputs
  BY <1>1 DEF HistoryTypeOK
<1> USE DEF HistoryTypeOK
<1>3. CASE RecordChange
  BY <1>3, Numbers DEF RecordChange
<1>4. CASE accept /\ RecordAccept
  BY <1>4 DEF RecordAccept
<1>5. CASE get_value_call /\ RecordFetch
  BY <1>5 DEF RecordFetch
<1>6. CASE set_is_updated_call /\ RecordClear
  BY <1>6, CursorIsInput DEF RecordClear, set_is_updated_call, TypeOK
<1>7. CASE RecordDroppedReply
  BY <1>7 DEF RecordDroppedReply, TypeOK, Replies
<1>8. CASE UNCHANGED history
  BY <1>8 DEF history
<1>9. QED
  BY <1>3, <1>4, <1>5, <1>6, <1>7, <1>8 DEF HistoryNext

\* The state and the history always have their types.
THEOREM HistoryTypeCorrect == HistorySpec => []HistoryTypeOK
BY HistoryTypeInit, HistoryTypeStep, PTL DEF HistorySpec

-----------------------------------------------------------------------------
(* Only what changed is flagged *)

\* A flag that is up after a store was up before it, or its input changed.
LEMMA StoreFlagsChanges ==
    ASSUME TypeOK, NEW stored \in Inputs, NEW v \in Values, Store(stored, v),
           NEW id \in Inputs
    PROVE  /\ is_updated'[id] => is_updated[id] \/ value'[id] # value[id]
           /\ is_updated[id] => is_updated'[id]
           /\ value'[id] # value[id] => is_updated'[id]
BY DEF TypeOK, Store, driver

\* The same of every action that changes inputs, RecordChange included.
LEMMA ChangesAreRecorded ==
    ASSUME TypeOK, Mainloop \/ gpio_write, RecordChange, NEW id \in Inputs
    PROVE  is_updated'[id] => is_updated[id] \/ id \in unseen'
<1>1. CASE gpio_init
  <2>1. is_updated'[id] => id \in Io \/ is_updated[id]
    BY <1>1 DEF gpio_init
  <2>2. scan = GpioInit /\ scan' # scan
    BY <1>1 DEF gpio_init, GpioInit, AdcInit
  <2>3. Io \subseteq unseen'
    BY <2>2 DEF RecordChange
  <2>4. QED
    BY <2>1, <2>3
<1>2. CASE adc_mcp3008_init
  BY <1>2 DEF adc_mcp3008_init
<1>3. CASE ReadInput
  <2>1. PICK v \in Values : mainloop_exec(v)
    BY <1>3 DEF ReadInput
  <2>2. is_updated'[id] => is_updated[id] \/ value'[id] # value[id]
    BY <2>1, StoreFlagsChanges DEF mainloop_exec
  <2>3. QED
    BY <2>2 DEF RecordChange
<1>4. CASE gpio_write
  <2> DEFINE pair == Head(todo)
  <2>1. pair \in Io \X Values
    BY <1>4 DEF gpio_write, TypeOK
  <2>2. pair[1] \in Inputs /\ pair[2] \in Values /\ Store(pair[1], pair[2])
    BY <1>4, <2>1, Numbers DEF gpio_write
  <2>3. is_updated'[id] => is_updated[id] \/ value'[id] # value[id]
    BY <2>2, StoreFlagsChanges
  <2>4. QED
    BY <2>3 DEF RecordChange
<1>5. QED
  BY <1>1, <1>2, <1>3, <1>4 DEF Mainloop

\* The main loop does not move the API thread; gpio_write is not at a fetch.
LEMMA ChangesAreOutsideFetch ==
    ASSUME Mainloop \/ gpio_write
    PROVE  UNCHANGED <<cursor, fetched>> /\ (UNCHANGED pc \/ pc # "clear")
<1>1. CASE gpio_init
  BY <1>1 DEF gpio_init, builder
<1>2. CASE adc_mcp3008_init
  BY <1>2 DEF adc_mcp3008_init, builder
<1>3. CASE ReadInput
  BY <1>3 DEF ReadInput, mainloop_exec, builder
<1>4. CASE gpio_write
  BY <1>4 DEF gpio_write
<1>5. QED
  BY <1>1, <1>2, <1>3, <1>4 DEF Mainloop

\* The other steps that are not in the history leave the driver's state alone,
\* and none of them is taken between a fetch and its clear by the API thread.
Unrecorded ==
    \/ api_server_fails \/ Timeout \/ Request
    \/ WakeForSecondClient \/ ClientIsDisconnected
    \/ gpio_write_fails \/ exec_set_out_done
    \/ is_updated_call \/ RoomIsLeft \/ write_to_client
    \/ Environment

\* A step nothing is recorded of leaves the inputs and the pending fetch alone.
LEMMA UnrecordedIsQuiet ==
    ASSUME Unrecorded
    PROVE  UNCHANGED driver /\ (UNCHANGED <<pc, cursor>> \/ pc # "clear")
<1>1. CASE api_server_fails \/ WakeForSecondClient \/ ClientIsDisconnected
  BY <1>1 DEF api_server_fails, WakeForSecondClient, ClientIsDisconnected
<1>2. CASE Timeout \/ Request
  BY <1>2 DEF Timeout, Request, GetAll, SetOut, BadRequest, Receiving
<1>3. CASE gpio_write_fails \/ exec_set_out_done
  BY <1>3 DEF gpio_write_fails, exec_set_out_done
<1>4. CASE is_updated_call \/ RoomIsLeft \/ write_to_client
  BY <1>4 DEF is_updated_call, RoomIsLeft, write_to_client
<1>5. CASE Environment
  BY <1>5 DEF Environment, ClientReceives, ClientCloses, SecondClientConnects,
              builder
<1>6. QED
  BY <1>1, <1>2, <1>3, <1>4, <1>5 DEF Unrecorded

\* Every step keeps flags on news only.
LEMMA NewsStep ==
    HistoryTypeOK /\ OnlyNewsIsFlagged /\ [HistoryNext]_<<vars, history>>
        => OnlyNewsIsFlagged'
<1> SUFFICES ASSUME HistoryTypeOK, OnlyNewsIsFlagged,
                    [HistoryNext]_<<vars, history>>,
                    NEW id \in Inputs, is_updated'[id]
             PROVE  id \in unseen' \/ (pc' = "clear" /\ cursor' = id)
  BY DEF OnlyNewsIsFlagged
<1> USE DEF HistoryTypeOK
<1>1. is_updated[id] => id \in unseen \/ (pc = "clear" /\ cursor = id)
  BY DEF OnlyNewsIsFlagged
<1>2. CASE (Mainloop \/ gpio_write) /\ RecordChange
  <2>1. is_updated[id] \/ id \in unseen'
    BY <1>2, ChangesAreRecorded
  <2>2. unseen \subseteq unseen'
    BY <1>2 DEF RecordChange
  <2>3. QED
    BY <1>1, <1>2, <2>1, <2>2, ChangesAreOutsideFetch
<1>3. CASE accept /\ RecordAccept
  BY <1>1, <1>3 DEF accept, RecordAccept, driver
<1>4. CASE get_value_call /\ RecordFetch
  BY <1>1, <1>4 DEF get_value_call, RecordFetch
<1>5. CASE set_is_updated_call /\ RecordClear
  BY <1>1, <1>5 DEF set_is_updated_call, RecordClear, TypeOK
<1>6. CASE (build_payload_overflows \/ write_to_closed_client)
           /\ RecordDroppedReply
  BY <1>1, <1>6 DEF build_payload_overflows, write_to_closed_client,
                    RecordDroppedReply, driver
<1>7. CASE Unrecorded /\ UNCHANGED history
  BY <1>1, <1>7, UnrecordedIsQuiet DEF driver, history
<1>8. CASE UNCHANGED <<vars, history>>
  BY <1>1, <1>8 DEF vars, driver, builder, history
<1>9. QED
  BY <1>2, <1>3, <1>4, <1>5, <1>6, <1>7, <1>8 DEF HistoryNext, Unrecorded

\* A push carries news: a flag is up only on an input that changed after a
\* reply last fetched it.
THEOREM FlagsAreNews == HistorySpec => []OnlyNewsIsFlagged
<1>1. HistoryInit => OnlyNewsIsFlagged
  BY DEF HistoryInit, Init, OnlyNewsIsFlagged
<1>2. QED
  BY <1>1, HistoryTypeInit, HistoryTypeStep, NewsStep, PTL DEF HistorySpec

-----------------------------------------------------------------------------
(* Every change is accounted for *)

\* The strengthening is AdcUntouched: adc_mcp3008_init resets the analog inputs
\* and lowers their flags, which loses nothing because nobody has read one
\* before it.
LEMMA UntouchedStep ==
    HistoryTypeOK /\ AdcUntouched /\ [HistoryNext]_<<vars, history>>
        => AdcUntouched'
BY AdcUntouchedStep, HistoryIsNext DEF HistoryTypeOK

\* A step that changes inputs flags every input it gives another value, and
\* lowers no flag.
LEMMA ChangesAreFlagged ==
    ASSUME TypeOK, AdcUntouched, Mainloop \/ gpio_write, NEW id \in Inputs
    PROVE  is_updated'[id] \/ (value'[id] = value[id] /\ ~is_updated[id])
<1>1. CASE gpio_init
  <2>1. CASE id \in Io
    BY <1>1, <2>1 DEF gpio_init, TypeOK
  <2>2. CASE id \notin Io
    BY <1>1, <2>2 DEF gpio_init, TypeOK
  <2>3. QED
    BY <2>1, <2>2
<1>2. CASE adc_mcp3008_init
  <2>1. CASE id \in Adc
    BY <1>2, <2>1 DEF adc_mcp3008_init, AdcUntouched
  <2>2. CASE id \notin Adc
    <3>1. id \in Io
      BY <2>2, Numbers DEF Io, Adc, Inputs
    <3>2. QED
      BY <1>2, <2>2, <3>1 DEF adc_mcp3008_init, TypeOK
  <2>3. QED
    BY <2>1, <2>2
<1>3. CASE ReadInput
  <2>1. PICK v \in Values : mainloop_exec(v)
    BY <1>3 DEF ReadInput
  <2>2. QED
    BY <2>1, StoreFlagsChanges DEF mainloop_exec
<1>4. CASE gpio_write
  <2> DEFINE pair == Head(todo)
  <2>1. pair \in Io \X Values
    BY <1>4 DEF gpio_write, TypeOK
  <2>2. pair[1] \in Inputs /\ pair[2] \in Values /\ Store(pair[1], pair[2])
    BY <1>4, <2>1, Numbers DEF gpio_write
  <2>3. QED
    BY <2>2, StoreFlagsChanges
<1>5. QED
  BY <1>1, <1>2, <1>3, <1>4 DEF Mainloop

\* Every step accounts for the changes it makes, sends or drops.
LEMMA AccountsStep ==
    HistoryTypeOK /\ AdcUntouched /\ ServerAccounts
        /\ [HistoryNext]_<<vars, history>> => ServerAccounts'
<1> SUFFICES ASSUME HistoryTypeOK, AdcUntouched, ServerAccounts,
                    [HistoryNext]_<<vars, history>>
             PROVE  ServerAccounts'
  OBVIOUS
<1> SUFFICES ASSUME NEW id \in Inputs
             PROVE  \/ told'[id] = value'[id] \/ is_updated'[id]
                    \/ id \in lost' \/ (pc' = "clear" /\ cursor' = id)
  BY DEF ServerAccounts
<1> USE DEF HistoryTypeOK
<1>1. \/ told[id] = value[id] \/ is_updated[id]
      \/ id \in lost \/ (pc = "clear" /\ cursor = id)
  BY DEF ServerAccounts
<1>2. CASE (Mainloop \/ gpio_write) /\ RecordChange
  <2>1. UNCHANGED <<told, lost>>
    BY <1>2 DEF RecordChange
  <2>2. is_updated'[id] \/ (value'[id] = value[id] /\ ~is_updated[id])
    BY <1>2, ChangesAreFlagged
  <2>3. QED
    BY <1>1, <1>2, <2>1, <2>2, ChangesAreOutsideFetch
<1>3. CASE accept /\ RecordAccept
  BY <1>3 DEF RecordAccept
<1>4. CASE get_value_call /\ RecordFetch
  BY <1>1, <1>4 DEF get_value_call, RecordFetch
<1>5. CASE set_is_updated_call /\ RecordClear
  BY <1>1, <1>5 DEF set_is_updated_call, RecordClear, TypeOK
<1>6. CASE (build_payload_overflows \/ write_to_closed_client)
           /\ RecordDroppedReply
  BY <1>1, <1>6 DEF build_payload_overflows, write_to_closed_client,
                    RecordDroppedReply, driver
<1>7. CASE Unrecorded /\ UNCHANGED history
  BY <1>1, <1>7, UnrecordedIsQuiet DEF driver, history
<1>8. CASE UNCHANGED <<vars, history>>
  BY <1>1, <1>8 DEF vars, driver, builder, history
<1>9. QED
  BY <1>2, <1>3, <1>4, <1>5, <1>6, <1>7, <1>8 DEF HistoryNext, Unrecorded

\* Whatever the interleaving of the two threads, no change of an input goes
\* missing but in the three ways lost records.
THEOREM ChangesAccounted == HistorySpec => []ServerAccounts
<1>1. HistoryInit => AdcUntouched /\ ServerAccounts
  BY Numbers DEF HistoryInit, Init, AdcUntouched, ServerAccounts
<1>2. QED
  BY <1>1, HistoryTypeInit, HistoryTypeStep, UntouchedStep, AccountsStep, PTL
     DEF HistorySpec

-----------------------------------------------------------------------------
(* The client is told what the server accounts for *)

\* The strengthening has two parts. Between two replies nothing is being
\* built.
NothingBuilt ==
    pc \in {"accept", "select", "read", "set/out", "ended"} => reply = Empty

\* And of an input that is not lost, what told says is on its way: it is in
\* the reply under construction, or in the last reply on the wire that names
\* the input, or the client knows it already.
Named(items, id) == id \in DOMAIN items

OnWire(id, v) ==
    \E j \in 1..Len(wire) :
        /\ Named(wire[j], id) /\ wire[j][id] = v
        /\ \A i \in 1..Len(wire) : i > j => ~Named(wire[i], id)

Received(id, v) ==
    (\A j \in 1..Len(wire) : ~Named(wire[j], id)) /\ view[id] = v

Reaches(id, v) ==
    IF Named(reply, id) THEN reply[id] = v ELSE OnWire(id, v) \/ Received(id, v)

ToldReaches == link = "up" => \A id \in Inputs \ lost : Reaches(id, told[id])

\* An empty reply names no input.
LEMMA EmptyNamesNone == \A id : ~Named(Empty, id)
BY DEF Named, Empty

\* A payload is started from nothing and leaves nothing behind.
LEMMA BuiltStep == NothingBuilt /\ [Next]_vars => NothingBuilt'
<1> SUFFICES ASSUME NothingBuilt, [Next]_vars PROVE NothingBuilt'
  OBVIOUS
<1>1. CASE Mainloop \/ Environment
  BY <1>1 DEF Mainloop, gpio_init, adc_mcp3008_init, ReadInput, mainloop_exec,
              Environment, ClientReceives, ClientCloses, SecondClientConnects,
              builder, NothingBuilt, Empty
<1>2. CASE accept \/ api_server_fails \/ Timeout \/ Request
  BY <1>2 DEF accept, api_server_fails, Timeout, Request, GetAll, SetOut,
              BadRequest, Receiving, BuildPayload, builder, NothingBuilt, Empty
<1>3. CASE \/ WakeForSecondClient \/ ClientIsDisconnected
           \/ gpio_write \/ gpio_write_fails \/ exec_set_out_done
  BY <1>3 DEF WakeForSecondClient, ClientIsDisconnected, gpio_write,
              gpio_write_fails, exec_set_out_done, BuildPayload, builder,
              NothingBuilt, Empty
<1>4. CASE is_updated_call \/ get_value_call \/ set_is_updated_call
           \/ RoomIsLeft \/ build_payload_overflows
  BY <1>4 DEF is_updated_call, get_value_call, set_is_updated_call, Advance,
              RoomIsLeft, build_payload_overflows, builder, NothingBuilt, Empty
<1>5. CASE write_to_client \/ write_to_closed_client
  BY <1>5 DEF write_to_client, write_to_closed_client, Forget, NothingBuilt,
              Empty
<1>6. CASE UNCHANGED vars
  BY <1>6 DEF vars, builder, NothingBuilt, Empty
<1>7. QED
  BY <1>1, <1>2, <1>3, <1>4, <1>5, <1>6 DEF Next, ApiStep

\* What is on its way stays on its way when nothing moves.
LEMMA ReachesUnchanged ==
    ASSUME NEW id, NEW v, Reaches(id, v), UNCHANGED <<wire, view>>,
           IF Named(reply, id) THEN Named(reply, id)' /\ reply'[id] = reply[id]
                               ELSE ~Named(reply, id)'
    PROVE  Reaches(id, v)'
BY DEF Reaches, Named, OnWire, Received

\* A reply that is written is the last on the wire.
LEMMA ReachesWritten ==
    ASSUME HistoryTypeOK, write_to_client, NEW id \in Inputs, NEW v,
           Reaches(id, v)
    PROVE  Reaches(id, v)'
<1> DEFINE n == Len(wire)
<1>1. /\ n \in Nat /\ Len(wire') = n + 1 /\ wire'[n + 1] = reply
      /\ \A j \in 1..n : wire'[j] = wire[j]
      /\ reply' = Empty /\ view' = view
  BY DEF write_to_client, Forget, HistoryTypeOK, TypeOK
<1>2. ~Named(reply, id)'
  BY <1>1, EmptyNamesNone DEF Named
<1> HIDE DEF n
<1>3. CASE Named(reply, id)
  <2>1. reply[id] = v
    BY <1>3 DEF Reaches
  <2>2. OnWire(id, v)'
    <3>1. n + 1 \in 1..Len(wire') /\ wire'[n + 1][id] = v /\ Named(wire'[n + 1], id)
      BY <1>1, <1>3, <2>1
    <3>2. \A i \in 1..Len(wire') : ~(i > n + 1)
      BY <1>1
    <3>3. QED
      BY <3>1, <3>2 DEF OnWire, Named
  <2>3. QED
    BY <1>2, <2>2 DEF Reaches
<1>4. CASE ~Named(reply, id) /\ OnWire(id, v)
  <2>1. PICK j \in 1..Len(wire) :
          /\ Named(wire[j], id) /\ wire[j][id] = v
          /\ \A i \in 1..Len(wire) : i > j => ~Named(wire[i], id)
    BY <1>4 DEF OnWire
  <2>2. j \in 1..n /\ j \in 1..Len(wire') /\ wire'[j] = wire[j]
    BY <1>1 DEF n
  <2>3. ASSUME NEW i \in 1..Len(wire'), i > j PROVE ~Named(wire'[i], id)
    <3>1. CASE i = n + 1
      BY <1>1, <1>4, <3>1
    <3>2. CASE i # n + 1
      <4>1. i \in 1..Len(wire) /\ wire'[i] = wire[i]
        BY <1>1, <3>2 DEF n
      <4>2. QED
        BY <2>1, <2>3, <4>1
    <3>3. QED
      BY <3>1, <3>2
  <2>4. OnWire(id, v)'
    BY <2>1, <2>2, <2>3 DEF OnWire, Named
  <2>5. QED
    BY <1>2, <2>4 DEF Reaches
<1>5. CASE ~Named(reply, id) /\ Received(id, v)
  <2>1. ASSUME NEW j \in 1..Len(wire') PROVE ~Named(wire'[j], id)
    <3>1. CASE j = n + 1
      BY <1>1, <1>5, <3>1
    <3>2. CASE j # n + 1
      <4>1. j \in 1..Len(wire) /\ wire'[j] = wire[j]
        BY <1>1, <3>2 DEF n
      <4>2. QED
        BY <1>5, <4>1 DEF Received
    <3>3. QED
      BY <3>1, <3>2
  <2>2. Received(id, v)'
    BY <1>1, <1>5, <2>1 DEF Received, Named
  <2>3. QED
    BY <1>2, <2>2 DEF Reaches
<1>6. QED
  BY <1>3, <1>4, <1>5 DEF Reaches

\* A reply that is received leaves what the later ones say, or is what the
\* client knows.
LEMMA ReachesReceived ==
    ASSUME HistoryTypeOK, ClientReceives, NEW id \in Inputs, NEW v,
           Reaches(id, v)
    PROVE  Reaches(id, v)'
<1> DEFINE n == Len(wire)
<1>1. /\ n \in Nat /\ n > 0 /\ Len(wire') = n - 1
      /\ \A j \in 1..n - 1 : wire'[j] = wire[j + 1]
      /\ reply' = reply
      /\ view'[id] = IF Named(wire[1], id) THEN wire[1][id] ELSE view[id]
  BY DEF ClientReceives, HistoryTypeOK, TypeOK, Named, builder
<1> HIDE DEF n
<1>2. CASE Named(reply, id)
  BY <1>1, <1>2 DEF Reaches, Named
<1>3. CASE ~Named(reply, id) /\ OnWire(id, v)
  <2>1. PICK j \in 1..Len(wire) :
          /\ Named(wire[j], id) /\ wire[j][id] = v
          /\ \A i \in 1..Len(wire) : i > j => ~Named(wire[i], id)
    BY <1>3 DEF OnWire
  <2>2. ASSUME NEW i \in 1..Len(wire'), i + 1 > j PROVE ~Named(wire'[i], id)
    <3>1. i + 1 \in 1..Len(wire) /\ wire'[i] = wire[i + 1]
      BY <1>1 DEF n
    <3>2. QED
      BY <2>1, <2>2, <3>1
  <2>3. CASE j = 1
    <3>1. \A i \in 1..Len(wire') : ~Named(wire'[i], id)
      BY <1>1, <2>2, <2>3
    <3>2. view'[id] = v
      BY <1>1, <2>1, <2>3
    <3>3. Received(id, v)'
      BY <3>1, <3>2 DEF Received, Named
    <3>4. QED
      BY <1>1, <1>3, <3>3 DEF Reaches, Named
  <2>4. CASE j # 1
    <3>1. j - 1 \in 1..Len(wire') /\ wire'[j - 1] = wire[j]
      <4>1. j \in 2..n /\ j - 1 \in 1..n - 1 /\ j - 1 + 1 = j
        BY <1>1, <2>4 DEF n
      <4>2. QED
        BY <1>1, <4>1
    <3>2. \A i \in 1..Len(wire') : i > j - 1 => ~Named(wire'[i], id)
      BY <1>1, <2>2
    <3>3. OnWire(id, v)'
      BY <2>1, <3>1, <3>2 DEF OnWire, Named
    <3>4. QED
      BY <1>1, <1>3, <3>3 DEF Reaches, Named
  <2>5. QED
    BY <2>3, <2>4
<1>4. CASE ~Named(reply, id) /\ Received(id, v)
  <2>1. ~Named(wire[1], id) /\ view[id] = v
    BY <1>1, <1>4 DEF Received, n
  <2>2. ASSUME NEW j \in 1..Len(wire') PROVE ~Named(wire'[j], id)
    <3>1. j + 1 \in 1..Len(wire) /\ wire'[j] = wire[j + 1]
      BY <1>1 DEF n
    <3>2. QED
      BY <1>4, <3>1 DEF Received
  <2>3. Received(id, v)'
    BY <1>1, <2>1, <2>2 DEF Received, Named
  <2>4. QED
    BY <1>1, <1>4, <2>3 DEF Reaches, Named
<1>5. QED
  BY <1>2, <1>3, <1>4 DEF Reaches

\* The steps that neither build, drop, send nor receive a reply, and those
\* that start one from nothing, leave what is on its way where it is.
LEMMA QuietSteps ==
    ASSUME NothingBuilt,
           \/ Mainloop \/ gpio_write \/ get_value_call
           \/ Timeout \/ Request \/ WakeForSecondClient
           \/ gpio_write_fails \/ exec_set_out_done
           \/ is_updated_call \/ RoomIsLeft \/ SecondClientConnects
    PROVE  UNCHANGED <<reply, wire, view, link>>
<1>1. CASE Mainloop
  BY <1>1 DEF Mainloop, gpio_init, adc_mcp3008_init, ReadInput, mainloop_exec,
              builder, client
<1>2. CASE Timeout \/ Request \/ WakeForSecondClient
  BY <1>2 DEF Timeout, Request, GetAll, SetOut, BadRequest, Receiving,
              WakeForSecondClient, BuildPayload, builder, client, NothingBuilt
<1>3. CASE gpio_write \/ gpio_write_fails \/ exec_set_out_done
  BY <1>3 DEF gpio_write, gpio_write_fails, exec_set_out_done, BuildPayload,
              client, NothingBuilt
<1>4. CASE get_value_call \/ is_updated_call \/ RoomIsLeft \/ SecondClientConnects
  BY <1>4 DEF get_value_call, is_updated_call, RoomIsLeft,
              SecondClientConnects, builder, client
<1>5. QED
  BY <1>1, <1>2, <1>3, <1>4

\* Every step keeps what was told on its way.
LEMMA ToldStep ==
    HistoryTypeOK /\ NothingBuilt /\ ToldReaches
        /\ [HistoryNext]_<<vars, history>> => ToldReaches'
<1> SUFFICES ASSUME HistoryTypeOK, NothingBuilt, ToldReaches,
                    [HistoryNext]_<<vars, history>>, link' = "up",
                    NEW id \in Inputs, id \notin lost'
             PROVE  Reaches(id, told[id])'
  BY DEF ToldReaches
<1>1. (link = "up" /\ id \notin lost) => Reaches(id, told[id])
  BY DEF ToldReaches
<1>2. SUFFICES ASSUME NEW u, u = told'[id] PROVE Reaches(id, u)'
  BY DEF Reaches, OnWire, Received
<1>3. ASSUME link = "up", id \notin lost, told'[id] = told[id]
      PROVE  Reaches(id, u)
  BY <1>1, <1>2, <1>3 DEF Reaches, OnWire, Received
<1>4. CASE UNCHANGED <<told, lost, reply, wire, view, link>>
  BY <1>3, <1>4, ReachesUnchanged DEF Named
<1>5. CASE (Mainloop \/ gpio_write) /\ RecordChange
  BY <1>4, <1>5, QuietSteps DEF RecordChange
<1>6. CASE accept /\ RecordAccept
  BY <1>6 DEF RecordAccept
<1>7. CASE get_value_call /\ RecordFetch
  BY <1>4, <1>7, QuietSteps DEF RecordFetch
<1>8. CASE set_is_updated_call /\ RecordClear
  <2>1. /\ UNCHANGED <<wire, view, link>> /\ cursor \in Inputs
        /\ DOMAIN reply' = DOMAIN reply \cup {cursor}
        /\ reply'[cursor] = fetched
        /\ \A i \in DOMAIN reply : i # cursor => reply'[i] = reply[i]
    BY <1>8, CursorIsInput DEF set_is_updated_call, client, HistoryTypeOK
  <2>2. CASE id = cursor
    BY <1>2, <1>8, <2>1, <2>2 DEF RecordClear, HistoryTypeOK, Reaches, Named
  <2>3. CASE id # cursor
    <3>1. id \notin lost /\ told'[id] = told[id]
      BY <1>8, <2>3 DEF RecordClear, HistoryTypeOK
    <3>2. Reaches(id, u)
      BY <1>3, <2>1, <3>1
    <3>3. IF Named(reply, id) THEN Named(reply, id)' /\ reply'[id] = reply[id]
                              ELSE ~Named(reply, id)'
      BY <2>1, <2>3 DEF Named
    <3>4. QED
      BY <2>1, <3>2, <3>3, ReachesUnchanged
  <2>4. QED
    BY <2>2, <2>3
<1>9. CASE build_payload_overflows /\ RecordDroppedReply
  <2>1. /\ UNCHANGED <<wire, view, link, told>> /\ reply' = Empty
        /\ id \notin lost /\ ~Named(reply, id)
    BY <1>9 DEF build_payload_overflows, RecordDroppedReply, client, Named
  <2>2. Reaches(id, u)
    BY <1>3, <2>1
  <2>3. ~Named(reply, id)'
    BY <2>1, EmptyNamesNone DEF Named
  <2>4. QED
    BY <2>1, <2>2, <2>3, ReachesUnchanged
<1>10. CASE write_to_closed_client
  BY <1>10 DEF write_to_closed_client
<1>11. CASE write_to_client /\ UNCHANGED history
  <2>1. Reaches(id, u)
    BY <1>3, <1>11 DEF write_to_client, history
  <2>2. QED
    BY <1>11, <2>1, ReachesWritten
<1>12. CASE ClientReceives /\ UNCHANGED history
  <2>1. Reaches(id, u)
    BY <1>3, <1>12 DEF ClientReceives, history
  <2>2. QED
    BY <1>12, <2>1, ReachesReceived
<1>13. CASE api_server_fails \/ ClientIsDisconnected \/ ClientCloses
  BY <1>13 DEF api_server_fails, ClientIsDisconnected, ClientCloses
<1>14. CASE /\ \/ Timeout \/ Request \/ WakeForSecondClient
               \/ gpio_write_fails \/ exec_set_out_done
               \/ is_updated_call \/ RoomIsLeft \/ SecondClientConnects
            /\ UNCHANGED history
  BY <1>4, <1>14, QuietSteps DEF history
<1>15. CASE UNCHANGED <<vars, history>>
  BY <1>4, <1>15 DEF vars, builder, client, history
<1>16. QED
  BY <1>5, <1>6, <1>7, <1>8, <1>9, <1>10, <1>11, <1>12, <1>13, <1>14, <1>15
     DEF HistoryNext, Environment

\* With nothing on its way, what was told is what the client knows.
LEMMA AccountsReachClient ==
    HistoryTypeOK /\ NothingBuilt /\ ToldReaches /\ ServerAccounts
        => ClientAccounts
<1> SUFFICES ASSUME HistoryTypeOK, NothingBuilt, ToldReaches, ServerAccounts,
                    link = "up", wire = <<>>, pc \in {"select", "read"},
                    NEW id \in Inputs, ~is_updated[id], id \notin lost
             PROVE  view[id] = value[id]
  BY DEF ClientAccounts
<1>1. told[id] = value[id]
  BY DEF ServerAccounts
<1>2. Reaches(id, told[id])
  BY DEF ToldReaches
<1>3. ~Named(reply, id)
  BY EmptyNamesNone DEF NothingBuilt
<1>4. Len(wire) = 0
  OBVIOUS
<1>5. ~OnWire(id, told[id])
  BY <1>4 DEF OnWire
<1>6. QED
  BY <1>1, <1>2, <1>3, <1>5 DEF Reaches, Received

\* Whatever the two threads, the sockets and the client interleave: once
\* nothing is on its way to it, the client knows the value of every input that
\* is neither flagged nor lost in one of the three ways the history records.
THEOREM ClientIsAccountedFor == HistorySpec => []ClientAccounts
<1>1. HistoryInit => NothingBuilt /\ ToldReaches
  BY DEF HistoryInit, Init, NothingBuilt, ToldReaches
<1>2. [HistoryNext]_<<vars, history>> => [Next]_vars
  BY HistoryIsNext
<1>3. QED
  BY <1>1, <1>2, HistoryTypeInit, HistoryTypeStep, BuiltStep, ToldStep,
     ChangesAccounted, AccountsReachClient, PTL DEF HistorySpec
=============================================================================
