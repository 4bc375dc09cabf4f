----------------------------- MODULE UpdatePush -----------------------------
(***************************************************************************)
(* The two threads of adc-monitor around the inputs they share, and the    *)
(* one client they inform.                                                 *)
(*                                                                         *)
(* The main loop (mainloop.c) reads the inputs one after the other; the    *)
(* drivers store a new value and raise the input's is_updated. The API     *)
(* thread (api.c) waits 500 ms for a request and, when none comes, pushes  *)
(* the inputs whose flag is up; it answers get/all with every input and    *)
(* set/out with the outputs whose flag is up. For each input it puts in a  *)
(* reply it calls the driver up to three times, is_updated, get_value and  *)
(* set_is_updated(false), and each call is a critical section of its own:  *)
(* the main loop can run between any two of them.                          *)
(***************************************************************************)
EXTENDS Integers, Sequences

CONSTANTS
    IoCount,    \* IO_COUNT: the outputs, the first inputs of a reply
    AdcCount,   \* ADC_INPUTS_COUNT: the analog inputs, the next ones
    Values,     \* what an input can be worth, 0 among them
    Commands,   \* what a set/out can ask: sequences of <<output, value>>
    Roominess,  \* whether a request's _msgid leaves room for the reply
    MaxWire,    \* replies the sockets hold before write() blocks
    NoValue     \* what a client knows of an input it was not told of

InputCount == IoCount + AdcCount
Inputs     == 0..InputCount - 1
Io         == 0..IoCount - 1
Adc        == IoCount..InputCount - 1

ASSUME CountAssumption == /\ IoCount \in Nat /\ IoCount > 0
                          /\ AdcCount \in Nat /\ AdcCount > 0
ASSUME ValueAssumption == 0 \in Values /\ NoValue \notin Values
ASSUME CommandAssumption == Commands \subseteq Seq(Io \X Values)
ASSUME RoomAssumption == Roominess \subseteq BOOLEAN
ASSUME WireAssumption == MaxWire \in Nat /\ MaxWire > 0

VARIABLES
    value, is_updated,   \* GPIO[id] and ADC_MCP3008[id]
    scan,                \* main loop: the input it reads next; or its init
    pc,                  \* where the API thread is
    request,             \* what it is answering, and whether it fits
    todo,                \* set/out: the writes still to do
    cursor,              \* add_to_payload: the input it is at
    fetched,             \* add_to_payload: the value it got
    reply,               \* the inputs in reply_buffer and their values
    link,                \* the client: none, up, or gone and not noticed
    waiting,             \* a second client is in the listen queue
    wire,                \* replies sent and not received
    view                 \* what the client knows

driver  == <<value, is_updated>>
builder == <<request, todo, cursor, fetched, reply>>
client  == <<link, waiting, wire, view>>
vars    == <<driver, scan, pc, builder, client>>

GpioInit == -2     \* scan, before gpio_init and before adc_mcp3008_init
AdcInit  == -1

Kinds    == {"none", "timeout", "get/all", "set/out"}
Requests == [kind : Kinds, roomy : BOOLEAN]
Idle     == [kind |-> "none", roomy |-> TRUE]
Empty    == [id \in {} |-> 0]
Replies  == UNION {[S -> Values] : S \in SUBSET Inputs}

Init ==
    /\ value = [id \in Inputs |-> 0]
    /\ is_updated = [id \in Inputs |-> FALSE]
    /\ scan = GpioInit
    /\ pc = "accept"
    /\ request = Idle /\ todo = <<>> /\ cursor = 0 /\ fetched = 0
    /\ reply = Empty
    /\ link = "none" /\ waiting = FALSE /\ wire = <<>>
    /\ view = [id \in Inputs |-> NoValue]

-----------------------------------------------------------------------------
(* The main loop. The definitions named Slip... are slips a programmer could *)
(* make in the definition that follows them; PROJECT.json pairs each with    *)
(* the property that notices it, and no definition of the model uses them.   *)

SlipAlwaysFlag(id, v) ==
    /\ value' = [value EXCEPT ![id] = v]
    /\ is_updated' = [is_updated EXCEPT ![id] = TRUE]

SlipFlagOnlyRises(id, v) ==
    /\ value' = [value EXCEPT ![id] = v]
    /\ is_updated' = [is_updated EXCEPT ![id] = is_updated[id] \/ v > value[id]]

\* A driver stores v for id: the value and the flag, in one critical section.
Store(id, v) ==
    IF v # value[id]
      THEN /\ value' = [value EXCEPT ![id] = v]
           /\ is_updated' = [is_updated EXCEPT ![id] = TRUE]
      ELSE UNCHANGED driver

gpio_init ==
    /\ scan = GpioInit
    /\ \E levels \in [Io -> Values] :
           value' = [id \in Inputs |-> IF id \in Io THEN levels[id] ELSE value[id]]
    /\ is_updated' = [id \in Inputs |-> id \in Io \/ is_updated[id]]
    /\ scan' = AdcInit
    /\ UNCHANGED <<pc, builder, client>>

adc_mcp3008_init ==
    /\ scan = AdcInit
    /\ value' = [id \in Inputs |-> IF id \in Adc THEN 0 ELSE value[id]]
    /\ is_updated' = [id \in Inputs |-> id \in Io /\ is_updated[id]]
    /\ scan' = IoCount
    /\ UNCHANGED <<pc, builder, client>>

SlipNoWrap(id) == id + 1

\* mainloop_exec reads the analog inputs, then the outputs, and starts over.
NextScan(id) == IF id + 1 = InputCount THEN 0 ELSE id + 1

\* The input is worth v now; a read that fails finds what was there.
mainloop_exec(v) ==
    /\ scan \in Inputs
    /\ Store(scan, v)
    /\ scan' = NextScan(scan)
    /\ UNCHANGED <<pc, builder, client>>

ReadInput == \E v \in Values : mainloop_exec(v)

-----------------------------------------------------------------------------
(* The API thread: connections and requests *)

accept ==
    /\ pc = "accept"
    /\ pc' = "select"
    /\ link' = "up" /\ waiting' = FALSE /\ wire' = <<>>
    /\ view' = [id \in Inputs |-> NoValue]
    /\ UNCHANGED <<driver, scan, builder>>

\* accept or select failed: the thread ends.
api_server_fails ==
    /\ pc \in {"accept", "select"}
    /\ pc' = "ended" /\ link' = "none"
    /\ UNCHANGED <<driver, scan, builder, waiting, wire, view>>

\* Start a payload that fits (roomy) or may overflow reply_buffer.
BuildPayload(kind, roomy) ==
    /\ request' = [kind |-> kind, roomy |-> roomy]
    /\ pc' = "check" /\ cursor' = 0 /\ reply' = Empty
    /\ UNCHANGED fetched

\* select times out: build_timeout_reply.
Timeout ==
    /\ pc = "select" /\ ~waiting
    /\ BuildPayload("timeout", TRUE)
    /\ UNCHANGED <<driver, scan, todo, client>>

\* select watches the listening socket too: a second client wakes it up, and
\* the thread goes on to read from the first one.
WakeForSecondClient ==
    /\ pc = "select" /\ waiting
    /\ pc' = "read"
    /\ UNCHANGED <<driver, scan, builder, client>>

\* A request has come: select returns and read gets it, or read had it.
Receiving == pc \in {"select", "read"} /\ link = "up"

\* roomy: whether the client's _msgid leaves room for the whole reply.
GetAll(roomy) ==
    /\ Receiving
    /\ BuildPayload("get/all", roomy)
    /\ UNCHANGED <<driver, scan, todo, client>>

SetOut(command, roomy) ==
    /\ Receiving
    /\ request' = [kind |-> "set/out", roomy |-> roomy]
    /\ todo' = command
    /\ pc' = "set/out"
    /\ UNCHANGED <<driver, scan, cursor, fetched, reply, client>>

\* Any request that is refused before it does anything: an error reply.
BadRequest ==
    /\ Receiving
    /\ pc' = "write" /\ reply' = Empty
    /\ UNCHANGED <<driver, scan, request, todo, cursor, fetched, client>>

\* read finds that the client is gone.
ClientIsDisconnected ==
    /\ pc \in {"select", "read"} /\ link = "gone"
    /\ pc' = "accept" /\ link' = "none"
    /\ UNCHANGED <<driver, scan, builder, waiting, wire, view>>

-----------------------------------------------------------------------------
(* The API thread: set/out *)

\* gpio_write of the next pair. Before gpio_init there is no line to write to.
gpio_write ==
    /\ pc = "set/out" /\ todo # <<>>
    /\ LET id == Head(todo)[1]
           v  == Head(todo)[2]
       IN  /\ scan # GpioInit \/ v = value[id]
           /\ Store(id, v)
    /\ todo' = Tail(todo)
    /\ UNCHANGED <<scan, pc, request, cursor, fetched, reply, client>>

\* The pair is refused or the line cannot be driven: an error reply, and the
\* pairs before it stay written.
gpio_write_fails ==
    /\ pc = "set/out" /\ todo # <<>>
    /\ todo' = <<>> /\ reply' = Empty
    /\ pc' = "write"
    /\ UNCHANGED <<driver, scan, request, cursor, fetched, client>>

exec_set_out_done ==
    /\ pc = "set/out" /\ todo = <<>>
    /\ BuildPayload("set/out", request.roomy)
    /\ UNCHANGED <<driver, scan, todo, client>>

-----------------------------------------------------------------------------
(* The API thread: add_to_payload, for key "io" and then for key "adc" *)

SlipNeverAll == FALSE

WithAll == request.kind = "get/all"

SlipPushIoOnly ==
    IF request.kind \in {"set/out", "timeout"} THEN IoCount ELSE InputCount

Limit == IF request.kind = "set/out" THEN IoCount ELSE InputCount

\* Go to the next input, or to the room check that ends each key.
Advance ==
    /\ cursor' = cursor + 1
    /\ pc' = IF cursor + 1 \in {IoCount, Limit} THEN "room" ELSE "check"

is_updated_call ==
    /\ pc = "check"
    /\ IF WithAll \/ is_updated[cursor]
         THEN pc' = "get" /\ UNCHANGED cursor
         ELSE Advance
    /\ UNCHANGED <<driver, scan, request, todo, fetched, reply, client>>

get_value_call ==
    /\ pc = "get"
    /\ fetched' = value[cursor]
    /\ pc' = "clear"
    /\ UNCHANGED <<value, is_updated, scan, request, todo, cursor, reply, client>>

\* Clear the flag and print the value that was fetched, be it still the
\* input's or not; it was a local of the loop's body.
set_is_updated_call ==
    /\ pc = "clear"
    /\ is_updated' = [is_updated EXCEPT ![cursor] = FALSE]
    /\ reply' = [id \in DOMAIN reply \cup {cursor} |->
                    IF id = cursor THEN fetched ELSE reply[id]]
    /\ fetched' = 0
    /\ Advance
    /\ UNCHANGED <<value, scan, request, todo, client>>

\* The key fits: go on with the next one, or send the reply.
RoomIsLeft ==
    /\ pc = "room"
    /\ pc' = IF cursor = Limit THEN "write" ELSE "check"
    /\ UNCHANGED <<driver, scan, builder, client>>

\* It does not: the reply becomes an error reply, and what it held is gone.
build_payload_overflows ==
    /\ pc = "room" /\ ~request.roomy /\ reply # Empty
    /\ pc' = "write" /\ reply' = Empty
    /\ UNCHANGED <<driver, scan, request, todo, cursor, fetched, client>>

-----------------------------------------------------------------------------
(* The API thread: write_to_client *)

\* The builder's variables are dead once the reply is sent.
Forget ==
    /\ reply' = Empty /\ request' = Idle
    /\ cursor' = 0 /\ fetched' = 0
    /\ UNCHANGED todo

SlipNonBlocking ==
    /\ pc = "write" /\ link = "up"
    /\ wire' = IF Len(wire) < MaxWire THEN Append(wire, reply) ELSE wire
    /\ pc' = "select" /\ Forget
    /\ UNCHANGED <<driver, scan, link, waiting, view>>

write_to_client ==
    /\ pc = "write" /\ link = "up" /\ Len(wire) < MaxWire
    /\ wire' = Append(wire, reply)
    /\ pc' = "select" /\ Forget
    /\ UNCHANGED <<driver, scan, link, waiting, view>>

\* The client has closed. The first write still succeeds, the next ones fail
\* with EPIPE, and with another error if the connection was reset in between.
write_to_closed_client ==
    /\ pc = "write" /\ link = "gone"
    /\ \/ pc' = "select" /\ UNCHANGED link
       \/ pc' = "accept" /\ link' = "none"
       \/ pc' = "ended"  /\ link' = "none"
    /\ Forget
    /\ UNCHANGED <<driver, scan, waiting, wire, view>>

-----------------------------------------------------------------------------
(* The client, and another one *)

ClientReceives ==
    /\ link = "up" /\ wire # <<>>
    /\ LET items == Head(wire)
       IN  view' = [id \in Inputs |-> IF id \in DOMAIN items THEN items[id]
                                                             ELSE view[id]]
    /\ wire' = Tail(wire)
    /\ UNCHANGED <<driver, scan, pc, builder, link, waiting>>

ClientCloses ==
    /\ link = "up"
    /\ link' = "gone" /\ wire' = <<>>
    /\ view' = [id \in Inputs |-> NoValue]
    /\ UNCHANGED <<driver, scan, pc, builder, waiting>>

SecondClientConnects ==
    /\ link # "none" /\ ~waiting
    /\ waiting' = TRUE
    /\ UNCHANGED <<driver, scan, pc, builder, link, wire, view>>

-----------------------------------------------------------------------------
Mainloop == gpio_init \/ adc_mcp3008_init \/ ReadInput

Request ==
    \/ \E roomy \in Roominess : GetAll(roomy)
    \/ \E command \in Commands, roomy \in Roominess : SetOut(command, roomy)
    \/ BadRequest

\* The steps the API thread takes by itself once it has something to do.
ApiStep ==
    \/ WakeForSecondClient \/ ClientIsDisconnected
    \/ gpio_write \/ gpio_write_fails \/ exec_set_out_done
    \/ is_updated_call \/ get_value_call \/ set_is_updated_call
    \/ RoomIsLeft \/ build_payload_overflows
    \/ write_to_client \/ write_to_closed_client

Environment == ClientReceives \/ ClientCloses \/ SecondClientConnects

Next ==
    \/ Mainloop
    \/ accept \/ api_server_fails \/ Timeout \/ Request \/ ApiStep
    \/ Environment

Spec == Init /\ [][Next]_vars

\* The threads are scheduled, the network delivers, and the client leaves the
\* server 500 ms of silence again and again. Nothing else is assumed of it.
FairSpec ==
    /\ Spec
    /\ WF_vars(Mainloop) /\ WF_vars(ApiStep) /\ SF_vars(Timeout)
    /\ WF_vars(ClientReceives)

-----------------------------------------------------------------------------
(* Properties *)

Steps == {"accept", "select", "read", "set/out", "check", "get", "clear",
          "room", "write", "ended"}

\* The state has its types, and the cursor is on an input whenever a driver is
\* called with it (a driver called with another id exits the process).
TypeOK ==
    /\ value \in [Inputs -> Values]
    /\ is_updated \in [Inputs -> BOOLEAN]
    /\ scan \in Inputs \cup {GpioInit, AdcInit}
    /\ pc \in Steps
    /\ request \in Requests
    /\ todo \in Seq(Io \X Values)
    /\ cursor \in 0..InputCount
    /\ pc \in {"check", "get", "clear"} => cursor < Limit
    /\ pc = "room" => cursor \in {IoCount, Limit}
    /\ fetched \in Values
    /\ reply \in Replies
    /\ link \in {"none", "up", "gone"} /\ waiting \in BOOLEAN
    /\ wire \in Seq(Replies) /\ Len(wire) <= MaxWire
    /\ view \in [Inputs -> Values \cup {NoValue}]

\* README: the server "automatically sends all (but only) updated inputs". A
\* client that knows a value which is no longer the input's, and has nothing
\* on its way, has the new value to come: the flag is up.
NoUpdateIsLost ==
    (link = "up" /\ wire = <<>> /\ pc = "select") =>
        \A id \in Inputs :
            view[id] \notin {NoValue, value[id]} => is_updated[id]

\* An input whose flag is up is sent in the end, as long as the client stays
\* and no second client knocks: no flag stays up for ever before such a client.
FlagIsServed ==
    \A id \in Inputs : []<>(~is_updated[id] \/ link # "up" \/ waiting)

\* README, the same sentence: it holds whoever else connects.
UpdatesAreSent ==
    \A id \in Inputs : []<>(~is_updated[id] \/ link # "up")

\* get/all repairs what the pushes lost: a client that keeps asking ends with
\* the value of every input, once the inputs rest.
PollingClientConverges ==
    ( /\ <>[][UNCHANGED value]_vars
      /\ <>[](link = "up")
      /\ []<><<GetAll(TRUE)>>_vars )
    => <>[](view = value)

\* What the two threads see of a driver: nobody but a driver touches an input,
\* and each of them is one that Gpio or AdcMcp3008 implements.
Interface(id) == INSTANCE Input
                   WITH value <- value[id], news <- is_updated[id],
                        started <- IF id \in Io THEN scan # GpioInit
                                                ELSE scan \in Inputs,
                        Worths <- Values
=============================================================================
