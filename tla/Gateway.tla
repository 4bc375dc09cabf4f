------------------------------- MODULE Gateway -------------------------------
(***************************************************************************)
(* The way of a value from the daemon to the pages and of a request back:  *)
(* the API thread of api.c, its one TCP client, the WebSocket gateway      *)
(* (index.js, socket-client.js), and the pages it serves                   *)
(* (websocket-client.js, index.html). Any of them may stop and come back.  *)
(*                                                                         *)
(* An input or an output has a value and a flag, as in UpdatePush, which   *)
(* has the interleavings inside a reply; here a reply is built in one step.*)
(* A WebSocket delivers in order or closes, and what a page does with a    *)
(* message depends on nothing else it does: a message is handled when it is*)
(* sent. The channels that matter are those of the TCP connection, which   *)
(* has bytes, not messages.                                                *)
(***************************************************************************)
EXTENDS Integers, Sequences, FiniteSets, Functions

CONSTANTS
    Pages,
    Inputs, Outputs,   \* the analog inputs, and the outputs (relays)
    PoolSize,          \* API_PARSED_STACK_SIZE: the objects a read can have
    MaxRequests,       \* bound: requests on the way to the daemon, or due
    MaxReplies         \* bound: replies on the way to the gateway

Keys == Inputs \cup Outputs

ASSUME KeyAssumption   == Inputs \cap Outputs = {}
ASSUME PoolAssumption  == PoolSize \in Nat
ASSUME BoundAssumption == MaxRequests \in Nat /\ MaxReplies \in Nat

VARIABLES
    value, flagged,     \* of the drivers; flagged is the set that is up. The value of
                        \* a relay is the state its line has, also without a daemon
    api,                \* the API thread: "accept", "serve", "stale", "ended"
    tcp,                \* of the gateway: "trying", "open", "closing", "waiting"
    requests, replies,  \* on the TCP connection
    page,               \* "loading", "open", "ready", "cut"
    view,               \* contextData of each page
    pulses,             \* the relays a page has a timer for
    lost,               \* history: the keys whose last news an open page has missed
    dropped,            \* history: the relays whose opening was dropped
    cleaned             \* history: the relays the end of the daemon has closed

daemon  == <<value, flagged>>
channel == <<requests, replies>>
browser == <<page, view, pulses>>
history == <<lost, dropped, cleaned>>
vars    == <<daemon, api, tcp, channel, browser, history>>

GetAll        == [topic |-> "get/all"]
SetOut(k, v)  == [topic |-> "set/out", key |-> k, v |-> v]
RequestSet    == {GetAll} \cup {SetOut(k, v) : k \in Outputs, v \in {0, 1}}

Nothing == [k \in {} |-> 0]

\* What a reply tells; whether it is JSON (an error reply is not); whether the
\* gateway has read the head of it already.
Reply(told, json) == [told |-> told, json |-> json, whole |-> TRUE]
ToldSet           == UNION {[keys -> {0, 1}] : keys \in SUBSET Keys}
ReplySet          == [told : ToldSet, json : BOOLEAN, whole : BOOLEAN]

Init ==
    /\ value = [k \in Keys |-> 0] /\ flagged = Outputs
    /\ api = "accept" /\ tcp = "trying"
    /\ requests = <<>> /\ replies = <<>>
    /\ page = [p \in Pages |-> "loading"]
    /\ view = [p \in Pages |-> [k \in Keys |-> 0]]
    /\ pulses = [p \in Pages |-> {}]
    /\ lost = [p \in Pages |-> {}] /\ dropped = {} /\ cleaned = {}

-----------------------------------------------------------------------------
(* What becomes of news and of requests. The definitions named Slip... are  *)
(* slips a programmer could make in the definition that follows them.       *)

IsOpen(p) == page[p] \in {"open", "ready"}     \* its WebSocket

Told(seq) == UNION {DOMAIN seq[i].told : i \in DOMAIN seq}

\* News of these keys will reach no page.
Lose(keys) == lost' = [p \in Pages |-> IF IsOpen(p) THEN lost[p] \cup keys ELSE lost[p]]

\* The relays these requests would have opened.
Openings(seq) == {k \in Outputs : \E i \in DOMAIN seq : seq[i] = SetOut(k, 0)}

\* A write to the socket: of the gateway's last state of it, which may be old.
\* SocketClient.write drops what it cannot write.
Forward(r) ==
    IF tcp = "open"
      THEN requests' = Append(requests, r) /\ UNCHANGED dropped
      ELSE UNCHANGED requests /\ dropped' = dropped \cup Openings(<<r>>)

\* ws.send of a page: an exception, caught and logged, if the WebSocket is not
\* open. The gateway forwards get/all and set/out.
Send(p, r) ==
    IF IsOpen(p) THEN Forward(r)
    ELSE UNCHANGED requests /\ dropped' = dropped \cup Openings(<<r>>)

\* Bound on the environment: no click and no new page when too much is under way.
\* Each pulse that is pending will send one more.
Pending    == {pulse \in Pages \X Outputs : pulse[2] \in pulses[pulse[1]]}
RoomFor(n) == Len(requests) + Cardinality(Pending) + n <= MaxRequests

-----------------------------------------------------------------------------
(* The daemon *)

InputChanges(k, v) ==
    /\ value[k] # v
    /\ value' = [value EXCEPT ![k] = v] /\ flagged' = flagged \cup {k}
    /\ UNCHANGED <<api, tcp, channel, browser, history>>

Accept ==
    /\ api = "accept" /\ tcp = "open"
    /\ api' = "serve"
    /\ UNCHANGED <<daemon, tcp, channel, browser, history>>

SlipPushOutputsOnly ==
    /\ api = "serve" /\ requests = <<>> /\ Len(replies) < MaxReplies
    /\ replies' = Append(replies, Reply(Restrict(value, flagged \cap Outputs), TRUE))
    /\ flagged' = flagged \ Outputs
    /\ UNCHANGED <<value, api, tcp, requests, browser, history>>

\* build_timeout_reply: half a second without a request.
Timeout ==
    /\ api = "serve" /\ requests = <<>> /\ Len(replies) < MaxReplies
    /\ replies' = Append(replies, Reply(Restrict(value, flagged), TRUE))
    /\ flagged' = {}
    /\ UNCHANGED <<value, api, tcp, requests, browser, history>>

\* One read takes the n requests that are there. json_parse keeps the last; the
\* others are gone (ReadRequest, LastIsRead). They share the pool: besides the root, an
\* object for the topic, the payload and the _msgid of each, and for the two arrays of
\* a set/out and their elements.
LastOfRead(n) == requests[n]
FitsInPool(n) == LET gets == {i \in 1..n : requests[i] = GetAll}
                 IN  1 + 3 * Cardinality(gets) + 7 * Cardinality((1..n) \ gets) <= PoolSize

TakeRequests(n) ==
    /\ api = "serve" /\ Len(replies) < MaxReplies
    /\ requests' = SubSeq(requests, n + 1, Len(requests))

\* What a read throws away.
Passed(n) == Openings([i \in 1..n |-> IF requests[i] = LastOfRead(n) THEN GetAll ELSE requests[i]])

ServeGetAll(n) ==
    /\ LastOfRead(n) = GetAll /\ FitsInPool(n)
    /\ TakeRequests(n)
    /\ replies' = Append(replies, Reply(value, TRUE))
    /\ flagged' = {}
    /\ dropped' = dropped \cup Passed(n)
    /\ UNCHANGED <<value, api, tcp, browser, lost, cleaned>>

\* A plausible slip: both values of a pair lead to the same call.
SlipAlwaysClose(r) == [value EXCEPT ![r.key] = 1]

Written(r) == [value EXCEPT ![r.key] = r.v]

\* exec_set_out of one pair; the outputs that are flagged are told.
ServeSetOut(n) ==
    LET r   == LastOfRead(n)
        new == Written(r)
        up  == IF r.v = value[r.key] THEN flagged ELSE flagged \cup {r.key}
    IN  /\ r # GetAll /\ FitsInPool(n)
        /\ TakeRequests(n)
        /\ value' = new
        /\ replies' = Append(replies, Reply(Restrict(new, up \cap Outputs), TRUE))
        /\ flagged' = up \ Outputs
        /\ dropped' = LET kept == dropped \cup Passed(n) IN
                      IF r.v = 0 /\ ~\E i \in n + 1..Len(requests) : requests[i] = SetOut(r.key, 1)
                        THEN kept \ {r.key} ELSE kept
        /\ UNCHANGED <<api, tcp, browser, lost, cleaned>>

\* The output cannot be written; the text of an error is not JSON.
SetOutFails(n) ==
    LET r == LastOfRead(n)
    IN  /\ r # GetAll /\ r.v # value[r.key] /\ FitsInPool(n)
        /\ TakeRequests(n)
        /\ replies' = Append(replies, Reply(Nothing, FALSE))
        /\ dropped' = dropped \cup Passed(n) \cup Openings(<<r>>)
        /\ UNCHANGED <<daemon, api, tcp, browser, lost, cleaned>>

\* json_parse refuses a read whole: its objects do not fit in the pool; or it begins or
\* ends inside a request, for TCP has no messages, and a read is of 2047 bytes at most.
\* The request that is cut counts to the first of its two reads; a read that has only
\* the tail of it is one more error reply, which tells nothing.
RefuseRead(n) ==
    /\ TakeRequests(n)
    /\ replies' = Append(replies, Reply(Nothing, FALSE))
    /\ dropped' = dropped \cup Openings(SubSeq(requests, 1, n))
    /\ UNCHANGED <<daemon, api, tcp, browser, lost, cleaned>>

Serve == \E n \in DOMAIN requests :
             ServeGetAll(n) \/ ServeSetOut(n) \/ SetOutFails(n) \/ RefuseRead(n)

\* The client is gone, and the thread reads the end of its connection.
ReadEnd ==
    /\ api = "stale"
    /\ api' = "accept"
    /\ UNCHANGED <<daemon, tcp, channel, browser, history>>

\* It was about to write, and writes to nobody: the write succeeds, and the end is
\* read next, or is an EPIPE, which closes the connection too, or another error (a
\* reset connection), which ends the thread.
WriteToNobody ==
    /\ api = "stale"
    /\ Lose(flagged) /\ flagged' = {}
    /\ api' \in {"accept", "ended"}
    /\ IF api' = "ended" /\ tcp = "open"
         THEN /\ tcp' = "closing" /\ requests' = <<>>
              /\ dropped' = dropped \cup Openings(requests)
         ELSE UNCHANGED <<tcp, requests, dropped>>
    /\ UNCHANGED <<value, replies, browser, cleaned>>

\* The process ends, or is made to, or its API thread faults. gpio_clean writes its
\* IO_OPEN as a level, which closes a reversed output, as all those of the table are: all
\* of them, or those whose write succeeds, or none if the process was killed.
DaemonStops ==
    /\ api' = "ended"
    /\ \E closed \in SUBSET Outputs :
           /\ value' = [k \in Keys |-> IF k \in closed THEN 1 ELSE value[k]]
           /\ Lose(closed) /\ cleaned' = cleaned \cup closed
    /\ tcp' = IF tcp = "open" THEN "closing" ELSE tcp
    /\ requests' = <<>> /\ dropped' = dropped \cup Openings(requests)
    /\ UNCHANGED <<flagged, replies, browser>>

\* systemd starts it again. The outputs are requested in their open state and
\* flagged; the analog inputs report 0, and have no flag.
DaemonStarts ==
    /\ api = "ended"
    /\ api' = "accept"
    /\ value' = [k \in Keys |-> 0] /\ flagged' = Outputs
    /\ Lose(Inputs) /\ cleaned' = {}
    /\ UNCHANGED <<tcp, channel, browser, dropped>>

-----------------------------------------------------------------------------
(* The gateway *)

\* A plausible slip: a failed attempt is not tried again.
SlipGiveUp == "down"

AfterClose == "waiting"

\* The attempt succeeds as soon as the daemon listens, before it accepts.
connect ==
    /\ tcp = "trying"
    /\ tcp' = IF api = "ended" THEN AfterClose ELSE "open"
    /\ UNCHANGED <<daemon, api, channel, browser, history>>

\* One second later, socketClientConnection.
setTimeout ==
    /\ tcp = "waiting"
    /\ tcp' = "trying"
    /\ UNCHANGED <<daemon, api, channel, browser, history>>

\* A plausible slip: chunks of the old connection come after its close.
SlipKeepChunks ==
    /\ tcp = "closing"
    /\ tcp' = AfterClose
    /\ UNCHANGED <<daemon, api, channel, browser, history>>

\* The 'close' event. What was not read may be lost.
onClose ==
    /\ tcp = "closing"
    /\ tcp' = AfterClose
    /\ replies' = <<>> /\ Lose(Told(replies))
    /\ UNCHANGED <<daemon, api, requests, browser, dropped, cleaned>>

\* The page's JSON.parse accepts a chunk that is one reply, no more and no less.
IsMessage(n, cut) == n = 1 /\ ~cut /\ replies[1].whole /\ replies[1].json

SlipShowIo(told, old) == [k \in Keys |-> IF k \in DOMAIN told \cap Outputs THEN told[k] ELSE old[k]]

\* _updateContextData
Updated(told, old) == [k \in Keys |-> IF k \in DOMAIN told THEN told[k] ELSE old[k]]

\* A 'data' event: n replies, the first perhaps without its head, and with cut
\* the head of the next. The chunk is sent to every page whose WebSocket is open.
onData(n, cut) ==
    /\ tcp \in {"open", "closing"}
    /\ n > 0 \/ cut
    /\ cut => n < Len(replies) /\ replies[n + 1].whole
    /\ replies' = LET rest == SubSeq(replies, n + 1, Len(replies))
                  IN  IF cut THEN [rest EXCEPT ![1].whole = FALSE] ELSE rest
    /\ IF IsMessage(n, cut)
         THEN LET told == replies[1].told
              IN  /\ view' = [p \in Pages |-> IF IsOpen(p) THEN Updated(told, view[p]) ELSE view[p]]
                  /\ lost' = [p \in Pages |-> IF IsOpen(p) /\ tcp = "open"
                                                THEN lost[p] \ DOMAIN told ELSE lost[p]]
         ELSE Lose(Told(SubSeq(replies, 1, n))) /\ UNCHANGED view
    /\ UNCHANGED <<daemon, api, tcp, requests, page, pulses, dropped, cleaned>>

\* The gateway's process ends and systemd starts it again. Requests it wrote are
\* executed before, or never: nothing tells a request that the daemon carries out
\* after the restart from one that it carried out before.
GatewayRestarts ==
    /\ tcp' = "trying" /\ replies' = <<>> /\ requests' = <<>>
    /\ api' = IF api = "serve" THEN "stale" ELSE api
    /\ page' = [p \in Pages |-> "cut"] /\ lost' = [p \in Pages |-> {}]
    /\ dropped' = dropped \cup Openings(requests)
    /\ UNCHANGED <<daemon, view, pulses, cleaned>>

-----------------------------------------------------------------------------
(* A page *)

Goes(p, state) == page' = [page EXCEPT ![p] = state]

\* The page is left, and loaded again now or later: the timers of the old one
\* are gone.
Load(p) ==
    /\ page[p] # "loading"
    /\ Goes(p, "loading")
    /\ view' = [view EXCEPT ![p] = [k \in Keys |-> 0]]
    /\ pulses' = [pulses EXCEPT ![p] = {}]
    /\ dropped' = dropped \cup pulses[p]
    /\ lost' = [lost EXCEPT ![p] = {}]
    /\ UNCHANGED <<daemon, api, tcp, channel, cleaned>>

\* Connected, it knows nothing.
onopen(p) ==
    /\ page[p] = "loading"
    /\ Goes(p, "open")
    /\ lost' = [lost EXCEPT ![p] = Keys]
    /\ UNCHANGED <<daemon, api, tcp, channel, view, pulses, dropped, cleaned>>

\* Rendered and connected: it asks, once.
AppIsReady(p) ==
    /\ page[p] = "open" /\ RoomFor(1)
    /\ Goes(p, "ready")
    /\ Send(p, GetAll)
    /\ UNCHANGED <<daemon, api, tcp, replies, view, pulses, lost, cleaned>>

\* The page stays as it is, with a red mark: it does not connect again.
onclose(p) ==
    /\ page[p] # "cut"
    /\ Goes(p, "cut")
    /\ lost' = [lost EXCEPT ![p] = {}]
    /\ UNCHANGED <<daemon, api, tcp, channel, view, pulses, dropped, cleaned>>

\* A click, and the timer of a second. Bound: one at a time for a page and relay.
sendPulseOnKA(p, k) ==
    /\ k \notin pulses[p] /\ RoomFor(2)
    /\ Send(p, SetOut(k, 1))
    /\ pulses' = [pulses EXCEPT ![p] = @ \cup {k}]
    /\ UNCHANGED <<daemon, api, tcp, replies, page, view, lost, cleaned>>

SlipOnlyIfShown(p, k) ==
    /\ k \in pulses[p]
    /\ IF view[p][k] = 1 THEN Send(p, SetOut(k, 0)) ELSE UNCHANGED <<requests, dropped>>
    /\ pulses' = [pulses EXCEPT ![p] = @ \ {k}]
    /\ UNCHANGED <<daemon, api, tcp, replies, page, view, lost, cleaned>>

pulseTimeout(p, k) ==
    /\ k \in pulses[p]
    /\ Send(p, SetOut(k, 0))
    /\ pulses' = [pulses EXCEPT ![p] = @ \ {k}]
    /\ UNCHANGED <<daemon, api, tcp, replies, page, view, lost, cleaned>>

-----------------------------------------------------------------------------
apiThread == Accept \/ Timeout \/ Serve \/ ReadEnd \/ WriteToNobody
gateway   == connect \/ setTimeout \/ onClose
Receive   == \E n \in 0..Len(replies), cut \in BOOLEAN : onData(n, cut)
PulseEnds == \E p \in Pages, k \in Outputs : pulseTimeout(p, k)

Environment ==
    \/ \E k \in Inputs, v \in {0, 1} : InputChanges(k, v)
    \/ DaemonStops \/ DaemonStarts \/ GatewayRestarts
    \/ \E p \in Pages : \/ Load(p) \/ onopen(p) \/ AppIsReady(p) \/ onclose(p)
                        \/ \E k \in Outputs : sendPulseOnKA(p, k)

Next == apiThread \/ gateway \/ Receive \/ PulseEnds \/ Environment

Spec == Init /\ [][Next]_vars

\* The processes that run go on: the API thread, the gateway's events and its
\* timer, and the timers of the pages, each of its own. Nothing makes a process
\* stop or start, a page open, or a user click.
FairSpec ==
    /\ Spec
    /\ WF_vars(apiThread) /\ WF_vars(gateway) /\ WF_vars(Receive)
    /\ \A p \in Pages, k \in Outputs : WF_vars(pulseTimeout(p, k))

-----------------------------------------------------------------------------
(* Properties *)

\* The state has its types; the API thread serves the connection the gateway
\* holds, and no request waits on another.
TypeOK ==
    /\ value \in [Keys -> {0, 1}] /\ flagged \subseteq Keys
    /\ api \in {"accept", "serve", "stale", "ended"}
    /\ tcp \in {"trying", "open", "closing", "waiting"}
    /\ api = "serve" => tcp = "open"
    /\ requests \in Seq(RequestSet) /\ (requests # <<>> => tcp = "open")
    /\ replies \in Seq(ReplySet)
    /\ \A i \in DOMAIN replies : i > 1 => replies[i].whole
    /\ replies # <<>> => tcp \in {"open", "closing"}
    /\ page \in [Pages -> {"loading", "open", "ready", "cut"}]
    /\ view \in [Pages -> [Keys -> {0, 1}]]
    /\ pulses \in [Pages -> SUBSET Outputs]
    /\ lost \in [Pages -> SUBSET Keys] /\ dropped \subseteq Outputs
    /\ cleaned \subseteq Outputs

\* The last of the replies under way that tells k, and the value it tells.
IsLast(seq, j, k) ==
    /\ k \in DOMAIN seq[j].told
    /\ \A m \in DOMAIN seq : m > j => k \notin DOMAIN seq[m].told

LastTold(seq, k) == seq[CHOOSE j \in DOMAIN seq : IsLast(seq, j, k)].told[k]

\* However requests, timeouts, connections and restarts fall together: what a
\* connected page shows is what the daemon has, or the news is flagged, or it is
\* the last thing on its way, or it was lost at a place this model names: in a
\* chunk that is no message, with a connection, in a write to nobody, at a
\* restart, or before the page had its answer to get/all.
PageAccounts ==
    \A p \in Pages, k \in Keys :
        IsOpen(p) /\ k \notin lost[p] /\ k \notin flagged =>
            value[k] = IF k \in Told(replies) THEN LastTold(replies, k) ELSE view[p][k]

\* A pulse closes a relay for a second: whatever happens in it, the relay is
\* open, or the request that opens it is due or on its way, or it was dropped
\* (the connections were down, the page left, a later request in the same read or an
\* error took its place, the read was refused), or the end of the daemon closed it
\* (gpio.c:423) and it has not been started again.
RelayAccounts ==
    \A k \in Outputs :
        value[k] = 1 => \/ k \in dropped \cup cleaned
                        \/ \E p \in Pages : k \in pulses[p]
                        \/ k \in Openings(requests)

\* The page that stays connected to a daemon that serves ends with the value of
\* every input that rests, but for the news that was lost on the way. Requests
\* have to stop: they keep the API thread from its timeout.
PagesSettle ==
    \A p \in Pages :
        /\ <>[](page[p] = "ready" /\ api = "serve" /\ requests = <<>>)
        /\ <>[][UNCHANGED value]_value
        => <>[](\A k \in Keys : view[p][k] = value[k] \/ k \in lost[p])

\* The end of a pulse does come, unless its request is dropped or the daemon ends.
PulsesEnd ==
    \A k \in Outputs : []<>(value[k] = 0 \/ k \in dropped \cup cleaned)

\* The gateway finds the daemon again after every loss, in whatever order the two
\* were restarted, once the daemon stays.
GatewayReconnects ==
    /\ <>[](api # "ended")
    /\ <>[][~GatewayRestarts]_vars
    => <>[](api = "serve" /\ tcp = "open")
=============================================================================
