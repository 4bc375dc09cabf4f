----------------------------- MODULE ApiRequest -----------------------------
(***************************************************************************)
(* What the API thread does with a request, api.c: the checks in their     *)
(* order, get/all, the loop of set/out over its pairs, and the reply with  *)
(* its status and its _msgid. The outputs are those of the GPIO driver; the*)
(* main loop, which only reads back what was written, is in UpdatePush.    *)
(*                                                                         *)
(* A request is what json_parse makes of one read: of two requests in one  *)
(* read the last one (the objects of the second replace the children of    *)
(* the root), of half a request a syntax error. An array has the size      *)
(* json_parse counted and the items of its chain, which is cut when a comma*)
(* is the last thing in it: [1,] is of size 1 and has no item. Numbers are *)
(* those of the arm64 build, where a long is wider than an int.            *)
(***************************************************************************)
EXTENDS Integers, Sequences, FiniteSetsExt

CONSTANTS
    Count,      \* IO_COUNT
    WordSize,   \* 2^32: an int is what strtol returns modulo WordSize
    NaN,        \* an array element that is not an integer
    MsgIds,     \* the strings clients use as _msgid
    Requests    \* what a read can bring

Ids    == 0..Count - 1
States == {0, 1}
Items  == Int \cup {NaN}
Topics == {"undefined", "not a string", "empty", "get/all", "set/out", "unknown"}

ASSUME CountAssumption == Count \in Nat /\ Count > 0
ASSUME WordAssumption  == /\ WordSize \in Nat /\ WordSize > 2 * Count
                          /\ WordSize % 2 = 0
ASSUME NaNAssumption   == NaN \notin Int
ASSUME IdAssumption    == MsgIds \cap {"undefined", "not a string"} = {}
ASSUME RequestAssumption ==
    \A r \in Requests :
        /\ r.syntax \in {"ok", "error"}
        /\ r.msgid \in MsgIds \cup {"undefined", "not a string"}
        /\ r.topic \in Topics
        /\ r.payload \in {"undefined", "given"}
        /\ \A f \in {r.i, r.v} : /\ f.kind \in {"undefined", "other", "array"}
                                 /\ f.size \in Nat
                                 /\ f.items \in Seq(Items)
                                 /\ f.kind # "array" => f.size = 0 /\ f.items = <<>>

VARIABLES
    value, is_updated,   \* of the outputs; is_updated is the set that is up
    granted,             \* the outputs whose handler gpio_init got
    phase,               \* "select", in the loop ("set/out"), or "write"
    request, pair,       \* the request, and the pair of the loop
    msg_id,              \* the pointer: NULL, to a _msgid, or to an old one
    reply,
    before               \* history: the outputs when the request was read

outputs == <<value, is_updated, granted>>
vars    == <<outputs, phase, request, pair, msg_id, reply, before>>

NoRequest == [topic |-> "none"]
NoReply   == [code |-> "none"]

Init ==
    /\ \E n \in 0..Count : granted = 0..n - 1
    /\ value = [id \in Ids |-> 0]
    /\ is_updated = granted
    /\ phase = "select" /\ request = NoRequest /\ pair = 0
    /\ msg_id = "NULL" /\ reply = NoReply
    /\ before = value

-----------------------------------------------------------------------------
(* The checks, in the order of the code: the first that fails names the error. *)
(* The definitions named Slip... are slips a programmer could make in the      *)
(* definition that follows them; no definition of the model uses them.         *)

QueryChecks(r) ==
    << <<"JSON_SYNTAX",        r.syntax = "error">>,
       <<"MSG_ID_UNDEFINED",   r.msgid = "undefined">>,
       <<"MSG_ID_NULL",        r.msgid = "not a string">>,
       <<"TOPIC_UNDEFINED",    r.topic = "undefined">>,
       <<"TOPIC_NOT_A_STRING", r.topic = "not a string">>,
       <<"TOPIC_NULL",         r.topic = "empty">>,
       <<"PAYLOAD_UNDEFINED",  r.payload = "undefined">>,
       <<"TOPIC_UNKNOWN",      r.topic = "unknown">> >>

SlipNoLengthCheck(r) ==
    << <<"INDEX_UNDEFINED",    r.i.kind = "undefined">>,
       <<"INDEX_NOT_AN_ARRAY", r.i.kind = "other">>,
       <<"INDEX_NULL",         r.i.size = 0>>,
       <<"VALUE_UNDEFINED",    r.v.kind = "undefined">>,
       <<"VALUE_NOT_AN_ARRAY", r.v.kind = "other">>,
       <<"VALUE_NULL",         r.v.size = 0>> >>

check_indexes_values_array(r) ==
    << <<"INDEX_UNDEFINED",    r.i.kind = "undefined">>,
       <<"INDEX_NOT_AN_ARRAY", r.i.kind = "other">>,
       <<"INDEX_NULL",         r.i.size = 0>>,
       <<"VALUE_UNDEFINED",    r.v.kind = "undefined">>,
       <<"VALUE_NOT_AN_ARRAY", r.v.kind = "other">>,
       <<"VALUE_NULL",         r.v.size = 0>>,
       <<"ARR_NOT_EQUAL",      r.i.size # r.v.size>> >>

FirstElements(r) ==
    << <<"INDEX_NOT_FOUND",    r.i.items = <<>> >>,
       <<"VALUE_NOT_FOUND",    r.v.items = <<>> >> >>

FirstFailure(checks) ==
    LET failing == {k \in DOMAIN checks : checks[k][2]}
    IN  IF failing = {} THEN "none" ELSE checks[Min(failing)][1]

\* The arrays are looked at last, and only for set/out, and then their first items.
Refusal(r) ==
    LET query  == FirstFailure(QueryChecks(r))
        arrays == FirstFailure(check_indexes_values_array(r))
    IN  IF query # "none" \/ r.topic # "set/out" THEN query
        ELSE IF arrays # "none" THEN arrays ELSE FirstFailure(FirstElements(r))

-----------------------------------------------------------------------------
(* Replies *)

SlipKeepOldId(r) == IF msg_id = "NULL" THEN r.msgid ELSE msg_id

\* A _msgid that cannot be had leaves the pointer to the old one, into a buffer
\* that has another text now.
NextMsgId(r) ==
    IF r.syntax = "ok" /\ r.msgid \in MsgIds THEN r.msgid
    ELSE IF msg_id = "NULL" THEN "NULL" ELSE "stale"

Answer(code, told) ==
    /\ reply' = [code |-> code, msgid |-> msg_id', told |-> told]
    /\ phase' = "write"

\* build_payload over the outputs with the flags that count; clears them.
\* A reply that overflows is an error that tells of nothing, all the same.
Tell(code, ids) ==
    /\ is_updated' = is_updated \ ids
    /\ \/ Answer(code, [id \in ids |-> value[id]])
       \/ ids # {} /\ Answer("BUFFER_REPLY_OVERFLOW", [id \in {} |-> 0])
    /\ UNCHANGED <<value, granted>>

Fail(code) == Answer(code, [id \in {} |-> 0])

-----------------------------------------------------------------------------
(* A request is read *)

Read(r) ==
    /\ phase = "select"
    /\ request' = r /\ before' = value
    /\ msg_id' = NextMsgId(r)

RefuseRequest(r) ==
    /\ Read(r) /\ Refusal(r) # "none"
    /\ Fail(Refusal(r))
    /\ UNCHANGED <<outputs, pair>>

build_get_all_reply(r) ==
    /\ Read(r) /\ Refusal(r) = "none" /\ r.topic = "get/all"
    /\ Tell("SUCCESS", Ids)
    /\ UNCHANGED pair

exec_set_out(r) ==
    /\ Read(r) /\ Refusal(r) = "none" /\ r.topic = "set/out"
    /\ phase' = "set/out" /\ pair' = 1
    /\ UNCHANGED <<outputs, reply>>

-----------------------------------------------------------------------------
(* The loop of exec_set_out, one pair after the other *)

\* The int json_getInteger makes of a number: strtoint keeps the low word of the
\* long, which is wider.
strtoint(n) == ((n + (WordSize \div 2)) % WordSize) - (WordSize \div 2)

PairCount == Min({Len(request.i.items), Len(request.v.items)})
InLoop    == phase = "set/out" /\ pair <= PairCount
IsNaN     == NaN \in {request.i.items[pair], request.v.items[pair]}
Index     == strtoint(request.i.items[pair])
Asked     == strtoint(request.v.items[pair])
ThisRequest == UNCHANGED <<request, before, msg_id>>

gpio_id_is_available(id) == id >= 0 /\ id < Count

\* Its error reply is built and overwritten later: the loop goes on.
SkipPair ==
    /\ InLoop /\ IsNaN
    /\ pair' = pair + 1
    /\ UNCHANGED <<outputs, phase, reply>> /\ ThisRequest

RefusePair ==
    /\ InLoop /\ ~IsNaN /\ ThisRequest
    /\ \/ ~gpio_id_is_available(Index) /\ Fail("GPIO_ID_UNDEFINED")
       \/ /\ gpio_id_is_available(Index) /\ Asked \notin States
          /\ Fail("GPIO_VALUE_OUT_OF_RANGE")
    /\ UNCHANGED <<outputs, pair>>

SlipStoreFirst(id, state) ==
    /\ value' = [value EXCEPT ![id] = state]
    /\ is_updated' = IF state = value[id] THEN is_updated ELSE is_updated \cup {id}

SlipNoFlag(id, state) ==
    /\ state = value[id] \/ id \in granted
    /\ value' = [value EXCEPT ![id] = state]
    /\ UNCHANGED is_updated

\* The state the output has is not written again, be it granted or not.
gpio_write(id, state) ==
    /\ state = value[id] \/ id \in granted
    /\ value' = [value EXCEPT ![id] = state]
    /\ is_updated' = IF state = value[id] THEN is_updated ELSE is_updated \cup {id}

CanWrite == InLoop /\ ~IsNaN /\ gpio_id_is_available(Index) /\ Asked \in States

WritePair ==
    /\ CanWrite
    /\ gpio_write(Index, Asked)
    /\ pair' = pair + 1
    /\ UNCHANGED <<granted, phase, reply>> /\ ThisRequest

\* The ioctl fails, as it always does on an output that was not granted.
WriteFails ==
    /\ CanWrite /\ Asked # value[Index] /\ ThisRequest
    /\ Fail("GPIO_UNABLE_TO_SET_VALUE")
    /\ UNCHANGED <<outputs, pair>>

build_set_out_reply ==
    /\ phase = "set/out" /\ pair > PairCount
    /\ ThisRequest
    /\ Tell("SUCCESS_UPDATE", is_updated)
    /\ UNCHANGED pair

-----------------------------------------------------------------------------
write_to_client ==
    /\ phase = "write"
    /\ phase' = "select" /\ request' = NoRequest /\ reply' = NoReply /\ pair' = 0
    /\ before' = value
    /\ UNCHANGED <<outputs, msg_id>>

\* A timeout: the flags that are up are pushed, in a reply of their own.
build_timeout_reply ==
    /\ phase = "select" /\ is_updated # {}
    /\ is_updated' = {}
    /\ UNCHANGED <<value, granted, phase, request, pair, msg_id, reply, before>>

Loop == SkipPair \/ RefusePair \/ WritePair \/ WriteFails \/ build_set_out_reply

Next ==
    \/ \E r \in Requests :
         RefuseRequest(r) \/ build_get_all_reply(r) \/ exec_set_out(r)
    \/ Loop
    \/ write_to_client \/ build_timeout_reply

Spec == Init /\ [][Next]_vars

-----------------------------------------------------------------------------
(* Properties *)

Replying == phase = "write"

\* What the pairs 1..n of the request make of the outputs: each is what the
\* last pair that names it asks for; pairs that are no numbers count for nothing.
Effect(n) ==
    LET Number(k) == NaN \notin {request.i.items[k], request.v.items[k]}
        Hits(id)  == {k \in 1..n : Number(k) /\ strtoint(request.i.items[k]) = id}
    IN  [id \in Ids |-> IF Hits(id) = {} THEN before[id]
                        ELSE strtoint(request.v.items[Max(Hits(id))])]

\* The state has its types, and the table of outputs is one the driver can have.
TypeOK ==
    /\ value \in [Ids -> States]
    /\ is_updated \subseteq granted /\ granted \subseteq Ids
    /\ \A id \in Ids \ granted : value[id] = 0
    /\ phase \in {"select", "set/out", "write"}
    /\ request \in Requests \cup {NoRequest}
    /\ pair \in Nat
    /\ msg_id \in MsgIds \cup {"NULL", "stale"}
    /\ before \in [Ids -> States]

\* The chain of a list has all the items that were counted.
IsWhole(f) == f.size = Len(f.items)

\* The code of a reply tells what became of the outputs, however the loop of
\* exec_set_out ended: all the pairs were executed in their order, or those
\* before the pair that failed, or none at all; and of two whole arrays no item
\* was left without a partner.
CodeTellsEffect ==
    Replying =>
        CASE reply.code = "SUCCESS_UPDATE" ->
               /\ IsWhole(request.i) /\ IsWhole(request.v)
                    => Len(request.i.items) = Len(request.v.items)
               /\ value = Effect(PairCount)
          [] reply.code \in {"GPIO_ID_UNDEFINED", "GPIO_VALUE_OUT_OF_RANGE",
                             "GPIO_UNABLE_TO_SET_VALUE"} ->
               \E n \in 1..PairCount : value = Effect(n - 1)
          [] reply.code = "BUFFER_REPLY_OVERFLOW" /\ request.topic = "set/out" ->
               value = Effect(PairCount)
          [] OTHER -> value = before

\* Whatever way a request ends, an output it moved is told with its new state
\* in the reply, or still flagged for the next push. A reply that overflowed is
\* the exception.
ChangeIsTold ==
    Replying =>
        \A id \in Ids :
            \/ value[id] = before[id]
            \/ id \in is_updated
            \/ id \in DOMAIN reply.told /\ reply.told[id] = value[id]
            \/ reply.code = "BUFFER_REPLY_OVERFLOW"

\* msg_id outlives the request it was read from: a request that has one is
\* answered with its own, never with that of the request before it.
AnswersItsRequest ==
    Replying /\ request.syntax = "ok" /\ request.msgid \in MsgIds
        => reply.msgid = request.msgid

\* "Bad request: `param.i:%s` is not a number.", says the table of the codes
\* (api.c 113, and 133 for `param.v`): a set/out with such a pair, or with an
\* index or a value out of the table, is not answered with a success.
BadPairIsRefused ==
    Replying /\ reply.code = "SUCCESS_UPDATE" =>
        \A k \in 1..PairCount :
            request.i.items[k] \in Ids /\ request.v.items[k] \in States
=============================================================================
