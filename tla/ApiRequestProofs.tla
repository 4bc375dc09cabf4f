-------------------------- MODULE ApiRequestProofs --------------------------
(***************************************************************************)
(* Theorems about the requests of the API, for any number of outputs, any  *)
(* width of an int and any set of requests; and about the text they come   *)
(* in, for any size of the pool and any reads.                             *)
(***************************************************************************)
EXTENDS ReadRequest, JsonReaderProofs

\* What the loop of set/out keeps: it is at a pair of a request, and what it
\* has moved so far is flagged.
LoopOK ==
    phase = "set/out" =>
        /\ request \in Requests /\ pair \in Nat \ {0}
        /\ \A id \in Ids : value[id] = before[id] \/ id \in is_updated

\* As long as a request is served, msg_id points to its _msgid, if it has one.
MsgIdOK ==
    phase # "select" /\ request.syntax = "ok" /\ request.msgid \in MsgIds
        => msg_id = request.msgid

Inv == TypeOK /\ LoopOK /\ MsgIdOK /\ ChangeIsTold /\ AnswersItsRequest

-----------------------------------------------------------------------------
(* The pair of the loop *)

\* The loop ends with the shorter of the two arrays.
LEMMA ShorterOfTwo ==
    ASSUME NEW m \in Nat, NEW n \in Nat
    PROVE  Min({m, n}) \in {m, n} /\ Min({m, n}) <= m /\ Min({m, n}) <= n
<1> DEFINE S == {m, n}
<1>1. \E x \in S : \A y \in S : x <= y
  OBVIOUS
<1>2. Min(S) \in S /\ \A y \in S : Min(S) <= y
  BY <1>1 DEF Min
<1>3. QED
  BY <1>2

LEMMA PairCountBounds ==
    ASSUME Len(request.i.items) \in Nat, Len(request.v.items) \in Nat
    PROVE  /\ PairCount \in {Len(request.i.items), Len(request.v.items)}
           /\ PairCount <= Len(request.i.items)
           /\ PairCount <= Len(request.v.items)
BY ShorterOfTwo DEF PairCount

\* Every number that strtol can return becomes an int.
LEMMA StrtointIsInt ==
    ASSUME NEW n \in Int
    PROVE  strtoint(n) \in Int
<1>1. WordSize \in Nat /\ WordSize > 0
  BY WordAssumption, CountAssumption DEF WordAssumption, CountAssumption
<1>2. PICK half \in Int : half = WordSize \div 2
  BY <1>1
<1>3. (n + half) % WordSize \in Int
  BY <1>1
<1>4. QED
  BY <1>2, <1>3 DEF strtoint

\* The index of a pair that is available is an output of the table.
LEMMA IndexIsOutput ==
    ASSUME LoopOK, CanWrite
    PROVE  Index \in Ids /\ Asked \in States
<1>1. /\ request \in Requests /\ pair \in Nat /\ pair >= 1
      /\ pair <= PairCount
  BY DEF LoopOK, CanWrite, InLoop
<1>2. request.i.items \in Seq(Items) /\ request.v.items \in Seq(Items)
  BY <1>1, RequestAssumption DEF RequestAssumption
<1>3. pair \in 1..Len(request.i.items)
  BY <1>1, <1>2, PairCountBounds
<1>4. request.i.items[pair] \in Items /\ request.i.items[pair] # NaN
  BY <1>2, <1>3 DEF CanWrite, IsNaN
<1>5. Index \in Int
  BY <1>4, StrtointIsInt DEF Items, Index
<1>6. QED
  BY <1>5, CountAssumption
     DEF CanWrite, gpio_id_is_available, Ids, CountAssumption

-----------------------------------------------------------------------------
(* The invariant *)

\* It holds as the thread starts.
LEMMA InvInit == Init => Inv
<1> SUFFICES ASSUME Init PROVE Inv
  OBVIOUS
<1>1. phase = "select" /\ request = NoRequest /\ pair = 0 /\ msg_id = "NULL"
  BY DEF Init
<1>2. granted \subseteq Ids /\ is_updated = granted
  <2>1. PICK n \in 0..Count : granted = 0..n - 1
    BY DEF Init
  <2>2. QED
    BY <2>1, CountAssumption DEF Init, Ids, CountAssumption
<1>3. TypeOK
  BY <1>1, <1>2 DEF Init, TypeOK, States
<1>4. QED
  BY <1>1, <1>3
     DEF Inv, LoopOK, MsgIdOK, ChangeIsTold, AnswersItsRequest, Replying

\* msg_id stays a pointer, and is the _msgid of the request that was read.
LEMMA ReadSetsMsgId ==
    ASSUME TypeOK, NEW r \in Requests, Read(r)
    PROVE  /\ request' = r /\ before' = value
           /\ msg_id' \in MsgIds \cup {"NULL", "stale"}
           /\ r.syntax = "ok" /\ r.msgid \in MsgIds => msg_id' = r.msgid
BY DEF TypeOK, Read, NextMsgId

\* A request that is refused moves nothing.
LEMMA RefuseKeepsInv ==
    ASSUME Inv, NEW r \in Requests, RefuseRequest(r)
    PROVE  Inv'
<1>1. /\ UNCHANGED <<value, is_updated, granted, pair>>
      /\ phase' = "write" /\ reply'.msgid = msg_id'
  BY DEF RefuseRequest, Fail, Answer, outputs
<1>2. Read(r)
  BY DEF RefuseRequest
<1>3. QED
  BY <1>1, <1>2, ReadSetsMsgId
     DEF Inv, TypeOK, LoopOK, MsgIdOK, ChangeIsTold, AnswersItsRequest, Replying

\* get/all tells everything and moves nothing.
LEMMA GetAllKeepsInv ==
    ASSUME Inv, NEW r \in Requests, build_get_all_reply(r)
    PROVE  Inv'
<1>1. /\ UNCHANGED <<value, granted, pair>> /\ is_updated' \subseteq is_updated
      /\ phase' = "write" /\ reply'.msgid = msg_id'
  BY DEF build_get_all_reply, Tell, Answer
<1>2. Read(r)
  BY DEF build_get_all_reply
<1>3. QED
  BY <1>1, <1>2, ReadSetsMsgId
     DEF Inv, TypeOK, LoopOK, MsgIdOK, ChangeIsTold, AnswersItsRequest, Replying

\* set/out starts at the first pair with nothing moved yet.
LEMMA SetOutKeepsInv ==
    ASSUME Inv, NEW r \in Requests, exec_set_out(r)
    PROVE  Inv'
<1>1. /\ UNCHANGED <<value, is_updated, granted>>
      /\ phase' = "set/out" /\ pair' = 1
  BY DEF exec_set_out, outputs
<1>2. Read(r)
  BY DEF exec_set_out
<1>3. QED
  BY <1>1, <1>2, ReadSetsMsgId
     DEF Inv, TypeOK, LoopOK, MsgIdOK, ChangeIsTold, AnswersItsRequest, Replying

\* A pair that is skipped leaves all but the pair alone.
LEMMA SkipKeepsInv ==
    ASSUME Inv, SkipPair
    PROVE  Inv'
BY DEF SkipPair, InLoop, ThisRequest, outputs,
       Inv, TypeOK, LoopOK, MsgIdOK, ChangeIsTold, AnswersItsRequest, Replying

\* A loop that ends with an error leaves what it moved flagged.
LEMMA ErrorKeepsInv ==
    ASSUME Inv, RefusePair \/ WriteFails
    PROVE  Inv'
<1>1. /\ UNCHANGED <<value, is_updated, granted, pair, request, before, msg_id>>
      /\ phase = "set/out" /\ phase' = "write" /\ reply'.msgid = msg_id'
  BY DEF RefusePair, WriteFails, CanWrite, InLoop, Fail, Answer, ThisRequest, outputs
<1>2. QED
  BY <1>1
     DEF Inv, TypeOK, LoopOK, MsgIdOK, ChangeIsTold, AnswersItsRequest, Replying

\* A pair that is written flags the output it moves.
LEMMA WriteKeepsInv ==
    ASSUME Inv, WritePair
    PROVE  Inv'
<1>1. /\ UNCHANGED <<granted, phase, reply, request, before, msg_id>>
      /\ phase = "set/out" /\ pair' = pair + 1 /\ gpio_write(Index, Asked)
  BY DEF WritePair, CanWrite, InLoop, ThisRequest
<1>2. PICK id \in Ids, state \in States : id = Index /\ state = Asked
  BY IndexIsOutput DEF Inv, WritePair
<1>3. /\ value' = [value EXCEPT ![id] = state]
      /\ state = value[id] \/ id \in granted
      /\ is_updated' = IF state = value[id] THEN is_updated ELSE is_updated \cup {id}
  BY <1>1, <1>2 DEF gpio_write
<1>4. TypeOK'
  BY <1>1, <1>3 DEF Inv, TypeOK
<1>5. LoopOK'
  BY <1>1, <1>3 DEF Inv, TypeOK, LoopOK
<1>6. QED
  BY <1>1, <1>4, <1>5 DEF Inv, MsgIdOK, ChangeIsTold, AnswersItsRequest, Replying

\* The reply that ends the loop tells all that is flagged, or overflows.
LEMMA ReplyKeepsInv ==
    ASSUME Inv, build_set_out_reply
    PROVE  Inv'
<1>1. /\ UNCHANGED <<value, granted, pair, request, before, msg_id>>
      /\ phase = "set/out" /\ phase' = "write" /\ reply'.msgid = msg_id'
      /\ is_updated' = {}
  BY DEF build_set_out_reply, Tell, Answer, ThisRequest
<1>2. \/ reply'.told = [id \in is_updated |-> value[id]]
      \/ reply'.code = "BUFFER_REPLY_OVERFLOW"
  BY DEF build_set_out_reply, Tell, Answer
<1>3. TypeOK' /\ LoopOK' /\ MsgIdOK' /\ AnswersItsRequest'
  BY <1>1 DEF Inv, TypeOK, LoopOK, MsgIdOK, AnswersItsRequest, Replying
<1>4. ChangeIsTold'
  BY <1>1, <1>2 DEF Inv, LoopOK, ChangeIsTold, Replying
<1>5. QED
  BY <1>3, <1>4 DEF Inv

\* Every step keeps the invariant.
LEMMA InvStep == Inv /\ [Next]_vars => Inv'
<1> SUFFICES ASSUME Inv, [Next]_vars PROVE Inv'
  OBVIOUS
<1>1. CASE \E r \in Requests :
              RefuseRequest(r) \/ build_get_all_reply(r) \/ exec_set_out(r)
  BY <1>1, RefuseKeepsInv, GetAllKeepsInv, SetOutKeepsInv
<1>2. CASE Loop
  BY <1>2, SkipKeepsInv, ErrorKeepsInv, WriteKeepsInv, ReplyKeepsInv DEF Loop
<1>3. CASE write_to_client
  BY <1>3 DEF write_to_client, outputs,
     Inv, TypeOK, LoopOK, MsgIdOK, ChangeIsTold, AnswersItsRequest, Replying
<1>4. CASE build_timeout_reply
  BY <1>4 DEF build_timeout_reply,
     Inv, TypeOK, LoopOK, MsgIdOK, ChangeIsTold, AnswersItsRequest, Replying
<1>5. CASE UNCHANGED vars
  BY <1>5 DEF vars, outputs,
     Inv, TypeOK, LoopOK, MsgIdOK, ChangeIsTold, AnswersItsRequest, Replying
<1>6. QED
  BY <1>1, <1>2, <1>3, <1>4, <1>5 DEF Next

\* The invariant holds of every behaviour.
LEMMA InvHolds == Spec => []Inv
BY InvInit, InvStep, PTL DEF Spec

-----------------------------------------------------------------------------
\* Whatever texts of JSON objects the thread reads, of any length and any depth, the
\* parser makes the tree of each, if its nodes fit in the pool; a head of one that
\* leaves an object open is refused.
THEOREM TextsAreRead == Spec => []TreeIsText
<1>1. TreeIsText
  BY AllTextsAreRead DEF TreeIsText
<1>2. QED
  BY <1>1, PTL

\* The state always has its types, and only granted outputs are ever flagged
\* or closed.
THEOREM TypeCorrect == Spec => []TypeOK
<1>1. Inv => TypeOK
  BY DEF Inv
<1>2. QED
  BY <1>1, InvHolds, PTL

\* Whatever way a request ends, an output it moved is told or still flagged,
\* but for a reply that overflows.
THEOREM ChangesAreTold == Spec => []ChangeIsTold
<1>1. Inv => ChangeIsTold
  BY DEF Inv
<1>2. QED
  BY <1>1, InvHolds, PTL

\* A request that has a _msgid is answered with it.
THEOREM RequestsGetTheirAnswer == Spec => []AnswersItsRequest
<1>1. Inv => AnswersItsRequest
  BY DEF Inv
<1>2. QED
  BY <1>1, InvHolds, PTL

-----------------------------------------------------------------------------
(* The code of a reply tells what was done *)

\* The loop has done what its first pairs ask for, and no more.
EffectOK ==
    phase = "set/out" =>
        /\ request.topic = "set/out"
        /\ request.i.size = request.v.size
        /\ pair <= PairCount + 1
        /\ value = Effect(pair - 1)

\* Whether pair k of the request is about the output id.
Names(k, id) == /\ NaN \notin {request.i.items[k], request.v.items[k]}
                /\ strtoint(request.i.items[k]) = id

\* The effect is a state of the outputs.
LEMMA EffectIsFunction ==
    ASSUME NEW n PROVE Effect(n) = [id \in Ids |-> Effect(n)[id]]
BY DEF Effect

\* One pair more moves the output it names, and no other.
LEMMA EffectOfOneMore ==
    ASSUME NEW n \in Nat, NEW id \in Ids
    PROVE  Effect(n + 1)[id] = IF Names(n + 1, id)
                                 THEN strtoint(request.v.items[n + 1])
                                 ELSE Effect(n)[id]
<1> DEFINE Hits(m) == {k \in 1..m : Names(k, id)}
<1>1. \A m \in Nat : Effect(m)[id] = IF Hits(m) = {} THEN before[id]
                          ELSE strtoint(request.v.items[Max(Hits(m))])
  BY DEF Effect, Names
<1>2. CASE Names(n + 1, id)
  <2>1. n + 1 \in Hits(n + 1) /\ \A k \in Hits(n + 1) : k \in Int /\ k <= n + 1
    BY <1>2
  <2>2. Max(Hits(n + 1)) = n + 1
    <3> HIDE DEF Hits
    <3>1. \A x \in Hits(n + 1) : (\A y \in Hits(n + 1) : x >= y) <=> x = n + 1
      BY <2>1
    <3>2. QED
      BY <2>1, <3>1 DEF Max
  <2>3. QED
    BY <1>1, <1>2, <2>1, <2>2
<1>3. CASE ~Names(n + 1, id)
  <2>1. Hits(n + 1) = Hits(n)
    BY <1>3
  <2>2. QED
    BY <1>1, <1>3, <2>1, n \in Nat /\ n + 1 \in Nat
<1>4. QED
  BY <1>2, <1>3

\* Before the first pair, the outputs are what they were.
LEMMA EffectOfNoneNext == ASSUME TypeOK' PROVE Effect(0)' = before'
<1>1. \A id \in Ids : Effect(0)'[id] = before'[id]
  BY DEF Effect
<1>2. Effect(0)' = [id \in Ids |-> Effect(0)'[id]]
  BY DEF Effect
<1>3. before' = [id \in Ids |-> before'[id]]
  BY DEF TypeOK
<1>4. QED
  BY <1>1, <1>2, <1>3

\* FirstFailure picks one of the checks that fail.
LEMMA FirstFailureFails ==
    ASSUME NEW N \in Nat, NEW checks, DOMAIN checks = 1..N,
           NEW j \in 1..N, checks[j][2]
    PROVE  \E k \in 1..N : FirstFailure(checks) = checks[k][1]
<1> DEFINE failing == {k \in DOMAIN checks : checks[k][2]}
<1>1. failing \subseteq 1..N /\ failing # {}
  OBVIOUS
<1>2. FirstFailure(checks) = checks[Min(failing)][1]
  BY <1>1 DEF FirstFailure
<1> HIDE DEF failing
<1>3. failing \subseteq Nat
  BY <1>1
<1>4. PICK m \in failing : \A k \in failing : <<k, m>> \notin OpToRel(<, Nat)
  BY <1>1, <1>3, WFMin, NatLessThanWellFounded, Zenon
<1>5. \A k \in failing : ~(k < m)
  BY <1>3, <1>4, Zenon DEF OpToRel
<1>6. \A k \in failing : m <= k
  BY <1>3, <1>5
<1>7. Min(failing) \in failing
  BY <1>6 DEF Min
<1>8. QED
  BY <1>1, <1>2, <1>7

\* The codes of replies to requests that were carried out, wholly or in part.
LoopCodes == {"SUCCESS_UPDATE", "BUFFER_REPLY_OVERFLOW", "GPIO_ID_UNDEFINED",
              "GPIO_VALUE_OUT_OF_RANGE", "GPIO_UNABLE_TO_SET_VALUE"}

\* A request that is refused is answered with a code of its own.
LEMMA RefusalIsNoLoopCode ==
    ASSUME NEW r \in Requests
    PROVE  Refusal(r) \notin LoopCodes
<1> DEFINE query == QueryChecks(r)
           arrays == check_indexes_values_array(r)
           first == FirstElements(r)
<1>1. DOMAIN query = 1..8 /\ DOMAIN arrays = 1..7 /\ DOMAIN first = 1..2
  BY DEF QueryChecks, check_indexes_values_array, FirstElements
<1>2. \A k \in 1..8 : query[k][1] \notin LoopCodes
  <2>1. /\ query[1][1] = "JSON_SYNTAX"    /\ query[2][1] = "MSG_ID_UNDEFINED"
        /\ query[3][1] = "MSG_ID_NULL"    /\ query[4][1] = "TOPIC_UNDEFINED"
    BY DEF QueryChecks
  <2>2. /\ query[5][1] = "TOPIC_NOT_A_STRING" /\ query[6][1] = "TOPIC_NULL"
        /\ query[7][1] = "PAYLOAD_UNDEFINED"  /\ query[8][1] = "TOPIC_UNKNOWN"
    BY DEF QueryChecks
  <2> HIDE DEF query
  <2>3. QED
    BY <2>1, <2>2 DEF LoopCodes
<1>3. \A k \in 1..7 : arrays[k][1] \notin LoopCodes
  BY DEF check_indexes_values_array, LoopCodes
<1>4. \A k \in 1..2 : first[k][1] \notin LoopCodes
  BY DEF FirstElements, LoopCodes
<1> HIDE DEF query, arrays, first
<1>5. ASSUME NEW N \in Nat, NEW checks, DOMAIN checks = 1..N,
             \A k \in 1..N : checks[k][1] \notin LoopCodes
      PROVE  FirstFailure(checks) \notin LoopCodes
  <2>1. CASE \E j \in 1..N : checks[j][2]
    BY <1>5, <2>1, FirstFailureFails
  <2>2. CASE ~\E j \in 1..N : checks[j][2]
    BY <1>5, <2>2 DEF FirstFailure, LoopCodes
  <2>3. QED
    BY <2>1, <2>2
<1>6. /\ FirstFailure(query) \notin LoopCodes /\ FirstFailure(arrays) \notin LoopCodes
      /\ FirstFailure(first) \notin LoopCodes
  <2>1. 8 \in Nat /\ 7 \in Nat /\ 2 \in Nat
    OBVIOUS
  <2>2. QED
    BY <1>1, <1>2, <1>3, <1>4, <1>5, <2>1
<1>7. QED
  BY <1>6, Zenon DEF Refusal, query, arrays, first

\* A set/out that passes the checks has arrays of one size.
LEMMA AcceptedArraysAreEqual ==
    ASSUME NEW r \in Requests, Refusal(r) = "none", r.topic = "set/out"
    PROVE  r.i.size = r.v.size
<1> DEFINE arrays == check_indexes_values_array(r)
<1>1. FirstFailure(arrays) = "none"
  BY DEF Refusal
<1>2. DOMAIN arrays = 1..7 /\ \A k \in 1..7 : arrays[k][1] # "none"
  BY DEF check_indexes_values_array
<1>3. arrays[7][2] <=> r.i.size # r.v.size
  BY DEF check_indexes_values_array
<1> HIDE DEF arrays
<1>4. SUFFICES ASSUME \E j \in 1..7 : arrays[j][2] PROVE FALSE
  BY <1>3
<1>5. \E k \in 1..7 : FirstFailure(arrays) = arrays[k][1]
  BY <1>2, <1>4, FirstFailureFails
<1>6. QED
  BY <1>1, <1>2, <1>5

\* The invariant with what the codes rest on.
CodeInv == Inv /\ EffectOK /\ CodeTellsEffect

\* A request that is read and leaves the loop alone keeps the codes true.
LEMMA ReadKeepsCodes ==
    ASSUME CodeInv, NEW r \in Requests,
           RefuseRequest(r) \/ build_get_all_reply(r) \/ exec_set_out(r)
    PROVE  EffectOK' /\ CodeTellsEffect'
<1>1. CASE RefuseRequest(r)
  <2>1. /\ phase' = "write" /\ value' = before' /\ reply'.code = Refusal(r)
    BY <1>1 DEF RefuseRequest, Read, Fail, Answer, outputs
  <2>2. reply'.code \notin LoopCodes
    BY <2>1, RefusalIsNoLoopCode
  <2>3. QED
    BY <2>1, <2>2 DEF EffectOK, CodeTellsEffect, LoopCodes, Replying
<1>2. CASE build_get_all_reply(r)
  <2>1. /\ phase' = "write" /\ value' = before' /\ request'.topic = "get/all"
        /\ reply'.code \in {"SUCCESS", "BUFFER_REPLY_OVERFLOW"}
    BY <1>2 DEF build_get_all_reply, Read, Tell, Answer
  <2>2. QED
    BY <2>1 DEF EffectOK, CodeTellsEffect, Replying
<1>3. CASE exec_set_out(r)
  <2>1. /\ phase' = "set/out" /\ pair' = 1 /\ request' = r
        /\ r.topic = "set/out" /\ value' = before'
    BY <1>3 DEF exec_set_out, Read, outputs
  <2>2. r.i.size = r.v.size
    BY <1>3, AcceptedArraysAreEqual DEF exec_set_out
  <2>3. PairCount' \in Nat
    <3>1. r.i.items \in Seq(Items) /\ r.v.items \in Seq(Items)
      BY RequestAssumption DEF RequestAssumption
    <3>2. Len(r.i.items) \in Nat /\ Len(r.v.items) \in Nat
      BY <3>1
    <3>3. PairCount' = Min({Len(r.i.items), Len(r.v.items)})
      BY <2>1 DEF PairCount
    <3>4. QED
      BY <3>2, <3>3, ShorterOfTwo
  <2>4. TypeOK'
    BY <1>3, SetOutKeepsInv DEF CodeInv, Inv
  <2>5. value' = Effect(0)'
    BY <2>1, <2>4, EffectOfNoneNext
  <2>6. Effect(pair - 1)' = Effect(0)'
    BY <2>1 DEF Effect
  <2>7. QED
    BY <2>1, <2>2, <2>3, <2>5, <2>6 DEF EffectOK, CodeTellsEffect, Replying
<1>4. QED
  BY <1>1, <1>2, <1>3

\* The loop is at a pair of two arrays of one size.
LEMMA LoopPair ==
    ASSUME CodeInv, phase = "set/out"
    PROVE  /\ pair \in Nat /\ pair >= 1 /\ pair - 1 \in Nat
           /\ PairCount \in Nat
           /\ request.i.size = request.v.size
           /\ pair <= PairCount + 1
           /\ request.topic = "set/out"
           /\ value = Effect(pair - 1)
<1>1. request \in Requests /\ pair \in Nat \ {0}
  BY DEF CodeInv, Inv, LoopOK
<1>2. request.i.items \in Seq(Items) /\ request.v.items \in Seq(Items)
  BY <1>1, RequestAssumption DEF RequestAssumption
<1>3. Len(request.i.items) \in Nat /\ Len(request.v.items) \in Nat
  BY <1>2
<1>4. QED
  BY <1>1, <1>3, PairCountBounds DEF CodeInv, EffectOK

\* The effect is that of the request and of the outputs it found, which the
\* loop does not change.
LEMMA EffectAtNextPair ==
    ASSUME UNCHANGED <<request, before>>, pair \in Nat, pair' = pair + 1
    PROVE  Effect(pair - 1)' = Effect(pair)
<1>1. pair' - 1 = pair
  OBVIOUS
<1>2. QED
  BY <1>1 DEF Effect

\* A pair that is skipped has no effect.
LEMMA SkipKeepsCodes ==
    ASSUME CodeInv, SkipPair
    PROVE  EffectOK' /\ CodeTellsEffect'
<1>1. /\ UNCHANGED <<value, request, before, phase>> /\ pair' = pair + 1
      /\ phase = "set/out" /\ pair <= PairCount /\ IsNaN
  BY DEF SkipPair, InLoop, ThisRequest, outputs
<1>2. \A id \in Ids : Effect(pair)[id] = Effect(pair - 1)[id]
  <2> SUFFICES ASSUME NEW id \in Ids PROVE Effect(pair)[id] = Effect(pair - 1)[id]
    OBVIOUS
  <2>1. PICK n \in Nat : n = pair - 1 /\ n + 1 = pair
    BY <1>1, LoopPair
  <2>2. ~Names(n + 1, id)
    BY <1>1, <2>1 DEF Names, IsNaN
  <2>3. QED
    BY <2>1, <2>2, EffectOfOneMore
<1>3. Effect(pair) = Effect(pair - 1)
  BY <1>2, EffectIsFunction
<1>4. value' = Effect(pair - 1)' /\ PairCount' = PairCount
  BY <1>1, <1>3, LoopPair, EffectAtNextPair DEF PairCount
<1>5. QED
  BY <1>1, <1>4, LoopPair DEF EffectOK, CodeTellsEffect, Replying

\* A pair that is written has its effect.
LEMMA WriteKeepsCodes ==
    ASSUME CodeInv, WritePair
    PROVE  EffectOK' /\ CodeTellsEffect'
<1>1. /\ UNCHANGED <<request, before, phase>> /\ pair' = pair + 1
      /\ phase = "set/out" /\ pair <= PairCount /\ ~IsNaN
      /\ value' = [value EXCEPT ![Index] = Asked]
  BY DEF WritePair, CanWrite, InLoop, ThisRequest, gpio_write
<1>2. \A id \in Ids : Effect(pair)[id] = IF id = Index THEN Asked ELSE value[id]
  <2> SUFFICES ASSUME NEW id \in Ids
               PROVE  Effect(pair)[id] = IF id = Index THEN Asked ELSE value[id]
    OBVIOUS
  <2>1. PICK n \in Nat : n = pair - 1 /\ n + 1 = pair
    BY <1>1, LoopPair
  <2>2. Names(n + 1, id) <=> id = Index
    BY <1>1, <2>1 DEF Names, IsNaN, Index
  <2>3. value = Effect(n)
    BY <1>1, <2>1, LoopPair
  <2>4. QED
    BY <2>1, <2>2, <2>3, EffectOfOneMore DEF Asked
<1>3. value' = [id \in Ids |-> IF id = Index THEN Asked ELSE value[id]]
  BY <1>1 DEF CodeInv, Inv, TypeOK
<1>4. Effect(pair) = [id \in Ids |-> IF id = Index THEN Asked ELSE value[id]]
  BY <1>2, EffectIsFunction
<1>5. value' = Effect(pair - 1)' /\ PairCount' = PairCount
  BY <1>1, <1>3, <1>4, LoopPair, EffectAtNextPair DEF PairCount
<1>6. QED
  BY <1>1, <1>5, LoopPair DEF EffectOK, CodeTellsEffect, Replying

\* A loop that ends with an error has done the pairs before the one it is at.
LEMMA ErrorKeepsCodes ==
    ASSUME CodeInv, RefusePair \/ WriteFails
    PROVE  EffectOK' /\ CodeTellsEffect'
<1>1. /\ UNCHANGED <<value, request, before>> /\ phase' = "write"
      /\ phase = "set/out" /\ pair <= PairCount
      /\ reply'.code \in {"GPIO_ID_UNDEFINED", "GPIO_VALUE_OUT_OF_RANGE",
                          "GPIO_UNABLE_TO_SET_VALUE"}
  BY DEF RefusePair, WriteFails, CanWrite, InLoop, Fail, Answer, ThisRequest, outputs
<1>2. PICK n \in 1..PairCount : value = Effect(n - 1)
  BY <1>1, LoopPair
<1>3. value' = Effect(n - 1)' /\ PairCount' = PairCount
  BY <1>1, <1>2 DEF Effect, PairCount
<1>4. QED
  BY <1>1, <1>3 DEF EffectOK, CodeTellsEffect, Replying

\* The loop that comes to its end has done all the pairs.
LEMMA ReplyKeepsCodes ==
    ASSUME CodeInv, build_set_out_reply
    PROVE  EffectOK' /\ CodeTellsEffect'
<1>1. /\ UNCHANGED <<value, request, before>> /\ phase' = "write"
      /\ phase = "set/out" /\ pair > PairCount
      /\ reply'.code \in {"SUCCESS_UPDATE", "BUFFER_REPLY_OVERFLOW"}
  BY DEF build_set_out_reply, Tell, Answer, ThisRequest
<1>2. pair - 1 = PairCount
  BY <1>1, LoopPair
<1>3. value = Effect(PairCount)
  BY <1>1, <1>2, LoopPair
<1>4. Effect(PairCount)' = Effect(PairCount)
  BY <1>1 DEF Effect, PairCount
<1>5. value' = Effect(PairCount)'
  BY <1>1, <1>3, <1>4
<1>6. request'.i.size = request'.v.size
  BY <1>1, LoopPair
<1>7. (IsWhole(request.i) /\ IsWhole(request.v)
         => Len(request.i.items) = Len(request.v.items))'
  BY <1>6 DEF IsWhole
<1>8. EffectOK'
  BY <1>1 DEF EffectOK
<1>9. CASE reply'.code = "SUCCESS_UPDATE"
  BY <1>5, <1>7, <1>8, <1>9, Zenon DEF CodeTellsEffect, Replying
<1>10. CASE reply'.code = "BUFFER_REPLY_OVERFLOW"
  <2>1. ~(reply'.code \in {"GPIO_ID_UNDEFINED", "GPIO_VALUE_OUT_OF_RANGE",
                           "GPIO_UNABLE_TO_SET_VALUE"})
    BY <1>10
  <2>2. request'.topic = "set/out" /\ reply'.code # "SUCCESS_UPDATE"
    BY <1>1, <1>10, LoopPair
  <2>3. QED
    BY <1>5, <1>8, <1>10, <2>1, <2>2, Zenon DEF CodeTellsEffect, Replying
<1>11. QED
  BY <1>1, <1>9, <1>10

\* Every step keeps the codes true.
LEMMA CodeStep == CodeInv /\ [Next]_vars => CodeInv'
<1> SUFFICES ASSUME CodeInv, [Next]_vars PROVE CodeInv'
  OBVIOUS
<1>1. Inv'
  BY InvStep DEF CodeInv
<1>2. SUFFICES EffectOK' /\ CodeTellsEffect'
  BY <1>1 DEF CodeInv
<1>3. CASE \E r \in Requests :
              RefuseRequest(r) \/ build_get_all_reply(r) \/ exec_set_out(r)
  BY <1>3, ReadKeepsCodes
<1>4. CASE Loop
  BY <1>4, SkipKeepsCodes, ErrorKeepsCodes, WriteKeepsCodes, ReplyKeepsCodes DEF Loop
<1>5. CASE write_to_client
  BY <1>5 DEF write_to_client, EffectOK, CodeTellsEffect, Replying
<1>6. CASE build_timeout_reply
  BY <1>6 DEF build_timeout_reply, EffectOK, CodeTellsEffect, Replying
<1>7. CASE UNCHANGED vars
  <2>1. UNCHANGED <<value, phase, request, pair, reply, before>>
    BY <1>7 DEF vars, outputs
  <2>2. EffectOK'
    <3>1. Effect(pair - 1)' = Effect(pair - 1) /\ PairCount' = PairCount
      BY <2>1 DEF Effect, PairCount
    <3>2. QED
      BY <2>1, <3>1 DEF CodeInv, EffectOK
  <2>3. CodeTellsEffect'
    <3>1. Effect(PairCount)' = Effect(PairCount) /\ PairCount' = PairCount
      BY <2>1 DEF Effect, PairCount
    <3>2. \A n : Effect(n - 1)' = Effect(n - 1)
      BY <2>1 DEF Effect
    <3>3. QED
      BY <2>1, <3>1, <3>2 DEF CodeInv, CodeTellsEffect, Replying
  <2>4. QED
    BY <2>2, <2>3
<1>8. QED
  BY <1>3, <1>4, <1>5, <1>6, <1>7 DEF Next

\* The code of a reply tells what became of the outputs: everything that was
\* asked for, in its order, the pairs before the one that failed, or nothing.
THEOREM CodesAreTrue == Spec => []CodeTellsEffect
<1>1. Init => CodeInv
  BY InvInit DEF Init, CodeInv, EffectOK, CodeTellsEffect, Replying
<1>2. CodeInv => CodeTellsEffect
  BY DEF CodeInv
<1>3. QED
  BY <1>1, <1>2, CodeStep, PTL DEF Spec

-----------------------------------------------------------------------------
(* From the text of requests to the one that is carried out. A text leads   *)
(* the reader from one state to another (Leads): here for a token, for the  *)
(* text of a value (IsValueText), for the parts of a container (HasParts)   *)
(* and for objects one after another (HasReadTo). Then the members that     *)
(* RequestText gives a request, and what the lookups find of them.          *)

-----------------------------------------------------------------------------
(* Along a text                                                             *)

\* A sequence of one element.
LEMMA OneFacts ==
    ASSUME NEW S, NEW e \in S
    PROVE  <<e>> \in Seq(S) /\ Len(<<e>>) = 1 /\ <<e>>[1] = e
OBVIOUS

\* Two sequences, one after the other.
LEMMA JoinFacts ==
    ASSUME NEW S, NEW a \in Seq(S), NEW b \in Seq(S)
    PROVE  /\ a \o b \in Seq(S) /\ Len(a \o b) = Len(a) + Len(b)
           /\ \A k \in 1..Len(a) : (a \o b)[k] = a[k]
           /\ \A k \in 1..Len(b) : (a \o b)[Len(a) + k] = b[k]
OBVIOUS

\* g passes through the readers that text leads r to, the last of which is q.
IsTrail(g, r, text, q) ==
    /\ g[0] = r /\ g[Len(text)] = q
    /\ \A k \in 1..Len(text) : g[k] = Passed(g[k - 1], text[k])

Leads(r, text, q) == \E g : IsTrail(g, r, text, q)

\* A sequence of two elements.
LEMMA TwoFacts ==
    ASSUME NEW S, NEW e \in S, NEW f \in S
    PROVE  <<e, f>> \in Seq(S) /\ <<e>> \o <<f>> = <<e, f>>
<1>1. <<e, f>> \in Seq(S) /\ Len(<<e, f>>) = 2 /\ <<e, f>>[1] = e /\ <<e, f>>[2] = f
  OBVIOUS
<1> DEFINE j == <<e>> \o <<f>>
<1>2. j \in Seq(S) /\ Len(j) = 2 /\ j[1] = e /\ j[2] = f
  <2>1. /\ <<e>> \in Seq(S) /\ Len(<<e>>) = 1 /\ <<e>>[1] = e
        /\ <<f>> \in Seq(S) /\ Len(<<f>>) = 1 /\ <<f>>[1] = f
    BY OneFacts
  <2>2. j \in Seq(S) /\ Len(j) = 1 + 1 /\ j[1] = <<e>>[1] /\ j[1 + 1] = <<f>>[1]
    BY <2>1, JoinFacts
  <2>3. QED
    BY <2>1, <2>2
<1> HIDE DEF j
<1>3. j = <<e, f>>
  <2>1. \A i \in 1..2 : i = 1 \/ i = 2
    OBVIOUS
  <2>2. \A i \in 1..Len(j) : j[i] = <<e, f>>[i]
    BY <1>1, <1>2, <2>1
  <2>3. QED
    BY <1>1, <1>2, <2>2, SeqEqual
<1>4. QED
  BY <1>1, <1>3 DEF j

\* One token.
LEMMA LeadsOne ==
    ASSUME NEW r, NEW token
    PROVE  Leads(r, <<token>>, Passed(r, token))
<1> DEFINE g == [k \in 0..1 |-> IF k = 0 THEN r ELSE Passed(r, token)]
<1>1. Len(<<token>>) = 1 /\ <<token>>[1] = token
  OBVIOUS
<1>2. g[0] = r /\ g[1] = Passed(r, token)
  OBVIOUS
<1> HIDE DEF g
<1>3. \A k \in 1..1 : k = 1 /\ k - 1 = 0
  OBVIOUS
<1>4. IsTrail(g, r, <<token>>, Passed(r, token))
  <2>1. ASSUME NEW k \in 1..1
        PROVE  g[k] = Passed(g[k - 1], <<token>>[k])
    <3>1. k = 1 /\ k - 1 = 0
      BY <1>3
    <3>2. QED
      BY <3>1, <1>1, <1>2
  <2>2. QED
    BY <2>1, <1>1, <1>2 DEF IsTrail
<1>5. QED
  BY <1>4 DEF Leads

\* One text after another.
LEMMA LeadsOn ==
    ASSUME NEW A, NEW a \in Seq(A), NEW b \in Seq(A), NEW r, NEW s, NEW q,
           Leads(r, a, s), Leads(s, b, q)
    PROVE  Leads(r, a \o b, q)
<1> DEFINE m == Len(a)
           n == Len(b)
<1>1. m \in Nat /\ n \in Nat /\ Len(a \o b) = m + n
  OBVIOUS
<1>2. /\ \A k \in 1..m : (a \o b)[k] = a[k]
      /\ \A k \in m + 1..m + n : (a \o b)[k] = b[k - m]
  OBVIOUS
<1>3. PICK g : IsTrail(g, r, a, s)
  BY DEF Leads
<1>4. PICK h : IsTrail(h, s, b, q)
  BY DEF Leads
<1> DEFINE f == [k \in 0..m + n |-> IF k <= m THEN g[k] ELSE h[k - m]]
<1>5. /\ \A k \in 0..m : f[k] = g[k]
      /\ \A k \in m + 1..m + n : f[k] = h[k - m]
  BY <1>1
<1> HIDE DEF f
<1>6. /\ g[0] = r /\ g[m] = s /\ h[0] = s /\ h[n] = q
      /\ \A k \in 1..m : g[k] = Passed(g[k - 1], a[k])
      /\ \A k \in 1..n : h[k] = Passed(h[k - 1], b[k])
  BY <1>3, <1>4 DEF IsTrail
<1> HIDE DEF m, n
<1>7. f[m] = h[0]
  BY <1>1, <1>5, <1>6
<1>8. f[0] = r /\ f[m + n] = q
  <2>1. CASE n = 0
    BY <2>1, <1>1, <1>5, <1>6
  <2>2. CASE n # 0
    <3>1. m + n \in m + 1..m + n /\ m + n - m = n /\ 0 \in 0..m
      BY <2>2, <1>1
    <3>2. f[m + n] = h[n]
      BY <3>1, <1>1, <1>5
    <3>3. f[0] = g[0]
      BY <3>1, <1>5
    <3>4. QED
      BY <3>1, <3>2, <3>3, <1>6
  <2>3. QED
    BY <2>1, <2>2
<1>9. ASSUME NEW k \in 1..m + n
      PROVE  f[k] = Passed(f[k - 1], (a \o b)[k])
  <2>1. CASE k <= m
    <3>1. k \in 1..m /\ k \in 0..m /\ k - 1 \in 0..m
      BY <2>1, <1>1
    <3>2. QED
      BY <3>1, <1>2, <1>5, <1>6
  <2>2. CASE k = m + 1
    <3>1. k \in m + 1..m + n /\ k - m = 1 /\ k - 1 = m /\ 1 \in 1..n /\ 1 - 1 = 0
      BY <2>2, <1>1
    <3>2. f[k] = h[1] /\ f[k - 1] = h[0] /\ (a \o b)[k] = b[1]
      BY <3>1, <1>2, <1>5, <1>7
    <3>3. h[1] = Passed(h[1 - 1], b[1])
      BY <3>1, <1>6
    <3>4. QED
      BY <3>1, <3>2, <3>3
  <2>3. CASE k > m + 1
    <3>1. /\ k \in m + 1..m + n /\ k - 1 \in m + 1..m + n /\ k - m \in 1..n
          /\ k - 1 - m = k - m - 1
      BY <2>3, <1>1
    <3>2. f[k] = h[k - m] /\ f[k - 1] = h[k - m - 1] /\ (a \o b)[k] = b[k - m]
      BY <3>1, <1>2, <1>5
    <3>3. QED
      BY <3>1, <3>2, <1>6
  <2>4. QED
    BY <2>1, <2>2, <2>3, <1>1
<1>10. IsTrail(f, r, a \o b, q)
  BY <1>1, <1>8, <1>9 DEF IsTrail
<1>11. QED
  BY <1>10 DEF Leads

\* A text leads to one reader.
LEMMA LeadsToOne ==
    ASSUME NEW A, NEW text \in Seq(A), NEW r, NEW q, NEW w,
           Leads(r, text, q), Leads(r, text, w)
    PROVE  q = w
<1> DEFINE N == Len(text)
<1>1. N \in Nat
  OBVIOUS
<1>2. PICK g : IsTrail(g, r, text, q)
  BY DEF Leads
<1>3. PICK h : IsTrail(h, r, text, w)
  BY DEF Leads
<1> DEFINE S == {k \in Nat : k <= N => g[k] = h[k]}
<1> HIDE DEF N
<1>4. 0 \in S
  BY <1>2, <1>3 DEF IsTrail
<1>5. ASSUME NEW k \in Nat, k \in S
      PROVE  k + 1 \in S
  <2> SUFFICES ASSUME k + 1 <= N PROVE g[k + 1] = h[k + 1]
    OBVIOUS
  <2>1. k + 1 \in 1..N /\ k + 1 - 1 = k /\ k <= N
    BY <1>1
  <2>2. g[k] = h[k]
    BY <2>1, <1>5
  <2>3. g[k + 1] = Passed(g[k + 1 - 1], text[k + 1]) /\ h[k + 1] = Passed(h[k + 1 - 1], text[k + 1])
    BY <2>1, <1>2, <1>3 DEF IsTrail, N
  <2>4. QED
    BY <2>1, <2>2, <2>3
<1>6. \A k \in Nat : k \in S
  <2> HIDE DEF S
  <2>1. QED
    BY <1>4, <1>5, Induction
<1>7. g[N] = h[N]
  BY <1>1, <1>6
<1>8. QED
  BY <1>2, <1>3, <1>7 DEF IsTrail, N

\* What a text leads to from the start.
LEMMA LeadsFromStart ==
    ASSUME NEW A, NEW text \in Seq(A), NEW q, Leads(Start, text, q)
    PROVE  ReaderAfter(text) = q
<1> DEFINE N == Len(text)
<1>1. N \in Nat
  OBVIOUS
<1>2. PICK g : IsReading(g, text, N) /\ ReaderAfter(text) = g[N]
  BY <1>1, ReaderAfterIs
<1>3. g[0] = Start /\ \A k \in 1..N : g[k] = Passed(g[k - 1], text[k])
  BY <1>1, <1>2, ReadingElements
<1>4. Leads(Start, text, ReaderAfter(text))
  BY <1>2, <1>3 DEF Leads, IsTrail
<1>5. QED
  BY <1>4, LeadsToOne

-----------------------------------------------------------------------------
(* One token, where it may stand                                            *)

\* What a text may have: with a string, also what is read of it.
IsContents(C) ==
    /\ NULL \in C /\ {Mark(c) : c \in {"{", "}", "[", "]", ",", ":"}} \subseteq C
    /\ \A x \in C : x.t = "string" => Str(Decoded(x.s)) \in C

\* q has the tree of t, and is at the same place of it.
IsLike(q, t) ==
    /\ q.at = t.at /\ q.open = t.open /\ q.label = t.label /\ q.kids = t.kids
    /\ q.earlier = t.earlier

\* The types of the tokens that are no blanks.
Marks == {"{", "}", "[", "]", ",", ":", "string", "number", "decimal"} \cup Primitives

LEMMA NoBlank ==
    ASSUME NEW token, token.t \in Marks
    PROVE  token # Space
<1>1. Space.t \notin Marks
  BY Zenon DEF Space, Mark, Marks, Primitives
<1>2. QED
  BY <1>1, Zenon

\* What the reader has passed is what it has taken, but for the room.
LEMMA PassedLike ==
    ASSUME NEW C, NEW r, ReaderInv(r, C), r.at # "wrong", NEW token, token.t \in Marks,
           NEW t, t = Taken(r, token), ReaderInv(t, C), NEW q, q = Passed(r, token)
    PROVE  ReaderInv(q, C) /\ IsLike(q, t)
<1> DEFINE room == IF InUse(t) > t.room THEN InUse(t) ELSE t.room
<1>1. q = WithRoom(t, room)
  <2>1. token # Space
    BY NoBlank
  <2>2. QED
    BY <2>1, Zenon DEF Passed, WithRoom
<1>2. InUse(t) \in Nat /\ t.room \in Nat
  <2>1. 1 \in 1..Nodes(t)
    BY DEF ReaderInv, IsReader, Nodes
  <2>2. InUse(t) \in Nat
    BY <2>1, SlotFacts
  <2>3. QED
    BY <2>2 DEF ReaderInv, IsReader
<1>3. room \in Nat
  BY <1>2
<1> HIDE DEF room
<1>4. ReaderInv(q, C)
  BY <1>1, <1>3, RoomKept
<1>5. IsLike(q, t)
  BY <1>1 DEF IsLike, WithRoom, ReaderInv, IsReader
<1>6. QED
  BY <1>4, <1>5

\* A value of one token, the type it has in the tree, and what is kept of it.
IsLeaf(token) == token.t \in {"string", "number", "decimal"} \cup Primitives

LeafType(token) ==
    CASE token.t = "string" -> "string"
      [] token.t \in {"number", "decimal"} -> "number"
      [] token.t = "null" -> "null"
      [] OTHER -> "boolean"

LeafContent(token) == IF token.t = "string" THEN Str(Decoded(token.s)) ELSE token

\* q is r with a value for its last node.
HasLeaf(q, r, token) ==
    /\ q.at = "after" /\ q.open = r.open /\ q.earlier = r.earlier /\ q.kids = r.kids
    /\ Nodes(q) = Nodes(r)
    /\ \A k \in 1..Nodes(r) : k # Nodes(r) => q.label[k] = r.label[k]
    /\ q.label[Nodes(r)] = Label(LeafType(token), r.label[Nodes(r)].key, LeafContent(token))

\* A leaf where a value is due.
LEMMA LeafPassed ==
    ASSUME NEW C, IsContents(C), NEW r, ReaderInv(r, C), r.at = "value",
           NEW token \in C, IsLeaf(token), NEW q, q = Passed(r, token)
    PROVE  ReaderInv(q, C) /\ HasLeaf(q, r, token)
<1> DEFINE type == LeafType(token)
           content == LeafContent(token)
           f == Filled(r, type, content)
           t == Taken(r, token)
<1>1. type \in Types \ {"UNDEFINED"} /\ content \in C
  BY DEF LeafType, LeafContent, Types, IsContents
<1>2. MayHaveValue(r) /\ Node(r) = r /\ ~IsDue(r) /\ r.at # "outside"
  BY DEF MayHaveValue, Node, IsDue
<1>3. ReaderInv(f, C)
  BY <1>1, FilledKeeps
<1>4. /\ Nodes(f) = Nodes(r) /\ f.at = "after" /\ f.open = r.open /\ f.kids = r.kids
      /\ f.earlier = r.earlier
      /\ \A k \in 1..Nodes(r) : k # Nodes(r) => f.label[k] = r.label[k]
      /\ f.label[Nodes(r)] = Label(type, r.label[Nodes(r)].key, content)
  <2> HIDE DEF type, content, f
  <2>1. IsReader(r, C) /\ type \in Types
    BY <1>1 DEF ReaderInv
  <2>2. QED
    BY <1>1, <2>1, FilledFields DEF f
<1>5. \/ t = f
      \/ \E readable \in BOOLEAN : t = [f EXCEPT !.readable = readable]
  <2>1. CASE token.t = "string"
    <3>1. type = "string" /\ content = Str(Decoded(token.s))
      BY <2>1 DEF LeafType, LeafContent
    <3>2. t = Filled(Node(r), "string", Str(Decoded(token.s)))
      BY <1>2, <2>1, Zenon DEF Taken, Primitives
    <3>3. t = f
      BY <1>2, <3>1, <3>2
    <3>4. QED
      BY <3>3
  <2>2. CASE token.t \in {"number", "decimal"}
    <3>1. type = "number" /\ content = token
      BY <2>2 DEF LeafType, LeafContent
    <3>2. t = [Filled(Node(r), "number", token) EXCEPT !.readable = @ /\ ~Unreadable(token)]
      BY <1>2, <2>2, Zenon DEF Taken, Primitives
    <3>3. f.readable \in BOOLEAN
      BY <1>3 DEF ReaderInv, IsReader
    <3>4. t = [f EXCEPT !.readable = f.readable /\ ~Unreadable(token)]
      BY <1>2, <3>1, <3>2
    <3>5. (f.readable /\ ~Unreadable(token)) \in BOOLEAN
      OBVIOUS
    <3> HIDE DEF t, f
    <3>6. QED
      BY <3>4, <3>5
  <2>3. CASE token.t \in Primitives
    <3>1. t = Filled(Node(r), IF token.t = "null" THEN "null" ELSE "boolean", token)
      BY <1>2, <2>3, Zenon DEF Taken, Primitives
    <3>2. type = (IF token.t = "null" THEN "null" ELSE "boolean") /\ content = token
      BY <2>3 DEF LeafType, LeafContent, Primitives
    <3>3. t = f
      BY <1>2, <3>1, <3>2
    <3>4. QED
      BY <3>3
  <2>4. QED
    BY <2>1, <2>2, <2>3 DEF IsLeaf
<1> HIDE DEF t, f, type, content
<1>6. ReaderInv(t, C) /\ IsLike(t, f)
  <2>1. CASE t = f
    BY <1>3, <2>1 DEF IsLike
  <2>2. CASE \E readable \in BOOLEAN : t = [f EXCEPT !.readable = readable]
    <3>1. PICK readable \in BOOLEAN : t = [f EXCEPT !.readable = readable]
      BY <2>2
    <3>2. ReaderInv(t, C)
      BY <1>3, <3>1, ReadableKeeps
    <3>3. IsLike(t, f)
      BY <1>3, <3>1 DEF IsLike, ReaderInv, IsReader
    <3>4. QED
      BY <3>2, <3>3
  <2>3. QED
    BY <1>5, <2>1, <2>2
<1>7. ReaderInv(q, C) /\ IsLike(q, t)
  <2>1. token.t \in Marks
    BY DEF IsLeaf, Marks
  <2>2. QED
    BY <1>6, <2>1, PassedLike DEF t, Marks
<1>8. HasLeaf(q, r, token)
  BY <1>4, <1>6, <1>7 DEF HasLeaf, IsLike, Nodes, type, content
<1>9. QED
  BY <1>7, <1>8

\* The marks of the two containers.
Opens(token, type)  == token.t = IF type = "object" THEN "{" ELSE "["
Closes(token, type) == token.t = IF type = "object" THEN "}" ELSE "]"

\* q is r with a container open, that is its last node.
HasOpened(q, r, type) ==
    /\ q.at = "first" /\ q.open = Append(r.open, Nodes(r)) /\ q.earlier = r.earlier
    /\ q.kids = r.kids /\ q.kids[Nodes(r)] = <<>> /\ Nodes(q) = Nodes(r) /\ Top(q) = Nodes(r)
    /\ \A k \in 1..Nodes(r) : k # Nodes(r) => q.label[k] = r.label[k]
    /\ q.label[Nodes(r)] = Label(type, r.label[Nodes(r)].key, NULL)

\* The mark that opens, where a value is due.
LEMMA OpenPassed ==
    ASSUME NEW C, NULL \in C, NEW r, ReaderInv(r, C), r.at = "value",
           NEW type \in {"object", "array"}, NEW token, Opens(token, type),
           NEW q, q = Passed(r, token)
    PROVE  ReaderInv(q, C) /\ HasOpened(q, r, type)
<1> DEFINE t == Taken(r, token)
<1>1. MayHaveValue(r) /\ Node(r) = r
  BY DEF MayHaveValue, Node
<1>2. t = Opened(r, type)
  <2>1. CASE type = "object"
    <3>1. token.t = "{" /\ r.at # "outside"
      BY <2>1 DEF Opens
    <3>2. t = Opened(Node(r), "object")
      BY <1>1, <3>1, Zenon DEF Taken, Primitives
    <3>3. QED
      BY <1>1, <2>1, <3>2
  <2>2. CASE type = "array"
    <3>1. token.t = "["
      BY <2>2 DEF Opens
    <3>2. t = Opened(Node(r), "array")
      BY <1>1, <3>1, Zenon DEF Taken, Primitives
    <3>3. QED
      BY <1>1, <2>2, <3>2
  <2>3. QED
    BY <2>1, <2>2
<1> HIDE DEF t
<1>3. ReaderInv(t, C)
  BY <1>2, OpenedKeeps
<1>4. ReaderInv(q, C) /\ IsLike(q, t)
  <2>1. token.t \in Marks
    BY DEF Opens, Marks
  <2>2. QED
    BY <1>3, <2>1, PassedLike DEF t, Marks
<1>5. HasOpened(t, r, type)
  <2>1. IsReader(r, C) /\ type \in Types
    BY DEF ReaderInv, Types
  <2>2. /\ Nodes(t) = Nodes(r) /\ Top(t) = Nodes(r)
        /\ t.at = "first" /\ t.kids = r.kids /\ t.earlier = r.earlier
        /\ \A k \in 1..Nodes(r) : k # Nodes(r) => t.label[k] = r.label[k]
        /\ t.label[Nodes(r)] = Label(type, r.label[Nodes(r)].key, r.label[Nodes(r)].value)
    BY <1>2, <2>1, OpenedFields
  <2>3. t.open = Append(r.open, Nodes(r))
    BY <1>2, <2>1 DEF Opened, IsReader
  <2>4. r.kids[Nodes(r)] = <<>> /\ r.label[Nodes(r)].value = NULL
    BY DEF ReaderInv, IsPlaced, IsWaiting
  <2>5. QED
    BY <2>2, <2>3, <2>4 DEF HasOpened
<1>6. HasOpened(q, r, type)
  BY <1>4, <1>5 DEF HasOpened, IsLike, Nodes, Top
<1>7. QED
  BY <1>4, <1>6

\* q is r without its innermost container, which is complete.
HasClosed(q, r) ==
    /\ q.at = (IF Len(r.open) = 1 THEN "outside" ELSE "after")
    /\ q.open = SubSeq(r.open, 1, Len(r.open) - 1)
    /\ q.label = r.label /\ q.kids = r.kids /\ q.earlier = r.earlier

\* The mark that closes.
LEMMA ClosePassed ==
    ASSUME NEW C, NEW r, ReaderInv(r, C), r.at \in {"first", "after"},
           NEW type \in {"object", "array"}, TopType(r) = type,
           NEW token, Closes(token, type), NEW q, q = Passed(r, token)
    PROVE  ReaderInv(q, C) /\ HasClosed(q, r)
<1> DEFINE t == Taken(r, token)
<1>1. t = Closed(r)
  <2>1. CASE type = "object"
    <3>1. token.t = "}"
      BY <2>1 DEF Closes
    <3>2. QED
      BY <2>1, <3>1, Zenon DEF Taken, Primitives
  <2>2. CASE type = "array"
    <3>1. token.t = "]"
      BY <2>2 DEF Closes
    <3>2. QED
      BY <2>2, <3>1, Zenon DEF Taken, Primitives
  <2>3. QED
    BY <2>1, <2>2
<1> HIDE DEF t
<1>2. ReaderInv(t, C)
  BY <1>1, ClosedKeeps
<1>3. r.at # "wrong"
  OBVIOUS
<1>4. ReaderInv(q, C) /\ IsLike(q, t)
  <2>1. token.t \in Marks
    BY DEF Closes, Marks
  <2>2. QED
    BY <1>2, <1>3, <2>1, PassedLike DEF t, Marks
<1>5. HasClosed(t, r)
  BY <1>1 DEF HasClosed, Closed, ReaderInv, IsReader
<1>6. HasClosed(q, r)
  BY <1>4, <1>5 DEF HasClosed, IsLike
<1>7. QED
  BY <1>4, <1>6

\* q is r after a comma.
HasComma(q, r) ==
    /\ q.at = "next" /\ q.open = r.open /\ q.label = r.label /\ q.kids = r.kids
    /\ q.earlier = r.earlier

\* A comma after a value.
LEMMA CommaPassed ==
    ASSUME NEW C, NEW r, ReaderInv(r, C), r.at = "after", NEW token, token.t = ",",
           NEW q, q = Passed(r, token)
    PROVE  ReaderInv(q, C) /\ HasComma(q, r)
<1> DEFINE t == Taken(r, token)
<1>1. t = At(r, "next")
  BY Zenon DEF Taken, Primitives
<1> HIDE DEF t
<1>2. ReaderInv(t, C)
  BY <1>1, CommaKeeps
<1>3. ReaderInv(q, C) /\ IsLike(q, t)
  BY <1>2, PassedLike DEF t, Marks
<1>4. HasComma(t, r)
  BY <1>1 DEF HasComma, At, ReaderInv, IsReader
<1>5. QED
  BY <1>3, <1>4 DEF HasComma, IsLike

\* The first object of a text, or another one.
LEMMA AgainPassed ==
    ASSUME NEW C, NEW r, ReaderInv(r, C), r.at = "outside", NEW token, token.t = "{",
           NEW q, q = Passed(r, token)
    PROVE  ReaderInv(q, C) /\ \E t : IsOpenedAgain(t, r, C) /\ IsLike(q, t)
<1> DEFINE t == Taken(r, token)
<1>1. t = OpenedAgain(r)
  BY Zenon DEF Taken, MayHaveValue, IsDue, Primitives
<1> HIDE DEF t
<1>2. ReaderInv(t, C)
  BY <1>1, OpenedAgainKeeps
<1>3. ReaderInv(q, C) /\ IsLike(q, t)
  BY <1>2, PassedLike DEF t, Marks
<1>4. IsOpenedAgain(t, r, C)
  BY <1>1, OpenedAgainFields DEF ReaderInv
<1>5. QED
  BY <1>3, <1>4

\* q is r with a node that waits for its value, the last of its container.
HasBegun(q, r, key) ==
    /\ q.at = "value" /\ q.open = r.open /\ q.earlier = r.earlier
    /\ Nodes(q) = Nodes(r) + 1
    /\ \A k \in 1..Nodes(r) : q.label[k] = r.label[k]
    /\ q.label[Nodes(r) + 1] = Label("UNDEFINED", key, NULL)
    /\ \A k \in 1..Nodes(r) : k # Top(r) => q.kids[k] = r.kids[k]
    /\ q.kids[Top(r)] = Append(r.kids[Top(r)], Nodes(r) + 1)

\* A key and its colon, where a member is due.
LEMMA MemberBegun ==
    ASSUME NEW C, IsContents(C), NEW r, ReaderInv(r, C), IsDue(r), TopType(r) = "object",
           NEW token \in C, token.t = "string", NEW colon, colon.t = ":"
    PROVE  \E q : /\ Leads(r, <<token, colon>>, q) /\ ReaderInv(q, C)
                  /\ HasBegun(q, r, Str(Decoded(token.s)))
<1> DEFINE key == Str(Decoded(token.s))
           b == Begin(r, key)
           t == Taken(r, token)
           s == Passed(r, token)
           u == Taken(s, colon)
           q == Passed(s, colon)
<1>1. key \in C \ {NULL} /\ NULL \in C
  BY DEF IsContents, Str, NULL
<1>2. r.at \in {"first", "next"} /\ r.open # <<>>
  BY OpenFacts DEF IsDue
<1>3. t = At(b, "colon")
  BY <1>2, Zenon DEF Taken, MayHaveValue, IsDue, Primitives
<1> HIDE DEF t, key, b
<1>4. ReaderInv(t, C)
  BY <1>1, <1>3, KeyKeeps DEF b
<1>5. ReaderInv(s, C) /\ IsLike(s, t)
  <2>1. r.at # "wrong"
    BY <1>2
  <2>2. QED
    BY <1>4, <2>1, PassedLike DEF t, Marks
<1>6. /\ IsReader(b, C) /\ Nodes(b) = Nodes(r) + 1 /\ b.open = r.open /\ b.earlier = r.earlier
      /\ \A k \in 1..Nodes(r) : b.label[k] = r.label[k]
      /\ b.label[Nodes(r) + 1] = Label("UNDEFINED", key, NULL)
      /\ \A k \in 1..Nodes(r) : k # Top(r) => b.kids[k] = r.kids[k]
      /\ b.kids[Top(r)] = Append(r.kids[Top(r)], Nodes(r) + 1)
  BY <1>1, <1>2, BeginFields DEF b
<1>7. /\ t.at = "colon" /\ t.open = b.open /\ t.label = b.label /\ t.kids = b.kids
      /\ t.earlier = b.earlier
  BY <1>3, <1>6 DEF At, IsReader
<1> HIDE DEF s
<1>8. u = At(s, "value")
  BY <1>5, <1>7, Zenon DEF Taken, Primitives, IsLike
<1> HIDE DEF u
<1>9. ReaderInv(u, C)
  BY <1>5, <1>7, <1>8, ColonKeeps DEF IsLike
<1>10. ReaderInv(q, C) /\ IsLike(q, u)
  <2>1. colon.t \in Marks
    BY DEF Marks
  <2>2. s.at # "wrong"
    BY <1>5, <1>7 DEF IsLike
  <2>3. QED
    BY <1>5, <1>9, <2>1, <2>2, PassedLike DEF u
<1> HIDE DEF q
<1>11. HasBegun(q, r, key)
  <2>1. /\ u.at = "value" /\ u.open = s.open /\ u.label = s.label /\ u.kids = s.kids
        /\ u.earlier = s.earlier
    BY <1>5, <1>8 DEF At, ReaderInv, IsReader
  <2>2. /\ q.at = "value" /\ q.open = b.open /\ q.label = b.label /\ q.kids = b.kids
        /\ q.earlier = b.earlier
    BY <1>5, <1>7, <1>10, <2>1 DEF IsLike
  <2>3. Nodes(q) = Nodes(b)
    BY <2>2 DEF Nodes
  <2>4. QED
    BY <1>6, <2>2, <2>3 DEF HasBegun
<1>12. Leads(r, <<token, colon>>, q)
  <2>1. Leads(r, <<token>>, s) /\ Leads(s, <<colon>>, q)
    BY LeadsOne DEF s, q
  <2>2. <<token>> \in Seq({token, colon}) /\ <<colon>> \in Seq({token, colon})
    BY OneFacts
  <2>3. <<token>> \o <<colon>> = <<token, colon>>
    <3> DEFINE S == {token, colon}
    <3>1. token \in S /\ colon \in S
      OBVIOUS
    <3> HIDE DEF S
    <3>2. <<token, colon>> \in Seq(S) /\ <<token>> \o <<colon>> = <<token, colon>>
      BY <3>1, TwoFacts
    <3>3. QED
      BY <3>2
  <2>4. Leads(r, <<token>> \o <<colon>>, q)
    BY <2>1, <2>2, LeadsOn
  <2>5. QED
    BY <2>3, <2>4
<1>13. QED
  BY <1>10, <1>11, <1>12 DEF key

\* The tokens a value begins with.
BeginsValue(token) == IsLeaf(token) \/ token.t \in {"{", "["}

\* The node of an item begins with the item's first token.
LEMMA ItemBegun ==
    ASSUME NEW C, NULL \in C, NEW r, ReaderInv(r, C), IsDue(r), TopType(r) = "array",
           NEW q, q = Begin(r, NULL)
    PROVE  /\ ReaderInv(q, C) /\ HasBegun(q, r, NULL)
           /\ \A token : BeginsValue(token) => Passed(r, token) = Passed(q, token)
<1>1. r.at \in {"first", "next"} /\ r.open # <<>>
  BY OpenFacts DEF IsDue
<1>2. ReaderInv(q, C)
  BY BeginKeeps DEF Suits
<1>3. /\ IsReader(q, C) /\ Nodes(q) = Nodes(r) + 1 /\ q.open = r.open /\ q.earlier = r.earlier
      /\ q.at = "value" /\ q.room = r.room
      /\ \A k \in 1..Nodes(r) : q.label[k] = r.label[k]
      /\ q.label[Nodes(r) + 1] = Label("UNDEFINED", NULL, NULL)
      /\ \A k \in 1..Nodes(r) : k # Top(r) => q.kids[k] = r.kids[k]
      /\ q.kids[Top(r)] = Append(r.kids[Top(r)], Nodes(r) + 1)
  BY <1>1, BeginFields
<1>4. HasBegun(q, r, NULL)
  BY <1>3 DEF HasBegun
<1>5. ASSUME NEW token, BeginsValue(token)
      PROVE  Passed(r, token) = Passed(q, token)
  <2>1. MayHaveValue(r) /\ MayHaveValue(q) /\ Node(r) = q /\ Node(q) = q
    BY <1>1, <1>3 DEF MayHaveValue, Node
  <2>2. ~IsDue(q) /\ r.at # "outside" /\ q.at # "outside" /\ TopType(r) # "object"
    BY <1>1, <1>3 DEF IsDue
  <2>3. Taken(r, token) = Taken(q, token)
    <3>1. CASE token.t = "{"
      <4>1. Taken(r, token) = Opened(Node(r), "object")
        BY <2>1, <2>2, <3>1, Zenon DEF Taken, Primitives
      <4>2. Taken(q, token) = Opened(Node(q), "object")
        BY <2>1, <2>2, <3>1, Zenon DEF Taken, Primitives
      <4>3. QED
        BY <2>1, <4>1, <4>2
    <3>2. CASE token.t = "["
      <4>1. Taken(r, token) = Opened(Node(r), "array")
        BY <2>1, <2>2, <3>2, Zenon DEF Taken, Primitives
      <4>2. Taken(q, token) = Opened(Node(q), "array")
        BY <2>1, <2>2, <3>2, Zenon DEF Taken, Primitives
      <4>3. QED
        BY <2>1, <4>1, <4>2
    <3>3. CASE token.t = "string"
      <4>1. Taken(r, token) = Filled(Node(r), "string", Str(Decoded(token.s)))
        BY <2>1, <2>2, <3>3, Zenon DEF Taken, Primitives
      <4>2. Taken(q, token) = Filled(Node(q), "string", Str(Decoded(token.s)))
        BY <2>1, <2>2, <3>3, Zenon DEF Taken, Primitives
      <4>3. QED
        BY <2>1, <4>1, <4>2
    <3>4. CASE token.t \in {"number", "decimal"}
      <4>1. Taken(r, token)
              = [Filled(Node(r), "number", token) EXCEPT !.readable = @ /\ ~Unreadable(token)]
        BY <2>1, <2>2, <3>4, Zenon DEF Taken, Primitives
      <4>2. Taken(q, token)
              = [Filled(Node(q), "number", token) EXCEPT !.readable = @ /\ ~Unreadable(token)]
        BY <2>1, <2>2, <3>4, Zenon DEF Taken, Primitives
      <4>3. QED
        BY <2>1, <4>1, <4>2
    <3>5. CASE token.t \in Primitives
      <4>1. Taken(r, token)
              = Filled(Node(r), IF token.t = "null" THEN "null" ELSE "boolean", token)
        BY <2>1, <2>2, <3>5, Zenon DEF Taken, Primitives
      <4>2. Taken(q, token)
              = Filled(Node(q), IF token.t = "null" THEN "null" ELSE "boolean", token)
        BY <2>1, <2>2, <3>5, Zenon DEF Taken, Primitives
      <4>3. QED
        BY <2>1, <4>1, <4>2
    <3>6. \/ token.t = "{" \/ token.t = "[" \/ token.t = "string"
          \/ token.t \in {"number", "decimal"} \/ token.t \in Primitives
      BY <1>5 DEF BeginsValue, IsLeaf
    <3>7. QED
      BY <3>1, <3>2, <3>3, <3>4, <3>5, <3>6, Zenon
  <2>4. r.at # "wrong" /\ q.at # "wrong" /\ token # Space
    BY <1>1, <1>3, <1>5, NoBlank DEF BeginsValue, IsLeaf, Marks
  <2>5. QED
    BY <2>3, <2>4, Zenon DEF Passed
<1>6. QED
  BY <1>2, <1>4, <1>5

-----------------------------------------------------------------------------
(* The text of a value                                                      *)

\* q is r with the value of its last node, and the nodes it has.
IsPast(q, r, C) ==
    /\ ReaderInv(q, C) /\ q.at = "after" /\ q.open = r.open /\ q.earlier = r.earlier
    /\ Nodes(q) >= Nodes(r)
    /\ \A k \in 1..Nodes(r) : k # Nodes(r) => q.label[k] = r.label[k] /\ q.kids[k] = r.kids[k]
    /\ q.label[Nodes(r)].key = r.label[Nodes(r)].key

\* Wherever a value is due, v is one.
IsValueText(v, C) ==
    /\ v \in Seq(C) /\ v # <<>> /\ BeginsValue(v[1])
    /\ \A r : ReaderInv(r, C) /\ r.at = "value" => \E q : Leads(r, v, q) /\ IsPast(q, r, C)

\* Node m of q has the value that v is the text of: the nodes from m on are those
\* that v makes.
HasValue(q, m, v, C) ==
    \E s, w : /\ ReaderInv(s, C) /\ s.at = "value" /\ Nodes(s) = m
              /\ Leads(s, v, w) /\ IsPast(w, s, C) /\ Nodes(w) <= Nodes(q)
              /\ \A k \in m..Nodes(w) : q.label[k] = w.label[k] /\ q.kids[k] = w.kids[k]

\* A value stays where it is.
LEMMA ValueKept ==
    ASSUME NEW C, NEW q, NEW m \in Nat, NEW v, HasValue(q, m, v, C), Nodes(q) \in Nat,
           NEW w, Nodes(w) \in Nat, Nodes(q) <= Nodes(w),
           \A k \in m..Nodes(q) : w.label[k] = q.label[k] /\ w.kids[k] = q.kids[k]
    PROVE  HasValue(w, m, v, C)
<1>1. PICK s, u : /\ ReaderInv(s, C) /\ s.at = "value" /\ Nodes(s) = m
                  /\ Leads(s, v, u) /\ IsPast(u, s, C) /\ Nodes(u) <= Nodes(q)
                  /\ \A k \in m..Nodes(u) : q.label[k] = u.label[k] /\ q.kids[k] = u.kids[k]
  BY DEF HasValue
<1>2. Nodes(u) \in Nat
  BY <1>1 DEF IsPast, ReaderInv, IsReader, Nodes
<1>3. ASSUME NEW k \in m..Nodes(u)
      PROVE  w.label[k] = u.label[k] /\ w.kids[k] = u.kids[k]
  <2>1. k \in m..Nodes(q)
    BY <1>1, <1>2
  <2>2. QED
    BY <1>1, <2>1
<1>4. Nodes(u) <= Nodes(w)
  BY <1>1, <1>2
<1>5. QED
  BY <1>1, <1>3, <1>4 DEF HasValue

\* A value of one token.
LEMMA LeafIsValue ==
    ASSUME NEW C, IsContents(C), NEW token \in C, IsLeaf(token)
    PROVE  IsValueText(<<token>>, C)
<1>1. <<token>> \in Seq(C) /\ Len(<<token>>) = 1 /\ <<token>>[1] = token
  BY OneFacts
<1>2. ASSUME NEW r, ReaderInv(r, C), r.at = "value"
      PROVE  \E q : Leads(r, <<token>>, q) /\ IsPast(q, r, C)
  <2> DEFINE q == Passed(r, token)
  <2>1. ReaderInv(q, C) /\ HasLeaf(q, r, token)
    BY <1>2, LeafPassed
  <2>2. Leads(r, <<token>>, q)
    BY LeadsOne
  <2> HIDE DEF q
  <2>3. Nodes(r) \in Nat
    BY <1>2 DEF ReaderInv, IsReader, Nodes
  <2>4. q.label[Nodes(r)].key = r.label[Nodes(r)].key
    BY <2>1 DEF HasLeaf, Label
  <2>5. IsPast(q, r, C)
    BY <2>1, <2>3, <2>4 DEF IsPast, HasLeaf
  <2>6. QED
    BY <2>2, <2>5
<1>3. BeginsValue(<<token>>[1]) /\ <<token>> # <<>>
  BY <1>1 DEF BeginsValue
<1>4. QED
  BY <1>1, <1>2, <1>3 DEF IsValueText

\* What the tree has of a value of one token.
LEMMA LeafIsThere ==
    ASSUME NEW C, IsContents(C), NEW token \in C, IsLeaf(token),
           NEW q, NEW m \in Nat, HasValue(q, m, <<token>>, C)
    PROVE  q.label[m].type = LeafType(token) /\ q.label[m].value = LeafContent(token)
<1>1. PICK s, w : /\ ReaderInv(s, C) /\ s.at = "value" /\ Nodes(s) = m
                  /\ Leads(s, <<token>>, w) /\ IsPast(w, s, C)
                  /\ \A k \in m..Nodes(w) : q.label[k] = w.label[k]
  BY DEF HasValue
<1> DEFINE u == Passed(s, token)
<1>2. u = w
  <2>1. Leads(s, <<token>>, u)
    BY LeadsOne
  <2>2. <<token>> \in Seq(C)
    BY OneFacts
  <2>3. QED
    BY <1>1, <2>1, <2>2, LeadsToOne
<1>3. HasLeaf(u, s, token)
  BY <1>1, LeafPassed
<1> HIDE DEF u
<1>4. w.label[m] = Label(LeafType(token), s.label[m].key, LeafContent(token)) /\ Nodes(w) = m
  BY <1>1, <1>2, <1>3 DEF HasLeaf
<1>5. q.label[m] = w.label[m]
  BY <1>1, <1>4
<1>6. QED
  BY <1>4, <1>5 DEF Label

-----------------------------------------------------------------------------
(* The members of an object, or the items of an array                       *)

\* A part is an item, whose key is NULL, or a member: a key and the text of a value.
IsPart(part, type, C) ==
    /\ IsValueText(part.text, C)
    /\ IF type = "array" THEN part.key = NULL
       ELSE part.key \in C /\ part.key.t = "string"

PartText(part) ==
    IF part.key = NULL THEN part.text ELSE <<part.key, Mark(":")>> \o part.text

KeyOf(part) == IF part.key = NULL THEN NULL ELSE Str(Decoded(part.key.s))

\* q is r with one part more in its innermost container.
HasPart(q, r, part, C) ==
    /\ ReaderInv(q, C) /\ q.at = "after" /\ q.open = r.open /\ q.earlier = r.earlier
    /\ Nodes(q) >= Nodes(r) + 1
    /\ \A k \in 1..Nodes(r) : q.label[k] = r.label[k]
    /\ \A k \in 1..Nodes(r) : k # Top(r) => q.kids[k] = r.kids[k]
    /\ q.kids[Top(r)] = Append(r.kids[Top(r)], Nodes(r) + 1)
    /\ q.label[Nodes(r) + 1].key = KeyOf(part)
    /\ HasValue(q, Nodes(r) + 1, part.text, C)

\* What begins in the same way goes on in the same way.
LEMMA LeadsAlike ==
    ASSUME NEW C, NEW v \in Seq(C), v # <<>>, NEW r, NEW s, Passed(r, v[1]) = Passed(s, v[1]),
           NEW q, Leads(s, v, q)
    PROVE  Leads(r, v, q)
<1> DEFINE N == Len(v)
<1>1. N \in Nat /\ N >= 1
  OBVIOUS
<1>2. PICK g : IsTrail(g, s, v, q)
  BY DEF Leads
<1> DEFINE f == [k \in 0..N |-> IF k = 0 THEN r ELSE g[k]]
<1>3. f[0] = r /\ \A k \in 1..N : f[k] = g[k]
  BY <1>1
<1> HIDE DEF f
<1>4. /\ g[0] = s /\ g[N] = q
      /\ \A k \in 1..N : g[k] = Passed(g[k - 1], v[k])
  BY <1>2 DEF IsTrail
<1> HIDE DEF N
<1>5. ASSUME NEW k \in 1..N
      PROVE  f[k] = Passed(f[k - 1], v[k])
  <2>1. CASE k = 1
    <3>1. k - 1 = 0 /\ g[k] = Passed(g[k - 1], v[k]) /\ f[k] = g[k]
      BY <1>3, <1>4, <2>1
    <3>2. QED
      BY <1>3, <1>4, <2>1, <3>1
  <2>2. CASE k # 1
    <3>1. k - 1 \in 1..N
      BY <1>1, <2>2
    <3>2. f[k] = g[k] /\ f[k - 1] = g[k - 1]
      BY <1>3, <3>1
    <3>3. QED
      BY <1>4, <3>2
  <2>3. QED
    BY <2>1, <2>2
<1>6. f[N] = q
  BY <1>1, <1>3, <1>4
<1>7. IsTrail(f, r, v, q)
  BY <1>3, <1>5, <1>6 DEF IsTrail, N
<1>8. QED
  BY <1>7 DEF Leads

\* The value of a node that has begun.
LEMMA BegunHasPart ==
    ASSUME NEW C, NEW r, ReaderInv(r, C), r.open # <<>>, NEW part,
           NEW s, ReaderInv(s, C), HasBegun(s, r, KeyOf(part)),
           NEW q, Leads(s, part.text, q), IsPast(q, s, C)
    PROVE  HasPart(q, r, part, C)
<1> DEFINE n == Nodes(r)
<1>1. n \in Nat /\ Nodes(s) = n + 1 /\ Nodes(q) >= n + 1 /\ Nodes(q) \in Nat /\ Top(r) \in 1..n
  BY TopFacts DEF HasBegun, IsPast, ReaderInv, IsReader, Nodes
<1>2. \A k \in 1..n : k \in 1..Nodes(s) /\ k # Nodes(s)
  BY <1>1
<1>3. \A k \in 1..n : q.label[k] = s.label[k] /\ q.kids[k] = s.kids[k]
  BY <1>2 DEF IsPast
<1>4. /\ \A k \in 1..n : q.label[k] = r.label[k]
      /\ \A k \in 1..n : k # Top(r) => q.kids[k] = r.kids[k]
      /\ q.kids[Top(r)] = Append(r.kids[Top(r)], n + 1)
  BY <1>1, <1>3 DEF HasBegun
<1>5. q.label[n + 1].key = KeyOf(part)
  <2>1. q.label[n + 1].key = s.label[n + 1].key
    BY <1>1 DEF IsPast
  <2>2. s.label[n + 1] = Label("UNDEFINED", KeyOf(part), NULL)
    BY DEF HasBegun
  <2>3. QED
    BY <2>1, <2>2 DEF Label
<1>6. HasValue(q, n + 1, part.text, C)
  BY <1>1 DEF HasValue, HasBegun
<1>7. QED
  BY <1>1, <1>4, <1>5, <1>6 DEF HasPart, IsPast, HasBegun

\* One part, where it is due.
LEMMA PartRead ==
    ASSUME NEW C, IsContents(C), NEW r, ReaderInv(r, C), IsDue(r),
           NEW part, IsPart(part, TopType(r), C)
    PROVE  /\ PartText(part) \in Seq(C)
           /\ \E q : Leads(r, PartText(part), q) /\ HasPart(q, r, part, C)
<1> DEFINE v == part.text
<1>1. r.open # <<>> /\ NULL \in C /\ Mark(":") \in C
  BY OpenFacts DEF IsDue, IsContents
<1>2. v \in Seq(C) /\ v # <<>> /\ BeginsValue(v[1])
  BY DEF IsPart, IsValueText
<1>3. CASE TopType(r) = "array"
  <2> DEFINE s == Begin(r, NULL)
  <2>1. part.key = NULL /\ PartText(part) = v /\ KeyOf(part) = NULL
    BY <1>3 DEF IsPart, PartText, KeyOf
  <2>2. /\ ReaderInv(s, C) /\ HasBegun(s, r, NULL)
        /\ Passed(r, v[1]) = Passed(s, v[1])
    BY <1>1, <1>2, <1>3, ItemBegun
  <2> HIDE DEF s
  <2>3. PICK q : Leads(s, v, q) /\ IsPast(q, s, C)
    BY <2>2 DEF IsPart, IsValueText, HasBegun
  <2>4. Leads(r, v, q)
    BY <1>2, <2>2, <2>3, LeadsAlike
  <2>5. HasPart(q, r, part, C)
    BY <1>1, <2>1, <2>2, <2>3, BegunHasPart
  <2>6. QED
    BY <1>2, <2>1, <2>4, <2>5
<1>4. CASE TopType(r) # "array"
  <2> DEFINE begun == <<part.key, Mark(":")>>
  <2>1. part.key \in C /\ part.key.t = "string" /\ part.key # NULL
    BY <1>4 DEF IsPart, NULL
  <2>2. PartText(part) = begun \o v /\ KeyOf(part) = Str(Decoded(part.key.s))
    BY <2>1 DEF PartText, KeyOf
  <2>3. TopType(r) = "object" /\ Mark(":").t = ":"
    BY <1>1, <1>4, TopFacts DEF Mark
  <2>4. PICK s : /\ Leads(r, begun, s) /\ ReaderInv(s, C) /\ HasBegun(s, r, KeyOf(part))
    BY <2>1, <2>2, <2>3, MemberBegun
  <2>5. PICK q : Leads(s, v, q) /\ IsPast(q, s, C)
    BY <2>4 DEF IsPart, IsValueText, HasBegun
  <2>6. begun \in Seq(C)
    BY <1>1, <2>1, TwoFacts
  <2> HIDE DEF begun
  <2>7. Leads(r, begun \o v, q) /\ begun \o v \in Seq(C)
    BY <1>2, <2>4, <2>5, <2>6, LeadsOn, JoinFacts
  <2>8. HasPart(q, r, part, C)
    BY <1>1, <2>4, <2>5, BegunHasPart
  <2>9. QED
    BY <2>2, <2>7, <2>8
<1>5. QED
  BY <1>3, <1>4

\* One text more.
JoinedOn(first, texts, between, k) == (IF k = 1 THEN <<>> ELSE first \o between) \o texts[k]

\* h joins the first n of the texts.
IsJoin(h, texts, between, n) ==
    h = [k \in 0..n |-> IF k = 0 THEN <<>> ELSE JoinedOn(h[k - 1], texts, between, k)]

\* What such a function is worth, element by element.
LEMMA JoinElements ==
    ASSUME NEW texts, NEW between, NEW n \in Nat, NEW h, IsJoin(h, texts, between, n)
    PROVE  h[0] = <<>> /\ \A k \in 1..n : h[k] = JoinedOn(h[k - 1], texts, between, k)
<1> DEFINE F == [k \in 0..n |-> IF k = 0 THEN <<>> ELSE JoinedOn(h[k - 1], texts, between, k)]
<1>1. h = F
  BY DEF IsJoin
<1>2. F[0] = <<>>
  OBVIOUS
<1>3. ASSUME NEW k \in 1..n PROVE F[k] = JoinedOn(h[k - 1], texts, between, k)
  OBVIOUS
<1> HIDE DEF F
<1>4. QED
  BY <1>1, <1>2, <1>3

\* There is one, however long.
LEMMA JoinExist ==
    ASSUME NEW texts, NEW between
    PROVE  \A n \in Nat : \E h : IsJoin(h, texts, between, n)
<1> DEFINE S == {n \in Nat : \E h : IsJoin(h, texts, between, n)}
<1>1. 0 \in S
  <2> DEFINE h == [k \in 0..0 |-> <<>>]
  <2>1. h = [k \in 0..0 |-> IF k = 0 THEN <<>> ELSE JoinedOn(h[k - 1], texts, between, k)]
    OBVIOUS
  <2>2. IsJoin(h, texts, between, 0)
    BY <2>1 DEF IsJoin
  <2>3. QED
    BY <2>2
<1>2. ASSUME NEW n \in Nat, n \in S
      PROVE  n + 1 \in S
  <2>1. PICK h : IsJoin(h, texts, between, n)
    BY <1>2
  <2>2. h[0] = <<>> /\ \A k \in 1..n : h[k] = JoinedOn(h[k - 1], texts, between, k)
    BY <2>1, JoinElements
  <2> DEFINE z == JoinedOn(h[n], texts, between, n + 1)
             g == [k \in 0..n + 1 |-> IF k = n + 1 THEN z ELSE h[k]]
             f == [k \in 0..n + 1 |->
                     IF k = 0 THEN <<>> ELSE JoinedOn(g[k - 1], texts, between, k)]
  <2>3. \A k \in 0..n : g[k] = h[k]
    OBVIOUS
  <2>4. g[n + 1] = z
    OBVIOUS
  <2>5. ASSUME NEW k \in 0..n + 1 PROVE g[k] = f[k]
    <3>1. CASE k = 0
      BY <2>2, <2>3, <3>1
    <3>2. CASE k = n + 1
      <4>1. k # 0 /\ k - 1 = n /\ n \in 0..n
        BY <3>2
      <4>2. f[k] = JoinedOn(g[k - 1], texts, between, k)
        BY <4>1
      <4>3. g[k - 1] = h[n]
        BY <2>3, <4>1
      <4> HIDE DEF f, g
      <4>4. QED
        BY <2>4, <3>2, <4>2, <4>3
    <3>3. CASE k \in 1..n
      <4>1. k # 0 /\ k - 1 \in 0..n /\ k \in 0..n
        BY <3>3
      <4>2. f[k] = JoinedOn(g[k - 1], texts, between, k)
        BY <4>1
      <4>3. g[k] = h[k] /\ g[k - 1] = h[k - 1]
        BY <2>3, <4>1
      <4> HIDE DEF f, g
      <4>4. QED
        BY <2>2, <3>3, <4>2, <4>3
    <3>4. QED
      BY <3>1, <3>2, <3>3
  <2>6. g = f
    BY <2>5
  <2> HIDE DEF z
  <2>7. IsJoin(g, texts, between, n + 1)
    BY <2>6 DEF IsJoin
  <2>8. QED
    BY <2>7
<1> HIDE DEF S
<1>3. \A n \in Nat : n \in S
  BY <1>1, <1>2, Induction
<1>4. QED
  BY <1>3 DEF S

\* What is joined is joined one by one.
LEMMA JoinedIs ==
    ASSUME NEW texts, NEW between, Len(texts) \in Nat
    PROVE  \E h : /\ h[0] = <<>> /\ Joined(texts, between) = h[Len(texts)]
                  /\ \A k \in 1..Len(texts) : h[k] = JoinedOn(h[k - 1], texts, between, k)
<1> DEFINE IsFixed(t) ==
             t = [k \in 0..Len(texts) |->
                    IF k = 0 THEN <<>>
                    ELSE (IF k = 1 THEN <<>> ELSE t[k - 1] \o between) \o texts[k]]
           p == CHOOSE t : IsFixed(t)
<1>1. \A t : IsFixed(t) <=> IsJoin(t, texts, between, Len(texts))
  BY Zenon DEF IsJoin, JoinedOn
<1>2. \E t : IsFixed(t)
  <2> HIDE DEF IsFixed
  <2>1. QED
    BY <1>1, JoinExist
<1>3. Joined(texts, between) = p[Len(texts)]
  BY DEF Joined
<1> HIDE DEF IsFixed
<1>4. IsFixed(p)
  BY <1>2
<1> HIDE DEF p
<1>5. IsJoin(p, texts, between, Len(texts))
  BY <1>1, <1>4
<1>6. Len(texts) \in Nat
  OBVIOUS
<1>7. p[0] = <<>> /\ \A k \in 1..Len(texts) : p[k] = JoinedOn(p[k - 1], texts, between, k)
  BY <1>5, <1>6, JoinElements
<1>8. QED
  BY <1>3, <1>7

\* The empty text leads nowhere.
LEMMA LeadsNowhere ==
    ASSUME NEW r
    PROVE  Leads(r, <<>>, r)
<1> DEFINE g == [k \in 0..0 |-> r]
<1>1. g[0] = r /\ Len(<<>>) = 0 /\ \A k \in 1..0 : FALSE
  OBVIOUS
<1> HIDE DEF g
<1>2. IsTrail(g, r, <<>>, r)
  BY <1>1 DEF IsTrail
<1>3. QED
  BY <1>2 DEF Leads

\* P are the members of an object, or the items of an array, and texts their texts.
AreParts(P, type, C) == Len(P) \in Nat /\ \A k \in 1..Len(P) : IsPart(P[k], type, C)

HasTexts(texts, P) == Len(texts) = Len(P) /\ \A k \in 1..Len(P) : texts[k] = PartText(P[k])

\* Node m of q is a part that comes after node t.
HasPartAt(q, m, part, t, C) ==
    /\ m \in Nat /\ t < m /\ m <= Nodes(q)
    /\ q.label[m].key = KeyOf(part) /\ HasValue(q, m, part.text, C)

\* The kids of node t are the first n parts.
HasParts(q, t, P, n, C) ==
    /\ Len(q.kids[t]) = n
    /\ \A i \in 1..n : HasPartAt(q, q.kids[t][i], P[i], t, C)

\* q is r with n parts in its innermost container, which had none.
HasRead(q, r, P, n, C) ==
    /\ ReaderInv(q, C) /\ q.at = (IF n = 0 THEN "first" ELSE "after")
    /\ q.open = r.open /\ q.earlier = r.earlier /\ Nodes(q) >= Nodes(r)
    /\ \A k \in 1..Nodes(r) : q.label[k] = r.label[k]
    /\ \A k \in 1..Nodes(r) : k # Top(r) => q.kids[k] = r.kids[k]
    /\ HasParts(q, Top(r), P, n, C)

\* A part stays where it is, if nothing is changed after it.
LEMMA PartKept ==
    ASSUME NEW C, NEW q, NEW m, NEW part, NEW t, HasPartAt(q, m, part, t, C),
           Nodes(q) \in Nat, NEW w, Nodes(w) \in Nat, Nodes(q) <= Nodes(w), t \in Nat,
           \A k \in t + 1..Nodes(q) : w.label[k] = q.label[k] /\ w.kids[k] = q.kids[k]
    PROVE  HasPartAt(w, m, part, t, C)
<1>1. /\ m \in Nat /\ t < m /\ m <= Nodes(q) /\ q.label[m].key = KeyOf(part)
      /\ HasValue(q, m, part.text, C)
  BY DEF HasPartAt
<1>2. \A k \in m..Nodes(q) : w.label[k] = q.label[k] /\ w.kids[k] = q.kids[k]
  <2>1. ASSUME NEW k \in m..Nodes(q) PROVE k \in t + 1..Nodes(q)
    BY <1>1
  <2>2. QED
    BY <2>1
<1>3. HasValue(w, m, part.text, C)
  BY <1>1, <1>2, ValueKept
<1>4. m \in m..Nodes(q) /\ m <= Nodes(w)
  BY <1>1
<1>5. QED
  BY <1>1, <1>2, <1>3, <1>4 DEF HasPartAt

\* One part more.
LEMMA OneMoreRead ==
    ASSUME NEW C, NEW r, ReaderInv(r, C), r.open # <<>>, NEW P, NEW n \in Nat,
           NEW q, HasRead(q, r, P, n, C),
           NEW s, ReaderInv(s, C), s.open = q.open, s.label = q.label, s.kids = q.kids,
           s.earlier = q.earlier,
           NEW w, HasPart(w, s, P[n + 1], C)
    PROVE  HasRead(w, r, P, n + 1, C)
<1> DEFINE t == Top(r)
           N == Nodes(q)
<1>1. /\ ReaderInv(q, C) /\ q.open = r.open /\ q.earlier = r.earlier
      /\ \A k \in 1..Nodes(r) : q.label[k] = r.label[k]
      /\ \A k \in 1..Nodes(r) : k # t => q.kids[k] = r.kids[k]
      /\ Len(q.kids[t]) = n /\ N >= Nodes(r)
      /\ \A i \in 1..n : HasPartAt(q, q.kids[t][i], P[i], t, C)
  BY DEF HasRead, HasParts
<1>2. Top(q) = t /\ Top(s) = t /\ Nodes(s) = N
  BY <1>1 DEF Top, Nodes
<1>3. /\ t \in 1..Nodes(r) /\ Nodes(r) \in Nat /\ N \in Nat /\ t \in 1..N
      /\ q.kids[t] \in Seq(Nat)
  <2>1. t \in 1..Nodes(r) /\ Nodes(r) \in Nat
    BY TopFacts
  <2>2. q.open # <<>>
    BY <1>1
  <2>3. N \in Nat /\ t \in 1..N /\ q.kids[t] \in Seq(Nat)
    BY <1>1, <1>2, <2>2, TopFacts
  <2>4. QED
    BY <2>1, <2>3
<1>4. /\ ReaderInv(w, C) /\ w.at = "after" /\ w.open = r.open /\ w.earlier = r.earlier
      /\ Nodes(w) >= N + 1
      /\ \A k \in 1..N : w.label[k] = q.label[k]
      /\ \A k \in 1..N : k # t => w.kids[k] = q.kids[k]
      /\ w.kids[t] = Append(q.kids[t], N + 1)
      /\ w.label[N + 1].key = KeyOf(P[n + 1]) /\ HasValue(w, N + 1, P[n + 1].text, C)
  BY <1>1, <1>2 DEF HasPart
<1> HIDE DEF t, N
<1>5. Nodes(w) \in Nat
  BY <1>4 DEF ReaderInv, IsReader, Nodes
<1>6. /\ Len(w.kids[t]) = n + 1 /\ w.kids[t][n + 1] = N + 1
      /\ \A i \in 1..n : w.kids[t][i] = q.kids[t][i]
  <2>1. N + 1 \in Nat
    BY <1>3
  <2>2. QED
    BY <1>1, <1>3, <1>4, <2>1, AppendFacts
<1>7. ASSUME NEW i \in 1..n + 1
      PROVE  HasPartAt(w, w.kids[t][i], P[i], t, C)
  <2>1. CASE i \in 1..n
    <3>1. HasPartAt(q, q.kids[t][i], P[i], t, C)
      BY <1>1, <2>1
    <3>2. \A k \in t + 1..N : k \in 1..N /\ k # t
      BY <1>3
    <3>3. \A k \in t + 1..N : w.label[k] = q.label[k] /\ w.kids[k] = q.kids[k]
      BY <1>4, <3>2
    <3>4. N <= Nodes(w) /\ t \in Nat
      BY <1>3, <1>4, <1>5
    <3>5. HasPartAt(w, q.kids[t][i], P[i], t, C)
      BY <1>3, <1>5, <3>1, <3>3, <3>4, PartKept DEF N
    <3>6. QED
      BY <1>6, <2>1, <3>5
  <2>2. CASE i = n + 1
    <3>1. N + 1 \in Nat /\ t < N + 1 /\ N + 1 <= Nodes(w)
      BY <1>3, <1>4, <1>5
    <3>2. QED
      BY <1>4, <1>6, <2>2, <3>1 DEF HasPartAt
  <2>3. QED
    BY <2>1, <2>2
<1>8. HasParts(w, t, P, n + 1, C)
  BY <1>6, <1>7 DEF HasParts
<1>9. \A k \in 1..Nodes(r) : w.label[k] = r.label[k] /\ (k # t => w.kids[k] = r.kids[k])
  <2>1. \A k \in 1..Nodes(r) : k \in 1..N
    BY <1>1, <1>3
  <2>2. QED
    BY <1>1, <1>4, <2>1
<1>10. Nodes(w) >= Nodes(r) /\ n + 1 # 0
  BY <1>1, <1>3, <1>4, <1>5
<1>11. QED
  BY <1>4, <1>8, <1>9, <1>10 DEF HasRead, t

\* The text of a part has something in it.
LEMMA PartHasText ==
    ASSUME NEW C, IsContents(C), NEW type, NEW part, IsPart(part, type, C)
    PROVE  PartText(part) \in Seq(C) /\ Len(PartText(part)) > 0
<1> DEFINE v == part.text
           begun == <<part.key, Mark(":")>>
<1>1. v \in Seq(C) /\ v # <<>> /\ Mark(":") \in C
  BY DEF IsPart, IsValueText, IsContents
<1>2. Len(v) \in Nat /\ Len(v) > 0
  BY <1>1, EmptyFacts
<1>3. CASE part.key = NULL
  BY <1>1, <1>2, <1>3 DEF PartText
<1>4. CASE part.key # NULL
  <2>1. part.key \in C /\ PartText(part) = begun \o v
    BY <1>4 DEF IsPart, PartText
  <2>2. begun \in Seq(C)
    BY <1>1, <2>1, TwoFacts
  <2> HIDE DEF begun, v
  <2>3. begun \o v \in Seq(C) /\ Len(begun \o v) = Len(begun) + Len(v) /\ Len(begun) \in Nat
    BY <1>1, <2>2, JoinFacts, EmptyFacts
  <2>4. QED
    BY <1>2, <2>1, <2>3
<1>5. QED
  BY <1>3, <1>4

\* The text of the parts, one after another, where the first of them is due.
LEMMA PartsRead ==
    ASSUME NEW C, IsContents(C), NEW r, ReaderInv(r, C), r.at = "first",
           NEW P, AreParts(P, TopType(r), C), NEW texts, HasTexts(texts, P)
    PROVE  /\ Listed(texts) \in Seq(C) /\ (Len(P) > 0 => Len(Listed(texts)) > 0)
           /\ \E q : Leads(r, Listed(texts), q) /\ HasRead(q, r, P, Len(P), C)
<1> DEFINE between == <<Mark(",")>>
           N == Len(P)
           type == TopType(r)
<1>1. N \in Nat /\ Len(texts) = N /\ \A k \in 1..N : texts[k] = PartText(P[k])
  BY DEF AreParts, HasTexts
<1>2. PICK h : /\ h[0] = <<>> /\ Joined(texts, between) = h[N]
               /\ \A k \in 1..N : h[k] = JoinedOn(h[k - 1], texts, between, k)
  <2> HIDE DEF N, between
  <2>1. Len(texts) \in Nat /\ Len(texts) = N
    BY <1>1
  <2>2. \E h : /\ h[0] = <<>> /\ Joined(texts, between) = h[Len(texts)]
               /\ \A k \in 1..Len(texts) : h[k] = JoinedOn(h[k - 1], texts, between, k)
    BY <2>1, JoinedIs
  <2>3. QED
    BY <2>1, <2>2
<1>3. Listed(texts) = h[N]
  BY <1>2 DEF Listed
<1>4. between \in Seq(C) /\ Mark(",") \in C /\ Mark(",").t = ","
  <2>1. Mark(",") \in C
    BY DEF IsContents
  <2>2. QED
    BY <2>1, OneFacts DEF Mark
<1>5. r.open # <<>> /\ Nodes(r) \in Nat
  BY OpenFacts, TopFacts
<1> DEFINE S == {n \in Nat : n <= N => /\ h[n] \in Seq(C) /\ (n > 0 => Len(h[n]) > 0)
                                      /\ \E q : Leads(r, h[n], q) /\ HasRead(q, r, P, n, C)}
<1>6. 0 \in S
  <2>1. r.kids[Top(r)] = <<>>
    BY DEF ReaderInv, IsPlaced
  <2>2. Len(<<>>) = 0 /\ <<>> \in Seq(C)
    BY EmptyFacts
  <2>3. HasParts(r, Top(r), P, 0, C)
    BY <2>1, <2>2 DEF HasParts
  <2>4. HasRead(r, r, P, 0, C)
    BY <2>3, <1>5 DEF HasRead
  <2>5. QED
    BY <2>2, <2>4, <1>2, LeadsNowhere
<1> HIDE DEF N, between
<1>7. ASSUME NEW n \in Nat, n \in S
      PROVE  n + 1 \in S
  <2> SUFFICES ASSUME n + 1 <= N
               PROVE  /\ h[n + 1] \in Seq(C) /\ Len(h[n + 1]) > 0
                      /\ \E q : Leads(r, h[n + 1], q) /\ HasRead(q, r, P, n + 1, C)
    OBVIOUS
  <2>1. n + 1 \in 1..N /\ n + 1 - 1 = n /\ n <= N
    BY <1>1
  <2>2. h[n] \in Seq(C)
    BY <2>1, <1>7
  <2>3. PICK q : Leads(r, h[n], q) /\ HasRead(q, r, P, n, C)
    BY <2>1, <1>7
  <2>4. ReaderInv(q, C) /\ q.open = r.open /\ q.at = (IF n = 0 THEN "first" ELSE "after")
    BY <2>3 DEF HasRead
  <2>5. h[n + 1] = JoinedOn(h[n], texts, between, n + 1) /\ texts[n + 1] = PartText(P[n + 1])
    BY <2>1, <1>1, <1>2
  <2>6. IsPart(P[n + 1], type, C)
    BY <2>1 DEF AreParts, N
  <2>7. TopType(q) = type
    <3>1. Top(q) = Top(r) /\ Top(r) \in 1..Nodes(r)
      BY <2>4, <1>5, TopFacts DEF Top
    <3>2. q.label[Top(r)] = r.label[Top(r)]
      BY <2>3, <3>1 DEF HasRead
    <3>3. QED
      BY <3>1, <3>2 DEF TopType
  <2> DEFINE first == IF n = 0 THEN <<>> ELSE h[n] \o between
  <2>8. PICK s : /\ Leads(r, first, s) /\ ReaderInv(s, C) /\ IsDue(s)
                 /\ s.open = q.open /\ s.label = q.label /\ s.kids = q.kids
                 /\ s.earlier = q.earlier
    <3>1. CASE n = 0
      <4>1. first = h[n] /\ IsDue(q)
        BY <1>2, <2>4, <3>1 DEF IsDue
      <4>2. QED
        BY <4>1, <2>3, <2>4
    <3>2. CASE n # 0
      <4> DEFINE s == Passed(q, Mark(","))
      <4>1. ReaderInv(s, C) /\ HasComma(s, q)
        BY <1>4, <2>4, <3>2, CommaPassed
      <4>2. Leads(q, between, s)
        BY LeadsOne DEF between
      <4>3. first = h[n] \o between /\ Leads(r, h[n] \o between, s)
        BY <4>2, <3>2, <1>4, <2>2, <2>3, LeadsOn
      <4> HIDE DEF s, first
      <4>4. IsDue(s)
        BY <4>1 DEF HasComma, IsDue
      <4>5. QED
        BY <4>1, <4>3, <4>4 DEF HasComma
    <3>3. QED
      BY <3>1, <3>2
  <2>9. first \in Seq(C)
    <3>1. CASE n = 0
      BY <3>1, EmptyFacts
    <3>2. CASE n # 0
      <4>1. h[n] \o between \in Seq(C)
        BY <2>2, <1>4, JoinFacts
      <4>2. QED
        BY <3>2, <4>1
    <3>3. QED
      BY <3>1, <3>2
  <2>10. TopType(s) = type
    BY <2>7, <2>8 DEF TopType, Top
  <2>11. PICK w : Leads(s, PartText(P[n + 1]), w) /\ HasPart(w, s, P[n + 1], C)
    BY <2>6, <2>8, <2>10, PartRead
  <2>12. PartText(P[n + 1]) \in Seq(C) /\ Len(PartText(P[n + 1])) > 0
    BY <2>6, PartHasText
  <2>13. h[n + 1] = first \o PartText(P[n + 1])
    <3>1. n + 1 = 1 <=> n = 0
      OBVIOUS
    <3>2. QED
      BY <2>5, <3>1 DEF JoinedOn
  <2> HIDE DEF first
  <2>14. h[n + 1] \in Seq(C) /\ Len(h[n + 1]) > 0
    <3> DEFINE part == PartText(P[n + 1])
    <3>1. part \in Seq(C) /\ Len(part) > 0 /\ h[n + 1] = first \o part
      BY <2>12, <2>13
    <3> HIDE DEF part
    <3>2. /\ first \o part \in Seq(C) /\ Len(first \o part) = Len(first) + Len(part)
          /\ Len(first) \in Nat /\ Len(part) \in Nat
      BY <2>9, <3>1, JoinFacts, EmptyFacts
    <3>3. QED
      BY <3>1, <3>2
  <2>15. Leads(r, h[n + 1], w)
    BY <2>8, <2>9, <2>11, <2>12, <2>13, LeadsOn
  <2>16. HasRead(w, r, P, n + 1, C)
    BY <1>5, <2>3, <2>8, <2>11, OneMoreRead
  <2>17. QED
    BY <2>14, <2>15, <2>16
<1>8. N \in S
  <2> HIDE DEF S
  <2>1. \A n \in Nat : n \in S
    BY <1>6, <1>7, Induction
  <2>2. QED
    BY <1>1, <2>1
<1>9. QED
  BY <1>3, <1>8, <1>1 DEF N

\* The text of a container, an object or an array.
Opening(type) == Mark(IF type = "object" THEN "{" ELSE "[")
Closing(type) == Mark(IF type = "object" THEN "}" ELSE "]")
ContainerText(texts, type) == <<Opening(type)>> \o Listed(texts) \o <<Closing(type)>>

\* Node m of q is a container of the parts.
HasContainer(q, m, type, P, C) ==
    q.label[m].type = type /\ HasParts(q, m, P, Len(P), C)

\* The marks of a container are in the text, and open and close it.
LEMMA MarkFacts ==
    ASSUME NEW C, IsContents(C), NEW type \in {"object", "array"}
    PROVE  /\ Opening(type) \in C /\ Closing(type) \in C
           /\ Opens(Opening(type), type) /\ Closes(Closing(type), type)
BY DEF IsContents, Opening, Closing, Opens, Closes, Mark

\* What is put at the end of a sequence, and taken away.
LEMMA FrontOfAppend ==
    ASSUME NEW S, NEW s \in Seq(S), NEW e \in S
    PROVE  SubSeq(Append(s, e), 1, Len(Append(s, e)) - 1) = s
<1> DEFINE a == Append(s, e)
           f == SubSeq(a, 1, Len(a) - 1)
<1>1. a \in Seq(S) /\ Len(a) = Len(s) + 1 /\ \A i \in 1..Len(s) : a[i] = s[i]
  BY AppendFacts
<1>2. Len(s) \in Nat
  OBVIOUS
<1> HIDE DEF a
<1>3. f \in Seq(S) /\ Len(f) = Len(a) - 1 /\ \A i \in 1..Len(a) - 1 : f[i] = a[i]
  <2>1. Len(a) > 0
    BY <1>1, <1>2
  <2>2. QED
    BY <1>1, <2>1, FrontFacts
<1>4. Len(a) - 1 = Len(s)
  BY <1>1, <1>2
<1> HIDE DEF f
<1>5. f = s
  BY <1>1, <1>3, <1>4, SeqEqual
<1>6. QED
  BY <1>5 DEF f, a

\* Parts stay where they are, if nothing is changed.
LEMMA PartsKept ==
    ASSUME NEW C, NEW q, NEW t \in Nat, NEW P, NEW n, HasParts(q, t, P, n, C),
           Nodes(q) \in Nat, NEW w, Nodes(w) \in Nat, Nodes(q) <= Nodes(w),
           \A k \in t..Nodes(q) : w.label[k] = q.label[k] /\ w.kids[k] = q.kids[k],
           t <= Nodes(q)
    PROVE  HasParts(w, t, P, n, C)
<1>1. /\ Len(q.kids[t]) = n
      /\ \A i \in 1..n : HasPartAt(q, q.kids[t][i], P[i], t, C)
  BY DEF HasParts
<1>2. w.kids[t] = q.kids[t]
  <2>1. t \in t..Nodes(q)
    OBVIOUS
  <2>2. QED
    BY <2>1
<1>3. \A k \in t + 1..Nodes(q) : w.label[k] = q.label[k] /\ w.kids[k] = q.kids[k]
  <2>1. \A k \in t + 1..Nodes(q) : k \in t..Nodes(q)
    OBVIOUS
  <2>2. QED
    BY <2>1
<1>4. \A i \in 1..n : HasPartAt(w, w.kids[t][i], P[i], t, C)
  BY <1>1, <1>2, <1>3, PartKept
<1>5. QED
  BY <1>1, <1>2, <1>4 DEF HasParts

\* A container closed: what it takes to be past its parts.
LEMMA ContainerClosed ==
    ASSUME NEW C, IsContents(C), NEW type \in {"object", "array"}, NEW P, Len(P) \in Nat,
           NEW o, ReaderInv(o, C), o.open # <<>>, TopType(o) = type,
           NEW s, HasRead(s, o, P, Len(P), C), NEW q, q = Passed(s, Closing(type))
    PROVE  /\ ReaderInv(q, C) /\ HasContainer(q, Top(o), type, P, C)
           /\ q.at = (IF Len(o.open) = 1 THEN "outside" ELSE "after")
           /\ q.open = SubSeq(o.open, 1, Len(o.open) - 1)
           /\ q.label = s.label /\ q.kids = s.kids /\ q.earlier = o.earlier
<1> DEFINE t == Top(o)
<1>1. /\ ReaderInv(s, C) /\ s.at \in {"first", "after"} /\ s.open = o.open
      /\ s.earlier = o.earlier /\ Nodes(s) >= Nodes(o)
      /\ \A k \in 1..Nodes(o) : s.label[k] = o.label[k]
      /\ HasParts(s, t, P, Len(P), C)
  BY DEF HasRead
<1>2. t \in 1..Nodes(o) /\ Nodes(o) \in Nat /\ Nodes(s) \in Nat
  BY <1>1, TopFacts DEF ReaderInv, IsReader, Nodes
<1>3. Top(s) = t /\ TopType(s) = type /\ s.label[t].type = type
  <2>1. Top(s) = t
    BY <1>1 DEF Top
  <2>2. s.label[t] = o.label[t]
    BY <1>1, <1>2
  <2>3. QED
    BY <2>1, <2>2 DEF TopType
<1>4. ReaderInv(q, C) /\ HasClosed(q, s)
  <2>1. Closes(Closing(type), type)
    BY MarkFacts
  <2>2. QED
    BY <1>1, <1>3, <2>1, ClosePassed
<1> HIDE DEF t
<1>5. q.label = s.label /\ q.kids = s.kids /\ Nodes(q) = Nodes(s)
  BY <1>4 DEF HasClosed, Nodes
<1>6. HasParts(q, t, P, Len(P), C)
  <2>1. /\ t \in Nat /\ t <= Nodes(s) /\ Nodes(q) \in Nat /\ Nodes(s) <= Nodes(q)
        /\ \A k \in t..Nodes(s) : q.label[k] = s.label[k] /\ q.kids[k] = s.kids[k]
    BY <1>1, <1>2, <1>5
  <2>2. QED
    BY <1>1, <1>2, <2>1, PartsKept
<1>7. HasContainer(q, t, type, P, C)
  BY <1>3, <1>5, <1>6 DEF HasContainer
<1>8. QED
  BY <1>1, <1>4, <1>5, <1>7 DEF HasClosed, t

\* A container where a value is due.
LEMMA ContainerRead ==
    ASSUME NEW C, IsContents(C), NEW type \in {"object", "array"},
           NEW P, AreParts(P, type, C), NEW texts, HasTexts(texts, P),
           NEW r, ReaderInv(r, C), r.at = "value"
    PROVE  /\ ContainerText(texts, type) \in Seq(C)
           /\ \E q : /\ Leads(r, ContainerText(texts, type), q) /\ IsPast(q, r, C)
                     /\ HasContainer(q, Nodes(r), type, P, C)
<1> DEFINE t == Nodes(r)
           o == Passed(r, Opening(type))
           opening == <<Opening(type)>>
           closing == <<Closing(type)>>
<1>1. /\ NULL \in C /\ opening \in Seq(C) /\ closing \in Seq(C)
      /\ Opens(Opening(type), type)
  <2>1. NULL \in C
    BY DEF IsContents
  <2>2. QED
    BY <2>1, MarkFacts, OneFacts
<1>2. ReaderInv(o, C) /\ HasOpened(o, r, type)
  BY <1>1, OpenPassed
<1>3. Leads(r, opening, o)
  BY LeadsOne
<1> HIDE DEF o, opening
<1>4. /\ o.at = "first" /\ o.open = Append(r.open, t) /\ o.earlier = r.earlier
      /\ o.kids = r.kids /\ Nodes(o) = t /\ Top(o) = t
      /\ \A k \in 1..t : k # t => o.label[k] = r.label[k]
      /\ o.label[t] = Label(type, r.label[t].key, NULL)
  BY <1>2 DEF HasOpened
<1>5. o.label[t].key = r.label[t].key /\ TopType(o) = type
  BY <1>4 DEF Label, TopType
<1>6. /\ r.open \in Seq(Nat) /\ t \in Nat /\ Len(r.open) \in Nat /\ Len(r.open) > 0
      /\ Len(o.open) = Len(r.open) + 1 /\ o.open # <<>>
      /\ SubSeq(o.open, 1, Len(o.open) - 1) = r.open
  <2>1. r.open \in Seq(Nat) /\ t \in Nat
    BY DEF ReaderInv, IsReader, Nodes
  <2>2. Len(r.open) \in Nat /\ Len(r.open) > 0
    BY OpenFacts, TopFacts
  <2>3. /\ o.open \in Seq(Nat) /\ Len(o.open) = Len(r.open) + 1
        /\ SubSeq(o.open, 1, Len(o.open) - 1) = r.open
    BY <1>4, <2>1, AppendFacts, FrontOfAppend
  <2>4. o.open # <<>>
    BY <2>2, <2>3, EmptyFacts
  <2>5. QED
    BY <2>1, <2>2, <2>3, <2>4
<1>7. Listed(texts) \in Seq(C)
  BY <1>2, <1>4, <1>5, PartsRead
<1>8. PICK s : Leads(o, Listed(texts), s) /\ HasRead(s, o, P, Len(P), C)
  BY <1>2, <1>4, <1>5, PartsRead
<1> DEFINE q == Passed(s, Closing(type))
<1>9. Leads(s, closing, q)
  BY LeadsOne
<1>10. /\ ReaderInv(q, C) /\ HasContainer(q, t, type, P, C)
       /\ q.at = (IF Len(o.open) = 1 THEN "outside" ELSE "after")
       /\ q.open = SubSeq(o.open, 1, Len(o.open) - 1)
       /\ q.label = s.label /\ q.kids = s.kids /\ q.earlier = o.earlier
  <2>1. Len(P) \in Nat
    BY DEF AreParts
  <2>2. ReaderInv(o, C) /\ o.open # <<>> /\ TopType(o) = type /\ Top(o) = t
    BY <1>2, <1>4, <1>5, <1>6
  <2> HIDE DEF t
  <2>3. /\ ReaderInv(q, C) /\ HasContainer(q, Top(o), type, P, C)
        /\ q.at = (IF Len(o.open) = 1 THEN "outside" ELSE "after")
        /\ q.open = SubSeq(o.open, 1, Len(o.open) - 1)
        /\ q.label = s.label /\ q.kids = s.kids /\ q.earlier = o.earlier
    BY <1>8, <2>1, <2>2, ContainerClosed
  <2>4. QED
    BY <2>2, <2>3
<1> HIDE DEF q, closing
<1>11. IsPast(q, r, C)
  <2>1. q.at = "after" /\ q.open = r.open /\ q.earlier = r.earlier
    BY <1>4, <1>6, <1>10
  <2>2. Nodes(q) = Nodes(s) /\ Nodes(s) >= t
    BY <1>4, <1>8, <1>10 DEF HasRead, Nodes
  <2>3. /\ \A k \in 1..t : s.label[k] = o.label[k]
        /\ \A k \in 1..t : k # t => s.kids[k] = o.kids[k]
    BY <1>4, <1>8 DEF HasRead
  <2>4. \A k \in 1..t : k # t => q.label[k] = r.label[k] /\ q.kids[k] = r.kids[k]
    BY <1>4, <1>10, <2>3
  <2>5. q.label[t].key = r.label[t].key
    <3>1. t \in 1..t
      <4>1. t >= 1
        BY DEF ReaderInv, IsReader
      <4>2. QED
        BY <1>6, <4>1
    <3>2. s.label[t] = o.label[t]
      BY <2>3, <3>1
    <3>3. QED
      BY <1>5, <1>10, <3>2
  <2>6. QED
    BY <1>10, <2>1, <2>2, <2>4, <2>5 DEF IsPast
<1>12. /\ opening \o Listed(texts) \in Seq(C) /\ Leads(r, opening \o Listed(texts), s)
  BY <1>1, <1>3, <1>7, <1>8, JoinFacts, LeadsOn
<1>13. /\ ContainerText(texts, type) \in Seq(C) /\ Leads(r, ContainerText(texts, type), q)
  <2>1. ContainerText(texts, type) = (opening \o Listed(texts)) \o closing
    BY DEF ContainerText, opening, closing
  <2> DEFINE a == opening \o Listed(texts)
  <2>2. a \in Seq(C) /\ Leads(r, a, s)
    BY <1>12
  <2> HIDE DEF a
  <2>3. a \o closing \in Seq(C) /\ Leads(r, a \o closing, q)
    BY <1>1, <1>9, <2>2, JoinFacts, LeadsOn
  <2>4. QED
    BY <2>1, <2>3 DEF a
<1>14. QED
  BY <1>10, <1>11, <1>13

\* The text of a container is the text of a value.
LEMMA ContainerIsValue ==
    ASSUME NEW C, IsContents(C), NEW type \in {"object", "array"},
           NEW P, AreParts(P, type, C), NEW texts, HasTexts(texts, P),
           NEW r, ReaderInv(r, C), r.at = "value"
    PROVE  IsValueText(ContainerText(texts, type), C)
<1> DEFINE v == ContainerText(texts, type)
           opening == <<Opening(type)>>
           closing == <<Closing(type)>>
           listed == Listed(texts)
           a == opening \o listed
<1>1. v \in Seq(C)
  BY ContainerRead
<1>2. ASSUME NEW x, ReaderInv(x, C), x.at = "value"
      PROVE  \E q : Leads(x, v, q) /\ IsPast(q, x, C)
  BY <1>2, ContainerRead
<1>3. /\ opening \in Seq(C) /\ closing \in Seq(C) /\ Len(opening) = 1
      /\ opening[1] = Opening(type)
  BY MarkFacts, OneFacts
<1>4. listed \in Seq(C)
  <2> DEFINE o == Passed(r, Opening(type))
  <2>1. NULL \in C /\ Opens(Opening(type), type)
    BY MarkFacts DEF IsContents
  <2>2. ReaderInv(o, C) /\ HasOpened(o, r, type)
    BY <2>1, OpenPassed
  <2> HIDE DEF o
  <2>3. o.at = "first" /\ TopType(o) = type
    BY <2>2 DEF HasOpened, TopType, Label
  <2>4. QED
    BY <2>2, <2>3, PartsRead
<1>5. v = a \o closing
  BY DEF ContainerText
<1> HIDE DEF v, opening, closing, listed
<1>6. a \in Seq(C) /\ Len(a) = 1 + Len(listed) /\ Len(listed) \in Nat /\ a[1] = opening[1]
  <2>1. Len(listed) \in Nat
    BY <1>4, EmptyFacts
  <2>2. 1 \in 1..Len(opening)
    BY <1>3
  <2>3. QED
    <3> HIDE DEF a
    <3>1. a = opening \o listed
      BY DEF a
    <3>2. /\ opening \o listed \in Seq(C)
          /\ Len(opening \o listed) = Len(opening) + Len(listed)
          /\ \A k \in 1..Len(opening) : (opening \o listed)[k] = opening[k]
      BY <1>3, <1>4, JoinFacts
    <3>3. QED
      BY <1>3, <2>1, <2>2, <3>1, <3>2
<1> HIDE DEF a
<1>7. v[1] = a[1] /\ v # <<>>
  <2>1. 1 \in 1..Len(a) /\ Len(closing) \in Nat /\ Len(a) > 0 /\ Len(a) \in Nat
    BY <1>3, <1>6, EmptyFacts
  <2>2. v[1] = a[1] /\ Len(v) = Len(a) + Len(closing)
    <3>1. /\ Len(a \o closing) = Len(a) + Len(closing)
          /\ \A k \in 1..Len(a) : (a \o closing)[k] = a[k]
      BY <1>3, <1>6, JoinFacts
    <3>2. QED
      BY <1>5, <2>1, <3>1
  <2>3. Len(v) # 0
    BY <2>1, <2>2
  <2>4. QED
    BY <1>1, <2>2, <2>3, EmptyFacts
<1>8. BeginsValue(v[1])
  <2>1. v[1] = Opening(type)
    BY <1>3, <1>6, <1>7
  <2>2. QED
    <3>1. Opening(type).t = IF type = "object" THEN "{" ELSE "["
      BY DEF Opening, Mark
    <3>2. QED
      BY <2>1, <3>1 DEF BeginsValue
<1>9. QED
  BY <1>1, <1>2, <1>7, <1>8 DEF IsValueText, v

\* What the tree has of a container.
LEMMA ContainerIsThere ==
    ASSUME NEW C, IsContents(C), NEW type \in {"object", "array"},
           NEW P, AreParts(P, type, C), NEW texts, HasTexts(texts, P),
           NEW q, Nodes(q) \in Nat, NEW m \in Nat,
           HasValue(q, m, ContainerText(texts, type), C)
    PROVE  HasContainer(q, m, type, P, C)
<1> DEFINE v == ContainerText(texts, type)
<1>1. PICK s, w : /\ ReaderInv(s, C) /\ s.at = "value" /\ Nodes(s) = m
                  /\ Leads(s, v, w) /\ IsPast(w, s, C) /\ Nodes(w) <= Nodes(q)
                  /\ \A k \in m..Nodes(w) : q.label[k] = w.label[k] /\ q.kids[k] = w.kids[k]
  BY DEF HasValue
<1>2. PICK u : Leads(s, v, u) /\ HasContainer(u, m, type, P, C)
  BY <1>1, ContainerRead
<1>3. v \in Seq(C)
  BY <1>1, ContainerRead
<1> HIDE DEF v
<1>4. u = w
  BY <1>1, <1>2, <1>3, LeadsToOne
<1>5. Nodes(w) \in Nat /\ m <= Nodes(w)
  BY <1>1 DEF IsPast, ReaderInv, IsReader, Nodes
<1>6. m \in m..Nodes(w)
  BY <1>5
<1>7. w.label[m].type = type /\ HasParts(w, m, P, Len(P), C)
  BY <1>2, <1>4 DEF HasContainer
<1>8. HasParts(q, m, P, Len(P), C)
  BY <1>1, <1>5, <1>7, PartsKept
<1>9. QED
  BY <1>1, <1>6, <1>7, <1>8 DEF HasContainer

\* q has an object of the parts for its root, and the object of r is no more.
HasRoot(q, r, P, C) ==
    /\ ReaderInv(q, C) /\ q.at = "outside" /\ HasContainer(q, 1, "object", P, C)
    /\ q.earlier = r.earlier + Len(r.kids[1])

\* An object outside of every other.
LEMMA RootRead ==
    ASSUME NEW C, IsContents(C), NEW P, AreParts(P, "object", C),
           NEW texts, HasTexts(texts, P), NEW r, ReaderInv(r, C), r.at = "outside"
    PROVE  /\ ObjectText(texts) \in Seq(C) /\ (Len(P) > 0 => Len(ObjectText(texts)) > 2)
           /\ \E q : Leads(r, ObjectText(texts), q) /\ HasRoot(q, r, P, C)
<1> DEFINE o == Passed(r, Opening("object"))
           opening == <<Opening("object")>>
           closing == <<Closing("object")>>
           listed == Listed(texts)
           a == opening \o listed
<1>1. opening \in Seq(C) /\ closing \in Seq(C) /\ Len(opening) = 1 /\ Len(closing) = 1
  BY MarkFacts, OneFacts
<1>2. ReaderInv(o, C) /\ \E t : IsOpenedAgain(t, r, C) /\ IsLike(o, t)
  <2>1. Opening("object").t = "{"
    BY DEF Opening, Mark
  <2>2. QED
    BY <2>1, AgainPassed
<1>3. Leads(r, opening, o)
  BY LeadsOne
<1> HIDE DEF o
<1>4. /\ o.at = "first" /\ o.open = <<1>> /\ Len(o.open) = 1
      /\ o.earlier = r.earlier + Len(r.kids[1]) /\ o.label[1].type = "object"
  BY <1>2 DEF IsOpenedAgain, IsLike, Label
<1>5. Top(o) = 1 /\ TopType(o) = "object" /\ o.open # <<>>
  BY <1>4 DEF Top, TopType
<1>6. listed \in Seq(C) /\ (Len(P) > 0 => Len(listed) > 0)
  BY <1>2, <1>4, <1>5, PartsRead
<1>7. PICK s : Leads(o, listed, s) /\ HasRead(s, o, P, Len(P), C)
  BY <1>2, <1>4, <1>5, PartsRead
<1> DEFINE q == Passed(s, Closing("object"))
<1>8. Leads(s, closing, q)
  BY LeadsOne
<1>9. /\ ReaderInv(q, C) /\ HasContainer(q, Top(o), "object", P, C)
      /\ q.at = (IF Len(o.open) = 1 THEN "outside" ELSE "after")
      /\ q.earlier = o.earlier
  <2>1. Len(P) \in Nat
    BY DEF AreParts
  <2>2. QED
    BY <1>2, <1>5, <1>7, <2>1, ContainerClosed
<1> HIDE DEF q
<1>10. HasRoot(q, r, P, C)
  BY <1>4, <1>5, <1>9 DEF HasRoot
<1>11. ObjectText(texts) = a \o closing
  BY DEF ObjectText, Opening, Closing
<1> HIDE DEF opening, closing, listed
<1>12. a \in Seq(C) /\ Len(a) = 1 + Len(listed) /\ Leads(r, a, s)
  <2>1. Leads(r, opening \o listed, s)
    BY <1>1, <1>3, <1>6, <1>7, LeadsOn
  <2>2. opening \o listed \in Seq(C) /\ Len(opening \o listed) = Len(opening) + Len(listed)
    BY <1>1, <1>6, JoinFacts
  <2>3. QED
    BY <1>1, <2>1, <2>2
<1> HIDE DEF a
<1>13. /\ a \o closing \in Seq(C) /\ Len(a \o closing) = Len(a) + 1
       /\ Leads(r, a \o closing, q)
  <2>1. Leads(r, a \o closing, q)
    BY <1>1, <1>8, <1>12, LeadsOn
  <2>2. a \o closing \in Seq(C) /\ Len(a \o closing) = Len(a) + Len(closing)
    BY <1>1, <1>12, JoinFacts
  <2>3. QED
    BY <1>1, <2>1, <2>2
<1>14. Len(P) > 0 => Len(a \o closing) > 2
  <2>1. Len(listed) \in Nat
    BY <1>6, EmptyFacts
  <2>2. QED
    BY <2>1, <1>6, <1>12, <1>13
<1>15. QED
  BY <1>10, <1>11, <1>13, <1>14

-----------------------------------------------------------------------------
(* The text of a request                                                    *)

\* The strings of requests that are not empty, and the tokens of requests.
Words == {"topic", "payload", "_msgid", "i", "v", "other", "1", "get/all", "set/out", "unknown"}
           \cup MsgIds

Tokens == {NULL} \cup {Mark(c) : c \in {"{", "}", "[", "]", ",", ":", "null"}}
            \cup {Str(<<>>)} \cup {Str(<<w>>) : w \in Words} \cup {Integer(n) : n \in Int}

\* A word is read as it is.
LEMMA WordDecoded ==
    ASSUME NEW w \in Words
    PROVE  Decoded(<<w>>) = <<w>>
<1>1. w # "\\u"
  BY EscapeAssumption DEF Words
<1>2. Range(<<w>>) = {w}
  BY DEF Range
<1>3. QED
  BY <1>1, <1>2 DEF Decoded

\* So is the empty string.
LEMMA EmptyDecoded == Decoded(<<>>) = <<>>
<1>1. Range(<<>>) = {}
  BY DEF Range
<1>2. QED
  BY <1>1 DEF Decoded

\* The tokens of requests are what a text may have.
LEMMA TokensFacts ==
    /\ IsContents(Tokens) /\ Str(<<>>) \in Tokens /\ Mark("null") \in Tokens
    /\ \A w \in Words : Str(<<w>>) \in Tokens
    /\ \A n \in Int : Integer(n) \in Tokens
<1>1. /\ Str(<<>>) \in Tokens /\ Mark("null") \in Tokens
      /\ \A w \in Words : Str(<<w>>) \in Tokens
      /\ \A n \in Int : Integer(n) \in Tokens
      /\ NULL \in Tokens /\ {Mark(c) : c \in {"{", "}", "[", "]", ",", ":"}} \subseteq Tokens
  BY DEF Tokens
<1>2. ASSUME NEW x \in Tokens, x.t = "string"
      PROVE  Str(Decoded(x.s)) \in Tokens
  <2>1. CASE x = Str(<<>>)
    BY <1>1, <2>1, EmptyDecoded DEF Str
  <2>2. CASE \E w \in Words : x = Str(<<w>>)
    <3>1. PICK w \in Words : x = Str(<<w>>)
      BY <2>2
    <3>2. x.s = <<w>>
      BY <3>1 DEF Str
    <3>3. QED
      BY <1>1, <3>1, <3>2, WordDecoded
  <2>3. CASE x = NULL
    BY <1>2, <2>3 DEF NULL
  <2>4. CASE \E c \in {"{", "}", "[", "]", ",", ":", "null"} : x = Mark(c)
    BY <1>2, <2>4 DEF Mark
  <2>5. CASE \E n \in Int : x = Integer(n)
    BY <1>2, <2>5 DEF Integer, Num
  <2>6. QED
    BY <2>1, <2>2, <2>3, <2>4, <2>5 DEF Tokens
<1>3. QED
  BY <1>1, <1>2 DEF IsContents

\* A reader that has read nothing yet.
LEMMA StartFacts == ReaderInv(Start, Tokens) /\ Start.at = "outside" /\ Start.earlier = 0
                      /\ Start.kids[1] = <<>>
<1>1. NULL \in Tokens
  BY TokensFacts DEF IsContents
<1>2. Start.at = "outside" /\ Start.earlier = 0 /\ Start.kids[1] = <<>>
  BY DEF Start
<1>3. Together(json_init, Start, Tokens)
  BY <1>1, TogetherStart
<1>4. ReaderInv(Start, Tokens)
  <2>1. Start.at # "wrong"
    BY <1>2
  <2>2. QED
    BY <1>3, <2>1 DEF Together
<1>5. QED
  BY <1>2, <1>4

\* A value can be due.
LEMMA SomeValueDue == \E r : ReaderInv(r, Tokens) /\ r.at = "value"
<1> DEFINE o == Passed(Start, Mark("{"))
<1>1. ReaderInv(o, Tokens) /\ \E t : IsOpenedAgain(t, Start, Tokens) /\ IsLike(o, t)
  <2>1. Mark("{").t = "{"
    BY DEF Mark
  <2>2. QED
    BY <2>1, StartFacts, AgainPassed
<1> HIDE DEF o
<1>2. o.at = "first" /\ o.open = <<1>> /\ Len(o.open) = 1 /\ o.label[1].type = "object"
  BY <1>1 DEF IsOpenedAgain, IsLike, Label
<1>3. IsDue(o) /\ TopType(o) = "object"
  BY <1>2 DEF IsDue, TopType, Top
<1>4. Str(<<>>).t = "string" /\ Mark(":").t = ":"
  BY DEF Str, Mark
<1>5. PICK q : ReaderInv(q, Tokens) /\ HasBegun(q, o, Str(Decoded(Str(<<>>).s)))
  BY <1>1, <1>3, <1>4, TokensFacts, MemberBegun
<1>6. QED
  BY <1>5 DEF HasBegun

-----------------------------------------------------------------------------
(* The members of an object, and their names                                *)

\* Parts of the tokens of requests.
PartRecords == [key : Tokens, text : Seq(Tokens)]

\* The members are the texts of the parts P.
IsMembers(members, P) ==
    /\ members \in Seq(Seq(Tokens)) /\ P \in Seq(PartRecords)
    /\ AreParts(P, "object", Tokens) /\ HasTexts(members, P)

\* No member of P has the name.
Lacks(P, name) == \A i \in 1..Len(P) : KeyOf(P[i]) # Str(<<name>>)

\* One part has the name, and the text, if the member is there.
Gives(P, name, there, text) ==
    IF there
    THEN \E i \in 1..Len(P) :
             /\ P[i].text = text /\ KeyOf(P[i]) = Str(<<name>>)
             /\ \A j \in 1..Len(P) : j # i => KeyOf(P[j]) # Str(<<name>>)
    ELSE Lacks(P, name)

\* P is the part of that name, if the member is there, and no other.
IsOptional(P, name, there, text) ==
    /\ Gives(P, name, there, text)
    /\ \A other : other # name => Lacks(P, other)

\* No members.
LEMMA NoMembers ==
    ASSUME NEW name, NEW text
    PROVE  IsMembers(<<>>, <<>>) /\ IsOptional(<<>>, name, FALSE, text)
<1>1. Len(<<>>) = 0 /\ <<>> \in Seq(Seq(Tokens)) /\ <<>> \in Seq(PartRecords)
  BY EmptyFacts
<1>2. IsMembers(<<>>, <<>>)
  BY <1>1 DEF IsMembers, AreParts, HasTexts
<1>3. QED
  BY <1>1, <1>2 DEF IsOptional, Gives, Lacks

\* One member.
LEMMA OneMember ==
    ASSUME NEW name \in Words, NEW text, IsValueText(text, Tokens)
    PROVE  \E P : /\ IsMembers(<<MemberText(<<name>>, text)>>, P)
                  /\ IsOptional(P, name, TRUE, text)
<1> DEFINE part == [key |-> Str(<<name>>), text |-> text]
           member == MemberText(<<name>>, text)
           P == <<part>>
           key == Str(<<name>>)
<1>1. text \in Seq(Tokens) /\ key \in Tokens /\ Mark(":") \in Tokens
  BY TokensFacts DEF IsValueText, IsContents
<1>2. key.t = "string" /\ key # NULL /\ key.s = <<name>>
  BY DEF Str, NULL
<1>3. part \in PartRecords /\ part.key = key /\ part.text = text
  BY <1>1 DEF PartRecords
<1>4. member = <<key, Mark(":")>> \o text
  BY DEF MemberText
<1> HIDE DEF part, member, key
<1>5. PartText(part) = member /\ KeyOf(part) = key
  <2>1. KeyOf(part) = Str(Decoded(<<name>>))
    BY <1>2, <1>3 DEF KeyOf
  <2>2. QED
    BY <1>2, <1>3, <1>4, <2>1, WordDecoded DEF PartText, key
<1>6. member \in Seq(Tokens)
  BY <1>1, <1>4, TwoFacts, JoinFacts
<1>7. IsPart(part, "object", Tokens)
  BY <1>1, <1>2, <1>3 DEF IsPart
<1>8. /\ P \in Seq(PartRecords) /\ Len(P) = 1 /\ P[1] = part
      /\ <<member>> \in Seq(Seq(Tokens)) /\ Len(<<member>>) = 1 /\ <<member>>[1] = member
  BY <1>3, <1>6, OneFacts
<1> HIDE DEF P
<1>9. \A i \in 1..Len(P) : i = 1
  BY <1>8
<1>10. IsMembers(<<member>>, P)
  BY <1>5, <1>7, <1>8, <1>9 DEF IsMembers, AreParts, HasTexts
<1>11. \A other : other # name => Str(<<name>>) # Str(<<other>>)
  <2> TAKE other
  <2> HAVE other # name
  <2>1. <<name>> # <<other>>
    <3>1. <<name>>[1] = name /\ <<other>>[1] = other
      OBVIOUS
    <3>2. QED
      BY <3>1
  <2>2. QED
    BY <2>1 DEF Str
<1>12. IsOptional(P, name, TRUE, text)
  <2>1. KeyOf(P[1]) = Str(<<name>>) /\ 1 \in 1..Len(P) /\ P[1].text = text
    BY <1>3, <1>5, <1>8 DEF key
  <2>2. Gives(P, name, TRUE, text)
    BY <1>9, <2>1 DEF Gives
  <2>3. \A other : other # name => Lacks(P, other)
    BY <1>9, <1>11, <2>1 DEF Lacks
  <2>4. QED
    BY <2>2, <2>3 DEF IsOptional
<1>13. QED
  BY <1>10, <1>12 DEF member

\* An element of two sequences, one after the other, is one of either.
LEMMA EitherFacts ==
    ASSUME NEW S, NEW a \in Seq(S), NEW b \in Seq(S), NEW i \in 1..Len(a \o b)
    PROVE  \/ i \in 1..Len(a) /\ (a \o b)[i] = a[i]
           \/ \E k \in 1..Len(b) : i = Len(a) + k /\ (a \o b)[i] = b[k]
<1>1. Len(a) \in Nat /\ Len(b) \in Nat /\ Len(a \o b) = Len(a) + Len(b)
  OBVIOUS
<1>2. CASE i <= Len(a)
  <2>1. i \in 1..Len(a)
    BY <1>1, <1>2
  <2>2. QED
    BY <2>1, JoinFacts
<1>3. CASE i > Len(a)
  <2>1. i - Len(a) \in 1..Len(b) /\ i = Len(a) + (i - Len(a))
    BY <1>1, <1>3
  <2>2. QED
    BY <2>1, JoinFacts
<1>4. QED
  BY <1>1, <1>2, <1>3

\* The members of two lists.
LEMMA MembersJoined ==
    ASSUME NEW a, NEW P, IsMembers(a, P), NEW b, NEW Q, IsMembers(b, Q)
    PROVE  IsMembers(a \o b, P \o Q)
<1>1. /\ a \in Seq(Seq(Tokens)) /\ P \in Seq(PartRecords) /\ Len(a) = Len(P)
      /\ b \in Seq(Seq(Tokens)) /\ Q \in Seq(PartRecords) /\ Len(b) = Len(Q)
      /\ \A k \in 1..Len(P) : IsPart(P[k], "object", Tokens) /\ a[k] = PartText(P[k])
      /\ \A k \in 1..Len(Q) : IsPart(Q[k], "object", Tokens) /\ b[k] = PartText(Q[k])
  BY DEF IsMembers, AreParts, HasTexts
<1>2. /\ a \o b \in Seq(Seq(Tokens)) /\ Len(a \o b) = Len(a) + Len(b)
      /\ \A k \in 1..Len(a) : (a \o b)[k] = a[k]
      /\ \A k \in 1..Len(b) : (a \o b)[Len(a) + k] = b[k]
  <2> DEFINE T == Seq(Tokens)
  <2>1. a \in Seq(T) /\ b \in Seq(T)
    BY <1>1
  <2> HIDE DEF T
  <2>2. /\ a \o b \in Seq(T) /\ Len(a \o b) = Len(a) + Len(b)
        /\ \A k \in 1..Len(a) : (a \o b)[k] = a[k]
        /\ \A k \in 1..Len(b) : (a \o b)[Len(a) + k] = b[k]
    BY <2>1, JoinFacts
  <2>3. QED
    BY <2>2 DEF T
<1>3. P \o Q \in Seq(PartRecords) /\ Len(P \o Q) = Len(P) + Len(Q)
  BY <1>1, JoinFacts
<1>4. Len(P) \in Nat /\ Len(Q) \in Nat /\ Len(P \o Q) \in Nat
  BY <1>1, <1>3, EmptyFacts
<1>5. ASSUME NEW i \in 1..Len(P \o Q)
      PROVE  IsPart((P \o Q)[i], "object", Tokens) /\ (a \o b)[i] = PartText((P \o Q)[i])
  <2>1. CASE i \in 1..Len(P) /\ (P \o Q)[i] = P[i]
    BY <1>1, <1>2, <2>1
  <2>2. CASE \E k \in 1..Len(Q) : i = Len(P) + k /\ (P \o Q)[i] = Q[k]
    BY <1>1, <1>2, <2>2
  <2>3. QED
    <3>1. P \in Seq(PartRecords) /\ Q \in Seq(PartRecords)
      BY <1>1
    <3>2. \/ i \in 1..Len(P) /\ (P \o Q)[i] = P[i]
          \/ \E k \in 1..Len(Q) : i = Len(P) + k /\ (P \o Q)[i] = Q[k]
      BY <3>1, EitherFacts
    <3>3. QED
      BY <2>1, <2>2, <3>2
<1>6. QED
  BY <1>1, <1>2, <1>3, <1>4, <1>5 DEF IsMembers, AreParts, HasTexts

\* The names of two lists.
LEMMA NamesJoined ==
    ASSUME NEW P \in Seq(PartRecords), NEW Q \in Seq(PartRecords),
           NEW name, NEW there, NEW text
    PROVE  /\ Lacks(P, name) /\ Lacks(Q, name) => Lacks(P \o Q, name)
           /\ Gives(P, name, there, text) /\ Lacks(Q, name) => Gives(P \o Q, name, there, text)
           /\ Lacks(P, name) /\ Gives(Q, name, there, text) => Gives(P \o Q, name, there, text)
<1> DEFINE J == P \o Q
           n == Len(P)
<1>1. /\ n \in Nat /\ Len(Q) \in Nat /\ Len(J) = n + Len(Q)
      /\ \A k \in 1..n : J[k] = P[k]
      /\ \A k \in 1..Len(Q) : J[n + k] = Q[k]
  BY JoinFacts, EmptyFacts
<1>2. \A i \in 1..Len(J) : \/ i \in 1..n
                           \/ \E k \in 1..Len(Q) : i = n + k
  BY <1>1, EitherFacts
<1>3. /\ \A k \in 1..n : k \in 1..Len(J)
      /\ \A k \in 1..Len(Q) : n + k \in 1..Len(J)
  BY <1>1
<1> HIDE DEF J, n
<1>4. ASSUME Lacks(P, name), Lacks(Q, name) PROVE Lacks(J, name)
  <2>1. ASSUME NEW i \in 1..Len(J) PROVE KeyOf(J[i]) # Str(<<name>>)
    <3>1. CASE i \in 1..n
      BY <1>1, <1>4, <3>1 DEF Lacks, n
    <3>2. CASE \E k \in 1..Len(Q) : i = n + k
      BY <1>1, <1>4, <3>2 DEF Lacks
    <3>3. QED
      BY <1>2, <3>1, <3>2
  <2>2. QED
    BY <2>1 DEF Lacks
<1>5. ASSUME Gives(P, name, TRUE, text), Lacks(Q, name) PROVE Gives(J, name, TRUE, text)
  <2>1. PICK i \in 1..n : /\ P[i].text = text /\ KeyOf(P[i]) = Str(<<name>>)
                          /\ \A j \in 1..n : j # i => KeyOf(P[j]) # Str(<<name>>)
    BY <1>5 DEF Gives, n
  <2>2. ASSUME NEW j \in 1..Len(J), j # i PROVE KeyOf(J[j]) # Str(<<name>>)
    <3>1. CASE j \in 1..n
      BY <1>1, <2>1, <2>2, <3>1
    <3>2. CASE \E k \in 1..Len(Q) : j = n + k
      BY <1>1, <1>5, <3>2 DEF Lacks
    <3>3. QED
      BY <1>2, <3>1, <3>2
  <2>3. i \in 1..Len(J) /\ J[i] = P[i]
    BY <1>1, <1>3
  <2>4. QED
    BY <2>1, <2>2, <2>3 DEF Gives
<1>6. ASSUME Lacks(P, name), Gives(Q, name, TRUE, text) PROVE Gives(J, name, TRUE, text)
  <2>1. PICK i \in 1..Len(Q) : /\ Q[i].text = text /\ KeyOf(Q[i]) = Str(<<name>>)
                               /\ \A j \in 1..Len(Q) : j # i => KeyOf(Q[j]) # Str(<<name>>)
    BY <1>6 DEF Gives
  <2>2. ASSUME NEW j \in 1..Len(J), j # n + i PROVE KeyOf(J[j]) # Str(<<name>>)
    <3>1. CASE j \in 1..n
      BY <1>1, <1>6, <3>1 DEF Lacks, n
    <3>2. CASE \E k \in 1..Len(Q) : j = n + k
      <4>1. PICK k \in 1..Len(Q) : j = n + k
        BY <3>2
      <4>2. k # i
        BY <2>2, <4>1
      <4>3. QED
        BY <1>1, <2>1, <4>1, <4>2
    <3>3. QED
      BY <1>2, <3>1, <3>2
  <2>3. n + i \in 1..Len(J) /\ J[n + i] = Q[i]
    BY <1>1, <1>3
  <2>4. QED
    BY <2>1, <2>2, <2>3 DEF Gives
<1>7. QED
  BY <1>4, <1>5, <1>6, Zenon DEF Gives, J

\* The two containers by their names.
LEMMA ContainerNames ==
    ASSUME NEW texts
    PROVE  /\ ObjectText(texts) = ContainerText(texts, "object")
           /\ ArrayText(texts) = ContainerText(texts, "array")
BY DEF ObjectText, ArrayText, ContainerText, Opening, Closing

\* A token that is a value.
LEMMA TokenIsValue ==
    ASSUME NEW token \in Tokens, IsLeaf(token)
    PROVE  IsValueText(<<token>>, Tokens)
BY TokensFacts, LeafIsValue

\* A list of members is the text of a value.
LEMMA MembersAreValue ==
    ASSUME NEW members, NEW P, IsMembers(members, P)
    PROVE  IsValueText(ObjectText(members), Tokens)
<1>1. PICK r : ReaderInv(r, Tokens) /\ r.at = "value"
  BY SomeValueDue
<1>2. AreParts(P, "object", Tokens) /\ HasTexts(members, P)
  BY DEF IsMembers
<1>3. IsValueText(ContainerText(members, "object"), Tokens)
  BY <1>1, <1>2, TokensFacts, ContainerIsValue
<1>4. QED
  BY <1>3, ContainerNames

\* The parts that are the items of an array, and their texts.
ItemParts(field) == [k \in DOMAIN field.items |-> [key |-> NULL, text |-> ItemText(field.items[k])]]
ItemTexts(field) == [k \in DOMAIN field.items |-> ItemText(field.items[k])]

\* The token of an item.
ItemToken(n) == IF n = NaN THEN Str(<<"1">>) ELSE Integer(n)

\* An item is a value of one token.
LEMMA ItemIsLeaf ==
    ASSUME NEW n \in Items
    PROVE  ItemText(n) = <<ItemToken(n)>> /\ ItemToken(n) \in Tokens /\ IsLeaf(ItemToken(n))
<1>1. CASE n = NaN
  <2>1. ItemToken(n) = Str(<<"1">>) /\ "1" \in Words
    BY <1>1 DEF ItemToken, Words
  <2>2. ItemToken(n) \in Tokens
    BY <2>1, TokensFacts
  <2>3. IsLeaf(ItemToken(n))
    BY <2>1 DEF IsLeaf, Str
  <2>4. QED
    BY <1>1, <2>2, <2>3 DEF ItemText, ItemToken
<1>2. CASE n # NaN
  <2>1. ItemToken(n) = Integer(n) /\ n \in Int
    BY <1>2 DEF ItemToken, Items
  <2>2. ItemToken(n) \in Tokens
    BY <2>1, TokensFacts
  <2>3. IsLeaf(ItemToken(n))
    BY <2>1 DEF IsLeaf, Integer, Num
  <2>4. QED
    BY <1>2, <2>2, <2>3 DEF ItemText, ItemToken
<1>3. QED
  BY <1>1, <1>2

\* The items of an array are parts of one.
LEMMA ItemsAreParts ==
    ASSUME NEW field \in Fields
    PROVE  /\ AreParts(ItemParts(field), "array", Tokens)
           /\ HasTexts(ItemTexts(field), ItemParts(field))
           /\ Len(ItemParts(field)) = Len(field.items) /\ field.items \in Seq(Items)
<1> DEFINE N == Len(field.items)
           P == ItemParts(field)
           T == ItemTexts(field)
<1>1. field.items \in Seq(Items) /\ DOMAIN field.items = 1..N /\ N \in Nat
  BY DEF Fields
<1>2. /\ P = [k \in 1..N |-> [key |-> NULL, text |-> ItemText(field.items[k])]]
      /\ T = [k \in 1..N |-> ItemText(field.items[k])]
  BY <1>1 DEF ItemParts, ItemTexts
<1> HIDE DEF P, T, N
<1>3. Len(P) = N /\ Len(T) = N
  BY <1>1, <1>2
<1>4. ASSUME NEW k \in 1..N
      PROVE  IsPart(P[k], "array", Tokens) /\ T[k] = PartText(P[k])
  <2>1. P[k].key = NULL /\ P[k].text = T[k] /\ T[k] = ItemText(field.items[k])
    BY <1>2
  <2>2. field.items[k] \in Items
    BY <1>1, ElementFacts DEF N
  <2>3. IsValueText(T[k], Tokens)
    BY <2>1, <2>2, ItemIsLeaf, TokenIsValue
  <2>4. QED
    BY <2>1, <2>3 DEF IsPart, PartText
<1>5. QED
  BY <1>1, <1>3, <1>4 DEF AreParts, HasTexts, N, P, T

\* The text of a field that is there.
NameText(field, s) == IF field = "not a string" THEN <<Mark("null")>> ELSE <<Str(s)>>
ItemsText(field)   == IF field.kind = "other" THEN ObjectText(<<>>) ELSE ArrayText(ItemTexts(field))

\* A member that has a name or a string.
LEMMA NameMemberIs ==
    ASSUME NEW name \in Words, NEW field, NEW s,
           field \notin {"undefined", "not a string"} => Str(s) \in Tokens
    PROVE  \E P : /\ IsMembers(NameMember(name, field, s), P)
                  /\ IsOptional(P, name, field # "undefined", NameText(field, s))
<1>1. CASE field = "undefined"
  <2>1. NameMember(name, field, s) = <<>>
    BY <1>1 DEF NameMember
  <2>2. (field # "undefined") = FALSE
    BY <1>1
  <2>3. QED
    BY <2>1, <2>2, NoMembers
<1>2. CASE field # "undefined"
  <2> DEFINE text == NameText(field, s)
  <2>1. NameMember(name, field, s) = <<MemberText(<<name>>, text)>>
    BY <1>2 DEF NameMember, NameText
  <2>2. IsValueText(text, Tokens)
    <3>1. IsLeaf(Mark("null")) /\ IsLeaf(Str(s))
      BY DEF IsLeaf, Primitives, Mark, Str
    <3>2. CASE field = "not a string"
      <4>1. text = <<Mark("null")>>
        BY <3>2 DEF NameText
      <4>2. QED
        BY <3>1, <4>1, TokensFacts, TokenIsValue
    <3>3. CASE field # "not a string"
      <4>1. text = <<Str(s)>> /\ Str(s) \in Tokens
        BY <1>2, <3>3 DEF NameText
      <4>2. QED
        BY <3>1, <4>1, TokenIsValue
    <3>4. QED
      BY <3>2, <3>3
  <2>3. (field # "undefined") = TRUE
    BY <1>2
  <2> HIDE DEF text
  <2>4. PICK P : IsMembers(<<MemberText(<<name>>, text)>>, P) /\ IsOptional(P, name, TRUE, text)
    BY <2>2, OneMember
  <2>5. QED
    BY <2>1, <2>3, <2>4 DEF text
<1>3. QED
  BY <1>1, <1>2

\* A member that has an array, or an object instead.
LEMMA ItemsMemberIs ==
    ASSUME NEW name \in Words, NEW field \in Fields
    PROVE  \E P : /\ IsMembers(ItemsMember(name, field), P)
                  /\ IsOptional(P, name, field.kind # "undefined", ItemsText(field))
<1>1. field.kind \in {"undefined", "other", "array"}
  BY DEF Fields
<1>2. CASE field.kind = "undefined"
  <2>1. ItemsMember(name, field) = <<>>
    BY <1>2 DEF ItemsMember
  <2>2. (field.kind # "undefined") = FALSE
    BY <1>2
  <2>3. QED
    BY <2>1, <2>2, NoMembers
<1>3. CASE field.kind # "undefined"
  <2> DEFINE text == ItemsText(field)
  <2>1. ItemsMember(name, field) = <<MemberText(<<name>>, text)>>
    <3>1. CASE field.kind = "other"
      BY <3>1 DEF ItemsMember, ItemsText
    <3>2. CASE field.kind = "array"
      BY <3>2 DEF ItemsMember, ItemsText, ItemTexts
    <3>3. QED
      BY <1>1, <1>3, <3>1, <3>2
  <2>2. IsValueText(text, Tokens)
    <3>1. CASE field.kind = "other"
      <4>1. IsMembers(<<>>, <<>>)
        BY NoMembers
      <4>2. QED
        BY <3>1, <4>1, MembersAreValue DEF ItemsText
    <3>2. CASE field.kind # "other"
      <4>1. PICK r : ReaderInv(r, Tokens) /\ r.at = "value"
        BY SomeValueDue
      <4>2. IsValueText(ContainerText(ItemTexts(field), "array"), Tokens)
        BY <4>1, ItemsAreParts, TokensFacts, ContainerIsValue
      <4>3. QED
        BY <3>2, <4>2, ContainerNames DEF ItemsText
    <3>3. QED
      BY <3>1, <3>2
  <2>3. (field.kind # "undefined") = TRUE
    BY <1>3
  <2> HIDE DEF text
  <2>4. PICK P : IsMembers(<<MemberText(<<name>>, text)>>, P) /\ IsOptional(P, name, TRUE, text)
    BY <2>2, OneMember
  <2>5. QED
    BY <2>1, <2>3, <2>4 DEF text
<1>4. QED
  BY <1>2, <1>3

\* The members of a payload.
LEMMA PayloadMembersAre ==
    ASSUME NEW r, r.i \in Fields, r.v \in Fields
    PROVE  \E P : /\ IsMembers(ItemsMember("i", r.i) \o ItemsMember("v", r.v), P)
                  /\ Gives(P, "i", r.i.kind # "undefined", ItemsText(r.i))
                  /\ Gives(P, "v", r.v.kind # "undefined", ItemsText(r.v))
<1>1. "i" \in Words /\ "v" \in Words
  BY DEF Words
<1>2. PICK P : /\ IsMembers(ItemsMember("i", r.i), P)
               /\ IsOptional(P, "i", r.i.kind # "undefined", ItemsText(r.i))
  BY <1>1, ItemsMemberIs
<1>3. PICK Q : /\ IsMembers(ItemsMember("v", r.v), Q)
               /\ IsOptional(Q, "v", r.v.kind # "undefined", ItemsText(r.v))
  BY <1>1, ItemsMemberIs
<1>4. IsMembers(ItemsMember("i", r.i) \o ItemsMember("v", r.v), P \o Q)
  BY <1>2, <1>3, MembersJoined
<1>5. P \in Seq(PartRecords) /\ Q \in Seq(PartRecords)
  BY <1>2, <1>3 DEF IsMembers
<1>6. /\ Gives(P, "i", r.i.kind # "undefined", ItemsText(r.i)) /\ Lacks(P, "v")
      /\ Gives(Q, "v", r.v.kind # "undefined", ItemsText(r.v)) /\ Lacks(Q, "i")
  BY <1>2, <1>3 DEF IsOptional
<1>7. /\ Gives(P \o Q, "i", r.i.kind # "undefined", ItemsText(r.i))
      /\ Gives(P \o Q, "v", r.v.kind # "undefined", ItemsText(r.v))
  BY <1>5, <1>6, NamesJoined
<1>8. QED
  BY <1>4, <1>7

\* P has the members of the request r.
HasMembers(P, r) ==
    /\ Gives(P, "topic", r.topic # "undefined",
             NameText(r.topic, IF r.topic = "empty" THEN <<>> ELSE <<r.topic>>))
    /\ Gives(P, "payload", r.payload # "undefined", PayloadText(r))
    /\ Gives(P, "_msgid", r.msgid # "undefined", NameText(r.msgid, <<r.msgid>>))

\* Its members, where it has any.
LEMMA AskedAre ==
    ASSUME NEW r, IsAsked(r)
    PROVE  \E P : IsMembers(RequestMembers(r), P) /\ HasMembers(P, r)
<1> DEFINE s == IF r.topic = "empty" THEN <<>> ELSE <<r.topic>>
           payload == IF r.payload = "undefined" THEN <<>>
                      ELSE << MemberText(<<"payload">>, PayloadText(r)) >>
           a == NameMember("topic", r.topic, s)
           c == NameMember("_msgid", r.msgid, <<r.msgid>>)
           topicText == NameText(r.topic, s)
           msgidText == NameText(r.msgid, <<r.msgid>>)
<1>1. /\ r.topic \in Topics /\ r.msgid \in MsgIds \cup {"undefined", "not a string"}
      /\ r.i \in Fields /\ r.v \in Fields
  BY DEF IsAsked
<1>2. "topic" \in Words /\ "payload" \in Words /\ "_msgid" \in Words
  BY DEF Words
<1>3. r.topic \notin {"undefined", "not a string"} => Str(s) \in Tokens
  <2>1. CASE r.topic = "empty"
    BY <2>1, TokensFacts
  <2>2. CASE r.topic \in {"get/all", "set/out", "unknown"}
    <3>1. s = <<r.topic>> /\ r.topic \in Words
      BY <2>2 DEF Words
    <3>2. QED
      BY <3>1, TokensFacts
  <2>3. QED
    BY <1>1, <2>1, <2>2 DEF Topics
<1>4. r.msgid \notin {"undefined", "not a string"} => Str(<<r.msgid>>) \in Tokens
  <2>1. CASE r.msgid \in MsgIds
    <3>1. r.msgid \in Words
      BY <2>1 DEF Words
    <3>2. QED
      BY <3>1, TokensFacts
  <2>2. QED
    BY <1>1, <2>1
<1>5. PICK A : IsMembers(a, A) /\ IsOptional(A, "topic", r.topic # "undefined", topicText)
  <2> HIDE DEF s
  <2>1. QED
    BY <1>2, <1>3, NameMemberIs
<1>6. PICK D : IsMembers(c, D) /\ IsOptional(D, "_msgid", r.msgid # "undefined", msgidText)
  BY <1>2, <1>4, NameMemberIs
<1>7. PICK B : /\ IsMembers(payload, B)
               /\ IsOptional(B, "payload", r.payload # "undefined", PayloadText(r))
  <2>1. CASE r.payload = "undefined"
    <3>1. payload = <<>> /\ (r.payload # "undefined") = FALSE
      BY <2>1
    <3>2. QED
      BY <3>1, NoMembers
  <2>2. CASE r.payload # "undefined"
    <3>1. payload = << MemberText(<<"payload">>, PayloadText(r)) >>
          /\ (r.payload # "undefined") = TRUE
      BY <2>2
    <3>2. IsValueText(PayloadText(r), Tokens)
      BY <1>1, PayloadMembersAre, MembersAreValue DEF PayloadText
    <3>3. QED
      BY <1>2, <3>1, <3>2, OneMember
  <2>3. QED
    BY <2>1, <2>2
<1>8. RequestMembers(r) = (a \o payload) \o c
  BY DEF RequestMembers
<1> HIDE DEF a, c, payload, topicText, msgidText
<1>9. IsMembers(a \o payload, A \o B) /\ IsMembers((a \o payload) \o c, (A \o B) \o D)
  <2>1. IsMembers(a \o payload, A \o B)
    BY <1>5, <1>7, MembersJoined
  <2>2. QED
    BY <1>6, <2>1, MembersJoined
<1> DEFINE AB == A \o B
           P == AB \o D
<1>10. A \in Seq(PartRecords) /\ B \in Seq(PartRecords) /\ D \in Seq(PartRecords)
       /\ AB \in Seq(PartRecords)
  BY <1>5, <1>6, <1>7, <1>9 DEF IsMembers
<1>11. /\ Gives(A, "topic", r.topic # "undefined", topicText)
       /\ Lacks(A, "payload") /\ Lacks(A, "_msgid")
       /\ Gives(B, "payload", r.payload # "undefined", PayloadText(r))
       /\ Lacks(B, "topic") /\ Lacks(B, "_msgid")
       /\ Gives(D, "_msgid", r.msgid # "undefined", msgidText)
       /\ Lacks(D, "topic") /\ Lacks(D, "payload")
  BY <1>5, <1>6, <1>7 DEF IsOptional
<1>12. /\ Gives(AB, "topic", r.topic # "undefined", topicText)
       /\ Gives(AB, "payload", r.payload # "undefined", PayloadText(r))
       /\ Lacks(AB, "_msgid")
  BY <1>10, <1>11, NamesJoined
<1> HIDE DEF AB
<1>13. /\ Gives(P, "topic", r.topic # "undefined", topicText)
       /\ Gives(P, "payload", r.payload # "undefined", PayloadText(r))
       /\ Gives(P, "_msgid", r.msgid # "undefined", msgidText)
  BY <1>10, <1>11, <1>12, NamesJoined
<1> HIDE DEF P
<1>14. HasMembers(P, r)
  BY <1>13 DEF HasMembers, topicText, msgidText
<1>15. IsMembers(RequestMembers(r), P)
  BY <1>8, <1>9 DEF P, AB
<1>16. QED
  BY <1>14, <1>15

\* The text of a request is that of an object with its members.
LEMMA RequestTextIs ==
    ASSUME NEW r, IsAsked(r)
    PROVE  \E members, P : /\ RequestText(r) = ObjectText(members) /\ Len(P) > 0
                           /\ IsMembers(members, P) /\ HasMembers(P, r)
<1>1. RequestText(r) = ObjectText(IF RequestMembers(r) = <<>>
                                  THEN << MemberText(<<"other">>, <<Mark("null")>>) >>
                                  ELSE RequestMembers(r))
  BY DEF RequestText, RequestMembers
<1>2. PICK P : IsMembers(RequestMembers(r), P) /\ HasMembers(P, r)
  BY AskedAre
<1>3. CASE RequestMembers(r) # <<>>
  <2>1. Len(P) > 0
    BY <1>2, <1>3, EmptyFacts DEF IsMembers, HasTexts
  <2>2. QED
    BY <1>1, <1>2, <1>3, <2>1
<1>4. CASE RequestMembers(r) = <<>>
  <2>1. "other" \in Words
    BY DEF Words
  <2>2. IsValueText(<<Mark("null")>>, Tokens)
    <3>1. IsLeaf(Mark("null"))
      BY DEF IsLeaf, Primitives, Mark
    <3>2. QED
      BY <3>1, TokensFacts, TokenIsValue
  <2>3. PICK Q : /\ IsMembers(<<MemberText(<<"other">>, <<Mark("null")>>)>>, Q)
                 /\ IsOptional(Q, "other", TRUE, <<Mark("null")>>)
    BY <2>1, <2>2, OneMember
  <2>4. Len(P) = 0
    BY <1>2, <1>4, EmptyFacts DEF IsMembers, HasTexts
  <2>5. ASSUME NEW name, NEW there, NEW text, Gives(P, name, there, text), name # "other"
        PROVE  Gives(Q, name, there, text)
    <3>1. ~there
      BY <2>4, <2>5 DEF Gives
    <3>2. Lacks(Q, name)
      BY <2>3, <2>5 DEF IsOptional
    <3>3. QED
      BY <3>1, <3>2 DEF Gives
  <2>6. HasMembers(Q, r)
    BY <1>2, <2>5 DEF HasMembers
  <2>7. Len(Q) > 0
    BY <2>3 DEF IsOptional, Gives
  <2>8. QED
    BY <1>1, <1>4, <2>3, <2>6, <2>7
<1>5. QED
  BY <1>3, <1>4

\* Nothing after a text.
LEMMA NothingAfter ==
    ASSUME NEW C, NEW a \in Seq(C)
    PROVE  a \o <<>> = a
<1> DEFINE b == a \o <<>>
<1>1. b \in Seq(C) /\ Len(b) = Len(a) /\ Len(a) \in Nat
  OBVIOUS
<1>2. \A k \in 1..Len(b) : b[k] = a[k]
  OBVIOUS
<1> HIDE DEF b
<1>3. b = a
  BY <1>1, <1>2, SeqEqual
<1>4. QED
  BY <1>3 DEF b

\* The root of q has the members of the request r.
HasRequest(q, r) ==
    \E members, P : /\ IsMembers(members, P) /\ HasMembers(P, r)
                    /\ HasContainer(q, 1, "object", P, Tokens)

\* A text that is the n first requests, and the reader that has read it.
HasReadTo(q, text, rs, n) ==
    /\ text \in Seq(Tokens) /\ Leads(Start, text, q)
    /\ ReaderInv(q, Tokens) /\ q.at = "outside"
    /\ n = 0 => q = Start
    /\ n > 0 => Len(text) > 2 /\ HasRequest(q, rs[n])
    /\ n = 1 => q.earlier = 0

\* One request more.
LEMMA OneMoreRequest ==
    ASSUME NEW rs, NEW n \in Nat, NEW q, NEW text, HasReadTo(q, text, rs, n),
           IsAsked(rs[n + 1]), NEW next, next = text \o RequestText(rs[n + 1])
    PROVE  \E w : HasReadTo(w, next, rs, n + 1)
<1>1. /\ text \in Seq(Tokens) /\ Leads(Start, text, q) /\ ReaderInv(q, Tokens)
      /\ q.at = "outside" /\ (n = 0 => q = Start)
  BY DEF HasReadTo
<1>2. PICK members, P : /\ RequestText(rs[n + 1]) = ObjectText(members) /\ Len(P) > 0
                        /\ IsMembers(members, P) /\ HasMembers(P, rs[n + 1])
  BY RequestTextIs
<1>3. AreParts(P, "object", Tokens) /\ HasTexts(members, P)
  BY <1>2 DEF IsMembers
<1> DEFINE t == RequestText(rs[n + 1])
<1>4. t \in Seq(Tokens) /\ Len(t) > 2
  BY <1>1, <1>2, <1>3, TokensFacts, RootRead
<1>5. PICK w : Leads(q, t, w) /\ HasRoot(w, q, P, Tokens)
  BY <1>1, <1>2, <1>3, TokensFacts, RootRead
<1> HIDE DEF t
<1>6. text \o t \in Seq(Tokens) /\ Len(text \o t) = Len(text) + Len(t)
  BY <1>1, <1>4, JoinFacts
<1>7. Leads(Start, text \o t, w)
  BY <1>1, <1>4, <1>5, LeadsOn
<1>8. next = text \o t
  BY DEF t
<1>9. Len(next) > 2
  <2>1. Len(text) \in Nat /\ Len(t) \in Nat
    BY <1>1, <1>4, EmptyFacts
  <2>2. QED
    BY <1>4, <1>6, <1>8, <2>1
<1>10. HasRequest(w, rs[n + 1])
  BY <1>2, <1>5 DEF HasRequest, HasRoot
<1>11. n + 1 = 1 => w.earlier = 0
  <2> HAVE n + 1 = 1
  <2>1. q = Start
    BY <1>1
  <2>2. w.earlier = q.earlier + Len(q.kids[1])
    BY <1>5 DEF HasRoot
  <2>3. Len(<<>>) = 0
    OBVIOUS
  <2>4. QED
    BY <2>1, <2>2, <2>3, StartFacts
<1>12. n + 1 # 0
  OBVIOUS
<1>13. ReaderInv(w, Tokens) /\ w.at = "outside"
  BY <1>5 DEF HasRoot
<1>14. HasReadTo(w, next, rs, n + 1)
  BY <1>6, <1>7, <1>8, <1>9, <1>10, <1>11, <1>12, <1>13 DEF HasReadTo
<1>15. QED
  BY <1>14

\* The text of several requests.
LEMMA TextOfIs ==
    ASSUME NEW rs, Len(rs) \in Nat, Len(rs) > 0, DOMAIN rs = 1..Len(rs),
           \A k \in 1..Len(rs) : IsAsked(rs[k])
    PROVE  HasReadTo(ReaderAfter(TextOf(rs)), TextOf(rs), rs, Len(rs))
<1> DEFINE N == Len(rs)
           texts == [k \in DOMAIN rs |-> RequestText(rs[k])]
<1>1. Len(texts) = N /\ N \in Nat /\ \A k \in 1..N : texts[k] = RequestText(rs[k])
  OBVIOUS
<1>2. TextOf(rs) = Joined(texts, <<>>)
  BY DEF TextOf
<1> HIDE DEF texts, N
<1>3. PICK h : /\ h[0] = <<>> /\ Joined(texts, <<>>) = h[N]
               /\ \A k \in 1..N : h[k] = JoinedOn(h[k - 1], texts, <<>>, k)
  <2>1. Len(texts) \in Nat
    BY <1>1
  <2>2. \E h : /\ h[0] = <<>> /\ Joined(texts, <<>>) = h[Len(texts)]
               /\ \A k \in 1..Len(texts) : h[k] = JoinedOn(h[k - 1], texts, <<>>, k)
    BY <2>1, JoinedIs
  <2>3. QED
    BY <1>1, <2>2
<1> DEFINE S == {n \in Nat : n <= N => \E q : HasReadTo(q, h[n], rs, n)}
<1>4. 0 \in S
  <2>1. <<>> \in Seq(Tokens)
    BY EmptyFacts
  <2>2. HasReadTo(Start, <<>>, rs, 0)
    BY <2>1, StartFacts, LeadsNowhere DEF HasReadTo
  <2>3. QED
    BY <1>3, <2>2
<1>5. ASSUME NEW n \in Nat, n \in S
      PROVE  n + 1 \in S
  <2> SUFFICES ASSUME n + 1 <= N
               PROVE  \E q : HasReadTo(q, h[n + 1], rs, n + 1)
    OBVIOUS
  <2>1. n + 1 \in 1..N /\ n + 1 - 1 = n /\ n <= N
    BY <1>1
  <2>2. PICK q : HasReadTo(q, h[n], rs, n)
    BY <2>1, <1>5
  <2>3. h[n] \in Seq(Tokens)
    BY <2>2 DEF HasReadTo
  <2>4. h[n + 1] = JoinedOn(h[n], texts, <<>>, n + 1) /\ texts[n + 1] = RequestText(rs[n + 1])
    BY <2>1, <1>1, <1>3
  <2>5. h[n + 1] = h[n] \o RequestText(rs[n + 1])
    <3>1. CASE n = 0
      <4>1. n + 1 = 1 /\ h[n] = <<>>
        BY <1>3, <3>1
      <4>2. QED
        BY <2>4, <4>1 DEF JoinedOn
    <3>2. CASE n # 0
      <4>1. n + 1 # 1 /\ h[n] \o <<>> = h[n]
        BY <2>3, <3>2, NothingAfter
      <4>2. QED
        BY <2>4, <4>1 DEF JoinedOn
    <3>3. QED
      BY <3>1, <3>2
  <2>6. IsAsked(rs[n + 1])
    BY <2>1 DEF N
  <2>7. QED
    BY <2>2, <2>5, <2>6, OneMoreRequest
<1>6. N \in S
  <2> HIDE DEF S
  <2>1. \A n \in Nat : n \in S
    BY <1>4, <1>5, Induction
  <2>2. QED
    BY <1>1, <2>1
<1>7. PICK q : HasReadTo(q, TextOf(rs), rs, N)
  <2>1. N <= N
    BY <1>1
  <2>2. QED
    BY <1>2, <1>3, <1>6, <2>1
<1>8. ReaderAfter(TextOf(rs)) = q
  <2>1. TextOf(rs) \in Seq(Tokens) /\ Leads(Start, TextOf(rs), q)
    BY <1>7 DEF HasReadTo
  <2>2. QED
    BY <2>1, LeadsFromStart
<1>9. QED
  BY <1>7, <1>8 DEF N

-----------------------------------------------------------------------------
(* What is found of a request                                               *)

\* p is what json_parse makes of the text, and q its tree.
IsParsed(text, p, q) ==
    /\ text \in Seq(Range(text)) /\ IsBraced(text) /\ Scanned(text) = text
    /\ q = ReaderAfter(text) /\ q.at = "outside" /\ Fits(q) /\ p = json_parse(text)
    /\ HasTree(p, q) /\ ReaderInv(q, Tokens)

\* A text that fits is parsed.
LEMMA TextParsed ==
    ASSUME NEW rs, NEW n \in Nat, n > 0, NEW text, NEW q, q = ReaderAfter(text),
           HasReadTo(q, text, rs, n)
    PROVE  IF Fits(q) THEN IsParsed(text, json_parse(text), q)
           ELSE json_parse(text).state = "refused"
<1>1. text \in Seq(Tokens) /\ Len(text) > 2 /\ q.at = "outside" /\ ReaderInv(q, Tokens)
  BY DEF HasReadTo
<1>2. text \in Seq(Range(text))
  BY <1>1 DEF Range
<1>3. \A k \in 1..Len(text) : text[k] # Space
  <2>1. \A token \in Tokens : token # Space
    <3>1. Space.t = " " /\ NULL.t = "NULL" /\ \A c : Mark(c).t = c
      BY DEF Space, Mark, NULL
    <3>2. \A x : Str(x).t = "string" /\ \A i : Integer(i).t = "number"
      BY DEF Str, Integer, Num
    <3>3. QED
      BY <3>1, <3>2 DEF Tokens
  <2>2. \A k \in 1..Len(text) : text[k] \in Tokens
    BY <1>1
  <2>3. QED
    BY <2>1, <2>2
<1>4. IsBraced(text) /\ Scanned(text) = text
  BY <1>1, <1>2, <1>3, TextIsBraced, NumbersEnd
<1>5. IsRead(text)
  BY <1>2, TextIsRead
<1>6. IF Fits(q) THEN HasTree(json_parse(text), q) ELSE json_parse(text).state = "refused"
  BY <1>1, <1>4, <1>5, Zenon DEF IsRead
<1>7. QED
  BY <1>1, <1>2, <1>4, <1>6 DEF IsParsed

\* What the pool has of a node.
LEMMA NodeThere ==
    ASSUME NEW text, NEW p, NEW q, IsParsed(text, p, q), NEW m \in 1..Nodes(q)
    PROVE  /\ p.pool[m].type = q.label[m].type /\ p.pool[m].value = q.label[m].value
           /\ Children(p.pool, m) = q.kids[m]
           /\ p.pool[m].size = Len(q.kids[m]) + (IF m = 1 THEN q.earlier ELSE 0)
<1>1. /\ Label(p.pool[m].type, p.pool[m].key, p.pool[m].value) = q.label[m]
      /\ Children(p.pool, m) = q.kids[m]
      /\ p.pool[m].size = Len(q.kids[m]) + (IF m = 1 THEN q.earlier ELSE 0)
  BY DEF IsParsed, HasTree
<1>2. p.pool[m].type = q.label[m].type /\ p.pool[m].value = q.label[m].value
  BY <1>1 DEF Label
<1>3. QED
  BY <1>1, <1>2

\* A node of q beyond node k that has the value.
IsFound(o, q, k, text) ==
    o \in 1..Nodes(q) /\ k < o /\ HasValue(q, o, text, Tokens)

\* A member that is there is found, and one that is not is not.
LEMMA MemberFound ==
    ASSUME NEW text, NEW p, NEW q, IsParsed(text, p, q),
           NEW k \in 1..Nodes(q), NEW P, HasContainer(q, k, "object", P, Tokens),
           NEW name, NEW there \in BOOLEAN, NEW v, Gives(P, name, there, v),
           NEW o, o = Member(p, k, name)
    PROVE  IF there THEN IsFound(o, q, k, v)
           ELSE o = IF k = 1 /\ q.earlier > 0 THEN -1 ELSE 0
<1> DEFINE kids == q.kids[k]
           key == Str(<<name>>)
<1>1. Finds(o, q, k, <<name>>)
  BY MembersAreFound DEF IsParsed, HasContainer, Member
<1>2. /\ Len(kids) = Len(P)
      /\ \A i \in 1..Len(P) : HasPartAt(q, kids[i], P[i], k, Tokens)
  BY DEF HasContainer, HasParts
<1>3. \A i \in 1..Len(P) : /\ kids[i] \in Nat /\ k < kids[i] /\ kids[i] <= Nodes(q)
                           /\ q.label[kids[i]].key = KeyOf(P[i])
                           /\ HasValue(q, kids[i], P[i].text, Tokens)
  BY <1>2 DEF HasPartAt
<1>4. \/ \E i \in 1..Len(kids) : o = kids[i] /\ q.label[o].key = key
      \/ /\ \A i \in 1..Len(kids) : q.label[kids[i]].key # key
         /\ o = IF k = 1 /\ q.earlier > 0 THEN -1 ELSE 0
  BY <1>1, Zenon DEF Finds
<1> HIDE DEF kids
<1>5. CASE there
  <2>1. PICK i \in 1..Len(P) : /\ P[i].text = v /\ KeyOf(P[i]) = key
                               /\ \A j \in 1..Len(P) : j # i => KeyOf(P[j]) # key
    BY <1>5 DEF Gives
  <2>2. PICK j \in 1..Len(P) : o = kids[j] /\ q.label[o].key = key
    BY <1>2, <1>3, <1>4, <2>1
  <2>3. j = i
    BY <1>3, <2>1, <2>2
  <2>4. kids[i] \in 1..Nodes(q)
    BY <1>3
  <2>5. QED
    BY <1>3, <1>5, <2>1, <2>2, <2>3, <2>4 DEF IsFound
<1>6. CASE ~there
  <2>1. \A i \in 1..Len(P) : KeyOf(P[i]) # key
    BY <1>6 DEF Gives, Lacks
  <2>2. QED
    BY <1>2, <1>3, <1>4, <1>6, <2>1
<1>7. QED
  BY <1>5, <1>6

\* The root is one of the nodes.
LEMMA RootThere ==
    ASSUME NEW text, NEW p, NEW q, IsParsed(text, p, q)
    PROVE  Nodes(q) \in Nat /\ 1 \in 1..Nodes(q) /\ p.current = 1 /\ p.state = "reading"
<1>1. ReaderInv(q, Tokens) /\ p.current = 1 /\ p.state = "reading"
  BY DEF IsParsed, HasTree
<1>2. Nodes(q) \in Nat /\ Nodes(q) >= 1
  BY <1>1 DEF ReaderInv, IsReader, Nodes
<1>3. QED
  BY <1>1, <1>2

\* The root has a member of that name and that text.
HasMember(text, p, q, name, v) ==
    /\ IsParsed(text, p, q)
    /\ \E P : HasContainer(q, 1, "object", P, Tokens) /\ Gives(P, name, TRUE, v)

\* o is a node that has the token for its value.
IsToken(p, o, token) ==
    o # 0 /\ p.pool[o].type = LeafType(token) /\ p.pool[o].value = LeafContent(token)

\* A member of one token, found in the root.
LEMMA TokenFound ==
    ASSUME NEW text, NEW p, NEW q, NEW name, NEW token \in Tokens, IsLeaf(token),
           HasMember(text, p, q, name, <<token>>)
    PROVE  IsToken(p, Member(p, 1, name), token)
<1> DEFINE o == Member(p, 1, name)
<1>0. PICK P : /\ IsParsed(text, p, q) /\ HasContainer(q, 1, "object", P, Tokens)
               /\ Gives(P, name, TRUE, <<token>>)
  BY DEF HasMember
<1>1. Nodes(q) \in Nat /\ 1 \in 1..Nodes(q)
  BY <1>0, RootThere
<1>2. IsFound(o, q, 1, <<token>>)
  BY <1>0, <1>1, MemberFound
<1> HIDE DEF o
<1>3. o \in 1..Nodes(q) /\ HasValue(q, o, <<token>>, Tokens)
  BY <1>2 DEF IsFound
<1>4. o \in Nat /\ o # 0
  BY <1>1, <1>3
<1>5. q.label[o].type = LeafType(token) /\ q.label[o].value = LeafContent(token)
  BY <1>3, <1>4, TokensFacts, LeafIsThere
<1>6. p.pool[o].type = q.label[o].type /\ p.pool[o].value = q.label[o].value
  BY <1>0, <1>3, NodeThere
<1>7. IsToken(p, o, token)
  BY <1>4, <1>5, <1>6 DEF IsToken
<1>8. QED
  BY <1>7 DEF o

\* A member that is not in the root of the first request.
LEMMA NoneFound ==
    ASSUME NEW text, NEW p, NEW q, IsParsed(text, p, q), q.earlier = 0,
           NEW P, HasContainer(q, 1, "object", P, Tokens),
           NEW name, NEW v, Gives(P, name, FALSE, v), NEW o, o = Member(p, 1, name)
    PROVE  o = 0
<1>1. Nodes(q) \in Nat /\ 1 \in 1..Nodes(q)
  BY RootThere
<1>2. IF FALSE THEN IsFound(o, q, 1, v) ELSE o = IF 1 = 1 /\ q.earlier > 0 THEN -1 ELSE 0
  <2>1. FALSE \in BOOLEAN
    OBVIOUS
  <2>2. QED
    BY <1>1, <2>1, MemberFound, Zenon
<1>3. QED
  BY <1>2

\* The node of a payload.
HasPayload(p, q, o, r) ==
    /\ o \in 1..Nodes(q) /\ 1 < o
    /\ \E P : /\ HasContainer(q, o, "object", P, Tokens)
              /\ Gives(P, "i", r.i.kind # "undefined", ItemsText(r.i))
              /\ Gives(P, "v", r.v.kind # "undefined", ItemsText(r.v))

\* A payload that is found has its members.
LEMMA PayloadFound ==
    ASSUME NEW text, NEW p, NEW q, IsParsed(text, p, q),
           NEW P, HasContainer(q, 1, "object", P, Tokens),
           NEW r, r.i \in Fields, r.v \in Fields,
           Gives(P, "payload", TRUE, PayloadText(r))
    PROVE  HasPayload(p, q, Member(p, 1, "payload"), r)
<1> DEFINE o == Member(p, 1, "payload")
           members == ItemsMember("i", r.i) \o ItemsMember("v", r.v)
<1>1. Nodes(q) \in Nat /\ 1 \in 1..Nodes(q)
  BY RootThere
<1>2. IsFound(o, q, 1, PayloadText(r))
  BY <1>1, MemberFound
<1>3. PICK Q : /\ IsMembers(members, Q)
               /\ Gives(Q, "i", r.i.kind # "undefined", ItemsText(r.i))
               /\ Gives(Q, "v", r.v.kind # "undefined", ItemsText(r.v))
  BY PayloadMembersAre
<1>4. PayloadText(r) = ContainerText(members, "object")
  BY ContainerNames DEF PayloadText
<1> HIDE DEF members, o
<1>5. AreParts(Q, "object", Tokens) /\ HasTexts(members, Q)
  BY <1>3 DEF IsMembers
<1>6. /\ o \in 1..Nodes(q) /\ 1 < o /\ o \in Nat
      /\ HasValue(q, o, ContainerText(members, "object"), Tokens)
  BY <1>1, <1>2, <1>4 DEF IsFound
<1>7. HasContainer(q, o, "object", Q, Tokens)
  BY <1>1, <1>5, <1>6, TokensFacts, ContainerIsThere
<1>8. HasPayload(p, q, o, r)
  BY <1>3, <1>6, <1>7, Zenon DEF HasPayload
<1>9. QED
  BY <1>8 DEF o

\* The items that the getters find in an array.
ItemsAt(pool, o) ==
    LET kids == Children(pool, o) IN [k \in DOMAIN kids |-> Item(pool[kids[k]])]

\* The items of an array that is found.
LEMMA ArrayFound ==
    ASSUME NEW text, NEW p, NEW q, IsParsed(text, p, q), NEW field \in Fields,
           NEW o, IsFound(o, q, 1, ArrayText(ItemTexts(field)))
    PROVE  /\ p.pool[o].type = "array" /\ p.pool[o].size = Len(field.items)
           /\ ItemsAt(p.pool, o) = field.items
<1> DEFINE items == field.items
           N == Len(items)
           P == ItemParts(field)
           kids == q.kids[o]
           found == [k \in 1..N |-> Item(p.pool[kids[k]])]
<1>1. /\ AreParts(P, "array", Tokens) /\ HasTexts(ItemTexts(field), P)
      /\ Len(P) = N /\ items \in Seq(Items)
  BY ItemsAreParts
<1>2. N \in Nat
  BY <1>1, EmptyFacts
<1>3. P = [k \in 1..N |-> [key |-> NULL, text |-> ItemText(items[k])]]
  <2>1. DOMAIN items = 1..N
    BY <1>1
  <2>2. QED
    BY <2>1 DEF ItemParts
<1> HIDE DEF P, items, N
<1>4. Nodes(q) \in Nat /\ 1 \in 1..Nodes(q)
  BY RootThere
<1>5. /\ o \in 1..Nodes(q) /\ 1 < o /\ o \in Nat
      /\ HasValue(q, o, ContainerText(ItemTexts(field), "array"), Tokens)
  BY <1>4, ContainerNames DEF IsFound
<1>6. HasContainer(q, o, "array", P, Tokens)
  BY <1>1, <1>4, <1>5, TokensFacts, ContainerIsThere
<1>7. /\ q.label[o].type = "array" /\ Len(kids) = N
      /\ \A i \in 1..N : HasPartAt(q, kids[i], P[i], o, Tokens)
  BY <1>1, <1>6 DEF HasContainer, HasParts
<1>8. /\ p.pool[o].type = "array" /\ Children(p.pool, o) = kids /\ p.pool[o].size = Len(kids)
  <2>1. p.pool[o].type = q.label[o].type
    BY <1>5, NodeThere
  <2>2. Children(p.pool, o) = q.kids[o]
    BY <1>5, NodeThere
  <2>3. p.pool[o].size = Len(q.kids[o])
    <3>1. o # 1
      BY <1>4, <1>5
    <3>2. QED
      <4>1. p.pool[o].size = Len(q.kids[o]) + (IF o = 1 THEN q.earlier ELSE 0)
        BY <1>5, NodeThere
      <4>2. Len(q.kids[o]) \in Nat
        BY <1>2, <1>7
      <4>3. QED
        BY <3>1, <4>1, <4>2
  <2>4. QED
    BY <1>7, <2>1, <2>2, <2>3
<1>9. kids \in Seq(Nat)
  <2>1. q.kids \in Seq(Seq(Nat)) /\ Len(q.kids) = Nodes(q)
    BY DEF IsParsed, ReaderInv, IsReader
  <2>2. QED
    BY <1>5, <2>1, ElementFacts
<1> HIDE DEF kids
<1>10. DOMAIN kids = 1..N
  BY <1>7, <1>9
<1>11. ASSUME NEW i \in 1..N
       PROVE  Item(p.pool[kids[i]]) = items[i]
  <2> DEFINE m == kids[i]
             n == items[i]
             token == ItemToken(n)
  <2>1. n \in Items
    BY <1>1, <1>2, ElementFacts DEF N
  <2>2. P[i].text = <<token>>
    BY <1>3, <2>1, ItemIsLeaf
  <2>3. m \in 1..Nodes(q) /\ m \in Nat /\ HasValue(q, m, <<token>>, Tokens)
    <3>1. m \in Nat /\ o < m /\ m <= Nodes(q) /\ HasValue(q, m, P[i].text, Tokens)
      BY <1>7 DEF HasPartAt
    <3>2. m \in 1..Nodes(q)
      BY <1>4, <1>5, <3>1
    <3>3. QED
      BY <2>2, <3>1, <3>2
  <2>4. token \in Tokens /\ IsLeaf(token)
    BY <2>1, ItemIsLeaf
  <2> HIDE DEF m, token
  <2>5. q.label[m].type = LeafType(token) /\ q.label[m].value = LeafContent(token)
    BY <2>3, <2>4, TokensFacts, LeafIsThere
  <2>6. p.pool[m].type = LeafType(token) /\ p.pool[m].value = LeafContent(token)
    <3>1. p.pool[m].type = q.label[m].type /\ p.pool[m].value = q.label[m].value
      BY <2>3, NodeThere
    <3>2. QED
      BY <2>5, <3>1
  <2>7. CASE n = NaN
    <3>1. LeafType(token) = "string"
      BY <2>7 DEF token, ItemToken, LeafType, Str
    <3>2. QED
      BY <2>6, <2>7, <3>1 DEF Item, m
  <2>8. CASE n # NaN
    <3>1. LeafType(token) = "number" /\ LeafContent(token).n = n
      BY <2>8 DEF token, ItemToken, LeafType, LeafContent, Integer, Num
    <3>2. LeafContent(token).t = "number" /\ Minus.t = "-"
      BY <2>8 DEF token, ItemToken, LeafContent, Integer, Num, Minus
    <3>3. LeafContent(token) # Minus
      BY <3>2
    <3>4. QED
      BY <2>6, <3>1, <3>3 DEF Item, m
  <2>9. QED
    BY <2>7, <2>8
<1>12. found = items
  <2>1. items = [k \in 1..N |-> items[k]]
    BY <1>1 DEF N
  <2>2. found = [k \in 1..N |-> items[k]]
    BY <1>11
  <2>3. QED
    BY <2>1, <2>2
<1>13. QED
  BY <1>7, <1>8, <1>10, <1>12 DEF items, N, ItemsAt

\* An array of the payload, or what is there instead.
LEMMA ItemsFound ==
    ASSUME NEW text, NEW p, NEW q, IsParsed(text, p, q),
           NEW k \in 1..Nodes(q), 1 < k, NEW P, HasContainer(q, k, "object", P, Tokens),
           NEW field \in Fields, NEW name,
           Gives(P, name, field.kind # "undefined", ItemsText(field))
    PROVE  ArrayMember(p, k, name) = field
<1> DEFINE o == Member(p, k, name)
           v == ItemsText(field)
           there == field.kind # "undefined"
<1>1. /\ field.kind \in {"undefined", "other", "array"} /\ field.items \in Seq(Items)
      /\ field.kind # "array" => field.items = <<>> /\ field.size = 0
      /\ field = [kind |-> field.kind, size |-> field.size, items |-> field.items]
      /\ field.size = Len(field.items)
  BY DEF Fields, IsWhole
<1>2. Nodes(q) \in Nat
  BY RootThere
<1>3. IF there THEN IsFound(o, q, k, v) ELSE o = IF k = 1 /\ q.earlier > 0 THEN -1 ELSE 0
  <2>1. there \in BOOLEAN /\ Gives(P, name, there, v)
    OBVIOUS
  <2> HIDE DEF there, v
  <2>2. QED
    BY <2>1, MemberFound
<1>4. ArrayMember(p, k, name)
        = IF o = 0 THEN [kind |-> "undefined", size |-> 0, items |-> <<>>]
          ELSE IF json_arrayLength(p.pool, o) < 0
            THEN [kind |-> "other", size |-> 0, items |-> <<>>]
          ELSE [kind |-> "array", size |-> json_arrayLength(p.pool, o),
                items |-> ItemsAt(p.pool, o)]
  BY Zenon DEF ArrayMember, ItemsAt
<1> HIDE DEF o, v
<1>5. CASE field.kind = "undefined"
  <2>1. ~there /\ k # 1
    BY <1>2, <1>5
  <2>2. o = 0
    BY <1>3, <2>1
  <2>3. QED
    BY <1>1, <1>4, <1>5, <2>2
<1>6. CASE field.kind # "undefined"
  <2>1. IsFound(o, q, k, v)
    BY <1>3, <1>6
  <2>2. o \in 1..Nodes(q) /\ k < o /\ HasValue(q, o, v, Tokens)
    BY <2>1 DEF IsFound
  <2>3. o # 0 /\ 1 < o /\ o \in Nat
    BY <1>2, <2>2
  <2>4. CASE field.kind = "other"
    <3>1. v = ContainerText(<<>>, "object")
      BY <2>4, ContainerNames DEF v, ItemsText
    <3>2. AreParts(<<>>, "object", Tokens) /\ HasTexts(<<>>, <<>>)
      BY NoMembers DEF IsMembers
    <3>3. HasContainer(q, o, "object", <<>>, Tokens)
      BY <1>2, <2>2, <2>3, <3>1, <3>2, TokensFacts, ContainerIsThere
    <3>4. p.pool[o].type = "object"
      <4>1. q.label[o].type = "object"
        BY <3>3 DEF HasContainer
      <4>2. p.pool[o].type = q.label[o].type
        BY <2>2, NodeThere
      <4>3. QED
        BY <4>1, <4>2
    <3>5. json_arrayLength(p.pool, o) < 0
      BY <3>4 DEF json_arrayLength
    <3>6. QED
      BY <1>1, <1>4, <2>3, <2>4, <3>5
  <2>5. CASE field.kind = "array"
    <3>1. v = ArrayText(ItemTexts(field))
      BY <2>5 DEF v, ItemsText
    <3>2. IsFound(o, q, 1, ArrayText(ItemTexts(field)))
      BY <2>2, <2>3, <3>1 DEF IsFound
    <3>3. /\ p.pool[o].type = "array" /\ p.pool[o].size = Len(field.items)
          /\ ItemsAt(p.pool, o) = field.items
      BY <3>2, ArrayFound
    <3>4. ~(json_arrayLength(p.pool, o) < 0) /\ json_arrayLength(p.pool, o) = field.size
      <4>1. Len(field.items) \in Nat
        BY <1>1, EmptyFacts
      <4>2. QED
        BY <1>1, <3>3, <4>1 DEF json_arrayLength
    <3>5. QED
      BY <1>1, <1>4, <2>3, <2>5, <3>3, <3>4
  <2>6. QED
    BY <1>1, <1>6, <2>4, <2>5
<1>7. QED
  BY <1>5, <1>6

\* What the three members of a text are found as.
HasFound(p, q, r, P) ==
    /\ HasContainer(q, 1, "object", P, Tokens) /\ HasMembers(P, r) /\ IsAsked(r)
    /\ q.earlier = 0 \/ IsComplete(r)

\* null is a value of one token, and it is no string.
LEMMA NullFacts ==
    Mark("null") \in Tokens /\ IsLeaf(Mark("null")) /\ LeafType(Mark("null")) = "null"
<1>1. IsLeaf(Mark("null")) /\ LeafType(Mark("null")) = "null"
  BY DEF IsLeaf, Primitives, Mark, LeafType
<1>2. QED
  BY <1>1, TokensFacts

\* A string of a request, and what is read of it.
LEMMA StringFacts ==
    ASSUME NEW s, s = <<>> \/ \E w \in Words : s = <<w>>
    PROVE  /\ Str(s) \in Tokens /\ IsLeaf(Str(s)) /\ LeafType(Str(s)) = "string"
           /\ LeafContent(Str(s)).s = s
<1>1. IsLeaf(Str(s)) /\ LeafType(Str(s)) = "string" /\ LeafContent(Str(s)) = Str(Decoded(s))
  BY DEF IsLeaf, Str, LeafType, LeafContent
<1>2. Decoded(s) = s /\ Str(s) \in Tokens
  BY EmptyDecoded, WordDecoded, TokensFacts
<1>3. QED
  BY <1>1, <1>2 DEF Str

\* The topic is what its text says.
LEMMA TopicFound ==
    ASSUME NEW text, NEW p, NEW q, IsParsed(text, p, q), NEW r, NEW P, HasFound(p, q, r, P)
    PROVE  StringMember(p, 1, "topic", TopicOf) = r.topic
<1> DEFINE s == IF r.topic = "empty" THEN <<>> ELSE <<r.topic>>
           o == Member(p, 1, "topic")
           v == NameText(r.topic, s)
<1>1. HasContainer(q, 1, "object", P, Tokens)
  BY DEF HasFound
<1>2. Gives(P, "topic", r.topic # "undefined", v)
  BY DEF HasFound, HasMembers
<1>3. r.topic \in Topics
  BY DEF HasFound, IsAsked
<1>4. CASE r.topic = "undefined"
  <2>1. (r.topic # "undefined") = FALSE
    BY <1>4
  <2>2. Gives(P, "topic", FALSE, v)
    BY <1>2, <2>1
  <2>3. q.earlier = 0
    BY <1>4, Zenon DEF HasFound, IsComplete
  <2> HIDE DEF o, v
  <2>4. o = 0
    BY <1>1, <2>2, <2>3, NoneFound DEF o
  <2>5. QED
    BY <1>4, <2>4, Zenon DEF StringMember, o
<1>5. CASE r.topic = "not a string"
  <2>1. (r.topic # "undefined") = TRUE /\ v = <<Mark("null")>>
    BY <1>5, Zenon DEF NameText
  <2>2. Gives(P, "topic", TRUE, <<Mark("null")>>)
    BY <1>2, <2>1
  <2> HIDE DEF o, v
  <2>3. o # 0 /\ p.pool[o].type = "null"
    <3> DEFINE token == Mark("null")
    <3>1. HasMember(text, p, q, "topic", <<token>>) /\ token \in Tokens /\ IsLeaf(token)
      BY <1>1, <2>2, NullFacts DEF HasMember
    <3> HIDE DEF token
    <3>2. IsToken(p, o, token)
      <4>1. o = Member(p, 1, "topic")
        BY DEF o
      <4>2. QED
        BY <3>1, <4>1, TokenFound
    <3>3. QED
      BY <3>2, NullFacts DEF token, IsToken
  <2>4. p.pool[o].type # "string"
    BY <2>3
  <2>5. QED
    BY <1>5, <2>3, <2>4, Zenon DEF StringMember, o
<1>6. CASE r.topic \in {"empty", "get/all", "set/out", "unknown"}
  <2>1. (r.topic # "undefined") = TRUE /\ v = <<Str(s)>>
    BY <1>6, Zenon DEF NameText
  <2>2. Gives(P, "topic", TRUE, <<Str(s)>>)
    BY <1>2, <2>1
  <2>3. s = <<>> \/ \E w \in Words : s = <<w>>
    <3>1. CASE r.topic = "empty"
      BY <3>1
    <3>2. CASE r.topic # "empty"
      <4>1. s = <<r.topic>> /\ r.topic \in Words
        BY <1>6, <3>2 DEF Words
      <4>2. QED
        BY <4>1
    <3>3. QED
      BY <3>1, <3>2
  <2>4. TopicOf(s) = r.topic
    <3>1. CASE r.topic = "empty"
      BY <3>1 DEF TopicOf
    <3>2. CASE r.topic # "empty"
      <4>1. s = <<r.topic>> /\ s # <<>> /\ s[1] = r.topic
        BY <3>2
      <4>2. s \in {<<"get/all">>, <<"set/out">>} <=> r.topic \in {"get/all", "set/out"}
        BY <4>1
      <4> HIDE DEF s
      <4>3. QED
        BY <1>6, <3>2, <4>1, <4>2, Zenon DEF TopicOf
    <3>3. QED
      BY <3>1, <3>2
  <2> HIDE DEF o, v, s
  <2>5. o # 0 /\ p.pool[o].type = "string" /\ p.pool[o].value.s = s
    <3> DEFINE token == Str(s)
    <3>1. HasMember(text, p, q, "topic", <<token>>) /\ token \in Tokens /\ IsLeaf(token)
      BY <1>1, <2>2, <2>3, StringFacts DEF HasMember
    <3>2. LeafType(token) = "string" /\ LeafContent(token).s = s
      BY <2>3, StringFacts
    <3> HIDE DEF token
    <3>3. IsToken(p, o, token)
      <4>1. o = Member(p, 1, "topic")
        BY DEF o
      <4>2. QED
        BY <3>1, <4>1, TokenFound
    <3>4. QED
      BY <3>2, <3>3 DEF IsToken
  <2>6. QED
    BY <2>4, <2>5, Zenon DEF StringMember, o
<1>7. QED
  BY <1>3, <1>4, <1>5, <1>6, Zenon DEF Topics

\* So is the _msgid.
LEMMA MsgidFound ==
    ASSUME NEW text, NEW p, NEW q, IsParsed(text, p, q), NEW r, NEW P, HasFound(p, q, r, P)
    PROVE  StringMember(p, 1, "_msgid", LAMBDA s : s[1]) = r.msgid
<1> DEFINE s == <<r.msgid>>
           o == Member(p, 1, "_msgid")
           v == NameText(r.msgid, s)
<1>1. HasContainer(q, 1, "object", P, Tokens)
  BY DEF HasFound
<1>2. Gives(P, "_msgid", r.msgid # "undefined", v)
  BY DEF HasFound, HasMembers
<1>3. r.msgid \in MsgIds \cup {"undefined", "not a string"}
  BY DEF HasFound, IsAsked
<1>4. CASE r.msgid = "undefined"
  <2>1. (r.msgid # "undefined") = FALSE
    BY <1>4
  <2>2. Gives(P, "_msgid", FALSE, v)
    BY <1>2, <2>1
  <2>3. q.earlier = 0
    BY <1>4, Zenon DEF HasFound, IsComplete
  <2> HIDE DEF o, v
  <2>4. o = 0
    BY <1>1, <2>2, <2>3, NoneFound DEF o
  <2>5. QED
    BY <1>4, <2>4, Zenon DEF StringMember, o
<1>5. CASE r.msgid = "not a string"
  <2>1. (r.msgid # "undefined") = TRUE /\ v = <<Mark("null")>>
    BY <1>5, Zenon DEF NameText
  <2>2. Gives(P, "_msgid", TRUE, <<Mark("null")>>)
    BY <1>2, <2>1
  <2> HIDE DEF o, v
  <2>3. o # 0 /\ p.pool[o].type = "null"
    <3> DEFINE token == Mark("null")
    <3>1. HasMember(text, p, q, "_msgid", <<token>>) /\ token \in Tokens /\ IsLeaf(token)
      BY <1>1, <2>2, NullFacts DEF HasMember
    <3> HIDE DEF token
    <3>2. IsToken(p, o, token)
      <4>1. o = Member(p, 1, "_msgid")
        BY DEF o
      <4>2. QED
        BY <3>1, <4>1, TokenFound
    <3>3. QED
      BY <3>2, NullFacts DEF token, IsToken
  <2>4. p.pool[o].type # "string"
    BY <2>3
  <2>5. QED
    BY <1>5, <2>3, <2>4, Zenon DEF StringMember, o
<1>6. CASE r.msgid \in MsgIds
  <2>1. r.msgid # "undefined" /\ r.msgid # "not a string"
    BY <1>6, IdAssumption
  <2>2. (r.msgid # "undefined") = TRUE /\ v = <<Str(s)>>
    BY <2>1, Zenon DEF NameText
  <2>3. Gives(P, "_msgid", TRUE, <<Str(s)>>)
    BY <1>2, <2>2
  <2>4. \E w \in Words : s = <<w>>
    BY <1>6 DEF Words
  <2>5. s[1] = r.msgid
    OBVIOUS
  <2> HIDE DEF o, v, s
  <2>6. o # 0 /\ p.pool[o].type = "string" /\ p.pool[o].value.s = s
    <3> DEFINE token == Str(s)
    <3>1. HasMember(text, p, q, "_msgid", <<token>>) /\ token \in Tokens /\ IsLeaf(token)
      BY <1>1, <2>3, <2>4, StringFacts DEF HasMember
    <3>2. LeafType(token) = "string" /\ LeafContent(token).s = s
      BY <2>4, StringFacts
    <3> HIDE DEF token
    <3>3. IsToken(p, o, token)
      <4>1. o = Member(p, 1, "_msgid")
        BY DEF o
      <4>2. QED
        BY <3>1, <4>1, TokenFound
    <3>4. QED
      BY <3>2, <3>3 DEF IsToken
  <2>7. QED
    BY <2>5, <2>6, Zenon DEF StringMember, o
<1>7. QED
  BY <1>3, <1>4, <1>5, <1>6, Zenon

\* The payload is found if it is there.
LEMMA PayloadLookedUp ==
    ASSUME NEW text, NEW p, NEW q, IsParsed(text, p, q), NEW r, NEW P, HasFound(p, q, r, P),
           NEW o, o = Member(p, 1, "payload")
    PROVE  IF r.payload = "undefined" THEN o = 0 ELSE HasPayload(p, q, o, r)
<1>1. HasContainer(q, 1, "object", P, Tokens)
  BY DEF HasFound
<1>2. Gives(P, "payload", r.payload # "undefined", PayloadText(r))
  BY DEF HasFound, HasMembers
<1>3. r.i \in Fields /\ r.v \in Fields
  BY Zenon DEF HasFound, IsAsked
<1>4. CASE r.payload = "undefined"
  <2>1. (r.payload # "undefined") = FALSE
    BY <1>4
  <2>2. Gives(P, "payload", FALSE, PayloadText(r))
    BY <1>2, <2>1
  <2>3. q.earlier = 0
    BY <1>4, Zenon DEF HasFound, IsComplete
  <2>4. o = 0
    BY <1>1, <2>2, <2>3, NoneFound
  <2>5. QED
    BY <1>4, <2>4
<1>5. CASE r.payload # "undefined"
  <2>1. (r.payload # "undefined") = TRUE
    BY <1>5
  <2>2. Gives(P, "payload", TRUE, PayloadText(r))
    BY <1>2, <2>1
  <2>3. HasPayload(p, q, o, r)
    BY <1>1, <1>3, <2>2, PayloadFound
  <2>4. QED
    BY <1>5, <2>3
<1>6. QED
  BY <1>4, <1>5

\* A payload that is there has the arrays of its request.
LEMMA ArraysFound ==
    ASSUME NEW text, NEW p, NEW q, IsParsed(text, p, q), NEW r, r.i \in Fields, r.v \in Fields,
           NEW o, HasPayload(p, q, o, r)
    PROVE  ArrayMember(p, o, "i") = r.i /\ ArrayMember(p, o, "v") = r.v
<1>1. o \in 1..Nodes(q) /\ 1 < o
  BY DEF HasPayload
<1>2. PICK P : /\ HasContainer(q, o, "object", P, Tokens)
               /\ Gives(P, "i", r.i.kind # "undefined", ItemsText(r.i))
               /\ Gives(P, "v", r.v.kind # "undefined", ItemsText(r.v))
  BY DEF HasPayload
<1>3. ArrayMember(p, o, "i") = r.i
  BY <1>1, <1>2, ItemsFound
<1>4. ArrayMember(p, o, "v") = r.v
  BY <1>1, <1>2, ItemsFound
<1>5. QED
  BY <1>3, <1>4

\* Where there is no payload nothing is found in it.
LEMMA NothingFound ==
    ASSUME NEW p, NEW name
    PROVE  ArrayMember(p, 0, name) = Unlooked
<1>1. Member(p, 0, name) = 0
  BY DEF Member, json_get
<1>2. QED
  BY <1>1 DEF ArrayMember, Unlooked

\* What the thread finds of a request.
LEMMA RequestFound ==
    ASSUME NEW text, NEW p, NEW q, IsParsed(text, p, q), p = json_parse(text),
           NEW r, NEW P, HasFound(p, q, r, P)
    PROVE  RequestIn(text) = Seen(r)
<1> DEFINE o == Member(p, 1, "payload")
           payload == IF o = 0 THEN "undefined" ELSE "given"
           i == IF r.topic = "set/out" THEN ArrayMember(p, o, "i") ELSE Unlooked
           v == IF r.topic = "set/out" THEN ArrayMember(p, o, "v") ELSE Unlooked
<1>1. p.current = 1 /\ p.state = "reading"
  BY RootThere
<1>2. StringMember(p, 1, "topic", TopicOf) = r.topic
  BY TopicFound
<1>3. StringMember(p, 1, "_msgid", LAMBDA s : s[1]) = r.msgid
  BY MsgidFound
<1>4. RequestIn(text) = [syntax |-> "ok", msgid |-> r.msgid, topic |-> r.topic,
                         payload |-> payload, i |-> i, v |-> v]
  BY <1>1, <1>2, <1>3, Zenon DEF RequestIn
<1>5. /\ r.payload \in {"undefined", "given"} /\ r.i \in Fields /\ r.v \in Fields
      /\ r.topic = "set/out" /\ r.payload = "undefined" => r.i = Unlooked /\ r.v = Unlooked
  BY Zenon DEF HasFound, IsAsked
<1>6. r = [syntax |-> "ok", msgid |-> r.msgid, topic |-> r.topic, payload |-> r.payload,
           i |-> r.i, v |-> r.v]
  BY Zenon DEF HasFound, IsAsked
<1>7. IF r.payload = "undefined" THEN o = 0 ELSE HasPayload(p, q, o, r)
  BY PayloadLookedUp
<1> HIDE DEF o
<1>8. payload = r.payload
  <2>1. CASE r.payload = "undefined"
    BY <1>7, <2>1
  <2>2. CASE r.payload # "undefined"
    <3>1. o \in 1..Nodes(q) /\ 1 < o /\ Nodes(q) \in Nat
      BY <1>7, <2>2, RootThere DEF HasPayload
    <3>2. o # 0
      BY <3>1
    <3>3. QED
      BY <1>5, <2>2, <3>2
  <2>3. QED
    BY <2>1, <2>2
<1>9. r.topic = "set/out" => i = r.i /\ v = r.v
  <2> HAVE r.topic = "set/out"
  <2>1. CASE r.payload = "undefined"
    BY <1>5, <1>7, <2>1, NothingFound
  <2>2. CASE r.payload # "undefined"
    BY <1>5, <1>7, <2>2, ArraysFound
  <2>3. QED
    BY <2>1, <2>2
<1>10. CASE r.topic = "set/out"
  <2>1. Seen(r) = r
    BY <1>10 DEF Seen
  <2>2. QED
    BY <1>4, <1>6, <1>8, <1>9, <1>10, <2>1
<1>11. CASE r.topic # "set/out"
  <2>1. i = Unlooked /\ v = Unlooked
    BY <1>11
  <2>2. Seen(r) = [r EXCEPT !.i = Unlooked, !.v = Unlooked]
    BY <1>11 DEF Seen
  <2>3. Seen(r) = [syntax |-> "ok", msgid |-> r.msgid, topic |-> r.topic,
                   payload |-> r.payload, i |-> Unlooked, v |-> Unlooked]
    <3>1. PICK id, topic, given, f, g :
                 r = [syntax |-> "ok", msgid |-> id, topic |-> topic, payload |-> given,
                      i |-> f, v |-> g]
      BY <1>6
    <3> DEFINE u == [r EXCEPT !.i = Unlooked]
    <3>a. u = [syntax |-> "ok", msgid |-> id, topic |-> topic, payload |-> given,
               i |-> Unlooked, v |-> g]
      BY <3>1
    <3>b. [r EXCEPT !.i = Unlooked, !.v = Unlooked] = [u EXCEPT !.v = Unlooked]
      OBVIOUS
    <3> HIDE DEF u
    <3>c. [u EXCEPT !.v = Unlooked]
            = [syntax |-> "ok", msgid |-> id, topic |-> topic, payload |-> given,
               i |-> Unlooked, v |-> Unlooked]
      BY <3>a
    <3>2. [r EXCEPT !.i = Unlooked, !.v = Unlooked]
            = [syntax |-> "ok", msgid |-> id, topic |-> topic, payload |-> given,
               i |-> Unlooked, v |-> Unlooked]
      BY <3>b, <3>c
    <3>3. r.msgid = id /\ r.topic = topic /\ r.payload = given
      BY <3>1
    <3>4. QED
      BY <2>2, <3>2, <3>3
  <2>4. QED
    BY <1>4, <1>8, <2>1, <2>3
<1>12. QED
  BY <1>10, <1>11

\* Of the requests of a read the last is found, or none.
THEOREM LastIsFound ==
    ASSUME NEW rs, Len(rs) \in Nat, Len(rs) > 0, DOMAIN rs = 1..Len(rs),
           \A k \in 1..Len(rs) : IsAsked(rs[k]), Len(rs) = 1 \/ IsComplete(rs[Len(rs)])
    PROVE  LastIsRead(rs)
<1> DEFINE text == TextOf(rs)
           q == ReaderAfter(text)
           p == json_parse(text)
           N == Len(rs)
           r == rs[N]
<1>1. HasReadTo(q, text, rs, N)
  BY TextOfIs
<1>2. N \in Nat /\ N > 0 /\ IsAsked(r)
  OBVIOUS
<1> HIDE DEF N, r
<1>3. /\ Fits(q) => IsParsed(text, p, q)
      /\ ~Fits(q) => p.state = "refused"
  <2> HIDE DEF text
  <2>1. QED
    BY <1>1, <1>2, TextParsed
<1>4. HasRequest(q, r) /\ (N = 1 => q.earlier = 0)
  BY <1>1, <1>2 DEF HasReadTo, r
<1>5. PICK P : HasMembers(P, r) /\ HasContainer(q, 1, "object", P, Tokens)
  BY <1>4, Zenon DEF HasRequest
<1>6. HasFound(p, q, r, P)
  BY <1>2, <1>4, <1>5, Zenon DEF HasFound, N, r
<1>7. CASE Fits(q)
  <2>1. RequestIn(text) = Seen(r)
    <3>1. IsParsed(text, p, q)
      BY <1>3, <1>7
    <3>2. p = json_parse(text)
      OBVIOUS
    <3> HIDE DEF text, q, p
    <3>3. QED
      BY <1>6, <3>1, <3>2, RequestFound
  <2>2. QED
    BY <1>7, <2>1, Zenon DEF LastIsRead, r, N
<1>8. CASE ~Fits(q)
  <2>1. RequestIn(text) = SyntaxError
    BY <1>3, <1>8, Zenon DEF RequestIn
  <2>2. QED
    BY <1>8, <2>1, Zenon DEF LastIsRead
<1>9. QED
  BY <1>7, <1>8

\* Every read of the set.
LEMMA LastOnesFound == LastOnesAreRead
<1>1. ASSUME NEW rs \in Reads PROVE LastIsRead(rs)
  <2>1. /\ rs \in Seq(Range(rs)) /\ rs # <<>>
        /\ \A k \in 1..Len(rs) : IsAsked(rs[k])
        /\ Len(rs) = 1 \/ IsComplete(rs[Len(rs)])
    BY ReadsAssumption
  <2> DEFINE S == Range(rs)
  <2>2. rs \in Seq(S)
    BY <2>1
  <2> HIDE DEF S
  <2>3. Len(rs) \in Nat /\ Len(rs) > 0 /\ DOMAIN rs = 1..Len(rs)
    BY <2>1, <2>2, EmptyFacts
  <2>4. QED
    BY <2>1, <2>3, LastIsFound
<1>2. QED
  BY <1>1 DEF LastOnesAreRead

\* The last request of a read is found as its client wrote it, and nothing of those
\* before it; a read that does not fit in the pool is refused whole.
THEOREM LastRequestsAreRead == Spec => []LastRequestIsRead
<1>1. LastOnesAreRead
  BY LastOnesFound
<1>2. LastRequestIsRead
  BY <1>1 DEF LastRequestIsRead
<1>3. QED
  BY <1>2, PTL
=============================================================================
