--------------------------- MODULE GatewayProofs ---------------------------
(***************************************************************************)
(* What the pages show and what becomes of a pulse, proved for any number  *)
(* of pages, inputs and outputs, and any length of the two channels.       *)
(***************************************************************************)
EXTENDS Gateway, SequenceTheorems, TLAPS

-----------------------------------------------------------------------------
(* Sequences and replies *)

\* What is left of a channel when n messages were taken.
LEMMA RestOfSequence ==
    ASSUME NEW S, NEW s \in Seq(S), NEW n \in 0..Len(s)
    PROVE  /\ SubSeq(s, n + 1, Len(s)) \in Seq(S)
           /\ DOMAIN SubSeq(s, n + 1, Len(s)) = 1..(Len(s) - n)
           /\ \A i \in 1..(Len(s) - n) : SubSeq(s, n + 1, Len(s))[i] = s[i + n]
<1>1. Len(s) \in Nat /\ \A i \in 1..Len(s) : s[i] \in S
  BY LenProperties, ElementOfSeq
<1>2. \A i \in (n + 1)..Len(s) : s[i] \in S
  BY <1>1
<1>3. n + 1 \in Int /\ Len(s) \in Int
  BY <1>1
<1> DEFINE rest == SubSeq(s, n + 1, Len(s))
<1>4. /\ rest \in Seq(S)
      /\ Len(rest) = IF n + 1 <= Len(s) THEN Len(s) - (n + 1) + 1 ELSE 0
      /\ \A i \in 1..(Len(s) - (n + 1) + 1) : rest[i] = s[(n + 1) + i - 1]
  BY <1>2, <1>3, SubSeqProperties
<1> HIDE DEF rest
<1>5. Len(rest) = Len(s) - n /\ DOMAIN rest = 1..Len(rest)
  BY <1>1, <1>4, LenProperties
<1>6. QED
  BY <1>1, <1>4, <1>5 DEF rest

\* What a channel is when a message was sent.
LEMMA SentSequence ==
    ASSUME NEW S, NEW s \in Seq(S), NEW x \in S
    PROVE  /\ Append(s, x) \in Seq(S)
           /\ DOMAIN Append(s, x) = 1..(Len(s) + 1)
           /\ Append(s, x)[Len(s) + 1] = x
           /\ \A i \in 1..Len(s) : Append(s, x)[i] = s[i]
<1>1. Append(s, x) \in Seq(S) /\ Len(Append(s, x)) = Len(s) + 1
  BY AppendProperties
<1>2. QED
  BY <1>1, AppendProperties, LenProperties

\* The domain of a sequence.
LEMMA DomainOfSequence ==
    ASSUME NEW S, NEW s \in Seq(S)
    PROVE  Len(s) \in Nat /\ DOMAIN s = 1..Len(s) /\ \A i \in DOMAIN s : s[i] \in S
BY LenProperties, ElementOfSeq

\* What a reply tells is a part of the values.
LEMMA RestrictTells ==
    ASSUME NEW f \in [Keys -> {0, 1}], NEW keys \in SUBSET Keys
    PROVE  /\ Restrict(f, keys) \in ToldSet
           /\ DOMAIN Restrict(f, keys) = keys
           /\ \A k \in keys : Restrict(f, keys)[k] = f[k]
<1>1. Restrict(f, keys) = [k \in keys |-> f[k]]
  BY DEF Restrict
<1>2. Restrict(f, keys) \in [keys -> {0, 1}]
  BY <1>1
<1>3. QED
  BY <1>1, <1>2 DEF ToldSet

\* A reply carries what it tells, whole.
LEMMA ReplyTyped ==
    ASSUME NEW told \in ToldSet, NEW json \in BOOLEAN
    PROVE  Reply(told, json) \in ReplySet /\ Reply(told, json).told = told
           /\ Reply(told, json).whole
BY DEF Reply, ReplySet

\* What is told is told of keys, in values.
LEMMA ToldIsValues ==
    ASSUME NEW told \in ToldSet
    PROVE  DOMAIN told \subseteq Keys /\ \A k \in DOMAIN told : told[k] \in {0, 1}
BY DEF ToldSet

\* The requests of the pages are requests.
LEMMA RequestTyped ==
    GetAll \in RequestSet /\ \A k \in Outputs, v \in {0, 1} : SetOut(k, v) \in RequestSet
BY DEF RequestSet

-----------------------------------------------------------------------------
(* Types *)

ValuesOK ==
    /\ value \in [Keys -> {0, 1}] /\ flagged \subseteq Keys
    /\ api \in {"accept", "serve", "stale", "ended"}
    /\ tcp \in {"trying", "open", "closing", "waiting"}
    /\ api = "serve" => tcp = "open"

RequestsOK == requests \in Seq(RequestSet) /\ (requests # <<>> => tcp = "open")

RepliesOK ==
    /\ replies \in Seq(ReplySet)
    /\ \A i \in DOMAIN replies : i > 1 => replies[i].whole
    /\ replies # <<>> => tcp \in {"open", "closing"}

BrowserOK ==
    /\ page \in [Pages -> {"loading", "open", "ready", "cut"}]
    /\ view \in [Pages -> [Keys -> {0, 1}]]
    /\ pulses \in [Pages -> SUBSET Outputs]

HistoryOK ==
    /\ lost \in [Pages -> SUBSET Keys]
    /\ dropped \subseteq Outputs /\ cleaned \subseteq Outputs

USE DEF daemon, channel, browser, history

Types == ValuesOK /\ RequestsOK /\ RepliesOK /\ BrowserOK /\ HistoryOK

\* The type invariant in its five parts.
LEMMA TypeParts == Types => TypeOK
BY DEF Types, TypeOK, ValuesOK, RequestsOK, RepliesOK, BrowserOK, HistoryOK

\* What a channel carries, told of the keys it tells.
LEMMA ToldAreKeys ==
    ASSUME NEW seq \in Seq(ReplySet)
    PROVE  Told(seq) \in SUBSET Keys
<1>1. \A i \in DOMAIN seq : seq[i] \in ReplySet
  BY DomainOfSequence
<1>2. \A i \in DOMAIN seq : seq[i].told \in ToldSet
  BY <1>1 DEF ReplySet
<1>3. QED
  BY <1>2, ToldIsValues DEF Told

\* What is lost is of keys.
LEMMA LoseTyped ==
    ASSUME HistoryOK, NEW keys \in SUBSET Keys, Lose(keys)
    PROVE  lost' \in [Pages -> SUBSET Keys]
BY DEF HistoryOK, Lose

\* What is forwarded is a request, on an open connection.
LEMMA ForwardTyped ==
    ASSUME RequestsOK, HistoryOK, NEW r \in RequestSet, Forward(r), tcp' = tcp
    PROVE  RequestsOK' /\ dropped' \subseteq Outputs
<1>1. CASE tcp = "open"
  <2>1. requests' = Append(requests, r) /\ dropped' = dropped
    BY <1>1 DEF Forward
  <2>2. QED
    BY <1>1, <2>1, SentSequence DEF RequestsOK, HistoryOK
<1>2. CASE tcp # "open"
  BY <1>2 DEF Forward, RequestsOK, HistoryOK, Openings
<1>3. QED
  BY <1>1, <1>2

\* So is what a page sends.
LEMMA SendTyped ==
    ASSUME RequestsOK, HistoryOK, NEW r \in RequestSet, NEW p, Send(p, r), tcp' = tcp
    PROVE  RequestsOK' /\ dropped' \subseteq Outputs
<1>1. CASE IsOpen(p)
  BY <1>1, ForwardTyped DEF Send
<1>2. CASE ~IsOpen(p)
  BY <1>2 DEF Send, RequestsOK, HistoryOK, Openings
<1>3. QED
  BY <1>1, <1>2

\* The two channels are empty at first, and nothing is told.
LEMMA TypesInit == Init => Types
<1>1. <<>> \in Seq(RequestSet) /\ <<>> \in Seq(ReplySet) /\ DOMAIN <<>> = {}
  BY EmptySeq, LenProperties
<1>2. QED
  BY <1>1 DEF Init, Types, ValuesOK, RequestsOK, RepliesOK, BrowserOK, HistoryOK, Keys

\* One reply goes to the gateway.
LEMMA ReplyKeepsTypes ==
    ASSUME Types, NEW told \in ToldSet, NEW json \in BOOLEAN,
           api = "serve", UNCHANGED tcp,
           replies' = Append(replies, Reply(told, json))
    PROVE  RepliesOK'
<1>1. Reply(told, json) \in ReplySet /\ Reply(told, json).whole
  BY ReplyTyped
<1>2. replies \in Seq(ReplySet) /\ tcp = "open"
  BY DEF Types, ValuesOK, RepliesOK
<1>3. \A i \in 1..(Len(replies) + 1) : i > 1 => replies'[i].whole
  BY <1>1, <1>2, SentSequence, DomainOfSequence DEF Types, RepliesOK
<1>4. QED
  BY <1>1, <1>2, <1>3, SentSequence DEF RepliesOK

\* A read leaves requests, and its last one is one.
LEMMA TakeKeepsTypes ==
    ASSUME Types, NEW n \in DOMAIN requests, TakeRequests(n), UNCHANGED tcp
    PROVE  RequestsOK' /\ Passed(n) \subseteq Outputs
           /\ LastOfRead(n) \in RequestSet
<1>1. requests \in Seq(RequestSet) /\ tcp = "open"
  BY DEF Types, ValuesOK, RequestsOK, TakeRequests
<1>2. n \in 0..Len(requests) /\ requests[n] \in RequestSet
  BY <1>1, DomainOfSequence
<1>3. requests' \in Seq(RequestSet)
  BY <1>1, <1>2, RestOfSequence DEF TakeRequests
<1>4. QED
  BY <1>1, <1>2, <1>3 DEF RequestsOK, Passed, Openings, LastOfRead

\* The input of a value, a flag, or nothing: the daemon's steps without a reply.
LEMMA InputTyped ==
    ASSUME Types,
           \/ \E k \in Inputs, v \in {0, 1} : InputChanges(k, v)
           \/ Accept
           \/ ReadEnd
    PROVE  Types'
<1>1. ValuesOK'
  BY DEF Types, ValuesOK, InputChanges, Accept, ReadEnd, Keys
<1>2. RequestsOK' /\ RepliesOK' /\ BrowserOK' /\ HistoryOK'
  BY DEF Types, RequestsOK, RepliesOK, BrowserOK, HistoryOK, InputChanges, Accept, ReadEnd
<1>3. QED
  BY <1>1, <1>2 DEF Types

\* A reply that nobody asked for.
LEMMA TimeoutTyped ==
    ASSUME Types, Timeout
    PROVE  Types'
<1>1. Restrict(value, flagged) \in ToldSet
  BY RestrictTells DEF Types, ValuesOK
<1>2. RepliesOK'
  BY <1>1, ReplyKeepsTypes DEF Timeout
<1>3. ValuesOK' /\ RequestsOK' /\ BrowserOK' /\ HistoryOK'
  BY DEF Types, ValuesOK, RequestsOK, BrowserOK, HistoryOK, Timeout
<1>4. QED
  BY <1>2, <1>3 DEF Types

\* The four ends of a read.
LEMMA ServeTyped ==
    ASSUME Types, NEW n \in DOMAIN requests,
           ServeGetAll(n) \/ ServeSetOut(n) \/ SetOutFails(n) \/ RefuseRead(n)
    PROVE  Types'
<1> DEFINE r == LastOfRead(n)
<1>1. /\ TakeRequests(n) /\ api = "serve"
      /\ UNCHANGED <<api, tcp, browser, lost, cleaned>>
  BY DEF ServeGetAll, ServeSetOut, SetOutFails, RefuseRead, TakeRequests
<1>2. RequestsOK' /\ Passed(n) \subseteq Outputs /\ r \in RequestSet
  BY <1>1, TakeKeepsTypes
<1>3. BrowserOK'
  BY <1>1 DEF Types, BrowserOK
<1>4. CASE ServeGetAll(n)
  <2>1. value \in ToldSet
    BY DEF Types, ValuesOK, ToldSet
  <2>2. RepliesOK'
    BY <1>1, <1>4, <2>1, ReplyKeepsTypes DEF ServeGetAll
  <2>3. ValuesOK' /\ HistoryOK'
    BY <1>2, <1>4 DEF Types, ValuesOK, HistoryOK, ServeGetAll
  <2>4. QED
    BY <1>2, <1>3, <2>2, <2>3 DEF Types
<1>5. CASE ServeSetOut(n)
  <2> DEFINE new == [value EXCEPT ![r.key] = r.v]
             up  == IF r.v = value[r.key] THEN flagged ELSE flagged \cup {r.key}
  <2>1. r.key \in Outputs /\ r.v \in {0, 1}
    BY <1>2, <1>5 DEF RequestSet, SetOut, ServeSetOut
  <2>2. value' = new /\ flagged' = up \ Outputs /\ up \subseteq Keys
        /\ replies' = Append(replies, Reply(Restrict(new, up \cap Outputs), TRUE))
    BY <1>5, <2>1 DEF ServeSetOut, Written, Types, ValuesOK, Keys
  <2>3. value' \in [Keys -> {0, 1}]
    BY <2>1, <2>2 DEF Types, ValuesOK, Keys
  <2>4. new \in [Keys -> {0, 1}] /\ up \cap Outputs \in SUBSET Keys
    BY <2>2, <2>3
  <2> HIDE DEF new, up
  <2>5. Restrict(new, up \cap Outputs) \in ToldSet
    BY <2>4, RestrictTells
  <2>6. RepliesOK'
    BY <1>1, <2>2, <2>5, ReplyKeepsTypes
  <2>7. ValuesOK'
    BY <1>1, <2>2, <2>3 DEF Types, ValuesOK
  <2>8. dropped' \subseteq dropped \cup Passed(n)
    BY <1>5 DEF ServeSetOut
  <2>9. HistoryOK'
    BY <1>1, <1>2, <2>8 DEF Types, HistoryOK
  <2>10. QED
    BY <1>2, <1>3, <2>6, <2>7, <2>9 DEF Types
<1>6. CASE SetOutFails(n)
  <2>1. Nothing \in ToldSet
    BY DEF Nothing, ToldSet
  <2>2. RepliesOK'
    BY <1>1, <1>6, <2>1, ReplyKeepsTypes DEF SetOutFails
  <2>3. ValuesOK' /\ HistoryOK'
    BY <1>2, <1>6 DEF Types, ValuesOK, HistoryOK, SetOutFails, Openings
  <2>4. QED
    BY <1>2, <1>3, <2>2, <2>3 DEF Types
<1>7. CASE RefuseRead(n)
  <2>1. Nothing \in ToldSet
    BY DEF Nothing, ToldSet
  <2>2. RepliesOK'
    BY <1>1, <1>7, <2>1, ReplyKeepsTypes DEF RefuseRead
  <2>3. ValuesOK' /\ HistoryOK'
    BY <1>1, <1>7 DEF Types, ValuesOK, HistoryOK, RefuseRead, Openings
  <2>4. QED
    BY <1>2, <1>3, <2>2, <2>3 DEF Types
<1>8. QED
  BY <1>4, <1>5, <1>6, <1>7

\* The daemon loses its client, or ends, or starts again.
LEMMA DaemonTyped ==
    ASSUME Types, WriteToNobody \/ DaemonStops \/ DaemonStarts
    PROVE  Types'
<1> USE DEF WriteToNobody, DaemonStops, DaemonStarts, Keys
<1>1. ValuesOK' /\ BrowserOK'
  BY DEF Types, ValuesOK, BrowserOK, Keys
<1>2. RequestsOK'
  BY EmptySeq DEF Types, ValuesOK, RequestsOK
<1>3. RepliesOK'
  BY DEF Types, RepliesOK
<1>4. HistoryOK'
  <2>1. flagged \in SUBSET Keys /\ Inputs \in SUBSET Keys
    BY DEF Types, ValuesOK, Keys
  <2>2. lost' \in [Pages -> SUBSET Keys]
    BY <2>1, LoseTyped DEF Types, HistoryOK
  <2>3. QED
    BY <2>2 DEF Types, HistoryOK, Openings
<1>5. QED
  BY <1>1, <1>2, <1>3, <1>4 DEF Types

\* The gateway connects, waits, is told of a close, or is restarted.
LEMMA GatewayTyped ==
    ASSUME Types, connect \/ setTimeout \/ onClose \/ GatewayRestarts
    PROVE  Types'
<1> USE DEF connect, setTimeout, onClose, GatewayRestarts, AfterClose
<1>1. ValuesOK' /\ BrowserOK'
  BY DEF Types, ValuesOK, BrowserOK
<1>2. <<>> \in Seq(RequestSet) /\ <<>> \in Seq(ReplySet) /\ DOMAIN <<>> = {}
  BY EmptySeq, LenProperties
<1>3. RequestsOK' /\ RepliesOK'
  BY <1>2 DEF Types, RequestsOK, RepliesOK
<1>4. HistoryOK'
  <2>1. Told(replies) \in SUBSET Keys
    BY ToldAreKeys DEF Types, RepliesOK
  <2>2. lost' \in [Pages -> SUBSET Keys]
    BY <2>1, LoseTyped DEF Types, HistoryOK
  <2>3. QED
    BY <2>2 DEF Types, HistoryOK, Openings
<1>5. QED
  BY <1>1, <1>3, <1>4 DEF Types

\* The chunks that come keep what is left of the stream a stream of replies.
LEMMA RestIsReplies ==
    ASSUME Types, NEW n \in 0..Len(replies), NEW cut \in BOOLEAN, onData(n, cut)
    PROVE  /\ replies' \in Seq(ReplySet)
           /\ DOMAIN replies' = 1..(Len(replies) - n)
           /\ \A i \in DOMAIN replies' : /\ replies'[i].told = replies[i + n].told
                                         /\ i > 1 => replies'[i].whole
<1> DEFINE rest == SubSeq(replies, n + 1, Len(replies))
<1>1. replies \in Seq(ReplySet)
  BY DEF Types, RepliesOK
<1>2. /\ rest \in Seq(ReplySet) /\ DOMAIN rest = 1..(Len(replies) - n)
      /\ \A i \in DOMAIN rest : rest[i] = replies[i + n]
  BY <1>1, RestOfSequence
<1>3. replies' = IF cut THEN [rest EXCEPT ![1].whole = FALSE] ELSE rest
  BY DEF onData
<1>4. Len(replies) \in Nat /\ DOMAIN replies = 1..Len(replies)
  BY <1>1, DomainOfSequence
<1>5. cut => n < Len(replies)
  BY DEF onData
<1> HIDE DEF rest
<1>6. \A i \in DOMAIN rest : i > 1 => rest[i].whole
  BY <1>2, <1>4 DEF Types, RepliesOK
<1>7. CASE ~cut
  BY <1>2, <1>3, <1>6, <1>7
<1>8. CASE cut
  <2> DEFINE head == [rest[1] EXCEPT !.whole = FALSE]
  <2>1. 1 \in 1..Len(rest) /\ rest[1] \in ReplySet
    BY <1>2, <1>4, <1>5, <1>8, DomainOfSequence
  <2>2. head \in ReplySet /\ head.told = rest[1].told
    BY <2>1 DEF ReplySet
  <2>3. replies' = [rest EXCEPT ![1] = head]
    BY <1>3, <1>8
  <2> HIDE DEF head
  <2>4. /\ replies' \in Seq(ReplySet) /\ DOMAIN replies' = DOMAIN rest
        /\ \A i \in DOMAIN rest : replies'[i] = IF i = 1 THEN head ELSE rest[i]
    BY <1>2, <2>1, <2>2, <2>3, ExceptSeq
  <2>5. QED
    BY <1>2, <1>6, <2>2, <2>4
<1>9. QED
  BY <1>7, <1>8

\* A chunk reaches the gateway, and perhaps the pages.
LEMMA DataTyped ==
    ASSUME Types, NEW n \in 0..Len(replies), NEW cut \in BOOLEAN, onData(n, cut)
    PROVE  Types'
<1>1. replies \in Seq(ReplySet) /\ Len(replies) \in Nat /\ DOMAIN replies = 1..Len(replies)
  BY DomainOfSequence DEF Types, RepliesOK
<1>2. ValuesOK' /\ RequestsOK'
  BY DEF Types, ValuesOK, RequestsOK, onData
<1>3. RepliesOK'
  BY RestIsReplies DEF onData, RepliesOK
<1>4. CASE IsMessage(n, cut)
  <2> DEFINE told == replies[1].told
  <2>1. n = 1 /\ told \in ToldSet
    <3>1. n = 1 /\ replies[1] \in ReplySet
      BY <1>1, <1>4, DomainOfSequence DEF IsMessage
    <3>2. QED
      BY <3>1 DEF ReplySet
  <2>2. DOMAIN told \subseteq Keys /\ \A k \in DOMAIN told : told[k] \in {0, 1}
    BY <2>1, ToldIsValues
  <2>3. /\ view' = [p \in Pages |-> IF IsOpen(p) THEN Updated(told, view[p]) ELSE view[p]]
        /\ lost' = [p \in Pages |-> IF IsOpen(p) /\ tcp = "open"
                                    THEN lost[p] \ DOMAIN told ELSE lost[p]]
        /\ UNCHANGED <<page, pulses, dropped, cleaned>>
    BY <1>4 DEF onData
  <2> HIDE DEF told
  <2>4. \A p \in Pages : Updated(told, view[p]) \in [Keys -> {0, 1}]
    BY <2>2 DEF Updated, Types, BrowserOK
  <2>5. BrowserOK' /\ HistoryOK'
    BY <2>3, <2>4 DEF Types, BrowserOK, HistoryOK
  <2>6. QED
    BY <1>2, <1>3, <2>5 DEF Types
<1>5. CASE ~IsMessage(n, cut)
  <2>1. SubSeq(replies, 1, n) \in Seq(ReplySet)
    <3>1. \A i \in 1..n : replies[i] \in ReplySet
      BY <1>1, DomainOfSequence
    <3>2. QED
      BY <3>1, SubSeqProperties
  <2>2. Told(SubSeq(replies, 1, n)) \in SUBSET Keys
    BY <2>1, ToldAreKeys
  <2>3. /\ Lose(Told(SubSeq(replies, 1, n)))
        /\ UNCHANGED <<view, page, pulses, dropped, cleaned>>
    BY <1>5 DEF onData
  <2>4. BrowserOK' /\ HistoryOK'
    BY <2>2, <2>3, LoseTyped DEF Types, BrowserOK, HistoryOK
  <2>5. QED
    BY <1>2, <1>3, <2>4 DEF Types
<1>6. QED
  BY <1>4, <1>5

\* A page comes, asks or goes.
LEMMA PageTyped ==
    ASSUME Types, NEW p \in Pages, Load(p) \/ onopen(p) \/ AppIsReady(p) \/ onclose(p)
    PROVE  Types'
<1> USE DEF Load, onopen, AppIsReady, onclose, Goes
<1>1. ValuesOK' /\ RepliesOK'
  BY DEF Types, ValuesOK, RepliesOK
<1>2. BrowserOK'
  <2>1. page' \in [Pages -> {"loading", "open", "ready", "cut"}]
    BY DEF Types, BrowserOK
  <2>2. [k \in Keys |-> 0] \in [Keys -> {0, 1}]
    OBVIOUS
  <2>3. view' \in [Pages -> [Keys -> {0, 1}]] /\ pulses' \in [Pages -> SUBSET Outputs]
    BY <2>2 DEF Types, BrowserOK
  <2>4. QED
    BY <2>1, <2>3 DEF BrowserOK
<1>3. lost' \in [Pages -> SUBSET Keys]
  BY DEF Types, HistoryOK
<1>4. RequestsOK' /\ dropped' \subseteq Outputs /\ cleaned' \subseteq Outputs
  <2>1. CASE AppIsReady(p)
    BY <2>1, SendTyped, RequestTyped DEF Types, HistoryOK
  <2>2. CASE ~AppIsReady(p)
    BY <2>2 DEF Types, RequestsOK, HistoryOK, BrowserOK
  <2>3. QED
    BY <2>1, <2>2
<1>5. QED
  BY <1>1, <1>2, <1>3, <1>4 DEF Types, HistoryOK

\* A click and its timer.
LEMMA PulseTyped ==
    ASSUME Types, NEW p \in Pages, NEW k \in Outputs, sendPulseOnKA(p, k) \/ pulseTimeout(p, k)
    PROVE  Types'
<1> USE DEF sendPulseOnKA, pulseTimeout
<1>1. ValuesOK' /\ RepliesOK'
  BY DEF Types, ValuesOK, RepliesOK
<1>2. BrowserOK'
  BY DEF Types, BrowserOK
<1>3. RequestsOK' /\ dropped' \subseteq Outputs /\ cleaned' \subseteq Outputs
  BY SendTyped, RequestTyped DEF Types, HistoryOK
<1>4. QED
  BY <1>1, <1>2, <1>3 DEF Types, HistoryOK

\* Every step keeps the types.
LEMMA TypesStep == Types /\ [Next]_vars => Types'
<1> SUFFICES ASSUME Types, [Next]_vars PROVE Types'
  OBVIOUS
<1>1. CASE UNCHANGED vars
  BY <1>1 DEF vars, Types, ValuesOK, RequestsOK, RepliesOK, BrowserOK, HistoryOK
<1>2. CASE apiThread
  BY <1>2, InputTyped, TimeoutTyped, ServeTyped, DaemonTyped DEF apiThread, Serve
<1>3. CASE gateway
  BY <1>3, GatewayTyped DEF gateway
<1>4. CASE Receive
  BY <1>4, DataTyped DEF Receive
<1>5. CASE PulseEnds
  BY <1>5, PulseTyped DEF PulseEnds
<1>6. CASE Environment
  BY <1>6, InputTyped, DaemonTyped, GatewayTyped, PageTyped, PulseTyped DEF Environment
<1>7. QED
  BY <1>1, <1>2, <1>3, <1>4, <1>5, <1>6 DEF Next

\* Whatever stops, is restarted, dropped or cut in two: the state has its types,
\* the API thread serves the connection the gateway holds, and what is in a
\* channel has a connection to be in.
THEOREM TypeCorrect == Spec => []TypeOK
<1>1. Spec => []Types
  BY TypesInit, TypesStep, PTL DEF Spec
<1>2. QED
  BY <1>1, TypeParts, PTL

-----------------------------------------------------------------------------
(* Relays. A request to close one is watched like a closed one: by the timer of *)
(* a page, by an opening behind it, or not at all because that was dropped. What *)
(* the end of the daemon closes stays so until it is started again.              *)

Watched(k) == k \in dropped \/ \E p \in Pages : k \in pulses[p]

RequestAccounts ==
    \A k \in Outputs, i \in DOMAIN requests :
        requests[i] = SetOut(k, 1) =>
            Watched(k) \/ \E j \in DOMAIN requests : j > i /\ requests[j] = SetOut(k, 0)

RelayInv == RelayAccounts /\ RequestAccounts

\* Requests are told apart.
LEMMA RequestsDiffer ==
    /\ \A k, v : SetOut(k, v) # GetAll
    /\ \A k, l, v, w : SetOut(k, v) = SetOut(l, w) => k = l /\ v = w
    /\ \A k, v : SetOut(k, v).key = k /\ SetOut(k, v).v = v
BY DEF SetOut, GetAll

\* No relay is closed at first.
LEMMA RelayInit == Init => RelayInv
<1>1. DOMAIN <<>> = {}
  BY EmptySeq, LenProperties
<1>2. QED
  BY <1>1 DEF Init, RelayInv, RelayAccounts, RequestAccounts, Keys

\* A step that neither closes a relay nor touches the requests nor forgets a
\* timer without a trace.
LEMMA QuietRelays ==
    ASSUME RelayInv, UNCHANGED requests,
           \A k \in Outputs : value'[k] = 1 => value[k] = 1 /\ (k \in cleaned => k \in cleaned'),
           \A k \in Outputs : Watched(k) => Watched(k)'
    PROVE  RelayInv'
BY DEF RelayInv, RelayAccounts, RequestAccounts, Openings, Watched

\* The connection goes, and what was on it, and perhaps the daemon.
LEMMA CutRelays ==
    ASSUME RelayInv, requests' = <<>>, dropped' = dropped \cup Openings(requests),
           UNCHANGED pulses, cleaned \subseteq cleaned',
           \A k \in Outputs : value'[k] = 1 => value[k] = 1 \/ k \in cleaned'
    PROVE  RelayInv'
<1>1. DOMAIN <<>> = {}
  BY EmptySeq, LenProperties
<1>2. QED
  BY <1>1 DEF RelayInv, RelayAccounts, RequestAccounts, Openings, Watched

\* A request is sent, and the timers are right for it: k has one if the request
\* closes it.
LEMMA SendRelays ==
    ASSUME Types, RelayInv, NEW p, NEW r \in RequestSet, Send(p, r),
           UNCHANGED <<value, cleaned>>,
           \A k \in Outputs : r = SetOut(k, 1) => \E q \in Pages : k \in pulses'[q],
           \A k \in Outputs : r # SetOut(k, 0) /\ Watched(k) => Watched(k)'
    PROVE  RelayInv'
<1>1. requests \in Seq(RequestSet) /\ Len(requests) \in Nat /\ DOMAIN requests = 1..Len(requests)
  BY DomainOfSequence DEF Types, RequestsOK
<1>2. CASE requests' = Append(requests, r)
  <2>1. /\ DOMAIN requests' = 1..(Len(requests) + 1)
        /\ requests'[Len(requests) + 1] = r
        /\ \A i \in DOMAIN requests : requests'[i] = requests[i]
    BY <1>1, <1>2, SentSequence
  <2>2. \A i \in DOMAIN requests : i \in DOMAIN requests' /\ Len(requests) + 1 > i
    BY <1>1, <2>1
  <2>3. Len(requests) + 1 \in DOMAIN requests'
    BY <1>1, <2>1
  <2>4. RelayAccounts'
    BY <2>1, <2>2, <2>3 DEF RelayInv, RelayAccounts, Openings, Watched
  <2>5. RequestAccounts'
    <3> SUFFICES ASSUME NEW k \in Outputs, NEW i \in DOMAIN requests',
                        requests'[i] = SetOut(k, 1)
                 PROVE  Watched(k)' \/ \E j \in DOMAIN requests' :
                                          j > i /\ requests'[j] = SetOut(k, 0)
      BY DEF RequestAccounts
    <3>1. CASE i = Len(requests) + 1
      BY <2>1, <3>1 DEF Watched
    <3>2. CASE i # Len(requests) + 1
      <4>1. i \in DOMAIN requests
        BY <1>1, <2>1, <3>2
      <4>2. Watched(k) \/ \E j \in DOMAIN requests : j > i /\ requests[j] = SetOut(k, 0)
        BY <2>1, <4>1 DEF RelayInv, RequestAccounts
      <4>3. QED
        BY <2>1, <2>2, <2>3, <4>1, <4>2
    <3>3. QED
      BY <3>1, <3>2
  <2>6. QED
    BY <2>4, <2>5 DEF RelayInv
<1>3. CASE requests' = requests /\ dropped' = dropped \cup Openings(<<r>>)
  <2>1. \A k \in Outputs : r = SetOut(k, 0) => k \in dropped'
    BY <1>3 DEF Openings
  <2>2. \A k \in Outputs : Watched(k) => Watched(k)'
    BY <2>1 DEF Watched
  <2>3. QED
    BY <1>3, <2>2, QuietRelays
<1>4. QED
  BY <1>2, <1>3 DEF Send, Forward

\* What a read throws away: the openings before the last request.
LEMMA PassedOver ==
    ASSUME NEW n \in Nat
    PROVE  \A k \in Outputs, i \in 1..n :
              requests[i] = SetOut(k, 0) /\ requests[i] # requests[n] => k \in Passed(n)
BY RequestsDiffer DEF Passed, Openings, LastOfRead

\* A read, whatever becomes of its last request.
LEMMA ServeRelays ==
    ASSUME Types, RelayInv, NEW n \in DOMAIN requests,
           ServeGetAll(n) \/ ServeSetOut(n) \/ SetOutFails(n) \/ RefuseRead(n)
    PROVE  RelayInv'
<1> DEFINE r == requests[n]
<1>1. /\ requests \in Seq(RequestSet) /\ Len(requests) \in Nat
      /\ DOMAIN requests = 1..Len(requests) /\ n \in 1..Len(requests) /\ r \in RequestSet
  BY DomainOfSequence DEF Types, RequestsOK
<1>2. /\ DOMAIN requests' = 1..(Len(requests) - n)
      /\ \A i \in DOMAIN requests' : requests'[i] = requests[i + n]
  <2>1. requests' = SubSeq(requests, n + 1, Len(requests))
    BY Zenon DEF ServeGetAll, ServeSetOut, SetOutFails, RefuseRead, TakeRequests
  <2>2. n \in 0..Len(requests)
    BY <1>1
  <2>3. QED
    BY <1>1, <2>1, <2>2, RestOfSequence
<1>3. \A i \in DOMAIN requests : i > n => i - n \in DOMAIN requests' /\ requests'[i - n] = requests[i]
  BY <1>1, <1>2
<1>4. \A i \in DOMAIN requests' : i + n \in DOMAIN requests /\ i + n > n
  BY <1>1, <1>2
<1>5. UNCHANGED <<pulses, cleaned>>
  BY DEF ServeGetAll, ServeSetOut, SetOutFails, RefuseRead
<1>6. \A k \in Outputs, i \in DOMAIN requests :
        requests[i] = SetOut(k, 0) => i > n \/ r = SetOut(k, 0) \/ k \in Passed(n)
  BY <1>1, PassedOver
\* A closing that is left has what watched it, if that is not forgotten.
<1>7. ASSUME NEW k \in Outputs, NEW i \in DOMAIN requests', requests'[i] = SetOut(k, 1),
             Watched(k) => Watched(k)'
      PROVE  Watched(k)' \/ \E j \in DOMAIN requests' : j > i /\ requests'[j] = SetOut(k, 0)
  <2>1. i + n \in DOMAIN requests /\ requests[i + n] = SetOut(k, 1)
    BY <1>2, <1>4, <1>7
  <2>2. CASE Watched(k)
    BY <1>7, <2>2
  <2>3. CASE \E j \in DOMAIN requests : j > i + n /\ requests[j] = SetOut(k, 0)
    <3>1. PICK j \in DOMAIN requests : j > i + n /\ requests[j] = SetOut(k, 0)
      BY <2>3
    <3>2. j - n > i /\ j > n
      BY <1>1, <1>2, <3>1
    <3>3. QED
      BY <1>3, <3>1, <3>2
  <2>4. QED
    BY <2>1, <2>2, <2>3 DEF RelayInv, RequestAccounts
<1>8. CASE ServeGetAll(n)
  <2>1. value' = value /\ dropped' = dropped \cup Passed(n) /\ r = GetAll
    BY <1>8 DEF ServeGetAll, LastOfRead
  <2>2. \A k \in Outputs : Watched(k) => Watched(k)'
    BY <1>5, <2>1 DEF Watched
  <2>3. RequestAccounts'
    BY <1>7, <2>2 DEF RequestAccounts
  <2>4. RelayAccounts'
    BY <1>3, <1>5, <1>6, <2>1, <2>2, RequestsDiffer
       DEF RelayInv, RelayAccounts, Openings, Watched
  <2>5. QED
    BY <2>3, <2>4 DEF RelayInv
<1>9. CASE SetOutFails(n)
  <2>1. value' = value /\ dropped' = dropped \cup Passed(n) \cup Openings(<<r>>)
    BY <1>9 DEF SetOutFails, LastOfRead
  <2>2. \A k \in Outputs : Watched(k) => Watched(k)'
    BY <1>5, <2>1 DEF Watched
  <2>3. \A k \in Outputs : r = SetOut(k, 0) => k \in dropped'
    BY <2>1 DEF Openings
  <2>4. RequestAccounts'
    BY <1>7, <2>2 DEF RequestAccounts
  <2>5. RelayAccounts'
    BY <1>3, <1>5, <1>6, <2>1, <2>2, <2>3 DEF RelayInv, RelayAccounts, Openings, Watched
  <2>6. QED
    BY <2>4, <2>5 DEF RelayInv
<1>10. CASE ServeSetOut(n)
  <2>1. PICK o \in Outputs, v \in {0, 1} : r = SetOut(o, v)
    BY <1>1, <1>10 DEF ServeSetOut, LastOfRead, RequestSet
  <2>2. /\ value' = [value EXCEPT ![o] = v]
        /\ \A k \in Outputs : k # o => (k \in dropped \/ k \in Passed(n) => k \in dropped')
        /\ v = 1 => dropped \subseteq dropped'
        /\ \/ dropped \subseteq dropped'
           \/ ~\E i \in n + 1..Len(requests) : requests[i] = SetOut(o, 1)
    <3>1. r.key = o /\ r.v = v
      BY <2>1, RequestsDiffer
    <3>2. value' = [value EXCEPT ![o] = v]
      BY <1>10, <3>1 DEF ServeSetOut, LastOfRead, Written
    <3>3. dropped' =
            IF v = 0 /\ ~\E i \in n + 1..Len(requests) : requests[i] = SetOut(o, 1)
              THEN (dropped \cup Passed(n)) \ {o} ELSE dropped \cup Passed(n)
      BY <1>10, <3>1 DEF ServeSetOut, LastOfRead
    <3>4. QED
      BY <3>2, <3>3
  <2>3. RequestAccounts'
    <3> SUFFICES ASSUME NEW k \in Outputs, NEW i \in DOMAIN requests',
                        requests'[i] = SetOut(k, 1)
                 PROVE  Watched(k)' \/ \E j \in DOMAIN requests' :
                                          j > i /\ requests'[j] = SetOut(k, 0)
      BY DEF RequestAccounts
    <3>1. k = o => dropped \subseteq dropped'
      BY <1>1, <1>2, <1>4, <2>2
    <3>2. Watched(k) => Watched(k)'
      BY <1>5, <2>2, <3>1 DEF Watched
    <3>3. QED
      BY <1>7, <3>2
  <2>4. RelayAccounts'
    <3> SUFFICES ASSUME NEW k \in Outputs, value'[k] = 1
                 PROVE  \/ Watched(k)' \/ k \in cleaned'
                        \/ \E i \in DOMAIN requests' : requests'[i] = SetOut(k, 0)
      BY DEF RelayAccounts, Openings, Watched
    <3>1. CASE k = o
      <4>1. v = 1 /\ requests[n] = SetOut(k, 1)
        BY <2>1, <2>2, <3>1 DEF Types, ValuesOK, Keys
      <4>2. Watched(k) \/ \E j \in DOMAIN requests : j > n /\ requests[j] = SetOut(k, 0)
        BY <4>1 DEF RelayInv, RequestAccounts
      <4>3. QED
        BY <1>3, <1>5, <2>2, <4>1, <4>2 DEF Watched
    <3>2. CASE k # o
      <4>1. value[k] = 1
        BY <2>2, <3>2 DEF Types, ValuesOK, Keys
      <4>2. Watched(k) \/ k \in cleaned \/ \E i \in DOMAIN requests : requests[i] = SetOut(k, 0)
        BY <4>1 DEF RelayInv, RelayAccounts, Openings, Watched
      <4>3. r # SetOut(k, 0)
        BY <2>1, <3>2, RequestsDiffer
      <4>4. QED
        BY <1>3, <1>5, <1>6, <2>2, <3>2, <4>2, <4>3 DEF Watched
    <3>3. QED
      BY <3>1, <3>2
  <2>5. QED
    BY <2>3, <2>4 DEF RelayInv
<1>11. CASE RefuseRead(n)
  <2>1. value' = value /\ dropped' = dropped \cup Openings(SubSeq(requests, 1, n))
    BY <1>11 DEF RefuseRead
  <2>2. \A k \in Outputs : Watched(k) => Watched(k)'
    BY <1>5, <2>1 DEF Watched
  <2>3. ASSUME NEW k \in Outputs, NEW i \in DOMAIN requests, requests[i] = SetOut(k, 0)
        PROVE  i > n \/ k \in dropped'
    <3> DEFINE first == SubSeq(requests, 1, n)
    <3>1. \A m \in 1..n : requests[m] \in RequestSet
      BY <1>1, DomainOfSequence
    <3>2. first \in Seq(RequestSet) /\ DOMAIN first = 1..n /\ \A m \in 1..n : first[m] = requests[m]
      BY <1>1, <3>1, SubSeqProperties, LenProperties
    <3> HIDE DEF first
    <3>3. i \in 1..n => k \in Openings(first)
      BY <2>3, <3>2 DEF Openings
    <3>4. QED
      BY <1>1, <2>1, <3>3 DEF first
  <2>4. RequestAccounts'
    BY <1>7, <2>2 DEF RequestAccounts
  <2>5. RelayAccounts'
    BY <1>3, <1>5, <2>1, <2>2, <2>3 DEF RelayInv, RelayAccounts, Openings, Watched
  <2>6. QED
    BY <2>4, <2>5 DEF RelayInv
<1>12. QED
  BY <1>8, <1>9, <1>10, <1>11

\* Every step keeps the relays accounted for.
LEMMA RelayStep == Types /\ RelayInv /\ [Next]_vars => RelayInv'
<1> SUFFICES ASSUME Types, RelayInv, [Next]_vars PROVE RelayInv'
  OBVIOUS
<1>1. CASE UNCHANGED vars
  BY <1>1, QuietRelays DEF vars, Watched
<1>2. ASSUME NEW k \in Inputs, NEW v \in {0, 1}, InputChanges(k, v)
      PROVE  RelayInv'
  <2>1. \A o \in Outputs : value'[o] = value[o]
    BY <1>2, KeyAssumption DEF InputChanges, Types, ValuesOK, Keys, KeyAssumption
  <2>2. QED
    BY <1>2, <2>1, QuietRelays DEF InputChanges, Watched
<1>3. CASE Accept \/ Timeout \/ ReadEnd \/ connect \/ setTimeout \/ onClose
  <2>1. UNCHANGED <<requests, value, pulses, dropped, cleaned>>
    BY <1>3 DEF Accept, Timeout, ReadEnd, connect, setTimeout, onClose
  <2>2. QED
    BY <2>1, QuietRelays DEF Watched
<1>4. CASE Serve
  BY <1>4, ServeRelays DEF Serve
<1>5. CASE WriteToNobody
  <2>1. CASE UNCHANGED <<requests, dropped>>
    BY <1>5, <2>1, QuietRelays DEF WriteToNobody, Watched
  <2>2. CASE requests' = <<>> /\ dropped' = dropped \cup Openings(requests)
    BY <1>5, <2>2, CutRelays DEF WriteToNobody
  <2>3. QED
    BY <1>5, <2>1, <2>2 DEF WriteToNobody
<1>6. CASE DaemonStops \/ GatewayRestarts
  BY <1>6, CutRelays DEF DaemonStops, GatewayRestarts, Keys
<1>7. CASE DaemonStarts
  BY <1>7, QuietRelays DEF DaemonStarts, Watched, Keys
<1>8. CASE Receive
  BY <1>8, QuietRelays DEF Receive, onData, Watched
<1>9. ASSUME NEW p \in Pages, Load(p) \/ onopen(p) \/ onclose(p)
      PROVE  RelayInv'
  <2>1. UNCHANGED <<requests, value, cleaned>>
    BY <1>9 DEF Load, onopen, onclose
  <2>2. \A k : Watched(k) => Watched(k)'
    BY <1>9 DEF Load, onopen, onclose, Watched, Types, BrowserOK
  <2>3. QED
    BY <2>1, <2>2, QuietRelays
<1>10. ASSUME NEW p \in Pages, AppIsReady(p)
       PROVE  RelayInv'
  <2>1. Send(p, GetAll) /\ UNCHANGED <<value, pulses, cleaned>>
    BY <1>10 DEF AppIsReady
  <2>2. \A k \in Outputs : Watched(k) => Watched(k)'
    BY <2>1 DEF Watched, Send, Forward
  <2>3. QED
    BY <2>1, <2>2, SendRelays, RequestTyped, RequestsDiffer
<1>11. ASSUME NEW p \in Pages, NEW o \in Outputs, sendPulseOnKA(p, o)
       PROVE  RelayInv'
  <2>1. Send(p, SetOut(o, 1)) /\ UNCHANGED <<value, cleaned>> /\ SetOut(o, 1) \in RequestSet
    BY <1>11, RequestTyped DEF sendPulseOnKA
  <2>2. pulses' = [pulses EXCEPT ![p] = @ \cup {o}] /\ dropped \subseteq dropped'
    BY <1>11 DEF sendPulseOnKA, Send, Forward
  <2>3. \A k \in Outputs : Watched(k) => Watched(k)'
    BY <2>2 DEF Watched, Types, BrowserOK
  <2>4. o \in pulses'[p]
    BY <2>2 DEF Types, BrowserOK
  <2>5. QED
    BY <2>1, <2>3, <2>4, SendRelays, RequestsDiffer
<1>12. ASSUME NEW p \in Pages, NEW o \in Outputs, pulseTimeout(p, o)
       PROVE  RelayInv'
  <2>1. Send(p, SetOut(o, 0)) /\ UNCHANGED <<value, cleaned>> /\ SetOut(o, 0) \in RequestSet
    BY <1>12, RequestTyped DEF pulseTimeout
  <2>2. pulses' = [pulses EXCEPT ![p] = @ \ {o}] /\ dropped \subseteq dropped'
    BY <1>12 DEF pulseTimeout, Send, Forward
  <2>3. \A k \in Outputs : k # o /\ Watched(k) => Watched(k)'
    BY <2>2 DEF Watched, Types, BrowserOK
  <2>4. QED
    BY <2>1, <2>3, SendRelays, RequestsDiffer
<1>13. QED
  BY <1>1, <1>2, <1>3, <1>4, <1>5, <1>6, <1>7, <1>8, <1>9, <1>10, <1>11, <1>12
     DEF Next, apiThread, gateway, PulseEnds, Environment

\* However clicks, timers, reads, losses and restarts fall together, for any number
\* of pages and relays, any pool and any number of requests in a read: a closed relay
\* has a timer, or a request to open it on its way, or that request was dropped at one
\* of the places the model names, or the end of the daemon closed it and it is not back.
THEOREM RelaysAccounted == Spec => []RelayAccounts
<1>1. Init => Types /\ RelayInv
  BY TypesInit, RelayInit
<1>2. Types /\ RelayInv /\ [Next]_vars => (Types /\ RelayInv)'
  BY TypesStep, RelayStep
<1>3. Types /\ RelayInv => RelayAccounts
  BY DEF RelayInv
<1>4. QED
  BY <1>1, <1>2, <1>3, PTL DEF Spec

-----------------------------------------------------------------------------
(* Pages. A key that is told on the way has a last telling; what it tells is what *)
(* counts, or what the page shows if nothing is on the way.                       *)

TellsLast(seq, k, v) == \E j \in DOMAIN seq : IsLast(seq, j, k) /\ seq[j].told[k] = v

Current(p, k) == IF k \in Told(replies) THEN TellsLast(replies, k, value[k])
                                        ELSE view[p][k] = value[k]

Expects(p, k) == IsOpen(p) /\ k \notin lost[p] /\ k \notin flagged

\* On an open connection everything the replies tell is of the daemon that runs.
Fresh(k) == tcp = "open" /\ k \in Told(replies) /\ k \notin flagged

ConnectionsEnd ==
    /\ api = "stale" => replies = <<>>
    /\ api = "ended" => tcp # "open"

PageInv ==
    /\ ConnectionsEnd
    /\ \A k \in Keys : k \in Told(replies) => \E v : TellsLast(replies, k, v)
    /\ \A k \in Keys : Fresh(k) => TellsLast(replies, k, value[k])
    /\ \A p \in Pages, k \in Keys : Expects(p, k) => Current(p, k)

\* The last telling is one.
LEMMA LastIsOne ==
    ASSUME NEW seq \in Seq(ReplySet), NEW k, NEW v, TellsLast(seq, k, v)
    PROVE  LastTold(seq, k) = v
<1>1. DOMAIN seq = 1..Len(seq) /\ Len(seq) \in Nat
  BY DomainOfSequence
<1>2. PICK j \in DOMAIN seq : IsLast(seq, j, k) /\ seq[j].told[k] = v
  BY DEF TellsLast
<1>3. \A i \in DOMAIN seq : IsLast(seq, i, k) => i = j
  BY <1>1, <1>2 DEF IsLast
<1>4. (CHOOSE i \in DOMAIN seq : IsLast(seq, i, k)) = j
  BY <1>2, <1>3
<1>5. QED
  BY <1>2, <1>4 DEF LastTold

\* A key is told if some reply tells it.
LEMMA ToldSomewhere ==
    ASSUME NEW seq, NEW k
    PROVE  k \in Told(seq) <=> \E i \in DOMAIN seq : k \in DOMAIN seq[i].told
BY DEF Told

\* A reply that is sent is the last to tell what it tells.
LEMMA SentTells ==
    ASSUME NEW seq \in Seq(ReplySet), NEW x \in ReplySet, NEW t, t = Append(seq, x), NEW k
    PROVE  /\ k \in DOMAIN x.told => k \in Told(t) /\ TellsLast(t, k, x.told[k])
           /\ k \notin DOMAIN x.told =>
                /\ k \in Told(t) <=> k \in Told(seq)
                /\ \A v : TellsLast(seq, k, v) => TellsLast(t, k, v)
<1> DEFINE n == Len(seq) + 1
<1>1. /\ DOMAIN seq = 1..Len(seq) /\ Len(seq) \in Nat
      /\ DOMAIN t = 1..n /\ t[n] = x /\ \A i \in DOMAIN seq : t[i] = seq[i]
  BY DomainOfSequence, SentSequence
<1>2. n \in DOMAIN t /\ \A m \in DOMAIN t : ~(m > n) /\ (m # n => m \in DOMAIN seq)
  BY <1>1
<1> HIDE DEF n
<1>3. ASSUME k \in DOMAIN x.told
      PROVE  k \in Told(t) /\ TellsLast(t, k, x.told[k])
  <2>1. IsLast(t, n, k)
    BY <1>1, <1>2, <1>3 DEF IsLast
  <2>2. QED
    BY <1>1, <1>2, <1>3, <2>1, ToldSomewhere DEF TellsLast
<1>4. ASSUME k \notin DOMAIN x.told
      PROVE  /\ k \in Told(t) <=> k \in Told(seq)
             /\ \A v : TellsLast(seq, k, v) => TellsLast(t, k, v)
  <2>1. \A i \in DOMAIN seq : i \in DOMAIN t
    BY <1>1 DEF n
  <2>2. k \in Told(t) <=> k \in Told(seq)
    <3>1. \A i \in DOMAIN t : k \in DOMAIN t[i].told => i \in DOMAIN seq /\ k \in DOMAIN seq[i].told
      BY <1>1, <1>2, <1>4
    <3>2. \A i \in DOMAIN seq : k \in DOMAIN seq[i].told => k \in DOMAIN t[i].told
      BY <1>1
    <3>3. QED
      BY <2>1, <3>1, <3>2, ToldSomewhere
  <2>3. \A j \in DOMAIN seq : IsLast(seq, j, k) => IsLast(t, j, k)
    BY <1>1, <1>2, <1>4 DEF IsLast
  <2>4. QED
    BY <1>1, <2>1, <2>2, <2>3 DEF TellsLast
<1>5. QED
  BY <1>3, <1>4

\* What is left of the replies tells the same of what it tells.
LEMMA RestTells ==
    ASSUME NEW seq \in Seq(ReplySet), NEW n \in 0..Len(seq), NEW t,
           DOMAIN t = 1..(Len(seq) - n),
           \A i \in DOMAIN t : t[i].told = seq[i + n].told,
           NEW k
    PROVE  /\ k \in Told(t) => k \in Told(seq)
           /\ k \in Told(seq) => k \in Told(t) \/ k \in Told(SubSeq(seq, 1, n))
           /\ k \in Told(t) => \A v : TellsLast(seq, k, v) => TellsLast(t, k, v)
<1>1. DOMAIN seq = 1..Len(seq) /\ Len(seq) \in Nat
  BY DomainOfSequence
<1>2. /\ \A i \in DOMAIN t : i + n \in DOMAIN seq
      /\ \A i \in DOMAIN seq : i > n => i - n \in DOMAIN t /\ t[i - n].told = seq[i].told
  <2>1. n \in Nat /\ n <= Len(seq)
    BY <1>1
  <2>2. \A i \in DOMAIN t : i + n \in DOMAIN seq
    BY <1>1, <2>1
  <2>3. \A i \in DOMAIN seq : i > n => i - n \in DOMAIN t /\ (i - n) + n = i
    BY <1>1, <2>1
  <2>4. QED
    BY <2>2, <2>3
<1>3. k \in Told(t) => k \in Told(seq)
  BY <1>2, ToldSomewhere
<1>4. k \in Told(seq) => k \in Told(t) \/ k \in Told(SubSeq(seq, 1, n))
  <2> DEFINE first == SubSeq(seq, 1, n)
  <2>1. \A i \in 1..n : seq[i] \in ReplySet
    BY <1>1, DomainOfSequence
  <2>2. /\ first \in Seq(ReplySet) /\ Len(first) = IF 1 <= n THEN n - 1 + 1 ELSE 0
        /\ \A i \in 1..(n - 1 + 1) : first[i] = seq[1 + i - 1]
    BY <2>1, SubSeqProperties
  <2> HIDE DEF first
  <2>3. DOMAIN first = 1..n /\ \A i \in 1..n : first[i] = seq[i]
    BY <2>2, DomainOfSequence
  <2>4. \A i \in DOMAIN seq : k \in DOMAIN seq[i].told => k \in Told(t) \/ k \in Told(first)
    <3>1. \A i \in DOMAIN seq : i > n \/ i \in 1..n
      BY <1>1
    <3>2. \A i \in DOMAIN seq : i > n /\ k \in DOMAIN seq[i].told => k \in Told(t)
      BY <1>2, ToldSomewhere
    <3>3. \A i \in 1..n : k \in DOMAIN seq[i].told => k \in Told(first)
      BY <2>3, ToldSomewhere
    <3>4. QED
      BY <3>1, <3>2, <3>3
  <2>5. QED
    BY <2>4, ToldSomewhere DEF first
<1>5. ASSUME k \in Told(t), NEW v, TellsLast(seq, k, v)
      PROVE  TellsLast(t, k, v)
  <2>1. PICK j \in DOMAIN seq : IsLast(seq, j, k) /\ seq[j].told[k] = v
    BY <1>5 DEF TellsLast
  <2>2. PICK i \in DOMAIN t : k \in DOMAIN t[i].told
    BY <1>5, ToldSomewhere
  <2>3. ~(i + n > j)
    BY <1>2, <2>1, <2>2 DEF IsLast
  <2>4. j > n
    BY <1>1, <2>2, <2>3
  <2>5. j - n \in DOMAIN t /\ t[j - n].told = seq[j].told
    BY <1>2, <2>4
  <2>6. \A m \in DOMAIN t : m > j - n => k \notin DOMAIN t[m].told
    BY <1>1, <1>2, <2>1 DEF IsLast
  <2>7. QED
    BY <2>1, <2>5, <2>6 DEF TellsLast, IsLast
<1>6. QED
  BY <1>3, <1>4, <1>5

\* No page is connected at first.
LEMMA PageInit == Init => PageInv
<1>1. DOMAIN <<>> = {}
  BY EmptySeq, LenProperties
<1>2. Init => Told(replies) = {} /\ \A p \in Pages : ~IsOpen(p)
  BY <1>1 DEF Init, Told, IsOpen
<1>3. QED
  BY <1>2 DEF Init, PageInv, ConnectionsEnd, Fresh, Expects

\* A step that tells nothing and moves nothing a page counts on.
LEMMA QuietPages ==
    ASSUME PageInv, UNCHANGED replies,
           \A p \in Pages, k \in Keys :
               Expects(p, k)' => Expects(p, k) /\ value'[k] = value[k] /\ view'[p][k] = view[p][k],
           \A k \in Keys : Fresh(k)' => Fresh(k) /\ value'[k] = value[k],
           ConnectionsEnd'
    PROVE  PageInv'
BY DEF PageInv, Current

\* A reply is sent: it tells the values, and takes back the flags of what it tells
\* only.
LEMMA SentPages ==
    ASSUME Types, PageInv, NEW told \in ToldSet, NEW json \in BOOLEAN,
           replies' = Append(replies, Reply(told, json)),
           api = "serve", UNCHANGED <<api, tcp, page, view, lost>>,
           \A k \in DOMAIN told : told[k] = value'[k],
           \A k \in Keys : k \notin DOMAIN told /\ k \notin flagged' =>
                               k \notin flagged /\ value'[k] = value[k]
    PROVE  PageInv'
<1> DEFINE x == Reply(told, json)
<1>1. x \in ReplySet /\ x.told = told /\ replies \in Seq(ReplySet)
  BY ReplyTyped DEF Types, RepliesOK
<1> HIDE DEF x
<1>2. \A k : /\ k \in DOMAIN told => k \in Told(replies') /\ TellsLast(replies', k, told[k])
             /\ k \notin DOMAIN told =>
                  /\ k \in Told(replies') <=> k \in Told(replies)
                  /\ \A v : TellsLast(replies, k, v) => TellsLast(replies', k, v)
  BY <1>1, SentTells DEF x
<1>3. ASSUME NEW k \in Keys, k \in Told(replies')
      PROVE  \E v : TellsLast(replies', k, v)
  BY <1>2, <1>3 DEF PageInv
<1>4. ASSUME NEW p \in Pages, NEW k \in Keys, Expects(p, k)'
      PROVE  Current(p, k)'
  <2>1. CASE k \in DOMAIN told
    BY <1>2, <2>1 DEF Current
  <2>2. CASE k \notin DOMAIN told
    <3>1. Expects(p, k) /\ value'[k] = value[k] /\ view' = view
      BY <1>4, <2>2 DEF Expects, IsOpen
    <3>2. QED
      BY <1>2, <2>2, <3>1 DEF PageInv, Current
  <2>3. QED
    BY <2>1, <2>2
<1>5. ASSUME NEW k \in Keys, Fresh(k)'
      PROVE  TellsLast(replies', k, value'[k])
  BY <1>2, <1>5 DEF PageInv, Fresh
<1>6. ConnectionsEnd'
  BY DEF PageInv, ConnectionsEnd
<1>7. QED
  BY <1>3, <1>4, <1>5, <1>6 DEF PageInv

\* The replies of the API thread.
LEMMA ServePages ==
    ASSUME Types, PageInv, NEW n \in DOMAIN requests,
           ServeGetAll(n) \/ ServeSetOut(n) \/ SetOutFails(n) \/ RefuseRead(n)
    PROVE  PageInv'
<1> api = "serve"
  BY DEF ServeGetAll, ServeSetOut, SetOutFails, RefuseRead, TakeRequests
<1>1. LastOfRead(n) \in RequestSet
  <2>1. requests \in Seq(RequestSet)
    BY DEF Types, RequestsOK
  <2>2. QED
    BY <2>1, DomainOfSequence DEF LastOfRead
<1>2. CASE ServeGetAll(n)
  <2>1. /\ replies' = Append(replies, Reply(value, TRUE)) /\ value' = value
        /\ UNCHANGED <<api, tcp, page, view, lost>>
    BY <1>2 DEF ServeGetAll
  <2>2. value \in ToldSet /\ DOMAIN value = Keys
    BY DEF Types, ValuesOK, ToldSet
  <2>3. QED
    BY <2>1, <2>2, SentPages
<1>3. CASE ServeSetOut(n)
  <2> DEFINE r   == LastOfRead(n)
             new == [value EXCEPT ![r.key] = r.v]
             up  == IF r.v = value[r.key] THEN flagged ELSE flagged \cup {r.key}
             told == Restrict(new, up \cap Outputs)
  <2>1. r.key \in Keys /\ r.v \in {0, 1}
    BY <1>1, <1>3, RequestsDiffer DEF RequestSet, ServeSetOut, Keys
  <2>2. /\ value' = new /\ flagged' = up \ Outputs
        /\ replies' = Append(replies, Reply(told, TRUE)) /\ UNCHANGED <<api, tcp, page, view, lost>>
    BY <1>3 DEF ServeSetOut, Written
  <2>3. new \in [Keys -> {0, 1}] /\ up \cap Outputs \in SUBSET Keys
    BY <2>1 DEF Types, ValuesOK, Keys
  <2>4. \A k \in Keys : k \notin up => k \notin flagged /\ new[k] = value[k]
    BY <2>1 DEF Types, ValuesOK
  <2> HIDE DEF new, up
  <2>5. /\ told \in ToldSet /\ DOMAIN told = up \cap Outputs
        /\ \A k \in DOMAIN told : told[k] = new[k]
    BY <2>3, RestrictTells
  <2> HIDE DEF told
  <2>6. \A k \in Keys : k \notin DOMAIN told /\ k \notin flagged' =>
                            k \notin flagged /\ value'[k] = value[k]
    BY <2>2, <2>4, <2>5
  <2>7. QED
    BY <2>2, <2>5, <2>6, SentPages
<1>4. CASE SetOutFails(n) \/ RefuseRead(n)
  <2>1. /\ replies' = Append(replies, Reply(Nothing, FALSE))
        /\ UNCHANGED <<value, flagged, api, tcp, page, view, lost>>
    BY <1>4 DEF SetOutFails, RefuseRead
  <2>2. Nothing \in ToldSet /\ DOMAIN Nothing = {}
    BY DEF Nothing, ToldSet
  <2>3. QED
    BY <2>1, <2>2, SentPages
<1>5. QED
  BY <1>2, <1>3, <1>4

\* What is told for the last time in a reply that a page takes is what it shows.
LEMMA OnlyTelling ==
    ASSUME NEW seq \in Seq(ReplySet), NEW k, NEW v, TellsLast(seq, k, v),
           k \notin Told(SubSeq(seq, 2, Len(seq)))
    PROVE  k \in DOMAIN seq[1].told /\ seq[1].told[k] = v
<1>1. DOMAIN seq = 1..Len(seq) /\ Len(seq) \in Nat
  BY DomainOfSequence
<1>2. PICK j \in DOMAIN seq : IsLast(seq, j, k) /\ seq[j].told[k] = v
  BY DEF TellsLast
<1>3. SUFFICES ASSUME j # 1 PROVE FALSE
  BY <1>2 DEF IsLast
<1>4. 1 \in 0..Len(seq) /\ j \in 2..Len(seq) /\ j - 1 \in 1..(Len(seq) - 1) /\ (j - 1) + 1 = j
  BY <1>1, <1>3
<1> DEFINE rest == SubSeq(seq, 1 + 1, Len(seq))
<1>5. DOMAIN rest = 1..(Len(seq) - 1) /\ rest[j - 1] = seq[j]
  BY <1>4, RestOfSequence
<1>6. rest = SubSeq(seq, 2, Len(seq))
  OBVIOUS
<1> HIDE DEF rest
<1>7. k \in Told(rest)
  BY <1>2, <1>4, <1>5, ToldSomewhere DEF IsLast
<1>8. QED
  BY <1>6, <1>7

\* A chunk that is a message is taken by the pages, and what another kind of chunk
\* told is lost.
LEMMA DataPages ==
    ASSUME Types, PageInv, NEW n \in 0..Len(replies), NEW cut \in BOOLEAN, onData(n, cut)
    PROVE  PageInv'
<1>1. replies \in Seq(ReplySet) /\ Len(replies) \in Nat /\ DOMAIN replies = 1..Len(replies)
  BY DomainOfSequence DEF Types, RepliesOK
<1>2. /\ DOMAIN replies' = 1..(Len(replies) - n)
      /\ \A i \in DOMAIN replies' : replies'[i].told = replies[i + n].told
  BY RestIsReplies
<1>3. \A k : /\ k \in Told(replies') => k \in Told(replies)
             /\ k \in Told(replies) => k \in Told(replies') \/ k \in Told(SubSeq(replies, 1, n))
             /\ k \in Told(replies') =>
                    \A v : TellsLast(replies, k, v) => TellsLast(replies', k, v)
  BY <1>1, <1>2, RestTells
<1>4. UNCHANGED <<value, flagged, page, tcp, api>>
  BY DEF onData
<1>5. \A k \in Keys : k \in Told(replies') => \E v : TellsLast(replies', k, v)
  BY <1>3 DEF PageInv
<1>6. /\ \A k \in Keys : Fresh(k)' => TellsLast(replies', k, value'[k])
      /\ ConnectionsEnd'
  <2>1. ASSUME NEW k \in Keys, Fresh(k)'
        PROVE  TellsLast(replies', k, value'[k])
    BY <1>3, <1>4, <2>1 DEF PageInv, Fresh
  <2>2. ConnectionsEnd'
    BY <1>4, EmptySeq DEF PageInv, ConnectionsEnd, Types, RepliesOK, onData
  <2>3. QED
    BY <2>1, <2>2
<1>7. CASE IsMessage(n, cut)
  <2> DEFINE told == replies[1].told
  <2>1. /\ view' = [p \in Pages |-> IF IsOpen(p) THEN Updated(told, view[p]) ELSE view[p]]
        /\ lost' = [p \in Pages |-> IF IsOpen(p) /\ tcp = "open"
                                    THEN lost[p] \ DOMAIN told ELSE lost[p]]
    BY <1>7 DEF onData
  <2>2. n = 1 /\ 1 \in DOMAIN replies
    BY <1>1, <1>7 DEF IsMessage
  <2>3. \A k : k \in Told(SubSeq(replies, 1, n)) => k \in DOMAIN told
    <3>1. \A i \in 1..1 : replies[i] \in ReplySet
      BY <1>1, <2>2, DomainOfSequence
    <3>2. /\ SubSeq(replies, 1, 1) \in Seq(ReplySet) /\ Len(SubSeq(replies, 1, 1)) = 1
          /\ SubSeq(replies, 1, 1)[1] = replies[1]
      BY <3>1, SubSeqProperties
    <3>3. DOMAIN SubSeq(replies, 1, 1) = {1}
      BY <3>2, DomainOfSequence
    <3>4. QED
      BY <2>2, <3>2, <3>3, ToldSomewhere
  <2> HIDE DEF told
  <2>4. ASSUME NEW p \in Pages, NEW k \in Keys, Expects(p, k)'
        PROVE  Current(p, k)'
    <3>1. IsOpen(p) /\ k \notin flagged /\ view'[p] = Updated(told, view[p])
      BY <1>4, <2>1, <2>4 DEF Expects, IsOpen
    <3>2. CASE k \in DOMAIN told
      <4>1. k \in Told(replies) /\ TellsLast(replies, k, value[k])
        <5>1. k \in Told(replies)
          BY <2>2, <3>2, ToldSomewhere DEF told
        <5>2. tcp = "open" \/ k \notin lost[p]
          BY <2>1, <2>4, <3>1 DEF Expects
        <5>3. QED
          BY <3>1, <5>1, <5>2 DEF PageInv, Fresh, Expects, Current
      <4>2. CASE k \in Told(replies')
        BY <1>3, <1>4, <4>1, <4>2 DEF Current
      <4>3. CASE k \notin Told(replies')
        <5>1. replies' = SubSeq(replies, 2, Len(replies))
          BY <1>7, <2>2 DEF onData, IsMessage
        <5>2. told[k] = value[k]
          BY <1>1, <4>1, <4>3, <5>1, OnlyTelling DEF told
        <5>3. view'[p][k] = told[k]
          BY <3>1, <3>2 DEF Updated
        <5>4. QED
          BY <1>4, <4>3, <5>2, <5>3 DEF Current
      <4>4. QED
        BY <4>2, <4>3
    <3>3. CASE k \notin DOMAIN told
      <4>1. Expects(p, k) /\ k \notin Told(SubSeq(replies, 1, n))
        BY <2>1, <2>3, <2>4, <3>1, <3>3 DEF Expects
      <4>2. view'[p][k] = view[p][k]
        BY <3>1, <3>3 DEF Updated
      <4>3. QED
        BY <1>3, <1>4, <4>1, <4>2 DEF PageInv, Current
    <3>4. QED
      BY <3>2, <3>3
  <2>5. QED
    BY <1>5, <1>6, <2>4 DEF PageInv
<1>8. CASE ~IsMessage(n, cut)
  <2>1. Lose(Told(SubSeq(replies, 1, n))) /\ view' = view
    BY <1>8 DEF onData
  <2>2. ASSUME NEW p \in Pages, NEW k \in Keys, Expects(p, k)'
        PROVE  Current(p, k)'
    <3>1. IsOpen(p) /\ k \notin flagged
      BY <1>4, <2>2 DEF Expects, IsOpen
    <3>2. k \notin lost[p] /\ k \notin Told(SubSeq(replies, 1, n))
      BY <2>1, <2>2, <3>1 DEF Expects, Lose
    <3>3. QED
      BY <1>3, <1>4, <2>1, <3>1, <3>2 DEF PageInv, Current, Expects
  <2>3. QED
    BY <1>5, <1>6, <2>2 DEF PageInv
<1>9. QED
  BY <1>7, <1>8

\* The connection ends with what is on it: what a page misses of it is lost.
LEMMA EndPages ==
    ASSUME Types, PageInv, replies' = <<>>, ConnectionsEnd',
           \A p \in Pages, k \in Keys :
               Expects(p, k)' => /\ Expects(p, k) /\ k \notin Told(replies)
                                 /\ value'[k] = value[k] /\ view'[p][k] = view[p][k]
    PROVE  PageInv'
<1>1. \A k : k \notin Told(replies')
  <2>1. DOMAIN <<>> = {}
    BY EmptySeq, LenProperties
  <2>2. QED
    BY <2>1, ToldSomewhere
<1>2. QED
  BY <1>1 DEF PageInv, Fresh, Current

\* Every step keeps what the pages show accounted for.
LEMMA PageStep == Types /\ PageInv /\ [Next]_vars => PageInv'
<1> SUFFICES ASSUME Types, PageInv, [Next]_vars PROVE PageInv'
  OBVIOUS
<1> USE DEF ConnectionsEnd
<1>1. CASE UNCHANGED vars
  BY <1>1, QuietPages DEF vars, Expects, IsOpen, Fresh, PageInv
<1>2. ASSUME NEW i \in Inputs, NEW v \in {0, 1}, InputChanges(i, v)
      PROVE  PageInv'
  <2>1. \A k \in Keys : k \notin flagged' => k \notin flagged /\ value'[k] = value[k]
    BY <1>2 DEF InputChanges, Types, ValuesOK
  <2>2. UNCHANGED <<replies, api, tcp, page, view, lost>>
    BY <1>2 DEF InputChanges
  <2>3. QED
    BY <2>1, <2>2, QuietPages DEF Expects, IsOpen, Fresh, PageInv
<1>3. CASE Accept \/ ReadEnd
  BY <1>3, QuietPages DEF Accept, ReadEnd, Expects, IsOpen, Fresh, PageInv
<1>4. CASE connect \/ setTimeout
  <2>1. replies = <<>> \/ tcp # "trying"
    BY DEF Types, RepliesOK
  <2>2. \A k : k \notin Told(<<>>)
    <3>1. DOMAIN <<>> = {}
      BY EmptySeq, LenProperties
    <3>2. QED
      BY <3>1, ToldSomewhere
  <2>3. \A k \in Keys : Fresh(k)' => Fresh(k)
    BY <1>4, <2>1, <2>2 DEF connect, setTimeout, AfterClose, Fresh
  <2>4. UNCHANGED <<replies, api, value, flagged, page, view, lost>>
    BY <1>4 DEF connect, setTimeout
  <2>5. ConnectionsEnd'
    BY <1>4 DEF connect, setTimeout, AfterClose, PageInv
  <2>6. QED
    BY <2>3, <2>4, <2>5, QuietPages DEF Expects, IsOpen
<1>5. CASE Timeout
  <2>1. Restrict(value, flagged) \in ToldSet /\ DOMAIN Restrict(value, flagged) = flagged
        /\ \A k \in flagged : Restrict(value, flagged)[k] = value[k]
    BY RestrictTells DEF Types, ValuesOK
  <2>2. QED
    BY <1>5, <2>1, SentPages DEF Timeout
<1>6. CASE Serve
  BY <1>6, ServePages DEF Serve
<1>7. CASE WriteToNobody
  <2>1. \A p \in Pages, k \in Keys : Expects(p, k)' => Expects(p, k)
    BY <1>7 DEF WriteToNobody, Lose, Expects, IsOpen
  <2>2. UNCHANGED <<value, view>> /\ replies = <<>> /\ replies' = <<>> /\ ConnectionsEnd'
    BY <1>7 DEF WriteToNobody, PageInv, Types, ValuesOK
  <2>3. \A k : k \notin Told(replies)
    <3>1. DOMAIN <<>> = {}
      BY EmptySeq, LenProperties
    <3>2. QED
      BY <2>2, <3>1, ToldSomewhere
  <2>4. QED
    BY <2>1, <2>2, <2>3, EndPages
<1>8. CASE DaemonStops
  <2>1. \A p \in Pages, k \in Keys : Expects(p, k)' => Expects(p, k) /\ value'[k] = value[k]
    BY <1>8 DEF DaemonStops, Lose, Expects, IsOpen
  <2>2. UNCHANGED <<replies, view>> /\ tcp' # "open"
    BY <1>8 DEF DaemonStops
  <2>3. ConnectionsEnd'
    BY <1>8 DEF DaemonStops, PageInv
  <2>4. QED
    BY <2>1, <2>2, <2>3, QuietPages DEF Fresh
<1>9. CASE DaemonStarts
  <2>1. \A p \in Pages, k \in Keys : ~Expects(p, k)'
    BY <1>9 DEF DaemonStarts, Lose, Expects, IsOpen, Keys, Types, HistoryOK
  <2>2. tcp' # "open" /\ ConnectionsEnd' /\ UNCHANGED replies
    BY <1>9 DEF DaemonStarts, PageInv
  <2>3. QED
    BY <2>1, <2>2, QuietPages DEF Fresh
<1>10. CASE onClose
  <2>1. \A p \in Pages, k \in Keys : Expects(p, k)' => Expects(p, k) /\ k \notin Told(replies)
    BY <1>10 DEF onClose, Lose, Expects, IsOpen
  <2>2. UNCHANGED <<value, view>> /\ replies' = <<>> /\ ConnectionsEnd'
    BY <1>10 DEF onClose, AfterClose, PageInv
  <2>3. QED
    BY <2>1, <2>2, EndPages
<1>11. CASE GatewayRestarts
  <2>1. \A p \in Pages, k \in Keys : ~Expects(p, k)'
    BY <1>11 DEF GatewayRestarts, Expects, IsOpen
  <2>2. replies' = <<>> /\ ConnectionsEnd'
    BY <1>11 DEF GatewayRestarts
  <2>3. QED
    BY <2>1, <2>2, EndPages
<1>12. CASE Receive
  BY <1>12, DataPages DEF Receive
<1>13. ASSUME NEW p \in Pages, Load(p) \/ onopen(p) \/ AppIsReady(p) \/ onclose(p)
       PROVE  PageInv'
  <2>1. UNCHANGED <<replies, api, tcp, value, flagged>>
    BY <1>13 DEF Load, onopen, AppIsReady, onclose
  <2>2. \A q \in Pages, k \in Keys : Expects(q, k)' => Expects(q, k) /\ view'[q] = view[q]
    BY <1>13 DEF Load, onopen, AppIsReady, onclose, Goes, Expects, IsOpen, Types, BrowserOK,
                 HistoryOK
  <2>3. QED
    BY <2>1, <2>2, QuietPages DEF Fresh, PageInv
<1>14. ASSUME NEW p \in Pages, NEW o \in Outputs, sendPulseOnKA(p, o) \/ pulseTimeout(p, o)
       PROVE  PageInv'
  <2>1. UNCHANGED <<replies, api, tcp, value, flagged, page, view, lost>>
    BY <1>14 DEF sendPulseOnKA, pulseTimeout
  <2>2. QED
    BY <2>1, QuietPages DEF Expects, IsOpen, Fresh, PageInv
<1>15. QED
  BY <1>1, <1>2, <1>3, <1>4, <1>5, <1>6, <1>7, <1>8, <1>9, <1>10, <1>11, <1>12, <1>13, <1>14
     DEF Next, apiThread, gateway, PulseEnds, Environment

\* For any number of pages and keys, whatever is coalesced, cut in two, closed or
\* restarted: what a connected page shows is what the daemon has, unless the news
\* is flagged, is the last on its way, or was lost at a place the model names.
THEOREM PagesAccounted == Spec => []PageAccounts
<1>1. Init => Types /\ PageInv
  BY TypesInit, PageInit
<1>2. Types /\ PageInv /\ [Next]_vars => (Types /\ PageInv)'
  BY TypesStep, PageStep
<1>3. Types /\ PageInv => PageAccounts
  <2> SUFFICES ASSUME Types, PageInv, NEW p \in Pages, NEW k \in Keys, Expects(p, k)
               PROVE  value[k] = IF k \in Told(replies) THEN LastTold(replies, k) ELSE view[p][k]
    BY DEF PageAccounts, Expects
  <2>1. replies \in Seq(ReplySet) /\ Current(p, k)
    BY DEF PageInv, Types, RepliesOK
  <2>2. QED
    BY <2>1, LastIsOne DEF Current
<1>4. QED
  BY <1>1, <1>2, <1>3, PTL DEF Spec
=============================================================================
