----------------------------- MODULE ReadRequest -----------------------------
(***************************************************************************)
(* From the text of a read to the request ApiRequest carries out: json_parse *)
(* makes the tree, and api_server_thread, query_exec and exec_set_out look *)
(* up its members. The records of ApiRequest, its Requests, are what they  *)
(* find. Then the other way: the text of a request, and what is to be      *)
(* found in the text of several.                                           *)
(***************************************************************************)
EXTENDS ApiRequest, JsonReader

CONSTANT Reads   \* what one read can bring: sequences of requests

\* A member the getters look for, of the object obj.
Member(p, obj, name) == json_get(p.pool, obj, <<name>>)

StringMember(p, obj, name, read(_)) ==
    LET o == Member(p, obj, name)
    IN  IF o = 0 THEN "undefined"
        ELSE IF p.pool[o].type # "string" THEN "not a string"
        ELSE read(p.pool[o].value.s)

\* json_getInteger of an element: its number, or no integer, as for a sign alone.
Item(element) ==
    IF element.type = "number" /\ element.value # Minus THEN element.value.n ELSE NaN

ArrayMember(p, obj, name) ==
    LET o == Member(p, obj, name)
    IN  IF o = 0 THEN [kind |-> "undefined", size |-> 0, items |-> <<>>]
        ELSE IF json_arrayLength(p.pool, o) < 0
          THEN [kind |-> "other", size |-> 0, items |-> <<>>]
        ELSE [kind |-> "array", size |-> json_arrayLength(p.pool, o),
              items |-> LET kids == Children(p.pool, o)
                        IN  [k \in DOMAIN kids |-> Item(p.pool[kids[k]])]]

TopicOf(s) ==
    CASE s = <<>> -> "empty"
      [] s \in {<<"get/all">>, <<"set/out">>} -> s[1]
      [] OTHER -> "unknown"

\* What the thread finds in a text. Members of the payload are looked up for
\* set/out only.
Unlooked == [kind |-> "undefined", size |-> 0, items |-> <<>>]
Seen(r)  == IF r.topic = "set/out" THEN r ELSE [r EXCEPT !.i = Unlooked, !.v = Unlooked]

SyntaxError  == [syntax |-> "error"]
Undetermined == [syntax |-> "undefined"]   \* a parent that is NULL was used

RequestIn(text) ==
    LET p       == json_parse(text)
        payload == Member(p, p.current, "payload")
        topic   == StringMember(p, p.current, "topic", TopicOf)
    IN  IF p.state = "refused" THEN SyntaxError
        ELSE IF p.state = "undefined" THEN Undetermined
        ELSE [syntax  |-> "ok",
              msgid   |-> StringMember(p, p.current, "_msgid", LAMBDA s : s[1]),
              topic   |-> topic,
              payload |-> IF payload = 0 THEN "undefined" ELSE "given",
              i       |-> IF topic = "set/out" THEN ArrayMember(p, payload, "i") ELSE Unlooked,
              v       |-> IF topic = "set/out" THEN ArrayMember(p, payload, "v") ELSE Unlooked]

-----------------------------------------------------------------------------
(* The text of a request. The gateway, the one client of the daemon, writes *)
(* them with JSON.stringify (index.js): no blanks, the members in their     *)
(* order, those of the page's message first and then a _msgid if it had none. *)

Joined(texts, between) ==
    LET first[k \in 0..Len(texts)] ==
          IF k = 0 THEN <<>>
          ELSE (IF k = 1 THEN <<>> ELSE first[k - 1] \o between) \o texts[k]
    IN  first[Len(texts)]

Listed(texts)       == Joined(texts, <<Mark(",")>>)
ObjectText(members) == <<Mark("{")>> \o Listed(members) \o <<Mark("}")>>
ArrayText(items)    == <<Mark("[")>> \o Listed(items) \o <<Mark("]")>>
MemberText(key, text) == <<Str(key), Mark(":")>> \o text

\* One member or none.
NameMember(name, field, s) ==
    CASE field = "undefined"    -> <<>>
      [] field = "not a string" -> << MemberText(<<name>>, <<Mark("null")>>) >>
      [] OTHER                  -> << MemberText(<<name>>, <<Str(s)>>) >>

\* A number as JSON.stringify writes it.
Width(n) ==
    LET digits[k \in Nat] == IF k < 10 THEN 1 ELSE 1 + digits[k \div 10]
    IN  IF n < 0 THEN 1 + digits[-n] ELSE digits[n]
Integer(n) == Num(n, Width(n))

ItemText(n) == IF n = NaN THEN <<Str(<<"1">>)>> ELSE <<Integer(n)>>

ItemsMember(name, field) ==
    CASE field.kind = "undefined" -> <<>>
      [] field.kind = "other"     -> << MemberText(<<name>>, ObjectText(<<>>)) >>
      [] field.kind = "array"     ->
           << MemberText(<<name>>, ArrayText([k \in DOMAIN field.items |-> ItemText(field.items[k])])) >>

PayloadText(r) == ObjectText(ItemsMember("i", r.i) \o ItemsMember("v", r.v))

RequestMembers(r) ==
    NameMember("topic", r.topic, IF r.topic = "empty" THEN <<>> ELSE <<r.topic>>)
      \o (IF r.payload = "undefined" THEN <<>>
          ELSE << MemberText(<<"payload">>, PayloadText(r)) >>)
      \o NameMember("_msgid", r.msgid, <<r.msgid>>)

\* A member nobody looks up, where there is none: {} is too short a text.
RequestText(r) ==
    LET members == RequestMembers(r)
    IN  ObjectText(IF members = <<>> THEN << MemberText(<<"other">>, <<Mark("null")>>) >>
                   ELSE members)

TextOf(rs) == Joined([k \in DOMAIN rs |-> RequestText(rs[k])], <<>>)

\* The requests a text can have. A set/out without a payload has no arrays.
Fields == {f \in [kind : {"undefined", "other", "array"}, size : Nat, items : Seq(Items)] :
              IsWhole(f) /\ (f.kind # "array" => f.items = <<>>)}
IsAsked(r) ==
    /\ r \in [syntax : {"ok"}, msgid : MsgIds \cup {"undefined", "not a string"},
              topic : Topics, payload : {"undefined", "given"}, i : Fields, v : Fields]
    /\ r.topic = "set/out" /\ r.payload = "undefined" => r.i = Unlooked /\ r.v = Unlooked

IsComplete(r) == r.topic # "undefined" /\ r.payload # "undefined" /\ r.msgid # "undefined"

\* A _msgid has no escapes. Of several requests the last has all its members: json_get
\* looks for one that is not there beyond the last object's.
ASSUME EscapeAssumption == "\\u" \notin MsgIds
ASSUME ReadsAssumption ==
    \A rs \in Reads : /\ rs \in Seq(Range(rs)) /\ rs # <<>>
                      /\ \A k \in 1..Len(rs) : IsAsked(rs[k])
                      /\ Len(rs) = 1 \/ IsComplete(rs[Len(rs)])

-----------------------------------------------------------------------------
\* Every text of JSON objects that the thread reads, and every head of one, is read
\* as it should be.
TreeIsText == phase = "select" => AllAreRead

\* Of several requests in one read the last is found as its client wrote it, whatever
\* of it is missing or of the wrong type if it comes alone, and nothing of the others,
\* whose objects it replaces under the root. They share the pool: a read whose objects
\* do not fit is refused whole, as is one with a number of more than ten characters.
LastIsRead(rs) ==
    RequestIn(TextOf(rs)) =
        IF Fits(ReaderAfter(TextOf(rs))) THEN Seen(rs[Len(rs)]) ELSE SyntaxError

LastOnesAreRead == \A rs \in Reads : LastIsRead(rs)

LastRequestIsRead == phase = "select" => LastOnesAreRead
=============================================================================
