---------------------------- MODULE MCApiRequest ----------------------------
(* ApiRequest for TLC: two outputs, ints of 4 bits, arrays of at most two;  *)
(* and the parser that brings its requests, over bounded texts.             *)
EXTENDS JsonText

TwoIds == {"a", "b"}
SomeNumbers == {-1, 0, 1, 2, 16, NaN}

Array(items)     == [kind |-> "array", size |-> Len(items), items |-> items]
Cut(size, items) == [kind |-> "array", size |-> size, items |-> items]
Arrays == {Array(<<>>)} \cup {Array(<<n>>) : n \in SomeNumbers}
              \cup {Array(<<m, n>>) : m, n \in SomeNumbers \ {2}}
              \cup {Cut(n, <<>>) : n \in 1..3} \cup {Cut(2, <<1>>)}
NoArrays == {[kind |-> kind, size |-> 0, items |-> <<>>] : kind \in {"undefined", "other"}}

\* One request for each way out of the checks, and set/out over all the arrays.
Ask(syntax, id, topic, payload, i, v) ==
    [syntax |-> syntax, msgid |-> id, topic |-> topic, payload |-> payload,
     i |-> i, v |-> v]

SomeArray == Array(<<0>>)
Plain == {Ask(syntax, id, topic, payload, SomeArray, SomeArray) :
             syntax \in {"ok", "error"}, id \in TwoIds \cup {"undefined", "not a string"},
             topic \in Topics \ {"set/out"}, payload \in {"undefined", "given"}}
SetOuts == {Ask("ok", "a", "set/out", "given", i, v) : i, v \in Arrays \cup NoArrays}
AllRequests == Plain \cup SetOuts

-----------------------------------------------------------------------------
(* Documents: leaves, arrays of two, objects of one and two members, and some *)
(* about as large as the pool of 16: an array of n items and an empty object, *)
(* and one of three levels. Requests of the gateway: get/all, and set/out of  *)
(* 1, 2 and 5 pairs, the most that a pool of 16 holds, and of one more.       *)

Leaves == {Num(0, 1), Num(-147483648, 10), Num(-8, 11), Decimal, Str(<<>>),
           Str(<<"x", "\\u", "y">>), Mark("true"), Mark("null")}
ShortArrays == {Arr(<<>>)} \cup {Arr(<<x>>) : x \in Leaves} \cup {Arr(<<x, y>>) : x, y \in Leaves}
Nested == Leaves \cup ShortArrays \cup {Arr(<<Arr(<<>>), Obj(<<>>)>>), Obj(<<>>)}
              \cup {Obj(Has("k", x)) : x \in Leaves}
Documents == {Obj(<<>>)} \cup {Obj(Has("k", x)) : x \in Nested}
                 \cup {Obj(Has("k", x) \o Has("a", y)) : x, y \in Nested}
Zeros(n)  == [k \in 1..n |-> Num(0, 1)]
Large     == UNION {{Obj(Has("k", Arr(Zeros(n) \o <<Obj(<<>>)>>))),
                     Obj(Has("k", Arr(<<Obj(<<>>)>> \o Zeros(n)))),
                     Obj(Has("k", Obj(Has("k", Arr(Zeros(n))))) \o Has("a", Num(0, 1)))}
                    : n \in 11..14}

Pairs(n)    == Array([k \in 1..n |-> k % 2])
Sent(id, n) == IF n = 0 THEN Ask("ok", id, "get/all", "given", Unlooked, Unlooked)
               ELSE Ask("ok", id, "set/out", "given", Pairs(n), Pairs(n))
Sendable    == {Sent("a", n) : n \in {0, 1, 2, 5, 6}} \cup {Sent("b", n) : n \in 0..2}

\* Texts for the parser alone: those of documents, each head of some, and what is
\* read when two or three of them come at once.
Few == {Obj(<<>>), Obj(Has("k", Arr(<<Obj(<<>>), Arr(<<>>)>>))),
        Obj(Has("k", Str(<<"x", "\\u", "y">>))),
        Obj(Has("k", Obj(Has("a", Num(0, 1)))) \o Has("a", Arr(<<Mark("null"), Arr(<<>>)>>)))}
SomeTexts ==
    {Text(d) : d \in Documents \cup Large}
      \cup UNION {{SubSeq(Text(d), 1, n) : n \in 0..Len(Text(d))} : d \in Few \cup Large}
      \cup {Text(d) \o Text(e) : d, e \in Few}
      \cup {Text(d) \o Text(e) \o Text(f) : d, e, f \in Few}
      \cup UNION {Blanked(Text(d)) : d \in Few \cup Large}
      \cup UNION {Blanked(Text(d) \o Text(e)) : d, e \in Few}

\* Each request alone, and two and three in one read; and one with a number of more
\* than ten characters.
SomeReads ==
    {<<r>> : r \in {x \in AllRequests : x.syntax = "ok" /\ IsWhole(x.i) /\ IsWhole(x.v)}}
      \cup [1..2 -> Sendable] \cup [1..3 -> {Sent(id, n) : id \in TwoIds, n \in 0..1}]
      \cup {<<[Sent("a", 1) EXCEPT !.i = Array(<<n>>)]>> : n \in {999999999, -1000000000}}

\* The reader agrees with the documents: the trees they have, and the text of a request.
ASSUME DocumentsAreTrees == \A d \in Documents \cup Large : IsTree(d)

\* The arrays of the requests have those that the parser makes of lists JSON does not
\* have: after a last comma the items are lost but not all of their count, a second
\* list takes the place of the first, and a sign alone is an item.
ASSUME NoLists ==
    LET found(items) ==
          RequestIn(ObjectText(<<MemberText(<<"topic">>, <<Str(<<"set/out">>)>>),
                                 MemberText(<<"payload">>, ObjectText(<<MemberText(<<"i">>, items)>>))>>)).i
        one == <<Num(1, 1)>>
        comma == <<Mark(",")>>
        List(content) == <<Mark("[")>> \o content \o <<Mark("]")>>
    IN  {found(List(one \o comma)), found(List(one \o comma \o one \o comma)),
         found(List(one) \o List(one)), found(List(<<Minus>>))} \subseteq Arrays

\* What a read brings does not depend on what was read before: json_init starts
\* anew. TLC evaluates this once, and looks at it whenever the thread reads.
NoPartIsARequest ==
    \A r \in {Sent("a", 0), Sent("b", 1), Sent("b", 2)}
               \cup {[Sent("a", 1) EXCEPT !.i = f, !.v = f] : f \in NoArrays} : PartsAreNoRequest(r)

\* Half a request is no request.
PartIsNoRequest == phase = "select" => NoPartIsARequest

-----------------------------------------------------------------------------
(* What the source and the README say of a request, and the code does not *)

\* "Parse int_32: -2 147 483 648 ... 2 147 483 647", says the comment of
\* json_parseNumber (libjson.c 148): an int is parsed, whichever it is.
SomeInts == {0, -1, 2147483647, -999999999, -1000000000, -2147483647}
IntsAreParsed == \A n \in SomeInts : Found(Obj(Has("k", Integer(n)))) = Obj(Has("k", Integer(n)))

\* "Allows escaped symbol \uXXXX", says json_parseString (libjson.c 123): what
\* comes after such a symbol is read too.
EscapesAreKept ==
    \A s \in {<<"x">>, <<"x", "\\u">>, <<"x", "\\u", "y">>} :
        Found(Obj(Has("k", Str(s)))) = Obj(Has("k", Str(s)))

\* The queries README.md gives for get/all (38) and set/out (80) have a topic and a
\* payload, and are answered with the values.
QueriesAreServed ==
    \A r \in {Ask("ok", "undefined", "get/all", "given", Unlooked, Unlooked),
              Ask("ok", "undefined", "set/out", "given", SomeArray, SomeArray)} :
        Refusal(RequestIn(RequestText(r))) = "none"

\* Four statements about what a request may hold: an int, an escaped symbol, no
\* _msgid; and a pair that is no number, which is refused. The trace that refutes their
\* disjunction refutes each of them: it ends in a state where none is true.
SomeStatementHolds ==
    BadPairIsRefused \/ IntsAreParsed \/ EscapesAreKept \/ QueriesAreServed
=============================================================================
