------------------------------ MODULE JsonText ------------------------------
(***************************************************************************)
(* What json_parse should make of a text, for TLC: documents, the text     *)
(* JSON.stringify gives them, and the document the getters find in a tree; *)
(* and what it should make of the parts of a request.                      *)
(***************************************************************************)
EXTENDS ReadRequest

Obj(members) == [t |-> "object", members |-> members]   \* <<key, document>> ...
Arr(items)   == [t |-> "array", items |-> items]
Has(name, doc) == << <<<<name>>, doc>> >>               \* one member

RECURSIVE Text(_)
Text(d) ==
    CASE d.t = "object" ->
           ObjectText([k \in DOMAIN d.members |->
                         MemberText(d.members[k][1], Text(d.members[k][2]))])
      [] d.t = "array"  -> ArrayText([k \in DOMAIN d.items |-> Text(d.items[k])])
      [] OTHER          -> <<d>>

\* The document in a tree.
RECURSIVE Value(_, _)
Value(pool, obj) ==
    LET kids == Children(pool, obj)
    IN  CASE pool[obj].type = "object" ->
               Obj([k \in DOMAIN kids |-> <<pool[kids[k]].key.s, Value(pool, kids[k])>>])
          [] pool[obj].type = "array" -> Arr([k \in DOMAIN kids |-> Value(pool, kids[k])])
          [] OTHER -> pool[obj].value

Parts(d) == CASE d.t = "object" -> [k \in DOMAIN d.members |-> d.members[k][2]]
              [] d.t = "array"  -> d.items
              [] OTHER          -> <<>>

\* A string is read up to its first \uXXXX.
UpToEscape(s) == SubSeq(s, 1, Min({Len(s)} \cup {k \in DOMAIN s : s[k] = "\\u"}))

RECURSIVE AsRead(_)
AsRead(d) ==
    CASE d.t = "object" -> Obj([k \in DOMAIN d.members |->
                                  <<UpToEscape(d.members[k][1]), AsRead(d.members[k][2])>>])
      [] d.t = "array"  -> Arr([k \in DOMAIN d.items |-> AsRead(d.items[k])])
      [] d.t = "string" -> Str(UpToEscape(d.s))
      [] OTHER          -> d

\* A text with blanks at one place, and at every place.
BlankAt(text, n)  == SubSeq(text, 1, n) \o <<Space>> \o SubSeq(text, n + 1, Len(text))
BlankEverywhere(text) ==
    [k \in 1..2 * Len(text) + 1 |-> IF k % 2 = 1 THEN Space ELSE text[k \div 2]]
Blanked(text) == {BlankAt(text, n) : n \in 0..Len(text)}
                   \cup {BlankEverywhere(text), Tail(Front(BlankEverywhere(text)))}

\* The document the getters find in what json_parse makes of its text.
Found(d) == LET p == json_parse(Text(d))
            IN  IF p.state = "reading" THEN Value(p.pool, p.current) ELSE NULL

\* The reader takes the text of a document, and the tree of the document is the
\* document; but it is refused if it has a number that cannot be read, or does not
\* fit in the pool, or is {}.
IsTree(d) ==
    LET r == ReaderAfter(Text(d))
    IN  /\ r.at = "outside"
        /\ IF Fits(r) /\ d # Obj(<<>>) THEN Found(d) = AsRead(d)
           ELSE json_parse(Text(d)).state = "refused"

-----------------------------------------------------------------------------
\* Cut anywhere, a request is never taken for another: its head is refused, and of
\* its rest no request is made: it is refused too, but for a rest that begins with
\* the payload. After that one a comma uses a parent that is NULL, and the program
\* fails there.
PartsAreNoRequest(r) ==
    LET text    == RequestText(r)
        First(n) == SubSeq(text, 1, n)
        Rest(n) == SubSeq(text, n + 1, Len(text))
    IN  \A n \in 1..Len(text) - 1 :
            /\ RequestIn(First(n)) = SyntaxError
            /\ \/ RequestIn(Rest(n)) = SyntaxError
               \/ text[n + 1].t = "{" /\ RequestIn(Rest(n)) = Undetermined
=============================================================================
