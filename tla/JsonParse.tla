------------------------------ MODULE JsonParse ------------------------------
(***************************************************************************)
(* libjson.c: how json_parse makes a tree of objects out of a text, and    *)
(* the getters api.c reads it with. The objects come from a pool that each *)
(* call starts anew; pointers are indexes into it, 0 is NULL.              *)
(*                                                                         *)
(* A text is a sequence of tokens. A string is a sequence of units, each a *)
(* character or an escape that stands for one; "\\u" is the unit \uXXXX.   *)
(* A number has its value n and its length in characters, the sign too; "-" *)
(* is a sign alone. Several blanks in a row are one token.                 *)
(***************************************************************************)
EXTENDS Integers, Sequences, SequencesExt

CONSTANT StackSize   \* API_PARSED_STACK_SIZE, the objects of the pool

ASSUME StackAssumption == StackSize \in Nat /\ StackSize >= 2

Mark(c)      == [t |-> c]           \* a mark, or a primitive
Str(units)   == [t |-> "string", s |-> units]
Num(n, len)  == [t |-> "number", n |-> n, len |-> len]
Minus        == [t |-> "-", len |-> 1]
Decimal      == [t |-> "decimal"]   \* digits that something else comes after
Space        == Mark(" ")           \* blanks
Primitives   == {"true", "false", "null"}
NULL         == [t |-> "NULL"]      \* of a key or a value

\* value shares its memory with child: the type says which one it is, and no
\* getter reads the other.
Blank == [type |-> "UNDEFINED", key |-> NULL, value |-> NULL,
          parent |-> 0, next |-> 0, child |-> 0, size |-> 0]

\* A parser at work: pool, current, parent, next as in the code; state is
\* "reading", "refused" once json_parse has returned NULL, or "undefined" once
\* it has used a parent that is NULL.
json_init == [pool |-> [k \in 1..StackSize |-> Blank],
              current |-> 1, parent |-> 0, next |-> 2, state |-> "reading"]

Refused(p)   == [p EXCEPT !.state = "refused"]
Undefined(p) == [p EXCEPT !.state = "undefined"]
Current(p)   == p.pool[p.current]
Parent(p)    == p.pool[p.parent]

\* Slips a programmer could make, in the definition that follows each: an object
\* keeps the first child it got; a child that is given back stays counted; what was
\* opened need not be closed. No definition of the model uses them.
SlipKeepFirst(p) ==
    IF p.next > StackSize THEN Refused(p)
    ELSE [p EXCEPT !.parent = p.current, !.current = p.next, !.next = @ + 1,
                   !.pool[p.current].child = IF @ = 0 THEN p.next ELSE @,
                   !.pool[p.current].size = @ + 1,
                   !.pool[p.next].parent = p.current]

json_alloc_child(p) ==
    IF p.next > StackSize THEN Refused(p)
    ELSE [p EXCEPT !.parent = p.current, !.current = p.next, !.next = @ + 1,
                   !.pool[p.current].child = p.next,
                   !.pool[p.current].size = @ + 1,
                   !.pool[p.next].parent = p.current]

SlipStillCounted(p) ==
    [p EXCEPT !.next = @ - 1, !.pool[p.current] = Blank, !.pool[p.parent].child = 0]

\* The parent has no child any more, whatever children it had.
json_free_child(p) ==
    [p EXCEPT !.next = @ - 1,
              !.pool[p.current] = Blank,
              !.pool[p.parent].child = 0,
              !.pool[p.parent].size = @ - 1]

json_alloc_next(p) ==
    IF p.parent = 0 THEN Undefined(p)
    ELSE IF Parent(p).type \notin {"object", "array"} \/ p.next > StackSize THEN Refused(p)
    ELSE [p EXCEPT !.current = p.next, !.next = @ + 1,
                   !.pool[p.current].next = p.next,
                   !.pool[p.next].parent = p.parent,
                   !.pool[p.parent].size = @ + 1]

Store(p, type, content) ==
    [p EXCEPT !.pool[p.current].type = type, !.pool[p.current].value = content]

\* Decoding \uXXXX writes a NUL after the character and then steps over it:
\* the string ends there.
Decoded(units) ==
    IF "\\u" \in Range(units) THEN SubSeq(units, 1, SelectInSeq(units, LAMBDA u : u = "\\u"))
    ELSE units

json_parseString(p, token) ==
    IF p.parent = 0 THEN Undefined(p)
    ELSE IF Parent(p).type = "object" /\ Current(p).key = NULL
      THEN [p EXCEPT !.pool[p.current].key = Str(Decoded(token.s))]
      ELSE Store(p, "string", Str(Decoded(token.s)))

\* Neither a number nor a primitive can stand where a key is due.
IsMisplaced(p) == Current(p).key = NULL /\ Parent(p).type # "array"

\* Digits end at one of the marks that may follow a value: a point or an exponent is
\* refused, and so is a blank.
IsEnded(text, k) == k < Len(text) /\ text[k + 1].t \in {",", "]", "}"}
Scanned(text) ==
    [k \in DOMAIN text |-> IF text[k].t \in {"number", "-"} /\ ~IsEnded(text, k)
                             THEN Decimal ELSE text[k]]

\* At most ten characters, the sign included.
json_parseNumber(p, token) ==
    IF p.parent = 0 THEN Undefined(p)
    ELSE IF IsMisplaced(p) \/ token.t = "decimal" THEN Refused(p)
    ELSE IF token.len > 10 THEN Refused(p)
    ELSE Store(p, "number", token)

json_parsePrimitive(p, token) ==
    IF p.parent = 0 THEN Undefined(p)
    ELSE IF IsMisplaced(p) THEN Refused(p)
    ELSE Store(p, IF token.t = "null" THEN "null" ELSE "boolean", token)

Open(p, type) == json_alloc_child([p EXCEPT !.pool[p.current].type = type])

Colon(p) ==
    IF p.parent = 0 THEN Undefined(p)
    ELSE IF Parent(p).type # "object" \/ Current(p).key = NULL THEN Refused(p) ELSE p

\* An object that was allocated for a child and got none is given back. A mark
\* that does not match its parent is passed over.
Close(p, type) ==
    LET q == IF Current(p).key = NULL /\ Current(p).type = "UNDEFINED"
               THEN json_free_child(p) ELSE p
    IN  IF q.parent # 0 /\ Parent(q).type = type
          THEN [q EXCEPT !.current = q.parent, !.parent = Parent(q).parent]
          ELSE q

Step(p, token) ==
    IF p.state # "reading" THEN p
    ELSE CASE token.t = "{"                   -> Open(p, "object")
           [] token.t = "["                   -> Open(p, "array")
           [] token.t = ":"                   -> Colon(p)
           [] token.t = ","                   -> json_alloc_next(p)
           [] token.t = "string"              -> json_parseString(p, token)
           [] token.t \in {"number", "-", "decimal"} -> json_parseNumber(p, token)
           [] token.t \in Primitives          -> json_parsePrimitive(p, token)
           [] token.t = "}"                   -> Close(p, "object")
           [] token.t = "]"                   -> Close(p, "array")
           [] token.t = " "                   -> p

AfterTokens(text) ==
    LET p[k \in 0..Len(text)] == IF k = 0 THEN json_init ELSE Step(p[k - 1], text[k])
    IN  p[Len(text)]

\* Of three characters at least: the one text of two that is braced is {}. A blank
\* before the first mark or after the last one is not passed over.
IsBraced(text) == Len(text) >= 3 /\ text[1].t = "{" /\ text[Len(text)].t = "}"

SlipLeftOpen(text) ==
    IF IsBraced(text) THEN AfterTokens(Scanned(text)) ELSE Refused(json_init)

\* The text must begin with { and end with }, and everything opened be closed.
json_parse(text) ==
    IF ~IsBraced(text) THEN Refused(json_init)
    ELSE LET p == AfterTokens(Scanned(text))
         IN  IF p.state = "reading" /\ p.parent # 0 THEN Refused(p) ELSE p

-----------------------------------------------------------------------------
(* The getters: an index of the pool, 0 for NULL, or -1 when the chain of   *)
(* children ends before the size of the object says so.                    *)

\* The children of an object, in the order of the chain, at most size of them.
Children(pool, obj) ==
    LET chain[k \in 0..pool[obj].size] ==
          IF k = 0 THEN <<>>
          ELSE LET sofar == chain[k - 1]
                   last   == IF sofar = <<>> THEN pool[obj].child
                             ELSE pool[sofar[Len(sofar)]].next
               IN  IF (sofar = <<>> /\ k > 1) \/ last = 0 THEN sofar ELSE Append(sofar, last)
    IN  chain[pool[obj].size]

json_get(pool, obj, key) ==
    IF obj <= 0 \/ pool[obj].type # "object" THEN 0
    ELSE LET kids  == Children(pool, obj)
             found == SelectInSeq(kids, LAMBDA c : pool[c].key = Str(key))
         IN  IF found # 0 THEN kids[found]
             ELSE IF Len(kids) < pool[obj].size THEN -1 ELSE 0

json_arrayLength(pool, obj) == IF pool[obj].type = "array" THEN pool[obj].size ELSE -1
=============================================================================
