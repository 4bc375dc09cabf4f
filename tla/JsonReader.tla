------------------------------ MODULE JsonReader ------------------------------
(***************************************************************************)
(* What json_parse promises, without its pool and its pointers: a reader   *)
(* that takes the tokens of a text by the grammar of JSON, one object      *)
(* after another. The nodes of the tree are numbered as they begin in the  *)
(* text; a node has a label, and the sequence of its kids.                 *)
(***************************************************************************)
EXTENDS JsonParse

CONSTANT Texts   \* the texts that are read

ASSUME TextsAssumption == \A text \in Texts : text \in Seq(Range(text))

Label(type, key, content) == [type |-> type, key |-> key, value |-> content]
NoLabel == Label("UNDEFINED", NULL, NULL)

\* at says what the reader has just passed, or what is to come: "outside" of every
\* object; "first", after the mark that opens; "next", after a comma; "colon", when
\* one is due; a "value" that is due after its key; "after" a value; or the text is
\* "wrong". Blanks may be anywhere between. open has the containers that are open. earlier counts the members of the
\* objects that were read before the last one; room, the objects that were in use at
\* most: the nodes, and one for a member or an item that is due.
Start == [at |-> "outside", open |-> <<>>, label |-> <<NoLabel>>, kids |-> << <<>> >>,
          earlier |-> 0, room |-> 1, readable |-> TRUE]

Nodes(r)   == Len(r.label)
Top(r)     == r.open[Len(r.open)]
TopType(r) == r.label[Top(r)].type
IsDue(r)   == r.at \in {"first", "next"}
InUse(r)   == Nodes(r) + (IF IsDue(r) THEN 1 ELSE 0)

At(r, place) == [r EXCEPT !.at = place]

\* A value may come after its key, and as an item of an array.
MayHaveValue(r) == r.at = "value" \/ (IsDue(r) /\ TopType(r) = "array")

\* A node begins, the last of the kids of the container it is in.
Begin(r, key) ==
    [r EXCEPT !.at = "value",
              !.label = Append(@, Label("UNDEFINED", key, NULL)),
              !.kids = Append([@ EXCEPT ![Top(r)] = Append(r.kids[Top(r)], Nodes(r) + 1)], <<>>)]

\* The node a value is for: that of its key, or a new one for an item.
Node(r) == IF r.at = "value" THEN r ELSE Begin(r, NULL)

Filled(r, type, content) ==
    [r EXCEPT !.at = "after", !.label[Nodes(r)].type = type, !.label[Nodes(r)].value = content]

Opened(r, type) ==
    [r EXCEPT !.at = "first", !.label[Nodes(r)].type = type, !.open = Append(@, Nodes(r))]

\* Another object takes the place of the one before it.
OpenedAgain(r) ==
    [r EXCEPT !.at = "first", !.label[1].type = "object", !.open = <<1>>,
              !.kids[1] = <<>>, !.earlier = @ + Len(r.kids[1])]

Closed(r) ==
    [r EXCEPT !.at = IF Len(r.open) = 1 THEN "outside" ELSE "after",
              !.open = SubSeq(@, 1, Len(@) - 1)]

Unreadable(token) == token.t = "decimal" \/ token.len > 10

Taken(r, token) ==
    CASE token.t = "{" /\ r.at = "outside" -> OpenedAgain(r)
      [] token.t = "{" /\ MayHaveValue(r) -> Opened(Node(r), "object")
      [] token.t = "[" /\ MayHaveValue(r) -> Opened(Node(r), "array")
      [] token.t = "}" /\ r.at \in {"first", "after"} /\ TopType(r) = "object" -> Closed(r)
      [] token.t = "]" /\ r.at \in {"first", "after"} /\ TopType(r) = "array" -> Closed(r)
      [] token.t = "," /\ r.at = "after" -> At(r, "next")
      [] token.t = ":" /\ r.at = "colon" -> At(r, "value")
      [] token.t = "string" /\ IsDue(r) /\ TopType(r) = "object" ->
           At(Begin(r, Str(Decoded(token.s))), "colon")
      [] token.t = "string" /\ MayHaveValue(r) ->
           Filled(Node(r), "string", Str(Decoded(token.s)))
      [] token.t \in {"number", "decimal"} /\ MayHaveValue(r) ->
           [Filled(Node(r), "number", token) EXCEPT !.readable = @ /\ ~Unreadable(token)]
      [] token.t \in Primitives /\ MayHaveValue(r) ->
           Filled(Node(r), IF token.t = "null" THEN "null" ELSE "boolean", token)
      [] OTHER -> At(r, "wrong")

Passed(r, token) ==
    IF r.at = "wrong" \/ token = Space THEN r
    ELSE LET q == Taken(r, token)
         IN  [q EXCEPT !.room = IF InUse(q) > @ THEN InUse(q) ELSE @]

ReaderAfter(text) ==
    LET r[k \in 0..Len(text)] == IF k = 0 THEN Start ELSE Passed(r[k - 1], text[k])
    IN  r[Len(text)]

-----------------------------------------------------------------------------
Fits(r) == r.readable /\ r.room <= StackSize

\* The pool has the nodes of r, and each the kids it has there. The size of an
\* object is the number of its kids, but that of the root counts the members of
\* every object of the text.
HasTree(p, r) ==
    /\ p.state = "reading" /\ p.current = 1
    /\ \A k \in 1..Nodes(r) :
          /\ Label(p.pool[k].type, p.pool[k].key, p.pool[k].value) = r.label[k]
          /\ Children(p.pool, k) = r.kids[k]
          /\ p.pool[k].size = Len(r.kids[k]) + (IF k = 1 THEN r.earlier ELSE 0)

\* A text of JSON objects is read as the tree it is, but for what json_parse cannot
\* read of JSON: a number that is no integer, has more than ten characters, or has a
\* blank before the mark that follows it; a blank at either end; {}; more nodes than
\* the pool has; and a string is read to its first \uXXXX (Decoded). All else it
\* refuses, and the head of such a text, cut where an object is open.
IsRead(text) ==
    LET r == ReaderAfter(Scanned(text))
        p == json_parse(text)
    IN  r.at # "wrong" =>
            IF r.at = "outside" /\ IsBraced(text) /\ Fits(r) THEN HasTree(p, r)
            ELSE p.state = "refused"

AllAreRead == \A text \in Texts : IsRead(text)
=============================================================================
