-------------------------- MODULE JsonReaderProofs --------------------------
(***************************************************************************)
(* libjson makes of a text of JSON objects the tree that the text is, for  *)
(* every text, whatever its length and its depth, and for every pool.      *)
(***************************************************************************)
EXTENDS JsonReader, SumsProofs, SequenceTheorems, TLAPS

-----------------------------------------------------------------------------
(* The invariant of the two that take the same tokens                       *)

\* What the keys and the values of a text are.
Contents(text) ==
    {NULL} \cup Range(text)
      \cup {Str(Decoded(token.s)) : token \in {x \in Range(text) : x.t = "string"}}

Places == {"outside", "first", "next", "colon", "value", "after", "wrong"}

Types == {"UNDEFINED", "object", "array", "string", "number", "boolean", "null"}

Labels(C)  == [type : Types, key : C, value : C]
Objects(C) == [type : Types, key : C, value : C,
               parent : Nat, next : Nat, child : Nat, size : Nat]

IsReader(r, C) ==
    /\ r \in [at : Places, open : Seq(Nat), label : Seq(Labels(C)), kids : Seq(Seq(Nat)),
              earlier : Nat, room : Nat, readable : BOOLEAN]
    /\ Nodes(r) >= 1 /\ Len(r.kids) = Nodes(r)

IsParser(p, C) ==
    p \in [pool : [1..StackSize -> Objects(C)], current : Nat, parent : Nat, next : Nat,
           state : {"reading", "refused", "undefined"}]

EndOf(s) == s[Len(s)]

\* A node comes after its parent, and the kids of a node in the order of the text.
InOrder(r) ==
    \A k \in 1..Nodes(r) :
        /\ \A i \in 1..Len(r.kids[k]) : r.kids[k][i] \in k + 1..Nodes(r)
        /\ \A i, j \in 1..Len(r.kids[k]) : i < j => r.kids[k][i] < r.kids[k][j]

\* The open containers are a path from the root, each the last kid of the one before.
IsPath(r) ==
    /\ r.open = <<>> <=> r.at = "outside"
    /\ r.open # <<>> => r.open[1] = 1 /\ r.label[1].type = "object"
    /\ \A i \in 1..Len(r.open) : /\ r.open[i] \in 1..Nodes(r)
                                 /\ r.label[r.open[i]].type \in {"object", "array"}
    /\ \A i \in 1..Len(r.open) - 1 : /\ Len(r.kids[r.open[i]]) > 0
                                     /\ EndOf(r.kids[r.open[i]]) = r.open[i + 1]

\* A member has a key, an item has none.
Suits(r, key) == key = NULL <=> TopType(r) = "array"

\* The last node waits for its colon or its value; it has a key in an object only.
IsWaiting(r) ==
    LET n == Nodes(r)
    IN  /\ Len(r.kids[Top(r)]) > 0 /\ EndOf(r.kids[Top(r)]) = n
        /\ r.kids[n] = <<>> /\ r.label[n].type = "UNDEFINED" /\ r.label[n].value = NULL
        /\ Suits(r, r.label[n].key)

\* What at says of the innermost container.
IsPlaced(r) ==
    /\ r.at \in {"colon", "value"} => IsWaiting(r)
    /\ r.at = "colon" => TopType(r) = "object"
    /\ r.at = "first" => r.kids[Top(r)] = <<>>
    /\ r.at \in {"after", "next"} => Len(r.kids[Top(r)]) > 0
    /\ r.at = "after" => r.label[EndOf(r.kids[Top(r)])].type # "UNDEFINED"

ReaderInv(r, C) == IsReader(r, C) /\ InOrder(r) /\ IsPath(r) /\ IsPlaced(r)

\* The kids of a node, with the object for the one that is due.
Slots(r, k) ==
    IF IsDue(r) /\ k = Top(r) THEN Append(r.kids[k], Nodes(r) + 1) ELSE r.kids[k]

\* Where the parser stands.
Stands(p, r) ==
    /\ p.state = "reading" /\ InUse(r) <= StackSize /\ p.next = InUse(r) + 1
    /\ r.open = <<>> => p.parent = 0 /\ p.current = 1
    /\ r.open # <<>> => p.parent = Top(r) /\ p.current = EndOf(Slots(r, Top(r)))

\* The objects of the nodes have their labels, and those of no node are blank.
HasLabels(p, r) ==
    /\ \A k \in 1..Nodes(r) :
          /\ p.pool[k].type = r.label[k].type
          /\ p.pool[k].key = r.label[k].key /\ p.pool[k].value = r.label[k].value
    /\ \A k \in Nodes(r) + 1..StackSize :
          /\ p.pool[k].type = "UNDEFINED" /\ p.pool[k].key = NULL /\ p.pool[k].value = NULL
          /\ p.pool[k].next = 0 /\ p.pool[k].child = 0 /\ p.pool[k].size = 0
    /\ \A k \in InUse(r) + 1..StackSize : p.pool[k].parent = 0

\* The links of the pool are the kids of the reader.
HasLinks(p, r) ==
    /\ p.pool[1].parent = 0
    /\ \A k \in 1..Nodes(r) :
          /\ p.pool[k].child = IF Slots(r, k) = <<>> THEN 0 ELSE Slots(r, k)[1]
          /\ p.pool[k].size = Len(Slots(r, k)) + (IF k = 1 THEN r.earlier ELSE 0)
          /\ \A i \in 1..Len(Slots(r, k)) :
                /\ p.pool[Slots(r, k)[i]].parent = k
                /\ p.pool[Slots(r, k)[i]].next = IF i = Len(Slots(r, k)) THEN 0
                                                 ELSE Slots(r, k)[i + 1]

Mirrors(p, r, C) ==
    IsParser(p, C) /\ Stands(p, r) /\ HasLabels(p, r) /\ HasLinks(p, r)

\* After the same tokens: a reader that is not wrong, and a parser that holds its tree
\* or that has refused what does not fit.
Together(p, r, C) ==
    r.at # "wrong" =>
        /\ ReaderInv(r, C)
        /\ IF Fits(r) THEN Mirrors(p, r, C) ELSE p.state = "refused"
-----------------------------------------------------------------------------
(* Sequences                                                                *)

\* What Append makes of a sequence.
LEMMA AppendFacts ==
    ASSUME NEW S, NEW s \in Seq(S), NEW e \in S
    PROVE  /\ Append(s, e) \in Seq(S) /\ Len(Append(s, e)) = Len(s) + 1
           /\ \A i \in 1..Len(s) : Append(s, e)[i] = s[i]
           /\ Append(s, e)[Len(s) + 1] = e
OBVIOUS

\* The elements of a sequence are in its set.
LEMMA ElementFacts ==
    ASSUME NEW S, NEW s \in Seq(S), NEW i \in 1..Len(s)
    PROVE  s[i] \in S
OBVIOUS

\* An element of a sequence replaced.
LEMMA ReplaceFacts ==
    ASSUME NEW S, NEW s \in Seq(S), NEW n \in 1..Len(s), NEW e \in S
    PROVE  /\ [s EXCEPT ![n] = e] \in Seq(S) /\ Len([s EXCEPT ![n] = e]) = Len(s)
           /\ \A i \in 1..Len(s) : [s EXCEPT ![n] = e][i] = IF i = n THEN e ELSE s[i]
OBVIOUS

\* The empty sequence is the one without elements.
LEMMA EmptyFacts ==
    ASSUME NEW S
    PROVE  /\ <<>> \in Seq(S) /\ Len(<<>>) = 0
           /\ \A s \in Seq(S) : Len(s) \in Nat /\ (s = <<>> <=> Len(s) = 0)
OBVIOUS

\* A sequence without its last element.
LEMMA FrontFacts ==
    ASSUME NEW S, NEW s \in Seq(S), Len(s) > 0
    PROVE  /\ SubSeq(s, 1, Len(s) - 1) \in Seq(S)
           /\ Len(SubSeq(s, 1, Len(s) - 1)) = Len(s) - 1
           /\ \A i \in 1..Len(s) - 1 : SubSeq(s, 1, Len(s) - 1)[i] = s[i]
<1>1. 1 \in Int /\ Len(s) - 1 \in Int /\ Len(s) \in Nat
  OBVIOUS
<1>2. \A i \in 1..Len(s) - 1 : s[i] \in S
  OBVIOUS
<1> DEFINE n == Len(s) - 1
<1>3. /\ SubSeq(s, 1, n) \in Seq(S)
      /\ Len(SubSeq(s, 1, n)) = IF 1 <= n THEN n - 1 + 1 ELSE 0
      /\ \A i \in 1..n - 1 + 1 : SubSeq(s, 1, n)[i] = s[1 + i - 1]
  <2> HIDE DEF n
  <2>1. n \in Int /\ \A i \in 1..n : s[i] \in S
    BY <1>1, <1>2 DEF n
  <2>2. QED
    BY <1>1, <2>1, SubSeqProperties
<1>4. ASSUME NEW i \in 1..Len(s) - 1
      PROVE  SubSeq(s, 1, Len(s) - 1)[i] = s[i]
  <2>1. i \in 1..n - 1 + 1 /\ 1 + i - 1 = i
    BY <1>1
  <2>2. SubSeq(s, 1, n)[i] = s[1 + i - 1]
    BY <1>3, <2>1
  <2>3. QED
    BY <2>1, <2>2
<1>5. n \in Nat
  BY <1>1
<1>6. Len(SubSeq(s, 1, n)) = n
  <2> HIDE DEF n
  <2> DEFINE m == Len(SubSeq(s, 1, n))
  <2>1. m = IF 1 <= n THEN n - 1 + 1 ELSE 0
    BY <1>3
  <2> HIDE DEF m
  <2>2. m = n
    BY <1>5, <2>1
  <2>3. QED
    BY <2>2 DEF m
<1>7. QED
  BY <1>3, <1>4, <1>6

-----------------------------------------------------------------------------
(* The moves of the reader                                                  *)

\* In an object, or an array, the innermost container is one of the nodes.
LEMMA TopFacts ==
    ASSUME NEW C, NEW r, ReaderInv(r, C), r.open # <<>>
    PROVE  /\ Len(r.open) \in Nat /\ Len(r.open) > 0
           /\ Top(r) \in 1..Nodes(r) /\ Nodes(r) \in Nat
           /\ r.kids[Top(r)] \in Seq(Nat)
           /\ TopType(r) \in {"object", "array"}
<1>1. /\ r.open \in Seq(Nat) /\ r.kids \in Seq(Seq(Nat)) /\ r.label \in Seq(Labels(C))
      /\ Len(r.kids) = Nodes(r)
  BY DEF ReaderInv, IsReader
<1>2. Len(r.open) \in Nat /\ Len(r.open) > 0
  BY <1>1, EmptyFacts
<1>3. Top(r) \in 1..Nodes(r) /\ TopType(r) \in {"object", "array"}
  <2>1. Len(r.open) \in 1..Len(r.open)
    BY <1>2
  <2>2. QED
    BY <2>1 DEF ReaderInv, IsPath, Top, TopType
<1>4. Nodes(r) \in Nat
  BY <1>1 DEF Nodes
<1>5. r.kids[Top(r)] \in Seq(Nat)
  BY <1>1, <1>3, ElementFacts
<1>6. QED
  BY <1>2, <1>3, <1>4, <1>5

\* What Begin makes of the fields of a reader.
LEMMA BeginFields ==
    ASSUME NEW C, NULL \in C, NEW r, ReaderInv(r, C), r.open # <<>>, NEW key \in C,
           NEW q, q = Begin(r, key)
    PROVE  /\ IsReader(q, C) /\ Nodes(q) = Nodes(r) + 1 /\ Top(q) = Top(r)
           /\ q.at = "value" /\ q.open = r.open /\ q.earlier = r.earlier
           /\ q.room = r.room /\ q.readable = r.readable
           /\ \A k \in 1..Nodes(r) : q.label[k] = r.label[k]
           /\ q.label[Nodes(r) + 1] = Label("UNDEFINED", key, NULL)
           /\ \A k \in 1..Nodes(r) : k # Top(r) => q.kids[k] = r.kids[k]
           /\ q.kids[Top(r)] = Append(r.kids[Top(r)], Nodes(r) + 1)
           /\ q.kids[Nodes(r) + 1] = <<>>
<1> DEFINE n == Nodes(r)
           t == Top(r)
           l == Label("UNDEFINED", key, NULL)
           more == Append(r.kids[t], n + 1)
           kids == [r.kids EXCEPT ![t] = more]
<1>1. /\ r.label \in Seq(Labels(C)) /\ r.kids \in Seq(Seq(Nat))
      /\ n \in Nat /\ n >= 1 /\ Len(r.kids) = n /\ Len(r.label) = n
  BY DEF ReaderInv, IsReader, Nodes
<1>2. t \in 1..n /\ r.kids[t] \in Seq(Nat)
  BY TopFacts
<1>3. l \in Labels(C)
  BY DEF Label, Labels, Types
<1>4. /\ Append(r.label, l) \in Seq(Labels(C)) /\ Len(Append(r.label, l)) = n + 1
      /\ \A k \in 1..n : Append(r.label, l)[k] = r.label[k]
      /\ Append(r.label, l)[n + 1] = l
  BY <1>1, <1>3, AppendFacts
<1>5. more \in Seq(Nat)
  BY <1>1, <1>2, AppendFacts
<1>6. /\ kids \in Seq(Seq(Nat)) /\ Len(kids) = n
      /\ \A k \in 1..n : kids[k] = IF k = t THEN more ELSE r.kids[k]
  BY <1>1, <1>2, <1>5, ReplaceFacts
<1>7. /\ Append(kids, <<>>) \in Seq(Seq(Nat)) /\ Len(Append(kids, <<>>)) = n + 1
      /\ \A k \in 1..n : Append(kids, <<>>)[k] = kids[k]
      /\ Append(kids, <<>>)[n + 1] = <<>>
  <2> HIDE DEF kids
  <2>1. <<>> \in Seq(Nat)
    BY EmptyFacts
  <2>2. QED
    BY <1>6, <2>1, AppendFacts
<1>8. /\ q.at = "value" /\ q.open = r.open /\ q.earlier = r.earlier
      /\ q.room = r.room /\ q.readable = r.readable
      /\ q.label = Append(r.label, l) /\ q.kids = Append(kids, <<>>)
  <2> HIDE DEF l, more
  <2>1. q = [r EXCEPT !.at = "value", !.label = Append(@, l), !.kids = Append(kids, <<>>)]
    BY DEF Begin, l, more
  <2> HIDE DEF kids
  <2>2. QED
    BY <2>1 DEF ReaderInv, IsReader
<1> HIDE DEF kids, l, more
<1>9. IsReader(q, C) /\ Nodes(q) = n + 1
  <2>1. q \in [at : Places, open : Seq(Nat), label : Seq(Labels(C)), kids : Seq(Seq(Nat)),
               earlier : Nat, room : Nat, readable : BOOLEAN]
    BY <1>4, <1>7 DEF l, more, kids, Begin, ReaderInv, IsReader, Places
  <2>2. QED
    BY <1>1, <1>4, <1>7, <1>8, <2>1 DEF IsReader, Nodes
<1>10. Top(q) = t
  BY <1>8 DEF Top
<1>11. /\ \A k \in 1..n : k # t => q.kids[k] = r.kids[k]
       /\ q.kids[t] = more
  BY <1>2, <1>6, <1>7, <1>8
<1>12. QED
  BY <1>4, <1>7, <1>8, <1>9, <1>10, <1>11 DEF l, more

\* A container is open wherever a member, an item or a value is due.
LEMMA OpenFacts ==
    ASSUME NEW C, NEW r, ReaderInv(r, C)
    PROVE  r.open = <<>> <=> r.at = "outside"
BY DEF ReaderInv, IsPath

\* The open containers are numbered in the order in which they were opened.
LEMMA PathAscends ==
    ASSUME NEW C, NEW r, ReaderInv(r, C)
    PROVE  \A i, j \in 1..Len(r.open) : i < j => r.open[i] < r.open[j]
<1> DEFINE m == Len(r.open)
           S == {d \in Nat : \A i \in 1..m : i + d + 1 <= m => r.open[i] < r.open[i + d + 1]}
<1>1. m \in Nat /\ r.open \in Seq(Nat) /\ Nodes(r) \in Nat /\ r.kids \in Seq(Seq(Nat))
      /\ Len(r.kids) = Nodes(r)
  BY EmptyFacts DEF ReaderInv, IsReader, Nodes
<1>2. \A i \in 1..m : r.open[i] \in 1..Nodes(r)
  BY DEF ReaderInv, IsPath
<1>3. ASSUME NEW i \in 1..m - 1
      PROVE  r.open[i] < r.open[i + 1]
  <2> DEFINE k == r.open[i]
             s == r.kids[k]
  <2>1. k \in 1..Nodes(r) /\ Len(s) > 0 /\ s[Len(s)] = r.open[i + 1]
    <3>1. Len(s) > 0 /\ EndOf(s) = r.open[i + 1]
      BY DEF ReaderInv, IsPath
    <3>2. i \in 1..m
      BY <1>1
    <3>3. QED
      BY <1>2, <3>1, <3>2 DEF EndOf
  <2>2. s \in Seq(Nat)
    BY <1>1, <2>1, ElementFacts
  <2>3. Len(s) \in 1..Len(s)
    BY <2>1, <2>2, EmptyFacts
  <2>4. s[Len(s)] \in k + 1..Nodes(r)
    BY <2>1, <2>3 DEF ReaderInv, InOrder
  <2>5. QED
    BY <2>1, <2>4
<1>4. 0 \in S
  BY <1>1, <1>3
<1>5. ASSUME NEW d \in Nat, d \in S
      PROVE  d + 1 \in S
  <2> SUFFICES ASSUME NEW i \in 1..m, i + (d + 1) + 1 <= m
               PROVE  r.open[i] < r.open[i + (d + 1) + 1]
    OBVIOUS
  <2>1. /\ i + (d + 1) + 1 = i + d + 2 /\ i + d + 1 <= m
        /\ r.open[i] < r.open[i + d + 1]
    BY <1>1, <1>5
  <2>2. i + d + 1 \in 1..m - 1 /\ i + d + 1 + 1 = i + d + 2
    BY <1>1
  <2>3. r.open[i + d + 1] < r.open[i + d + 2]
    BY <1>3, <2>2
  <2>4. r.open[i] \in Nat /\ r.open[i + d + 1] \in Nat /\ r.open[i + d + 2] \in Nat
    <3>1. i + d + 1 \in 1..m /\ i + d + 2 \in 1..m
      BY <1>1
    <3>2. QED
      BY <1>1, <3>1, ElementFacts
  <2>5. QED
    BY <2>1, <2>3, <2>4
<1> HIDE DEF S
<1>6. \A d \in Nat : d \in S
  BY <1>4, <1>5, Induction
<1>7. ASSUME NEW i \in 1..m, NEW j \in 1..m, i < j
      PROVE  r.open[i] < r.open[j]
  <2>1. j - i - 1 \in Nat /\ i + (j - i - 1) + 1 = j
    BY <1>1, <1>7
  <2>2. j - i - 1 \in S
    BY <1>6, <2>1
  <2>3. QED
    BY <2>1, <2>2, <1>1 DEF S
<1>8. QED
  BY <1>7

\* A node that begins where one is due keeps the invariant of the reader.
LEMMA BeginKeeps ==
    ASSUME NEW C, NULL \in C, NEW r, ReaderInv(r, C), IsDue(r), NEW key \in C,
           Suits(r, key),
           NEW q, q = Begin(r, key)
    PROVE  /\ ReaderInv(q, C) /\ InUse(q) = InUse(r)
           /\ \A k \in 1..Nodes(r) : Slots(q, k) = Slots(r, k)
<1> DEFINE n == Nodes(r)
           t == Top(r)
<1>1. r.open # <<>> /\ r.at \in {"first", "next"}
  BY OpenFacts DEF IsDue
<1>2. /\ n \in Nat /\ n >= 1 /\ t \in 1..n /\ Len(r.kids) = n
      /\ r.kids \in Seq(Seq(Nat)) /\ r.kids[t] \in Seq(Nat) /\ Len(r.open) \in Nat
  BY <1>1, TopFacts DEF ReaderInv, IsReader
<1>3. /\ IsReader(q, C) /\ Nodes(q) = n + 1 /\ Top(q) = t
      /\ q.at = "value" /\ q.open = r.open
      /\ \A k \in 1..n : q.label[k] = r.label[k]
      /\ q.label[n + 1] = Label("UNDEFINED", key, NULL)
      /\ \A k \in 1..n : k # t => q.kids[k] = r.kids[k]
      /\ q.kids[t] = Append(r.kids[t], n + 1)
      /\ q.kids[n + 1] = <<>>
  BY <1>1, BeginFields
<1>4. /\ Len(q.kids[t]) = Len(r.kids[t]) + 1 /\ Len(r.kids[t]) \in Nat
      /\ \A i \in 1..Len(r.kids[t]) : q.kids[t][i] = r.kids[t][i]
      /\ q.kids[t][Len(r.kids[t]) + 1] = n + 1
  BY <1>2, <1>3, AppendFacts, EmptyFacts
<1> HIDE DEF n, t
<1>4a. n \in Nat /\ n >= 1 /\ t \in 1..n
  BY <1>2
<1>5. InOrder(q)
  <2>1. ASSUME NEW k \in 1..n + 1
        PROVE  /\ \A i \in 1..Len(q.kids[k]) : q.kids[k][i] \in k + 1..n + 1
               /\ \A i, j \in 1..Len(q.kids[k]) : i < j => q.kids[k][i] < q.kids[k][j]
    <3>1. CASE k = n + 1
      <4>1. Len(q.kids[k]) = 0
        BY <1>3, <3>1, EmptyFacts
      <4>2. QED
        BY <4>1
    <3>2. CASE k \in 1..n /\ k # t
      <4>1. q.kids[k] = r.kids[k]
        BY <1>3, <3>2
      <4>2. /\ \A i \in 1..Len(r.kids[k]) : r.kids[k][i] \in k + 1..n
            /\ \A i, j \in 1..Len(r.kids[k]) : i < j => r.kids[k][i] < r.kids[k][j]
        BY <3>2 DEF ReaderInv, InOrder, n
      <4>3. \A x \in k + 1..n : x \in k + 1..n + 1
        BY <1>2
      <4>4. QED
        BY <4>1, <4>2, <4>3
    <3>3. CASE k = t
      <4>1. /\ \A i \in 1..Len(r.kids[t]) : r.kids[t][i] \in t + 1..n
            /\ \A i, j \in 1..Len(r.kids[t]) : i < j => r.kids[t][i] < r.kids[t][j]
        BY <1>2 DEF ReaderInv, InOrder, n
      <4>2. QED
        <5> DEFINE L == Len(r.kids[t])
        <5>1. \A i \in 1..Len(q.kids[t]) : i \in 1..L \/ i = L + 1
          BY <1>4
        <5>2. ASSUME NEW i \in 1..Len(q.kids[t])
              PROVE  q.kids[t][i] \in t + 1..n + 1
          <6>1. CASE i \in 1..L
            <7>1. q.kids[t][i] \in t + 1..n
              BY <1>4, <4>1, <6>1
            <7>2. QED
              BY <1>4a, <7>1
          <6>2. CASE i = L + 1
            BY <1>2, <1>4, <6>2, SMTT(40)
          <6>3. QED
            BY <5>1, <6>1, <6>2
        <5>3. ASSUME NEW i \in 1..Len(q.kids[t]), NEW j \in 1..Len(q.kids[t]), i < j
              PROVE  q.kids[t][i] < q.kids[t][j]
          <6>1. i \in 1..L /\ q.kids[t][i] = r.kids[t][i] /\ r.kids[t][i] \in t + 1..n
            BY <1>4, <4>1, <5>1, <5>3
          <6>2. CASE j \in 1..L
            BY <1>4, <4>1, <5>3, <6>1, <6>2
          <6>3. CASE j = L + 1
            BY <1>4, <1>4a, <6>1, <6>3
          <6>4. QED
            BY <5>1, <6>2, <6>3
        <5>4. QED
          BY <3>3, <5>2, <5>3
    <3>4. QED
      BY <1>2, <3>1, <3>2, <3>3
  <2>2. QED
    BY <1>3, <2>1 DEF InOrder
<1>6. IsPath(q)
  <2>1. /\ r.open[1] = 1 /\ r.label[1].type = "object"
        /\ \A i \in 1..Len(r.open) : r.open[i] \in 1..n /\ r.label[r.open[i]].type \in {"object", "array"}
        /\ \A i \in 1..Len(r.open) - 1 : /\ Len(r.kids[r.open[i]]) > 0
                                         /\ EndOf(r.kids[r.open[i]]) = r.open[i + 1]
    BY <1>1 DEF ReaderInv, IsPath, n
  <2>2. \A i \in 1..Len(r.open) - 1 : r.open[i] # t
    <3> SUFFICES ASSUME NEW i \in 1..Len(r.open) - 1, r.open[i] = t PROVE FALSE
      OBVIOUS
    <3>1. t = r.open[Len(r.open)]
      BY DEF t, Top
    <3>2. i \in 1..Len(r.open) /\ Len(r.open) \in 1..Len(r.open) /\ i < Len(r.open)
      BY <1>2
    <3>3. r.open[i] < r.open[Len(r.open)]
      BY <3>2, PathAscends
    <3>4. QED
      BY <1>2, <3>1, <3>3
  <2>3. \A i \in 1..Len(r.open) : i \in 1..Len(r.open) - 1 \/ i = Len(r.open)
    BY <1>2
  <2>4. \A i \in 1..Len(r.open) :
           r.open[i] \in 1..n + 1 /\ q.label[r.open[i]].type \in {"object", "array"}
    <3> TAKE i \in 1..Len(r.open)
    <3>1. r.open[i] \in 1..n /\ r.label[r.open[i]].type \in {"object", "array"}
      BY <2>1
    <3>2. q.label[r.open[i]] = r.label[r.open[i]]
      BY <1>3, <3>1
    <3>3. QED
      BY <1>4a, <3>1, <3>2
  <2>5. q.label[1].type = "object"
    <3>1. 1 \in 1..n
      BY <1>4a
    <3>2. QED
      BY <1>3, <2>1, <3>1
  <2>6. \A i \in 1..Len(r.open) - 1 : /\ Len(q.kids[r.open[i]]) > 0
                                      /\ EndOf(q.kids[r.open[i]]) = r.open[i + 1]
    <3> TAKE i \in 1..Len(r.open) - 1
    <3>1. r.open[i] \in 1..n /\ r.open[i] # t
      BY <1>2, <2>1, <2>2
    <3>2. q.kids[r.open[i]] = r.kids[r.open[i]]
      BY <1>3, <3>1
    <3>3. QED
      BY <2>1, <3>2
  <2>7. QED
    BY <1>1, <1>3, <2>1, <2>4, <2>5, <2>6 DEF IsPath
<1>7. IsPlaced(q)
  <2>1. Len(q.kids[t]) > 0 /\ EndOf(q.kids[t]) = n + 1
    BY <1>4 DEF EndOf
  <2>2. /\ q.label[n + 1].type = "UNDEFINED" /\ q.label[n + 1].value = NULL
        /\ q.label[n + 1].key = key
    BY <1>3 DEF Label
  <2>3. TopType(q) = TopType(r)
    BY <1>2, <1>3 DEF TopType, t
  <2>4. Suits(q, q.label[n + 1].key)
    BY <2>2, <2>3 DEF Suits
  <2>5. IsWaiting(q)
    BY <1>3, <2>1, <2>2, <2>4 DEF IsWaiting
  <2>6. QED
    BY <1>3, <2>5 DEF IsPlaced
<1>8. ReaderInv(q, C)
  BY <1>3, <1>5, <1>6, <1>7 DEF ReaderInv
<1>9. InUse(q) = InUse(r)
  BY <1>1, <1>2, <1>3 DEF InUse, IsDue, n
<1>10. ASSUME NEW k \in 1..n
       PROVE  Slots(q, k) = Slots(r, k)
  BY <1>1, <1>3 DEF Slots, IsDue, n, t
<1>11. QED
  BY <1>8, <1>9, <1>10 DEF n

\* What Filled makes of the fields of a reader.
LEMMA FilledFields ==
    ASSUME NEW C, NEW r, IsReader(r, C), NEW type \in Types, NEW content \in C,
           NEW q, q = Filled(r, type, content)
    PROVE  /\ IsReader(q, C) /\ Nodes(q) = Nodes(r) /\ Top(q) = Top(r)
           /\ q.at = "after" /\ q.open = r.open /\ q.kids = r.kids
           /\ q.earlier = r.earlier /\ q.room = r.room /\ q.readable = r.readable
           /\ \A k \in 1..Nodes(r) : k # Nodes(r) => q.label[k] = r.label[k]
           /\ q.label[Nodes(r)] = Label(type, r.label[Nodes(r)].key, content)
<1> DEFINE n == Nodes(r)
           l == Label(type, r.label[n].key, content)
<1>1. r.label \in Seq(Labels(C)) /\ n \in 1..Len(r.label) /\ Len(r.label) = n
  BY EmptyFacts DEF IsReader, Nodes
<1>2. r.label[n] \in Labels(C)
  BY <1>1, ElementFacts
<1>3. l \in Labels(C)
  BY <1>2 DEF Label, Labels
<1>4. [r.label EXCEPT ![n].type = type, ![n].value = content] = [r.label EXCEPT ![n] = l]
  BY <1>1, <1>2 DEF l, Label, Labels
<1> HIDE DEF l
<1>5. q = [r EXCEPT !.at = "after", !.label = [r.label EXCEPT ![n] = l]]
  BY <1>4 DEF Filled, IsReader
<1>6. /\ [r.label EXCEPT ![n] = l] \in Seq(Labels(C)) /\ Len([r.label EXCEPT ![n] = l]) = n
      /\ \A k \in 1..n : [r.label EXCEPT ![n] = l][k] = IF k = n THEN l ELSE r.label[k]
  BY <1>1, <1>3, ReplaceFacts
<1>7. /\ q.at = "after" /\ q.open = r.open /\ q.kids = r.kids /\ q.earlier = r.earlier
      /\ q.room = r.room /\ q.readable = r.readable /\ q.label = [r.label EXCEPT ![n] = l]
  BY <1>5 DEF IsReader
<1>8. IsReader(q, C) /\ Nodes(q) = n
  BY <1>5, <1>6, <1>7 DEF IsReader, Nodes, Places
<1>9. Top(q) = Top(r)
  BY <1>7 DEF Top
<1>10. QED
  BY <1>1, <1>6, <1>7, <1>8, <1>9 DEF l

\* A value for the last node keeps the invariant of the reader.
LEMMA FilledKeeps ==
    ASSUME NEW C, NEW r, ReaderInv(r, C), r.at = "value",
           NEW type \in Types \ {"UNDEFINED"}, NEW content \in C,
           NEW q, q = Filled(r, type, content)
    PROVE  /\ ReaderInv(q, C) /\ InUse(q) = InUse(r)
           /\ \A k \in 1..Nodes(r) : Slots(q, k) = Slots(r, k)
<1> DEFINE n == Nodes(r)
           t == Top(r)
<1>1. r.open # <<>>
  BY OpenFacts
<1>2. n \in Nat /\ n >= 1 /\ t \in 1..n /\ r.kids[t] \in Seq(Nat) /\ IsReader(r, C)
  BY <1>1, TopFacts DEF ReaderInv, IsReader
<1>3. /\ IsReader(q, C) /\ Nodes(q) = n /\ Top(q) = t
      /\ q.at = "after" /\ q.open = r.open /\ q.kids = r.kids
      /\ \A k \in 1..n : k # n => q.label[k] = r.label[k]
      /\ q.label[n] = Label(type, r.label[n].key, content)
  <2>1. type \in Types
    OBVIOUS
  <2>2. QED
    <3>1. /\ IsReader(q, C) /\ Nodes(q) = Nodes(r) /\ Top(q) = Top(r)
          /\ q.at = "after" /\ q.open = r.open /\ q.kids = r.kids
      BY <1>2, <2>1, FilledFields
    <3>2. \A k \in 1..Nodes(r) : k # Nodes(r) => q.label[k] = r.label[k]
      BY <1>2, <2>1, FilledFields
    <3>3. q.label[Nodes(r)] = Label(type, r.label[Nodes(r)].key, content)
      BY <1>2, <2>1, FilledFields
    <3>4. QED
      BY <3>1, <3>2, <3>3
<1>4. /\ Len(r.kids[t]) > 0 /\ EndOf(r.kids[t]) = n
      /\ r.label[n].type = "UNDEFINED"
  BY DEF ReaderInv, IsPlaced, IsWaiting
<1> HIDE DEF n, t
<1>5. InOrder(q)
  BY <1>3 DEF ReaderInv, InOrder, n
<1>6. IsPath(q)
  <2>1. /\ r.open[1] = 1 /\ r.label[1].type = "object"
        /\ \A i \in 1..Len(r.open) : r.open[i] \in 1..n /\ r.label[r.open[i]].type \in {"object", "array"}
        /\ \A i \in 1..Len(r.open) - 1 : /\ Len(r.kids[r.open[i]]) > 0
                                         /\ EndOf(r.kids[r.open[i]]) = r.open[i + 1]
    BY <1>1 DEF ReaderInv, IsPath, n
  <2>2. \A i \in 1..Len(r.open) : r.open[i] # n /\ q.label[r.open[i]] = r.label[r.open[i]]
    BY <1>3, <1>4, <2>1
  <2>3. q.label[1].type = "object"
    <3>1. 1 \in 1..n /\ 1 # n
      BY <1>2, <1>4, <2>1
    <3>2. QED
      BY <1>3, <2>1, <3>1
  <2>4. q.open # <<>> /\ q.at # "outside"
    BY <1>1, <1>3
  <2>5. \A i \in 1..Len(q.open) :
           q.open[i] \in 1..Nodes(q) /\ q.label[q.open[i]].type \in {"object", "array"}
    BY <1>3, <2>1, <2>2
  <2>6. QED
    BY <1>3, <2>1, <2>3, <2>4, <2>5 DEF IsPath
<1>7. IsPlaced(q)
  BY <1>3, <1>4 DEF IsPlaced, Label
<1>8. InUse(q) = InUse(r) /\ ~IsDue(q) /\ ~IsDue(r)
  BY <1>3 DEF InUse, IsDue, n
<1>9. QED
  BY <1>3, <1>5, <1>6, <1>7, <1>8 DEF ReaderInv, Slots

\* Neither the room nor what is readable matters to the invariant of the reader.
LEMMA ShapeKept ==
    ASSUME NEW C, NEW r, ReaderInv(r, C), NEW q, IsReader(q, C),
           q.at = r.at, q.open = r.open, q.label = r.label, q.kids = r.kids
    PROVE  /\ ReaderInv(q, C) /\ InUse(q) = InUse(r)
           /\ \A k \in 1..Nodes(r) : Slots(q, k) = Slots(r, k)
<1>1. Nodes(q) = Nodes(r) /\ Top(q) = Top(r) /\ TopType(q) = TopType(r) /\ IsDue(q) = IsDue(r)
  BY DEF Nodes, Top, TopType, IsDue
<1>2. InOrder(q) /\ IsPath(q)
  BY <1>1 DEF ReaderInv, InOrder, IsPath
<1>3. IsPlaced(q)
  BY <1>1 DEF ReaderInv, IsPlaced, IsWaiting, Suits
<1>4. QED
  BY <1>1, <1>2, <1>3 DEF ReaderInv, Slots, InUse

\* A colon where one is due keeps the invariant of the reader.
LEMMA ColonKeeps ==
    ASSUME NEW C, NEW r, ReaderInv(r, C), r.at = "colon",
           NEW q, q = At(r, "value")
    PROVE  /\ ReaderInv(q, C) /\ InUse(q) = InUse(r)
           /\ \A k \in 1..Nodes(r) : Slots(q, k) = Slots(r, k)
<1>1. /\ IsReader(q, C) /\ q.at = "value" /\ q.open = r.open /\ q.label = r.label
      /\ q.kids = r.kids
  BY DEF At, ReaderInv, IsReader, Places, Nodes
<1>2. Nodes(q) = Nodes(r) /\ Top(q) = Top(r) /\ TopType(q) = TopType(r)
  BY <1>1 DEF Nodes, Top, TopType
<1>3. InOrder(q) /\ IsPath(q)
  BY <1>1, <1>2 DEF ReaderInv, InOrder, IsPath
<1>4. IsPlaced(q)
  BY <1>1, <1>2 DEF ReaderInv, IsPlaced, IsWaiting, Suits
<1>5. ~IsDue(q) /\ ~IsDue(r)
  BY <1>1 DEF IsDue
<1>6. QED
  BY <1>1, <1>2, <1>3, <1>4, <1>5 DEF ReaderInv, Slots, InUse

\* A key where a member is due keeps the invariant of the reader.
LEMMA KeyKeeps ==
    ASSUME NEW C, NULL \in C, NEW r, ReaderInv(r, C), IsDue(r), TopType(r) = "object",
           NEW key \in C \ {NULL},
           NEW q, q = At(Begin(r, key), "colon")
    PROVE  /\ ReaderInv(q, C) /\ InUse(q) = InUse(r)
           /\ \A k \in 1..Nodes(r) : Slots(q, k) = Slots(r, k)
<1> DEFINE b == Begin(r, key)
<1>1. Suits(r, key)
  BY DEF Suits
<1>2. /\ ReaderInv(b, C) /\ InUse(b) = InUse(r)
      /\ \A k \in 1..Nodes(r) : Slots(b, k) = Slots(r, k)
  BY <1>1, BeginKeeps
<1>3. r.open # <<>>
  BY OpenFacts DEF IsDue
<1>4. /\ b.at = "value" /\ Top(b) = Top(r) /\ Top(r) \in 1..Nodes(r)
      /\ \A k \in 1..Nodes(r) : b.label[k] = r.label[k]
  BY <1>3, BeginFields, TopFacts
<1>5. TopType(b) = "object"
  BY <1>4 DEF TopType
<1> HIDE DEF b
<1>6. /\ IsReader(q, C) /\ q.at = "colon" /\ q.open = b.open /\ q.label = b.label
      /\ q.kids = b.kids
  BY <1>2 DEF At, ReaderInv, IsReader, Places, Nodes, b
<1>7. Nodes(q) = Nodes(b) /\ Top(q) = Top(b) /\ TopType(q) = TopType(b)
  BY <1>6 DEF Nodes, Top, TopType
<1>8. InOrder(q) /\ IsPath(q)
  BY <1>2, <1>4, <1>6, <1>7, SMTT(40) DEF ReaderInv, InOrder, IsPath
<1>9. IsPlaced(q)
  BY <1>2, <1>4, <1>5, <1>6, <1>7 DEF ReaderInv, IsPlaced, IsWaiting, Suits
<1>10. ~IsDue(q) /\ ~IsDue(b)
  BY <1>4, <1>6 DEF IsDue
<1>11. QED
  BY <1>2, <1>6, <1>7, <1>8, <1>9, <1>10 DEF ReaderInv, Slots, InUse

\* What a comma does: one slot more in the open value, and no other slot changes.
HasMadeSlot(q, r) ==
    /\ InUse(q) = InUse(r) + 1 /\ InUse(r) = Nodes(r)
    /\ \A k \in 1..Nodes(r) : k # Top(r) => Slots(q, k) = Slots(r, k)
    /\ Slots(r, Top(r)) = r.kids[Top(r)]
    /\ Slots(q, Top(r)) = Append(r.kids[Top(r)], Nodes(r) + 1)

\* A comma after a value keeps the invariant of the reader, and makes a slot.
LEMMA CommaKeeps ==
    ASSUME NEW C, NEW r, ReaderInv(r, C), r.at = "after",
           NEW q, q = At(r, "next")
    PROVE  ReaderInv(q, C) /\ HasMadeSlot(q, r)
<1>1. /\ IsReader(q, C) /\ q.at = "next" /\ q.open = r.open /\ q.label = r.label
      /\ q.kids = r.kids
  BY DEF At, ReaderInv, IsReader, Places, Nodes
<1>2. Nodes(q) = Nodes(r) /\ Top(q) = Top(r) /\ TopType(q) = TopType(r) /\ Nodes(r) \in Nat
  <2>1. Nodes(q) = Nodes(r) /\ Top(q) = Top(r) /\ TopType(q) = TopType(r)
    BY <1>1 DEF Nodes, Top, TopType
  <2>2. Nodes(r) \in Nat
    BY DEF ReaderInv, IsReader, Nodes
  <2>3. QED
    BY <2>1, <2>2
<1>3. InOrder(q) /\ IsPath(q)
  BY <1>1, <1>2 DEF ReaderInv, InOrder, IsPath
<1>4. IsPlaced(q)
  BY <1>1, <1>2 DEF ReaderInv, IsPlaced
<1>5. IsDue(q) /\ ~IsDue(r)
  BY <1>1 DEF IsDue
<1>6. ReaderInv(q, C)
  BY <1>1, <1>2, <1>3, <1>4, <1>5 DEF ReaderInv
<1>7. HasMadeSlot(q, r)
  BY <1>1, <1>2, <1>5 DEF HasMadeSlot, Slots, InUse
<1>8. QED
  BY <1>6, <1>7

\* What Opened makes of the fields of a reader.
LEMMA OpenedFields ==
    ASSUME NEW C, NEW r, IsReader(r, C), NEW type \in Types,
           NEW q, q = Opened(r, type)
    PROVE  /\ IsReader(q, C) /\ Nodes(q) = Nodes(r) /\ Top(q) = Nodes(r)
           /\ q.at = "first" /\ q.kids = r.kids
           /\ q.earlier = r.earlier /\ q.room = r.room /\ q.readable = r.readable
           /\ Len(q.open) = Len(r.open) + 1 /\ Len(r.open) \in Nat
           /\ \A i \in 1..Len(r.open) : q.open[i] = r.open[i]
           /\ q.open[Len(r.open) + 1] = Nodes(r)
           /\ \A k \in 1..Nodes(r) : k # Nodes(r) => q.label[k] = r.label[k]
           /\ q.label[Nodes(r)] = Label(type, r.label[Nodes(r)].key, r.label[Nodes(r)].value)
<1> DEFINE n == Nodes(r)
           l == Label(type, r.label[n].key, r.label[n].value)
           labels == [r.label EXCEPT ![n] = l]
           open == Append(r.open, n)
<1>1. /\ r.label \in Seq(Labels(C)) /\ n \in 1..Len(r.label) /\ Len(r.label) = n
      /\ r.open \in Seq(Nat) /\ n \in Nat
  BY EmptyFacts DEF IsReader, Nodes
<1>2. r.label[n] \in Labels(C)
  BY <1>1, ElementFacts
<1>3. l \in Labels(C)
  BY <1>2 DEF Label, Labels
<1>4. [r.label EXCEPT ![n].type = type] = labels
  <2>1. [r.label[n] EXCEPT !.type = type] = l
    BY <1>2 DEF l, Label, Labels
  <2> HIDE DEF l
  <2>2. QED
    BY <2>1
<1> HIDE DEF l
<1>5. labels \in Seq(Labels(C)) /\ Len(labels) = n
      /\ \A k \in 1..n : labels[k] = IF k = n THEN l ELSE r.label[k]
  BY <1>1, <1>3, ReplaceFacts
<1>6. /\ open \in Seq(Nat) /\ Len(open) = Len(r.open) + 1 /\ Len(r.open) \in Nat
      /\ \A i \in 1..Len(r.open) : open[i] = r.open[i]
      /\ open[Len(r.open) + 1] = n
  BY <1>1, AppendFacts, EmptyFacts
<1>7. q = [r EXCEPT !.at = "first", !.label = labels, !.open = open]
  <2> HIDE DEF labels
  <2>1. QED
    BY <1>4 DEF Opened, IsReader
<1> HIDE DEF labels, open
<1>8. /\ q.at = "first" /\ q.open = open /\ q.kids = r.kids /\ q.earlier = r.earlier
      /\ q.room = r.room /\ q.readable = r.readable /\ q.label = labels
  BY <1>7 DEF IsReader
<1>9. IsReader(q, C) /\ Nodes(q) = n
  BY <1>5, <1>6, <1>7, <1>8 DEF IsReader, Nodes, Places
<1>10. Top(q) = n
  BY <1>6, <1>8 DEF Top
<1>11. QED
  BY <1>1, <1>5, <1>6, <1>8, <1>9, <1>10 DEF l

\* An object or an array that is opened keeps the invariant, and makes a slot.
LEMMA OpenedKeeps ==
    ASSUME NEW C, NEW r, ReaderInv(r, C), r.at = "value", NEW type \in {"object", "array"},
           NEW q, q = Opened(r, type)
    PROVE  /\ ReaderInv(q, C) /\ InUse(q) = InUse(r) + 1 /\ InUse(r) = Nodes(r)
           /\ \A k \in 1..Nodes(r) : k # Nodes(r) => Slots(q, k) = Slots(r, k)
           /\ Slots(r, Nodes(r)) = <<>>
           /\ Slots(q, Nodes(r)) = <<Nodes(r) + 1>>
<1> DEFINE n == Nodes(r)
           t == Top(r)
           m == Len(r.open)
<1>1. r.open # <<>>
  BY OpenFacts
<1>2. n \in Nat /\ n >= 1 /\ t \in 1..n /\ r.kids[t] \in Seq(Nat) /\ IsReader(r, C)
      /\ m \in Nat /\ m > 0
  BY <1>1, TopFacts DEF ReaderInv, IsReader
<1>3. type \in Types
  BY DEF Types
<1>4. /\ IsReader(q, C) /\ Nodes(q) = n /\ Top(q) = n
      /\ q.at = "first" /\ q.kids = r.kids /\ Len(q.open) = m + 1
      /\ \A i \in 1..m : q.open[i] = r.open[i]
      /\ q.open[m + 1] = n
      /\ \A k \in 1..n : k # n => q.label[k] = r.label[k]
      /\ q.label[n] = Label(type, r.label[n].key, r.label[n].value)
  BY <1>2, <1>3, OpenedFields
<1>5. /\ Len(r.kids[t]) > 0 /\ EndOf(r.kids[t]) = n
      /\ r.label[n].type = "UNDEFINED" /\ r.kids[n] = <<>>
  BY DEF ReaderInv, IsPlaced, IsWaiting
<1>6. t = r.open[m]
  BY DEF Top
<1> HIDE DEF n, t, m
<1>7. InOrder(q)
  BY <1>4 DEF ReaderInv, InOrder, n
<1>8. IsPath(q)
  <2>1. /\ r.open[1] = 1 /\ r.label[1].type = "object"
        /\ \A i \in 1..m : r.open[i] \in 1..n /\ r.label[r.open[i]].type \in {"object", "array"}
        /\ \A i \in 1..m - 1 : /\ Len(r.kids[r.open[i]]) > 0
                               /\ EndOf(r.kids[r.open[i]]) = r.open[i + 1]
    BY <1>1 DEF ReaderInv, IsPath, n, m
  <2>2. \A i \in 1..m : r.open[i] # n /\ q.label[r.open[i]] = r.label[r.open[i]]
    BY <1>4, <1>5, <2>1
  <2>3. q.open[1] = 1 /\ q.label[1].type = "object"
    <3>1. 1 \in 1..n /\ 1 # n /\ 1 \in 1..m
      BY <1>2, <1>5, <2>1
    <3>2. QED
      BY <1>4, <2>1, <3>1
  <2>4. ASSUME NEW i \in 1..m + 1
        PROVE  q.open[i] \in 1..n /\ q.label[q.open[i]].type \in {"object", "array"}
    <3>1. CASE i \in 1..m
      BY <1>4, <2>1, <2>2, <3>1
    <3>2. CASE i = m + 1
      <4>1. q.label[n].type = type
        BY <1>4 DEF Label
      <4>2. QED
        BY <1>2, <1>4, <3>2, <4>1
    <3>3. QED
      BY <1>2, <3>1, <3>2
  <2>5. ASSUME NEW i \in 1..m
        PROVE  Len(q.kids[q.open[i]]) > 0 /\ EndOf(q.kids[q.open[i]]) = q.open[i + 1]
    <3>1. CASE i \in 1..m - 1
      <4>1. i + 1 \in 1..m
        BY <1>2, <3>1
      <4>2. QED
        BY <1>4, <2>1, <3>1, <4>1
    <3>2. CASE i = m
      BY <1>4, <1>5, <1>6, <3>2
    <3>3. QED
      BY <1>2, <3>1, <3>2
  <2>6. q.open # <<>> /\ q.at # "outside" /\ m + 1 - 1 = m
    <3>1. Len(q.open) # 0
      BY <1>2, <1>4
    <3>2. q.open # <<>>
      BY <3>1, EmptyFacts
    <3>3. QED
      BY <1>2, <1>4, <3>2
  <2>7. Len(q.open) = m + 1 /\ Len(q.open) - 1 = m
    BY <1>2, <1>4
  <2>8. QED
    BY <1>4, <2>3, <2>4, <2>5, <2>6, <2>7 DEF IsPath
<1>9. IsPlaced(q)
  BY <1>4, <1>5 DEF IsPlaced
<1>10. IsDue(q) /\ ~IsDue(r) /\ InUse(q) = n + 1 /\ InUse(r) = n
  BY <1>2, <1>4 DEF InUse, IsDue, n
<1>11. /\ \A k \in 1..n : k # n => Slots(q, k) = Slots(r, k)
       /\ Slots(r, n) = <<>> /\ Slots(q, n) = Append(<<>>, n + 1)
  BY <1>4, <1>5, <1>10 DEF Slots
<1>12. Append(<<>>, n + 1) = <<n + 1>>
  OBVIOUS
<1>13. QED
  BY <1>4, <1>7, <1>8, <1>9, <1>10, <1>11, <1>12 DEF ReaderInv, n

\* q is r with another object opened in the place of the one before it.
IsOpenedAgain(q, r, C) ==
    /\ IsReader(q, C) /\ Nodes(q) = Nodes(r) /\ Top(q) = 1 /\ Len(q.open) = 1
    /\ q.at = "first" /\ q.open = <<1>> /\ q.kids[1] = <<>>
    /\ q.earlier = r.earlier + Len(r.kids[1]) /\ Len(r.kids[1]) \in Nat
    /\ q.room = r.room /\ q.readable = r.readable
    /\ \A k \in 1..Nodes(r) : k # 1 => q.kids[k] = r.kids[k]
    /\ \A k \in 1..Nodes(r) : k # 1 => q.label[k] = r.label[k]
    /\ q.label[1] = Label("object", r.label[1].key, r.label[1].value)

\* What OpenedAgain makes of the fields of a reader.
LEMMA OpenedAgainFields ==
    ASSUME NEW C, NEW r, IsReader(r, C), NEW q, q = OpenedAgain(r)
    PROVE  IsOpenedAgain(q, r, C)
<1> DEFINE n == Nodes(r)
           l == Label("object", r.label[1].key, r.label[1].value)
           labels == [r.label EXCEPT ![1] = l]
           kids == [r.kids EXCEPT ![1] = <<>>]
           more == r.earlier + Len(r.kids[1])
<1>1. /\ r.label \in Seq(Labels(C)) /\ Len(r.label) = n /\ n \in Nat /\ 1 \in 1..n
      /\ r.kids \in Seq(Seq(Nat)) /\ Len(r.kids) = n /\ r.earlier \in Nat
  BY EmptyFacts DEF IsReader, Nodes
<1>2. r.label[1] \in Labels(C) /\ r.kids[1] \in Seq(Nat)
  BY <1>1, ElementFacts
<1>3. l \in Labels(C)
  BY <1>2 DEF Label, Labels, Types
<1>4. [r.label EXCEPT ![1].type = "object"] = labels
  <2>1. [r.label[1] EXCEPT !.type = "object"] = l
    BY <1>2 DEF l, Label, Labels
  <2> HIDE DEF l
  <2>2. QED
    BY <2>1
<1> HIDE DEF l
<1>5. labels \in Seq(Labels(C)) /\ Len(labels) = n
      /\ \A k \in 1..n : labels[k] = IF k = 1 THEN l ELSE r.label[k]
  BY <1>1, <1>3, ReplaceFacts
<1>6. kids \in Seq(Seq(Nat)) /\ Len(kids) = n
      /\ \A k \in 1..n : kids[k] = IF k = 1 THEN <<>> ELSE r.kids[k]
  <2>1. <<>> \in Seq(Nat)
    BY EmptyFacts
  <2>2. QED
    BY <1>1, <2>1, ReplaceFacts
<1>7. more \in Nat /\ Len(r.kids[1]) \in Nat
  BY <1>1, <1>2, EmptyFacts
<1>8. <<1>> \in Seq(Nat) /\ Len(<<1>>) = 1 /\ <<1>>[1] = 1
  OBVIOUS
<1>9. q = [r EXCEPT !.at = "first", !.label = labels, !.open = <<1>>, !.kids = kids,
                    !.earlier = more]
  <2> HIDE DEF labels
  <2>1. QED
    BY <1>4 DEF OpenedAgain, IsReader
<1> HIDE DEF labels, kids, more
<1>10. /\ q.at = "first" /\ q.open = <<1>> /\ q.kids = kids /\ q.earlier = more
       /\ q.room = r.room /\ q.readable = r.readable /\ q.label = labels
  BY <1>9 DEF IsReader
<1>11. IsReader(q, C) /\ Nodes(q) = n
  BY <1>5, <1>6, <1>7, <1>8, <1>9, <1>10, <1>1 DEF IsReader, Nodes, Places
<1>12. Top(q) = 1 /\ Len(q.open) = 1
  BY <1>8, <1>10 DEF Top
<1>13. QED
  BY <1>1, <1>5, <1>6, <1>7, <1>10, <1>11, <1>12 DEF IsOpenedAgain, l, more

\* Another object keeps the invariant of the reader, and makes a slot.
LEMMA OpenedAgainKeeps ==
    ASSUME NEW C, NEW r, ReaderInv(r, C), r.at = "outside", NEW q, q = OpenedAgain(r)
    PROVE  /\ ReaderInv(q, C) /\ InUse(q) = InUse(r) + 1 /\ InUse(r) = Nodes(r)
           /\ \A k \in 1..Nodes(r) : k # 1 => Slots(q, k) = Slots(r, k)
           /\ Slots(r, 1) = r.kids[1] /\ Slots(q, 1) = <<Nodes(r) + 1>>
<1> DEFINE n == Nodes(r)
<1>1. n \in Nat /\ 1 \in 1..n /\ IsReader(r, C)
  BY DEF ReaderInv, IsReader, Nodes
<1>2. /\ IsReader(q, C) /\ Nodes(q) = n /\ Top(q) = 1 /\ Len(q.open) = 1
      /\ q.at = "first" /\ q.open = <<1>> /\ q.kids[1] = <<>>
      /\ \A k \in 1..n : k # 1 => q.kids[k] = r.kids[k]
      /\ q.label[1] = Label("object", r.label[1].key, r.label[1].value)
  <2>1. IsOpenedAgain(q, r, C)
    BY <1>1, OpenedAgainFields
  <2>2. QED
    BY <2>1 DEF IsOpenedAgain, n
<1> HIDE DEF n
<1>3. InOrder(q)
  <2>1. ASSUME NEW k \in 1..n
        PROVE  /\ \A i \in 1..Len(q.kids[k]) : q.kids[k][i] \in k + 1..n
               /\ \A i, j \in 1..Len(q.kids[k]) : i < j => q.kids[k][i] < q.kids[k][j]
    <3>1. CASE k = 1
      <4>1. Len(q.kids[k]) = 0
        BY <1>2, <3>1, EmptyFacts
      <4>2. QED
        BY <4>1
    <3>2. CASE k # 1
      BY <1>2, <3>2 DEF ReaderInv, InOrder, n
    <3>3. QED
      BY <3>1, <3>2
  <2>2. QED
    BY <1>2, <2>1 DEF InOrder
<1>4. IsPath(q)
  <2>1. q.label[1].type = "object"
    BY <1>2 DEF Label
  <2>2. q.open # <<>> /\ q.open[1] = 1
    BY <1>2
  <2>3. \A i \in 1..Len(q.open) : q.open[i] = 1
    BY <1>2, <2>2
  <2>4. \A i \in 1..Len(q.open) - 1 : FALSE
    BY <1>2
  <2>5. \A i \in 1..Len(q.open) : /\ q.open[i] \in 1..Nodes(q)
                                  /\ q.label[q.open[i]].type \in {"object", "array"}
    BY <1>1, <1>2, <2>1, <2>3
  <2>6. QED
    BY <1>2, <2>1, <2>2, <2>4, <2>5 DEF IsPath
<1>5. IsPlaced(q)
  BY <1>2 DEF IsPlaced
<1>6. IsDue(q) /\ ~IsDue(r) /\ InUse(q) = n + 1 /\ InUse(r) = n
  BY <1>1, <1>2 DEF InUse, IsDue, n
<1>7. /\ \A k \in 1..n : k # 1 => Slots(q, k) = Slots(r, k)
      /\ Slots(r, 1) = r.kids[1] /\ Slots(q, 1) = Append(<<>>, n + 1)
  BY <1>2, <1>6 DEF Slots
<1>8. Append(<<>>, n + 1) = <<n + 1>>
  OBVIOUS
<1>9. QED
  BY <1>2, <1>3, <1>4, <1>5, <1>6, <1>7, <1>8 DEF ReaderInv, n

\* What Closed makes of the containers that are open.
LEMMA ClosedOpen ==
    ASSUME NEW C, NEW r, IsReader(r, C), r.open # <<>>, NEW q, q = Closed(r)
    PROVE  /\ Len(r.open) = 1 => q.at = "outside"
           /\ Len(r.open) # 1 => q.at = "after"
           /\ q.open \in Seq(Nat) /\ q.at \in Places
           /\ Len(q.open) = Len(r.open) - 1 /\ Len(r.open) \in Nat /\ Len(r.open) > 0
           /\ \A i \in 1..Len(r.open) - 1 : q.open[i] = r.open[i]
<1>1. r.open \in Seq(Nat) /\ Len(r.open) \in Nat /\ Len(r.open) > 0
  BY EmptyFacts DEF IsReader
<1> DEFINE open == SubSeq(r.open, 1, Len(r.open) - 1)
<1>2. /\ open \in Seq(Nat) /\ Len(open) = Len(r.open) - 1
      /\ \A i \in 1..Len(r.open) - 1 : open[i] = r.open[i]
  BY <1>1, FrontFacts
<1>3. q.open = open
  BY DEF Closed, IsReader
<1>4. q.at = IF Len(r.open) = 1 THEN "outside" ELSE "after"
  BY DEF Closed, IsReader
<1> HIDE DEF open
<1>5. QED
  BY <1>1, <1>2, <1>3, <1>4 DEF Places

\* What Closed makes of the other fields of a reader.
LEMMA ClosedFields ==
    ASSUME NEW C, NEW r, IsReader(r, C), r.open # <<>>, NEW q, q = Closed(r)
    PROVE  /\ IsReader(q, C) /\ Nodes(q) = Nodes(r)
           /\ q.kids = r.kids /\ q.label = r.label /\ q.earlier = r.earlier
           /\ q.room = r.room /\ q.readable = r.readable
<1>1. q.open \in Seq(Nat) /\ q.at \in Places
  BY ClosedOpen
<1>2. q = [r EXCEPT !.at = q.at, !.open = q.open]
  BY DEF Closed, IsReader
<1>3. /\ q.kids = r.kids /\ q.label = r.label /\ q.earlier = r.earlier
      /\ q.room = r.room /\ q.readable = r.readable
  BY <1>2 DEF IsReader
<1>4. Nodes(q) = Nodes(r)
  BY <1>3 DEF Nodes
<1>5. IsReader(q, C)
  BY <1>1, <1>2, <1>3, <1>4 DEF IsReader
<1>6. QED
  BY <1>3, <1>4, <1>5

\* The container that is innermost once another is closed, which was its last kid.
LEMMA ClosedTop ==
    ASSUME NEW C, NEW r, ReaderInv(r, C), r.open # <<>>, NEW q, q = Closed(r)
    PROVE  /\ (q.open = <<>>) <=> (Len(r.open) = 1)
           /\ Len(r.open) > 1 => /\ Top(q) = r.open[Len(r.open) - 1]
                                 /\ Len(r.kids[Top(q)]) > 0
                                 /\ EndOf(r.kids[Top(q)]) = Top(r)
<1> DEFINE m == Len(r.open)
<1>1. /\ q.open \in Seq(Nat) /\ Len(q.open) = m - 1 /\ m \in Nat /\ m > 0
      /\ \A i \in 1..m - 1 : q.open[i] = r.open[i]
  <2>1. IsReader(r, C)
    BY DEF ReaderInv
  <2>2. QED
    BY <2>1, ClosedOpen
<1>2. Top(r) = r.open[m]
  BY DEF Top
<1>3. \A i \in 1..m - 1 : /\ Len(r.kids[r.open[i]]) > 0
                          /\ EndOf(r.kids[r.open[i]]) = r.open[i + 1]
  BY DEF ReaderInv, IsPath
<1> HIDE DEF m
<1>4. (q.open = <<>>) <=> (m = 1)
  <2>1. (q.open = <<>>) <=> (Len(q.open) = 0)
    BY <1>1, EmptyFacts
  <2>2. QED
    BY <1>1, <2>1
<1>5. ASSUME m > 1
      PROVE  /\ Top(q) = r.open[m - 1] /\ Len(r.kids[Top(q)]) > 0
             /\ EndOf(r.kids[Top(q)]) = Top(r)
  <2>1. m - 1 \in 1..m - 1 /\ m - 1 + 1 = m
    BY <1>1, <1>5
  <2>2. Top(q) = r.open[m - 1]
    BY <1>1, <2>1 DEF Top
  <2>3. QED
    BY <1>2, <1>3, <2>1, <2>2
<1>6. QED
  BY <1>4, <1>5 DEF m

\* A container that is closed keeps the invariant of the reader, and gives a slot
\* back that is not needed.
LEMMA ClosedKeeps ==
    ASSUME NEW C, NEW r, ReaderInv(r, C), r.at \in {"first", "after"},
           NEW q, q = Closed(r)
    PROVE  /\ ReaderInv(q, C) /\ InUse(q) = Nodes(r)
           /\ Nodes(q) = Nodes(r) /\ q.label = r.label /\ q.earlier = r.earlier
           /\ q.room = r.room /\ q.readable = r.readable
           /\ \A k \in 1..Nodes(r) : Slots(q, k) = r.kids[k]
<1> DEFINE n == Nodes(r)
           m == Len(r.open)
<1>1. r.open # <<>>
  BY OpenFacts
<1>2. n \in Nat /\ n >= 1 /\ Top(r) \in 1..n /\ IsReader(r, C) /\ m \in Nat /\ m > 0
  BY <1>1, TopFacts DEF ReaderInv, IsReader
<1>3. /\ IsReader(q, C) /\ Nodes(q) = n
      /\ (m = 1 => q.at = "outside") /\ (m # 1 => q.at = "after")
      /\ q.kids = r.kids /\ q.label = r.label /\ Len(q.open) = m - 1
      /\ q.earlier = r.earlier /\ q.room = r.room /\ q.readable = r.readable
      /\ \A i \in 1..m - 1 : q.open[i] = r.open[i]
  <2> HIDE DEF n, m
  <2>1. IsReader(r, C)
    BY <1>2
  <2>2. /\ IsReader(q, C) /\ Nodes(q) = Nodes(r)
        /\ q.kids = r.kids /\ q.label = r.label
        /\ q.earlier = r.earlier /\ q.room = r.room /\ q.readable = r.readable
    BY <1>1, <2>1, ClosedFields
  <2>3. /\ (Len(r.open) = 1 => q.at = "outside") /\ (Len(r.open) # 1 => q.at = "after")
        /\ Len(q.open) = Len(r.open) - 1
        /\ \A i \in 1..Len(r.open) - 1 : q.open[i] = r.open[i]
    BY <1>1, <2>1, ClosedOpen
  <2>4. QED
    BY <2>2, <2>3 DEF n, m
<1>4. Top(r) = r.open[m]
  BY DEF Top
<1> HIDE DEF n, m
<1>5. /\ r.open[1] = 1 /\ r.label[1].type = "object"
      /\ \A i \in 1..m : r.open[i] \in 1..n /\ r.label[r.open[i]].type \in {"object", "array"}
      /\ \A i \in 1..m - 1 : /\ Len(r.kids[r.open[i]]) > 0
                             /\ EndOf(r.kids[r.open[i]]) = r.open[i + 1]
  BY <1>1 DEF ReaderInv, IsPath, n, m
<1>6. q.open = <<>> <=> m = 1
  BY <1>1, ClosedTop DEF m
<1>7. InOrder(q)
  BY <1>3 DEF ReaderInv, InOrder, n
<1>8. IsPath(q)
  <2>1. q.open = <<>> <=> q.at = "outside"
    BY <1>3, <1>6
  <2>2. q.open # <<>> => q.open[1] = 1 /\ q.label[1].type = "object"
    <3>1. m # 1 => 1 \in 1..m - 1
      BY <1>2
    <3>2. QED
      BY <1>3, <1>5, <1>6, <3>1
  <2>3. ASSUME NEW i \in 1..m - 1
        PROVE  q.open[i] \in 1..n /\ q.label[q.open[i]].type \in {"object", "array"}
    <3>1. i \in 1..m
      BY <1>2
    <3>2. QED
      BY <1>3, <1>5, <3>1
  <2>4. ASSUME NEW i \in 1..m - 1 - 1
        PROVE  Len(q.kids[q.open[i]]) > 0 /\ EndOf(q.kids[q.open[i]]) = q.open[i + 1]
    <3>1. i \in 1..m - 1 /\ i + 1 \in 1..m - 1
      BY <1>2
    <3>2. QED
      BY <1>3, <1>5, <3>1
  <2>5. QED
    BY <1>3, <2>1, <2>2, <2>3, <2>4 DEF IsPath
<1>9. ASSUME m > 1
      PROVE  /\ Top(q) = r.open[m - 1] /\ Len(r.kids[Top(q)]) > 0
             /\ EndOf(r.kids[Top(q)]) = Top(r)
  BY <1>1, <1>9, ClosedTop DEF m
<1>10. IsPlaced(q)
  <2>1. CASE m = 1
    BY <1>3, <2>1 DEF IsPlaced
  <2>2. CASE m > 1
    <3>1. m \in 1..m
      BY <1>2
    <3>2. r.label[Top(r)].type # "UNDEFINED"
      BY <1>4, <1>5, <3>1
    <3>3. QED
      BY <1>3, <1>9, <2>2, <3>2 DEF IsPlaced
  <2>3. QED
    BY <1>2, <2>1, <2>2
<1>11. ~IsDue(q) /\ InUse(q) = n
  BY <1>2, <1>3 DEF InUse, IsDue
<1>12. \A k \in 1..n : Slots(q, k) = r.kids[k]
  BY <1>3, <1>11 DEF Slots
<1>13. QED
  BY <1>3, <1>7, <1>8, <1>10, <1>11, <1>12 DEF ReaderInv, n

\* The slots of a node are objects in use, after it.
LEMMA SlotFacts ==
    ASSUME NEW C, NEW r, ReaderInv(r, C), NEW k \in 1..Nodes(r)
    PROVE  /\ Nodes(r) \in Nat /\ InUse(r) \in Nat /\ Nodes(r) <= InUse(r)
           /\ Slots(r, k) \in Seq(Nat) /\ Len(Slots(r, k)) \in Nat
           /\ \A i \in 1..Len(Slots(r, k)) : Slots(r, k)[i] \in k + 1..InUse(r)
<1> DEFINE n == Nodes(r)
           s == r.kids[k]
<1>1. r.kids \in Seq(Seq(Nat)) /\ Len(r.kids) = n /\ n \in Nat
  BY DEF ReaderInv, IsReader, Nodes
<1>2. s \in Seq(Nat) /\ Len(s) \in Nat
  BY <1>1, ElementFacts, EmptyFacts
<1>3. InUse(r) \in Nat /\ n <= InUse(r) /\ (IsDue(r) => InUse(r) = n + 1)
  BY <1>1 DEF InUse
<1>4. \A i \in 1..Len(s) : s[i] \in k + 1..n
  BY DEF ReaderInv, InOrder
<1>5. k \in Nat /\ k <= n
  BY <1>1
<1> HIDE DEF n, s
<1>6. CASE IsDue(r) /\ k = Top(r)
  <2>1. Slots(r, k) = Append(s, n + 1)
    BY <1>6 DEF Slots, s, n
  <2>2. /\ Append(s, n + 1) \in Seq(Nat) /\ Len(Append(s, n + 1)) = Len(s) + 1
        /\ \A i \in 1..Len(s) : Append(s, n + 1)[i] = s[i]
        /\ Append(s, n + 1)[Len(s) + 1] = n + 1
    BY <1>1, <1>2, AppendFacts
  <2>3. ASSUME NEW i \in 1..Len(s) + 1
        PROVE  Append(s, n + 1)[i] \in k + 1..InUse(r)
    <3>1. CASE i \in 1..Len(s)
      <4>1. Append(s, n + 1)[i] \in k + 1..n
        BY <1>4, <2>2, <3>1
      <4>2. QED
        BY <1>1, <1>3, <1>5, <4>1
    <3>2. CASE i = Len(s) + 1
      BY <1>1, <1>3, <1>5, <1>6, <2>2, <3>2
    <3>3. QED
      BY <1>2, <3>1, <3>2
  <2>4. QED
    BY <1>1, <1>2, <1>3, <2>1, <2>2, <2>3 DEF n
<1>7. CASE ~(IsDue(r) /\ k = Top(r))
  <2>1. Slots(r, k) = s
    BY <1>7 DEF Slots, s
  <2>2. \A i \in 1..Len(s) : s[i] \in k + 1..InUse(r)
    BY <1>1, <1>3, <1>4, <1>5
  <2>3. QED
    BY <1>1, <1>2, <1>3, <2>1, <2>2 DEF n
<1>8. QED
  BY <1>6, <1>7

-----------------------------------------------------------------------------
(* The moves of the parser                                                  *)

\* What Store makes of the fields of a parser.
LEMMA StoreFields ==
    ASSUME NEW C, NEW p, IsParser(p, C), p.current \in 1..StackSize,
           NEW type \in Types, NEW content \in C, NEW q, q = Store(p, type, content)
    PROVE  /\ IsParser(q, C)
           /\ q.current = p.current /\ q.parent = p.parent /\ q.next = p.next
           /\ q.state = p.state
           /\ \A k \in 1..StackSize : k # p.current => q.pool[k] = p.pool[k]
           /\ q.pool[p.current].type = type /\ q.pool[p.current].key = p.pool[p.current].key
           /\ q.pool[p.current].value = content
           /\ q.pool[p.current].parent = p.pool[p.current].parent
           /\ q.pool[p.current].next = p.pool[p.current].next
           /\ q.pool[p.current].child = p.pool[p.current].child
           /\ q.pool[p.current].size = p.pool[p.current].size
<1> DEFINE c == p.current
           o == [p.pool[c] EXCEPT !.type = type, !.value = content]
           pool == [p.pool EXCEPT ![c] = o]
<1>1. p.pool \in [1..StackSize -> Objects(C)] /\ c \in 1..StackSize
  BY DEF IsParser
<1>2. o \in Objects(C)
  BY <1>1 DEF Objects
<1>3. [p.pool EXCEPT ![c].type = type, ![c].value = content] = pool
  BY <1>1 DEF Objects
<1> HIDE DEF o
<1>4. /\ pool \in [1..StackSize -> Objects(C)] /\ pool[c] = o
      /\ \A k \in 1..StackSize : k # c => pool[k] = p.pool[k]
  BY <1>1, <1>2
<1> HIDE DEF pool
<1>5. q = [p EXCEPT !.pool = pool]
  BY <1>3 DEF Store, IsParser
<1>6. /\ IsParser(q, C) /\ q.pool = pool
      /\ q.current = c /\ q.parent = p.parent /\ q.next = p.next /\ q.state = p.state
  BY <1>4, <1>5 DEF IsParser
<1>7. /\ o.type = type /\ o.key = p.pool[c].key /\ o.value = content
      /\ o.parent = p.pool[c].parent /\ o.next = p.pool[c].next
      /\ o.child = p.pool[c].child /\ o.size = p.pool[c].size
  <2>1. p.pool[c] \in Objects(C)
    BY <1>1
  <2>2. QED
    BY <2>1 DEF o, Objects
<1>8. QED
  BY <1>4, <1>6, <1>7

\* The parser has a key for its object.
WithKey(p, key) == [p EXCEPT !.pool[p.current].key = key]

\* What a key makes of the fields of a parser.
LEMMA KeyFields ==
    ASSUME NEW C, NEW p, IsParser(p, C), p.current \in 1..StackSize, NEW key \in C,
           NEW q, q = WithKey(p, key)
    PROVE  /\ IsParser(q, C)
           /\ q.current = p.current /\ q.parent = p.parent /\ q.next = p.next
           /\ q.state = p.state
           /\ \A k \in 1..StackSize : k # p.current => q.pool[k] = p.pool[k]
           /\ q.pool[p.current] = [p.pool[p.current] EXCEPT !.key = key]
<1> DEFINE c == p.current
           o == [p.pool[c] EXCEPT !.key = key]
           pool == [p.pool EXCEPT ![c] = o]
<1>1. p.pool \in [1..StackSize -> Objects(C)] /\ c \in 1..StackSize
  BY DEF IsParser
<1>2. o \in Objects(C)
  BY <1>1 DEF Objects
<1> HIDE DEF o
<1>3. /\ pool \in [1..StackSize -> Objects(C)] /\ pool[c] = o
      /\ \A k \in 1..StackSize : k # c => pool[k] = p.pool[k]
  BY <1>1, <1>2
<1> HIDE DEF pool
<1>4. q = [p EXCEPT !.pool = pool]
  BY DEF WithKey, IsParser, o, pool
<1>5. QED
  BY <1>3, <1>4 DEF IsParser, o

\* One object of the pool is put in the place of another.
Puts(p, q, k, o) ==
    /\ q.current = p.current /\ q.parent = p.parent /\ q.next = p.next /\ q.state = p.state
    /\ \A j \in 1..StackSize : q.pool[j] = IF j = k THEN o ELSE p.pool[j]

\* An object of the pool replaced.
LEMMA PutFacts ==
    ASSUME NEW C, NEW p, IsParser(p, C), NEW k \in 1..StackSize, NEW o \in Objects(C),
           NEW q, q = [p EXCEPT !.pool = [p.pool EXCEPT ![k] = o]]
    PROVE  IsParser(q, C) /\ Puts(p, q, k, o)
<1> DEFINE pool == [p.pool EXCEPT ![k] = o]
<1>1. p.pool \in [1..StackSize -> Objects(C)]
  BY DEF IsParser
<1>2. /\ pool \in [1..StackSize -> Objects(C)]
      /\ \A j \in 1..StackSize : pool[j] = IF j = k THEN o ELSE p.pool[j]
  BY <1>1
<1> HIDE DEF pool
<1>3. q = [p EXCEPT !.pool = pool]
  BY DEF pool
<1>4. QED
  BY <1>2, <1>3 DEF IsParser, Puts

\* Objects stay objects when a field of theirs is set.
LEMMA FieldFacts ==
    ASSUME NEW C, NEW o \in Objects(C), NEW n \in Nat
    PROVE  /\ [o EXCEPT !.parent = n] \in Objects(C)
           /\ [o EXCEPT !.next = n] \in Objects(C)
           /\ [o EXCEPT !.child = n] \in Objects(C)
           /\ [o EXCEPT !.size = n] \in Objects(C)
BY DEF Objects

\* The size of an object is a number.
LEMMA SizeFact ==
    ASSUME NEW C, NEW o \in Objects(C)
    PROVE  o.size \in Nat
BY DEF Objects

\* What Open makes of the fields of a parser, if the pool has an object left.
LEMMA OpenChildFields ==
    ASSUME NEW C, NEW p, IsParser(p, C), p.current \in 1..StackSize,
           p.next \in 1..StackSize, p.next # p.current,
           NEW type \in Types, NEW q, q = Open(p, type)
    PROVE  /\ IsParser(q, C)
           /\ q.current = p.next /\ q.parent = p.current /\ q.next = p.next + 1
           /\ q.state = p.state
           /\ \A k \in 1..StackSize : k \notin {p.current, p.next} => q.pool[k] = p.pool[k]
           /\ q.pool[p.current].type = type /\ q.pool[p.current].key = p.pool[p.current].key
           /\ q.pool[p.current].value = p.pool[p.current].value
           /\ q.pool[p.current].parent = p.pool[p.current].parent
           /\ q.pool[p.current].next = p.pool[p.current].next
           /\ q.pool[p.current].child = p.next
           /\ q.pool[p.current].size = p.pool[p.current].size + 1
           /\ q.pool[p.next] = [p.pool[p.next] EXCEPT !.parent = p.current]
<1> DEFINE c == p.current
           f == p.next
           v0 == [p EXCEPT !.pool[c].type = type]
           v1 == [v0 EXCEPT !.parent = c, !.current = f, !.next = @ + 1]
           v2 == [v1 EXCEPT !.pool[c].child = f]
           v3 == [v2 EXCEPT !.pool[c].size = @ + 1]
           v4 == [v3 EXCEPT !.pool[f].parent = c]
           o0 == [p.pool[c] EXCEPT !.type = type]
           o2 == [o0 EXCEPT !.child = f]
           o3 == [o2 EXCEPT !.size = o2.size + 1]
           o4 == [p.pool[f] EXCEPT !.parent = c]
<1>1. /\ p.pool \in [1..StackSize -> Objects(C)] /\ c \in 1..StackSize /\ f \in 1..StackSize
      /\ c # f /\ c \in Nat /\ f \in Nat /\ StackSize \in Nat /\ f + 1 \in Nat
  BY StackAssumption DEF IsParser
<1>2. p.pool[c] \in Objects(C) /\ p.pool[f] \in Objects(C)
  BY <1>1
<1> HIDE DEF c, f
<1>3. o0 \in Objects(C)
  BY <1>2 DEF Objects
<1>4. o2 \in Objects(C)
  <2> HIDE DEF o0
  <2>1. QED
    BY <1>1, <1>3, FieldFacts
<1>5. o3 \in Objects(C)
  <2> HIDE DEF o2
  <2>1. o2.size \in Nat
    BY <1>4, SizeFact
  <2>2. o2.size + 1 \in Nat
    BY <2>1
  <2>3. QED
    BY <1>4, <2>2, FieldFacts
<1>6. o4 \in Objects(C)
  BY <1>1, <1>2, FieldFacts
<1>7. IsParser(v0, C) /\ Puts(p, v0, c, o0)
  <2> HIDE DEF o0
  <2>1. v0 = [p EXCEPT !.pool = [p.pool EXCEPT ![c] = o0]]
    BY DEF o0
  <2>2. QED
    BY <1>1, <1>3, <2>1, PutFacts
<1>8. /\ IsParser(v1, C) /\ v1.current = f /\ v1.parent = c /\ v1.next = f + 1
      /\ v1.state = p.state /\ v1.pool = v0.pool
  <2>1. v0.next = f
    BY <1>7 DEF Puts, f
  <2> HIDE DEF v0
  <2>2. v1 = [v0 EXCEPT !.parent = c, !.current = f, !.next = f + 1]
    BY <2>1
  <2>3. QED
    BY <1>1, <1>7, <2>2 DEF IsParser, Puts
<1>9. IsParser(v2, C) /\ Puts(v1, v2, c, o2)
  <2>1. v1.pool[c] = o0
    BY <1>1, <1>7, <1>8 DEF Puts
  <2> HIDE DEF o0, v1
  <2>2. v2 = [v1 EXCEPT !.pool = [v1.pool EXCEPT ![c] = [v1.pool[c] EXCEPT !.child = f]]]
    OBVIOUS
  <2>3. [v1.pool[c] EXCEPT !.child = f] = o2
    BY <2>1
  <2> HIDE DEF o2, v2
  <2>4. QED
    BY <1>1, <1>4, <1>8, <2>2, <2>3, PutFacts
<1>10. IsParser(v3, C) /\ Puts(v2, v3, c, o3)
  <2>1. v2.pool[c] = o2
    BY <1>1, <1>9 DEF Puts
  <2> HIDE DEF o2, v2
  <2>2. v3 = [v2 EXCEPT !.pool = [v2.pool EXCEPT ![c] =
                [v2.pool[c] EXCEPT !.size = v2.pool[c].size + 1]]]
    OBVIOUS
  <2>3. [v2.pool[c] EXCEPT !.size = v2.pool[c].size + 1] = o3
    BY <2>1
  <2> HIDE DEF o3, v3
  <2>4. QED
    BY <1>1, <1>5, <1>9, <2>2, <2>3, PutFacts
<1>11. IsParser(v4, C) /\ Puts(v3, v4, f, o4)
  <2> HIDE DEF v0, v1, v2, v3, o0, o2, o3
  <2>1. v3.pool[f] = p.pool[f]
    <3>1. v3.pool[f] = v2.pool[f]
      BY <1>1, <1>10 DEF Puts
    <3>2. v2.pool[f] = v1.pool[f]
      BY <1>1, <1>9 DEF Puts
    <3>3. v1.pool[f] = p.pool[f]
      BY <1>1, <1>7, <1>8 DEF Puts
    <3>4. QED
      BY <3>1, <3>2, <3>3
  <2>2. v4 = [v3 EXCEPT !.pool = [v3.pool EXCEPT ![f] = [v3.pool[f] EXCEPT !.parent = c]]]
    OBVIOUS
  <2>3. [v3.pool[f] EXCEPT !.parent = c] = o4
    BY <2>1
  <2> HIDE DEF o4, v4
  <2>4. QED
    BY <1>1, <1>6, <1>10, <2>2, <2>3, PutFacts
<1>12. q = v4
  <2>1. v0.current = c /\ v0.next = f
    BY <1>7 DEF Puts, c, f
  <2>2. q = json_alloc_child(v0)
    BY DEF Open, c
  <2> HIDE DEF v0
  <2>3. q = [v0 EXCEPT !.parent = c, !.current = f, !.next = @ + 1,
                       !.pool[c].child = f, !.pool[c].size = @ + 1, !.pool[f].parent = c]
    <3>1. ~(f > StackSize)
      BY <1>1
    <3>2. QED
      BY <2>1, <2>2, <3>1 DEF json_alloc_child
  <2>4. q = [v1 EXCEPT !.pool[c].child = f, !.pool[c].size = @ + 1, !.pool[f].parent = c]
    BY <2>3
  <2> HIDE DEF v1
  <2>5. q = [[v1 EXCEPT !.pool[c].child = f, !.pool[c].size = @ + 1] EXCEPT !.pool[f].parent = c]
    BY <2>4
  <2>6. [v1 EXCEPT !.pool[c].child = f, !.pool[c].size = @ + 1] = v3
    OBVIOUS
  <2> HIDE DEF v3
  <2>7. QED
    BY <2>5, <2>6
<1> HIDE DEF v0, v1, v2, v3, v4
<1>13. /\ q.current = f /\ q.parent = c /\ q.next = f + 1 /\ q.state = p.state
  BY <1>8, <1>9, <1>10, <1>11, <1>12 DEF Puts
<1>14. /\ \A k \in 1..StackSize : k \notin {c, f} => q.pool[k] = p.pool[k]
       /\ q.pool[c] = o3 /\ q.pool[f] = o4
  <2> HIDE DEF o3, o4
  <2>1. QED
    BY <1>1, <1>7, <1>8, <1>9, <1>10, <1>11, <1>12 DEF Puts
<1>15. /\ o3.type = type /\ o3.key = p.pool[c].key /\ o3.value = p.pool[c].value
       /\ o3.parent = p.pool[c].parent /\ o3.next = p.pool[c].next
       /\ o3.child = f /\ o3.size = p.pool[c].size + 1
  BY <1>2 DEF Objects
<1> HIDE DEF o3
<1>16. QED
  BY <1>11, <1>12, <1>13, <1>14, <1>15 DEF c, f

\* What json_alloc_next makes of the fields of a parser, if the parent can have another
\* child and the pool has an object left.
LEMMA AllocNextFields ==
    ASSUME NEW C, NEW p, IsParser(p, C), p.current \in 1..StackSize, p.parent \in 1..StackSize,
           p.next \in 1..StackSize, p.next # p.current, p.next # p.parent,
           p.current # p.parent, p.pool[p.parent].type \in {"object", "array"},
           NEW q, q = json_alloc_next(p)
    PROVE  /\ IsParser(q, C)
           /\ q.current = p.next /\ q.parent = p.parent /\ q.next = p.next + 1
           /\ q.state = p.state
           /\ \A k \in 1..StackSize : /\ q.pool[k].type = p.pool[k].type
                                      /\ q.pool[k].key = p.pool[k].key
                                      /\ q.pool[k].value = p.pool[k].value
                                      /\ q.pool[k].child = p.pool[k].child
                                      /\ k # p.current => q.pool[k].next = p.pool[k].next
                                      /\ k # p.next => q.pool[k].parent = p.pool[k].parent
                                      /\ k # p.parent => q.pool[k].size = p.pool[k].size
           /\ q.pool[p.current].next = p.next /\ q.pool[p.next].parent = p.parent
           /\ q.pool[p.parent].size = p.pool[p.parent].size + 1
<1> DEFINE c == p.current
           f == p.next
           t == p.parent
           v1 == [p EXCEPT !.current = f, !.next = @ + 1]
           v2 == [v1 EXCEPT !.pool[c].next = f]
           v3 == [v2 EXCEPT !.pool[f].parent = t]
           v4 == [v3 EXCEPT !.pool[t].size = @ + 1]
           o2 == [p.pool[c] EXCEPT !.next = f]
           o3 == [p.pool[f] EXCEPT !.parent = t]
           o4 == [p.pool[t] EXCEPT !.size = p.pool[t].size + 1]
<1>1. /\ p.pool \in [1..StackSize -> Objects(C)] /\ c \in 1..StackSize /\ f \in 1..StackSize
      /\ t \in 1..StackSize /\ c # f /\ c # t /\ f # t
      /\ c \in Nat /\ f \in Nat /\ t \in Nat /\ StackSize \in Nat /\ f + 1 \in Nat
  BY StackAssumption DEF IsParser
<1>2. p.pool[c] \in Objects(C) /\ p.pool[f] \in Objects(C) /\ p.pool[t] \in Objects(C)
  BY <1>1
<1> HIDE DEF c, f, t
<1>3. o2 \in Objects(C) /\ o3 \in Objects(C)
  BY <1>1, <1>2, FieldFacts
<1>4. o4 \in Objects(C)
  <2>1. p.pool[t].size + 1 \in Nat
    BY <1>2, SizeFact
  <2>2. QED
    BY <1>2, <2>1, FieldFacts
<1>5. /\ IsParser(v1, C) /\ v1.current = f /\ v1.parent = t /\ v1.next = f + 1
      /\ v1.state = p.state /\ v1.pool = p.pool
  <2>1. v1 = [p EXCEPT !.current = f, !.next = f + 1]
    BY DEF f
  <2>2. QED
    BY <1>1, <2>1 DEF IsParser, t
<1>6. IsParser(v2, C) /\ Puts(v1, v2, c, o2)
  <2> HIDE DEF v1
  <2>1. v2 = [v1 EXCEPT !.pool = [v1.pool EXCEPT ![c] = [v1.pool[c] EXCEPT !.next = f]]]
    OBVIOUS
  <2>2. [v1.pool[c] EXCEPT !.next = f] = o2
    BY <1>5
  <2> HIDE DEF o2, v2
  <2>3. QED
    BY <1>1, <1>3, <1>5, <2>1, <2>2, PutFacts
<1>7. IsParser(v3, C) /\ Puts(v2, v3, f, o3)
  <2>1. v2.pool[f] = p.pool[f]
    BY <1>1, <1>5, <1>6 DEF Puts
  <2> HIDE DEF v2
  <2>2. v3 = [v2 EXCEPT !.pool = [v2.pool EXCEPT ![f] = [v2.pool[f] EXCEPT !.parent = t]]]
    OBVIOUS
  <2>3. [v2.pool[f] EXCEPT !.parent = t] = o3
    BY <2>1
  <2> HIDE DEF o3, v3
  <2>4. QED
    BY <1>1, <1>3, <1>6, <2>2, <2>3, PutFacts
<1>8. IsParser(v4, C) /\ Puts(v3, v4, t, o4)
  <2>1. v3.pool[t] = p.pool[t]
    BY <1>1, <1>5, <1>6, <1>7 DEF Puts
  <2> HIDE DEF v3
  <2>2. v4 = [v3 EXCEPT !.pool = [v3.pool EXCEPT ![t] =
                [v3.pool[t] EXCEPT !.size = v3.pool[t].size + 1]]]
    OBVIOUS
  <2>3. [v3.pool[t] EXCEPT !.size = v3.pool[t].size + 1] = o4
    BY <2>1
  <2> HIDE DEF o4, v4
  <2>4. QED
    BY <1>1, <1>4, <1>7, <2>2, <2>3, PutFacts
<1>9. q = v4
  <2>1. ~(f > StackSize) /\ t # 0 /\ Parent(p).type \in {"object", "array"}
    BY <1>1 DEF Parent, t
  <2>2. q = [p EXCEPT !.current = f, !.next = @ + 1, !.pool[c].next = f,
                      !.pool[f].parent = t, !.pool[t].size = @ + 1]
    BY <2>1 DEF json_alloc_next, c, f, t
  <2>3. q = [v1 EXCEPT !.pool[c].next = f, !.pool[f].parent = t, !.pool[t].size = @ + 1]
    BY <2>2
  <2> HIDE DEF v1
  <2> DEFINE z == v1.pool[t].size + 1
  <2>4. q = [v1 EXCEPT !.pool[c].next = f, !.pool[f].parent = t, !.pool[t].size = z]
    BY <2>3
  <2>5. v3.pool[t].size + 1 = z
    <3> HIDE DEF o2, o3, v2, v3
    <3>1. v3.pool[t] = v1.pool[t]
      BY <1>1, <1>6, <1>7 DEF Puts
    <3>2. QED
      BY <3>1
  <2> HIDE DEF z
  <2>6. q = [[v1 EXCEPT !.pool[c].next = f, !.pool[f].parent = t] EXCEPT !.pool[t].size = z]
    BY <2>4
  <2>7. [v1 EXCEPT !.pool[c].next = f, !.pool[f].parent = t] = v3
    OBVIOUS
  <2> HIDE DEF v3
  <2>8. q = [v3 EXCEPT !.pool[t].size = z]
    BY <2>6, <2>7
  <2>9. QED
    BY <2>5, <2>8
<1> HIDE DEF v1, v2, v3, v4
<1>10. q.current = f /\ q.parent = t /\ q.next = f + 1 /\ q.state = p.state
  BY <1>5, <1>6, <1>7, <1>8, <1>9 DEF Puts
<1>11. /\ \A k \in 1..StackSize : k \notin {c, f, t} => q.pool[k] = p.pool[k]
       /\ q.pool[c] = o2 /\ q.pool[f] = o3 /\ q.pool[t] = o4
  <2> HIDE DEF o2, o3, o4
  <2>1. QED
    BY <1>1, <1>5, <1>6, <1>7, <1>8, <1>9, SMTT(40) DEF Puts
<1>12. \A k \in 1..StackSize : /\ q.pool[k].type = p.pool[k].type
                               /\ q.pool[k].key = p.pool[k].key
                               /\ q.pool[k].value = p.pool[k].value
                               /\ q.pool[k].child = p.pool[k].child
                               /\ k # c => q.pool[k].next = p.pool[k].next
                               /\ k # f => q.pool[k].parent = p.pool[k].parent
                               /\ k # t => q.pool[k].size = p.pool[k].size
  <2> TAKE k \in 1..StackSize
  <2>1. CASE k = c
    BY <1>1, <1>2, <1>11, <2>1 DEF Objects
  <2>2. CASE k = t
    BY <1>1, <1>2, <1>11, <2>2 DEF Objects
  <2>3. CASE k = f
    BY <1>1, <1>2, <1>11, <2>3 DEF Objects
  <2>4. QED
    BY <1>11, <2>1, <2>2, <2>3
<1>13. q.pool[c].next = f /\ q.pool[f].parent = t /\ q.pool[t].size = p.pool[t].size + 1
  BY <1>2, <1>11 DEF Objects
<1>14. IsParser(q, C)
  BY <1>8, <1>9
<1>15. QED
  BY <1>10, <1>12, <1>13, <1>14 DEF c, f, t

\* What json_free_child makes of the fields of a parser.
LEMMA FreeChildFields ==
    ASSUME NEW C, NULL \in C, NEW p, IsParser(p, C),
           p.current \in 1..StackSize, p.parent \in 1..StackSize,
           p.current # p.parent, p.next > 0, p.pool[p.parent].size > 0,
           NEW q, q = json_free_child(p)
    PROVE  /\ IsParser(q, C)
           /\ q.current = p.current /\ q.parent = p.parent /\ q.next = p.next - 1
           /\ q.state = p.state
           /\ \A k \in 1..StackSize :
                 k \notin {p.current, p.parent} => q.pool[k] = p.pool[k]
           /\ q.pool[p.current] = Blank
           /\ q.pool[p.parent].type = p.pool[p.parent].type
           /\ q.pool[p.parent].key = p.pool[p.parent].key
           /\ q.pool[p.parent].value = p.pool[p.parent].value
           /\ q.pool[p.parent].parent = p.pool[p.parent].parent
           /\ q.pool[p.parent].next = p.pool[p.parent].next
           /\ q.pool[p.parent].child = 0
           /\ q.pool[p.parent].size = p.pool[p.parent].size - 1
<1> DEFINE c == p.current
           t == p.parent
           v1 == [p EXCEPT !.next = @ - 1]
           v2 == [v1 EXCEPT !.pool[c] = Blank]
           v3 == [v2 EXCEPT !.pool[t].child = 0]
           v4 == [v3 EXCEPT !.pool[t].size = @ - 1]
           o3 == [p.pool[t] EXCEPT !.child = 0]
           o4 == [o3 EXCEPT !.size = o3.size - 1]
<1>1. /\ p.pool \in [1..StackSize -> Objects(C)] /\ c \in 1..StackSize
      /\ t \in 1..StackSize /\ c # t /\ p.next \in Nat /\ p.next - 1 \in Nat
      /\ p.pool[t].size > 0
  BY DEF IsParser
<1>2. p.pool[c] \in Objects(C) /\ p.pool[t] \in Objects(C)
  BY <1>1
<1>3. Blank \in Objects(C)
  BY DEF Blank, Objects, Types
<1> HIDE DEF c, t
<1>4. o3 \in Objects(C) /\ o3.size = p.pool[t].size
  BY <1>2 DEF Objects
<1>5. o4 \in Objects(C)
  <2> HIDE DEF o3
  <2>1. o3.size - 1 \in Nat
    <3>1. o3.size \in Nat
      BY <1>4, SizeFact
    <3>2. QED
      BY <1>1, <1>4, <3>1
  <2>2. QED
    BY <1>4, <2>1, FieldFacts
<1>6. /\ IsParser(v1, C) /\ v1.current = c /\ v1.parent = t /\ v1.next = p.next - 1
      /\ v1.state = p.state /\ v1.pool = p.pool
  <2>1. v1 = [p EXCEPT !.next = p.next - 1]
    OBVIOUS
  <2>2. QED
    BY <1>1, <2>1 DEF IsParser, c, t
<1>7. IsParser(v2, C) /\ Puts(v1, v2, c, Blank)
  <2> HIDE DEF v1
  <2>1. v2 = [v1 EXCEPT !.pool = [v1.pool EXCEPT ![c] = Blank]]
    OBVIOUS
  <2> HIDE DEF v2
  <2>2. QED
    BY <1>1, <1>3, <1>6, <2>1, PutFacts
<1>8. IsParser(v3, C) /\ Puts(v2, v3, t, o3)
  <2>1. v2.pool[t] = p.pool[t]
    BY <1>1, <1>6, <1>7 DEF Puts
  <2> HIDE DEF v2
  <2>2. v3 = [v2 EXCEPT !.pool = [v2.pool EXCEPT ![t] = [v2.pool[t] EXCEPT !.child = 0]]]
    OBVIOUS
  <2>3. [v2.pool[t] EXCEPT !.child = 0] = o3
    BY <2>1
  <2> HIDE DEF o3, v3
  <2>4. QED
    BY <1>1, <1>4, <1>7, <2>2, <2>3, PutFacts
<1>9. IsParser(v4, C) /\ Puts(v3, v4, t, o4)
  <2>1. v3.pool[t] = o3
    BY <1>1, <1>8 DEF Puts
  <2> HIDE DEF v3, o3
  <2>2. v4 = [v3 EXCEPT !.pool = [v3.pool EXCEPT ![t] =
                [v3.pool[t] EXCEPT !.size = v3.pool[t].size - 1]]]
    OBVIOUS
  <2>3. [v3.pool[t] EXCEPT !.size = v3.pool[t].size - 1] = o4
    BY <2>1
  <2> HIDE DEF o4, v4
  <2>4. QED
    BY <1>1, <1>5, <1>8, <2>2, <2>3, PutFacts
<1>10. q = v4
  <2>1. q = [p EXCEPT !.next = @ - 1, !.pool[c] = Blank, !.pool[t].child = 0,
                      !.pool[t].size = @ - 1]
    BY DEF json_free_child, c, t
  <2>2. q = [v1 EXCEPT !.pool[c] = Blank, !.pool[t].child = 0, !.pool[t].size = @ - 1]
    BY <2>1
  <2> HIDE DEF v1
  <2> DEFINE z == v1.pool[t].size - 1
  <2>3. q = [v1 EXCEPT !.pool[c] = Blank, !.pool[t].child = 0, !.pool[t].size = z]
    BY <2>2
  <2>4. v3.pool[t].size - 1 = z
    <3>1. v3.pool[t].size = v1.pool[t].size
      <4> HIDE DEF v1, v2, v3, o3
      <4>1. v3.pool[t] = o3 /\ v1.pool[t] = p.pool[t]
        BY <1>1, <1>6, <1>7, <1>8 DEF Puts
      <4>2. QED
        BY <1>4, <4>1
    <3> HIDE DEF v3, v1
    <3>2. QED
      BY <3>1
  <2> HIDE DEF z
  <2>5. q = [[v1 EXCEPT !.pool[c] = Blank, !.pool[t].child = 0] EXCEPT !.pool[t].size = z]
    BY <2>3
  <2>6. [v1 EXCEPT !.pool[c] = Blank, !.pool[t].child = 0] = v3
    OBVIOUS
  <2> HIDE DEF v3
  <2>7. q = [v3 EXCEPT !.pool[t].size = z]
    BY <2>5, <2>6
  <2>8. QED
    BY <2>4, <2>7
<1> HIDE DEF v1, v2, v3, v4
<1>11. q.current = c /\ q.parent = t /\ q.next = p.next - 1 /\ q.state = p.state
  BY <1>6, <1>7, <1>8, <1>9, <1>10 DEF Puts
<1>12. /\ \A k \in 1..StackSize : k \notin {c, t} => q.pool[k] = p.pool[k]
       /\ q.pool[c] = Blank /\ q.pool[t] = o4
  <2> HIDE DEF o4
  <2>1. QED
    BY <1>1, <1>6, <1>7, <1>8, <1>9, <1>10 DEF Puts
<1>13. /\ o4.type = p.pool[t].type /\ o4.key = p.pool[t].key /\ o4.value = p.pool[t].value
       /\ o4.parent = p.pool[t].parent /\ o4.next = p.pool[t].next
       /\ o4.child = 0 /\ o4.size = p.pool[t].size - 1
  BY <1>2 DEF Objects
<1> HIDE DEF o4
<1>14. QED
  BY <1>9, <1>10, <1>11, <1>12, <1>13 DEF c, t

-----------------------------------------------------------------------------
(* The parser follows the reader                                            *)

\* What a parser that mirrors a reader is.
LEMMA MirrorFacts ==
    ASSUME NEW C, NEW r, ReaderInv(r, C), NEW p, Mirrors(p, r, C)
    PROVE  /\ IsParser(p, C) /\ p.state = "reading"
           /\ InUse(r) <= StackSize /\ p.next = InUse(r) + 1
           /\ Nodes(r) \in Nat /\ Nodes(r) >= 1 /\ InUse(r) \in Nat /\ Nodes(r) <= InUse(r)
           /\ Nodes(r) <= StackSize /\ StackSize \in Nat
           /\ \A k \in 1..StackSize : p.pool[k] \in Objects(C)
<1>1. /\ IsParser(p, C) /\ p.state = "reading"
      /\ InUse(r) <= StackSize /\ p.next = InUse(r) + 1
  BY DEF Mirrors, Stands
<1>2. Nodes(r) \in Nat /\ Nodes(r) >= 1
  BY DEF ReaderInv, IsReader, Nodes
<1>3. InUse(r) \in Nat /\ Nodes(r) <= InUse(r)
  BY <1>2 DEF InUse
<1>4. StackSize \in Nat
  BY StackAssumption
<1>5. Nodes(r) <= StackSize
  BY <1>1, <1>2, <1>3, <1>4
<1>6. \A k \in 1..StackSize : p.pool[k] \in Objects(C)
  BY <1>1 DEF IsParser
<1>7. QED
  BY <1>1, <1>2, <1>3, <1>4, <1>5, <1>6

\* A parser stands at the object that is due, or at the last node.
LEMMA StandsFacts ==
    ASSUME NEW C, NEW r, ReaderInv(r, C), NEW p, Mirrors(p, r, C), r.at # "outside"
    PROVE  /\ r.open # <<>> /\ p.parent = Top(r) /\ Top(r) \in 1..Nodes(r)
           /\ p.pool[p.parent].type = TopType(r)
           /\ IsDue(r) => p.current = Nodes(r) + 1
           /\ r.at \in {"colon", "value"} => p.current = Nodes(r) /\ p.current # Top(r)
           /\ r.at = "after" => p.current = EndOf(r.kids[Top(r)])
<1>1. r.open # <<>>
  BY OpenFacts
<1>2. Top(r) \in 1..Nodes(r) /\ Nodes(r) \in Nat /\ r.kids[Top(r)] \in Seq(Nat)
  BY <1>1, TopFacts
<1>3. p.parent = Top(r) /\ p.current = EndOf(Slots(r, Top(r)))
  BY <1>1 DEF Mirrors, Stands
<1>4. p.pool[p.parent].type = TopType(r)
  BY <1>2, <1>3 DEF Mirrors, HasLabels, TopType
<1>5. ASSUME IsDue(r)
      PROVE  p.current = Nodes(r) + 1
  <2>1. Slots(r, Top(r)) = Append(r.kids[Top(r)], Nodes(r) + 1)
    BY <1>5 DEF Slots
  <2>2. /\ Len(Append(r.kids[Top(r)], Nodes(r) + 1)) = Len(r.kids[Top(r)]) + 1
        /\ Append(r.kids[Top(r)], Nodes(r) + 1)[Len(r.kids[Top(r)]) + 1] = Nodes(r) + 1
    BY <1>2, AppendFacts
  <2>3. QED
    BY <1>3, <2>1, <2>2 DEF EndOf
<1>6. ASSUME ~IsDue(r)
      PROVE  p.current = EndOf(r.kids[Top(r)])
  BY <1>3, <1>6 DEF Slots
<1>7. ASSUME r.at \in {"colon", "value"}
      PROVE  p.current = Nodes(r) /\ p.current # Top(r)
  <2>1. IsWaiting(r) /\ ~IsDue(r)
    BY <1>7 DEF ReaderInv, IsPlaced, IsDue
  <2>2. p.current = Nodes(r)
    BY <1>6, <2>1 DEF IsWaiting
  <2>3. r.label[Nodes(r)].type = "UNDEFINED"
    BY <2>1 DEF IsWaiting
  <2>4. r.label[Top(r)].type \in {"object", "array"}
    BY <1>1, TopFacts DEF TopType
  <2>5. QED
    BY <2>2, <2>3, <2>4
<1>8. r.at = "after" => ~IsDue(r)
  BY DEF IsDue
<1>9. QED
  BY <1>1, <1>2, <1>3, <1>4, <1>5, <1>6, <1>7, <1>8

\* A parser that mirrors a reader mirrors one that differs in where it is in the
\* container only.
LEMMA MirrorsKept ==
    ASSUME NEW C, NEW r, r.open # <<>> => Top(r) \in 1..Nodes(r),
           NEW p, Mirrors(p, r, C), NEW q,
           q.open = r.open, q.label = r.label, q.earlier = r.earlier,
           InUse(q) = InUse(r), \A k \in 1..Nodes(r) : Slots(q, k) = Slots(r, k)
    PROVE  Mirrors(p, q, C)
<1>1. Nodes(q) = Nodes(r) /\ Top(q) = Top(r)
  BY DEF Nodes, Top
<1>2. HasLabels(p, q) /\ HasLinks(p, q)
  BY <1>1 DEF Mirrors, HasLabels, HasLinks
<1>3. Stands(p, q)
  BY <1>1 DEF Mirrors, Stands
<1>4. QED
  BY <1>2, <1>3 DEF Mirrors

\* The object that is due is that of the node that begins, once it has the key.
LEMMA KeyMirrors ==
    ASSUME NEW C, NULL \in C, NEW r, ReaderInv(r, C), IsDue(r), NEW p, Mirrors(p, r, C),
           NEW key \in C, NEW q, q.open = r.open, Top(q) = Top(r), q.earlier = r.earlier,
           Nodes(q) = Nodes(r) + 1, InUse(q) = InUse(r),
           \A k \in 1..Nodes(r) : q.label[k] = r.label[k],
           q.label[Nodes(r) + 1] = Label("UNDEFINED", key, NULL),
           \A k \in 1..Nodes(r) : Slots(q, k) = Slots(r, k),
           Slots(q, Nodes(r) + 1) = <<>>,
           NEW w, w = WithKey(p, key)
    PROVE  Mirrors(w, q, C) /\ p.pool[p.current].key = NULL
<1> DEFINE n == Nodes(r)
           c == p.current
<1>1. /\ IsParser(p, C) /\ p.state = "reading"
      /\ InUse(r) <= StackSize /\ p.next = InUse(r) + 1
      /\ n \in Nat /\ n >= 1 /\ InUse(r) \in Nat /\ StackSize \in Nat
      /\ \A k \in 1..StackSize : p.pool[k] \in Objects(C)
  BY MirrorFacts
<1>2. InUse(r) = n + 1
  BY <1>1 DEF InUse
<1>3. r.at # "outside"
  BY DEF IsDue
<1>4. r.open # <<>> /\ p.parent = Top(r) /\ Top(r) \in 1..n /\ c = n + 1
  BY <1>3, StandsFacts
<1>5. c \in 1..StackSize
  BY <1>1, <1>2, <1>4
<1>6. /\ IsParser(w, C)
      /\ w.current = p.current /\ w.parent = p.parent /\ w.next = p.next
      /\ w.state = p.state
      /\ \A k \in 1..StackSize : k # c => w.pool[k] = p.pool[k]
      /\ w.pool[c] = [p.pool[c] EXCEPT !.key = key]
  BY <1>1, <1>5, KeyFields
<1>7. p.pool[c] \in Objects(C)
  BY <1>1, <1>5
<1>8. /\ w.pool[c].key = key /\ w.pool[c].type = p.pool[c].type
      /\ w.pool[c].value = p.pool[c].value
      /\ w.pool[c].parent = p.pool[c].parent /\ w.pool[c].next = p.pool[c].next
      /\ w.pool[c].child = p.pool[c].child /\ w.pool[c].size = p.pool[c].size
  BY <1>6, <1>7 DEF Objects
<1>9. \A k \in 1..StackSize : /\ w.pool[k].parent = p.pool[k].parent
                              /\ w.pool[k].next = p.pool[k].next
                              /\ w.pool[k].child = p.pool[k].child
                              /\ w.pool[k].size = p.pool[k].size
  BY <1>6, <1>8
<1> HIDE DEF n, c
<1>10. /\ \A k \in 1..n : /\ p.pool[k].type = r.label[k].type
                          /\ p.pool[k].key = r.label[k].key
                          /\ p.pool[k].value = r.label[k].value
       /\ \A k \in n + 1..StackSize :
             /\ p.pool[k].type = "UNDEFINED" /\ p.pool[k].key = NULL /\ p.pool[k].value = NULL
             /\ p.pool[k].next = 0 /\ p.pool[k].child = 0 /\ p.pool[k].size = 0
       /\ \A k \in InUse(r) + 1..StackSize : p.pool[k].parent = 0
  BY DEF Mirrors, HasLabels, n
<1>11. c \in n + 1..StackSize
  BY <1>1, <1>2, <1>4
<1>12. HasLabels(w, q)
  <2>1. ASSUME NEW k \in 1..n + 1
        PROVE  /\ w.pool[k].type = q.label[k].type
               /\ w.pool[k].key = q.label[k].key /\ w.pool[k].value = q.label[k].value
    <3>1. CASE k \in 1..n
      <4>1. k \in 1..StackSize /\ k # c
        BY <1>1, <1>2, <1>4, <3>1
      <4>2. q.label[k] = r.label[k]
        BY <3>1 DEF n
      <4>3. QED
        BY <1>6, <1>10, <3>1, <4>1, <4>2
    <3>2. CASE k = n + 1
      <4>1. p.pool[c].type = "UNDEFINED" /\ p.pool[c].value = NULL
        BY <1>10, <1>11
      <4>2. q.label[k] = Label("UNDEFINED", key, NULL) /\ k = c
        BY <1>4, <3>2 DEF n
      <4>3. QED
        BY <1>8, <4>1, <4>2 DEF Label
    <3>3. QED
      BY <1>1, <3>1, <3>2
  <2>2. ASSUME NEW k \in n + 1 + 1..StackSize
        PROVE  /\ w.pool[k].type = "UNDEFINED" /\ w.pool[k].key = NULL /\ w.pool[k].value = NULL
               /\ w.pool[k].next = 0 /\ w.pool[k].child = 0 /\ w.pool[k].size = 0
               /\ w.pool[k].parent = 0
    <3>1. k \in 1..StackSize /\ k # c /\ k \in n + 1..StackSize /\ k \in InUse(r) + 1..StackSize
      BY <1>1, <1>2, <1>4
    <3>2. QED
      BY <1>6, <1>10, <3>1
  <2>3. Nodes(q) = n + 1 /\ InUse(q) = n + 1
    BY <1>2 DEF n
  <2>4. QED
    BY <2>1, <2>2, <2>3 DEF HasLabels
<1>13. HasLinks(w, q)
  <2>1. w.pool[1].parent = 0
    <3>1. 1 \in 1..StackSize
      BY StackAssumption
    <3>2. QED
      BY <1>9, <3>1 DEF Mirrors, HasLinks
  <2>2. ASSUME NEW k \in 1..n + 1
        PROVE  /\ w.pool[k].child = IF Slots(q, k) = <<>> THEN 0 ELSE Slots(q, k)[1]
               /\ w.pool[k].size = Len(Slots(q, k)) + (IF k = 1 THEN q.earlier ELSE 0)
               /\ \A i \in 1..Len(Slots(q, k)) :
                     /\ w.pool[Slots(q, k)[i]].parent = k
                     /\ w.pool[Slots(q, k)[i]].next = IF i = Len(Slots(q, k)) THEN 0
                                                      ELSE Slots(q, k)[i + 1]
    <3>1. CASE k \in 1..n
      <4>1. Slots(q, k) = Slots(r, k) /\ k \in 1..Nodes(r)
        BY <3>1 DEF n
      <4>2. k \in 1..StackSize
        BY <1>1, <1>2, <3>1
      <4>3. /\ p.pool[k].child = IF Slots(r, k) = <<>> THEN 0 ELSE Slots(r, k)[1]
            /\ p.pool[k].size = Len(Slots(r, k)) + (IF k = 1 THEN r.earlier ELSE 0)
            /\ \A i \in 1..Len(Slots(r, k)) :
                  /\ p.pool[Slots(r, k)[i]].parent = k
                  /\ p.pool[Slots(r, k)[i]].next = IF i = Len(Slots(r, k)) THEN 0
                                                   ELSE Slots(r, k)[i + 1]
        BY <4>1 DEF Mirrors, HasLinks
      <4>4. \A i \in 1..Len(Slots(r, k)) : Slots(r, k)[i] \in 1..StackSize
        <5>1. \A i \in 1..Len(Slots(r, k)) : Slots(r, k)[i] \in k + 1..InUse(r)
          BY <4>1, SlotFacts
        <5>2. \A x \in k + 1..InUse(r) : x \in 1..StackSize
          BY <1>1, <3>1
        <5>3. QED
          BY <5>1, <5>2
      <4> DEFINE s == Slots(r, k)
      <4> HIDE DEF s
      <4>5. \A i \in 1..Len(s) :
               /\ w.pool[s[i]].parent = k
               /\ w.pool[s[i]].next = IF i = Len(s) THEN 0 ELSE s[i + 1]
        BY <1>9, <4>3, <4>4, SMTT(40) DEF s
      <4>6. QED
        BY <1>9, <4>1, <4>2, <4>3, <4>5 DEF s
    <3>2. CASE k = n + 1
      <4>1. p.pool[c].child = 0 /\ p.pool[c].size = 0 /\ k = c /\ k # 1
        BY <1>1, <1>4, <1>10, <1>11, <3>2
      <4>2. Slots(q, k) = <<>> /\ Len(Slots(q, k)) = 0
        BY <3>2, EmptyFacts DEF n
      <4>3. QED
        BY <1>8, <4>1, <4>2
    <3>3. QED
      BY <1>1, <3>1, <3>2
  <2>3. Nodes(q) = n + 1
    BY DEF n
  <2>4. QED
    BY <2>1, <2>2, <2>3 DEF HasLinks
<1>14. Stands(w, q)
  <2>1. Slots(q, Top(r)) = Slots(r, Top(r))
    BY <1>4 DEF n
  <2>2. QED
    BY <1>4, <1>6, <2>1 DEF Mirrors, Stands, c
<1>15. p.pool[c].key = NULL
  BY <1>10, <1>11
<1>16. QED
  BY <1>6, <1>12, <1>13, <1>14, <1>15 DEF Mirrors, c

\* What HasLinks says of one node, its slots being s.
LEMMA LinkFacts ==
    ASSUME NEW C, NEW r, ReaderInv(r, C), NEW p, Mirrors(p, r, C), NEW k \in 1..Nodes(r),
           NEW s, s = Slots(r, k)
    PROVE  /\ s \in Seq(Nat) /\ Len(s) \in Nat /\ (s = <<>> <=> Len(s) = 0)
           /\ p.pool[k].child = IF s = <<>> THEN 0 ELSE s[1]
           /\ p.pool[k].size = Len(s) + (IF k = 1 THEN r.earlier ELSE 0)
           /\ \A i \in 1..Len(s) :
                 /\ s[i] \in k + 1..InUse(r) /\ s[i] \in 1..StackSize
                 /\ p.pool[s[i]].parent = k
                 /\ p.pool[s[i]].next = IF i = Len(s) THEN 0 ELSE s[i + 1]
<1>1. s \in Seq(Nat) /\ Len(s) \in Nat /\ \A i \in 1..Len(s) : s[i] \in k + 1..InUse(r)
  BY SlotFacts
<1>2. s = <<>> <=> Len(s) = 0
  BY <1>1, EmptyFacts
<1>3. \A x \in k + 1..InUse(r) : x \in 1..StackSize
  BY MirrorFacts
<1>4. /\ p.pool[k].child = IF s = <<>> THEN 0 ELSE s[1]
      /\ p.pool[k].size = Len(s) + (IF k = 1 THEN r.earlier ELSE 0)
      /\ \A i \in 1..Len(s) :
            /\ p.pool[s[i]].parent = k
            /\ p.pool[s[i]].next = IF i = Len(s) THEN 0 ELSE s[i + 1]
  BY DEF Mirrors, HasLinks
<1>5. QED
  BY <1>1, <1>2, <1>3, <1>4

\* What is stored is the value of the last node.
LEMMA StoreMirrors ==
    ASSUME NEW C, NULL \in C, NEW r, ReaderInv(r, C), r.at = "value",
           NEW p, Mirrors(p, r, C), NEW type \in Types \ {"UNDEFINED"}, NEW content \in C,
           NEW q, q = Filled(r, type, content), NEW w, w = Store(p, type, content)
    PROVE  Mirrors(w, q, C)
<1> DEFINE n == Nodes(r)
<1>1. /\ IsParser(p, C) /\ p.state = "reading"
      /\ InUse(r) <= StackSize /\ p.next = InUse(r) + 1
      /\ n \in Nat /\ n >= 1 /\ InUse(r) \in Nat /\ StackSize \in Nat /\ n <= StackSize
      /\ \A k \in 1..StackSize : p.pool[k] \in Objects(C)
  BY MirrorFacts
<1>2. r.open # <<>> /\ p.current = n /\ n \in 1..StackSize /\ Top(r) \in 1..n
  <2>1. n \in 1..StackSize
    BY <1>1
  <2>2. r.open # <<>> /\ p.current = n /\ Top(r) \in 1..n
    BY StandsFacts
  <2>3. QED
    BY <2>1, <2>2
<1>3. type \in Types /\ IsReader(r, C)
  BY DEF ReaderInv
<1>4. /\ Nodes(q) = n /\ Top(q) = Top(r) /\ q.open = r.open /\ q.earlier = r.earlier
      /\ \A k \in 1..n : k # n => q.label[k] = r.label[k]
      /\ q.label[n] = Label(type, r.label[n].key, content)
  BY <1>3, FilledFields
<1>5. InUse(q) = InUse(r) /\ \A k \in 1..n : Slots(q, k) = Slots(r, k)
  BY FilledKeeps
<1>6. /\ IsParser(w, C)
      /\ w.current = p.current /\ w.parent = p.parent /\ w.next = p.next
      /\ w.state = p.state
      /\ \A k \in 1..StackSize : k # n => w.pool[k] = p.pool[k]
      /\ w.pool[n].key = p.pool[n].key /\ w.pool[n].type = type
      /\ w.pool[n].value = content
      /\ w.pool[n].parent = p.pool[n].parent /\ w.pool[n].next = p.pool[n].next
      /\ w.pool[n].child = p.pool[n].child /\ w.pool[n].size = p.pool[n].size
  <2>1. IsParser(p, C) /\ p.current \in 1..StackSize /\ type \in Types
    BY <1>1, <1>2, <1>3
  <2> HIDE DEF n
  <2>2. QED
    BY <1>2, <2>1, StoreFields
<1>8. \A k \in 1..StackSize : /\ w.pool[k].parent = p.pool[k].parent
                              /\ w.pool[k].next = p.pool[k].next
                              /\ w.pool[k].child = p.pool[k].child
                              /\ w.pool[k].size = p.pool[k].size
  BY <1>6
<1>9. InUse(r) = n
  BY <1>1 DEF InUse, IsDue
<1> HIDE DEF n
<1>10. /\ \A k \in 1..n : /\ p.pool[k].type = r.label[k].type
                          /\ p.pool[k].key = r.label[k].key
                          /\ p.pool[k].value = r.label[k].value
       /\ \A k \in n + 1..StackSize :
             /\ p.pool[k].type = "UNDEFINED" /\ p.pool[k].key = NULL /\ p.pool[k].value = NULL
             /\ p.pool[k].next = 0 /\ p.pool[k].child = 0 /\ p.pool[k].size = 0
       /\ \A k \in n + 1..StackSize : p.pool[k].parent = 0
  BY <1>9 DEF Mirrors, HasLabels, n
<1>11. HasLabels(w, q)
  <2>1. ASSUME NEW k \in 1..n
        PROVE  /\ w.pool[k].type = q.label[k].type
               /\ w.pool[k].key = q.label[k].key /\ w.pool[k].value = q.label[k].value
    <3>1. CASE k # n
      <4>1. k \in 1..StackSize
        BY <1>1
      <4>2. QED
        BY <1>4, <1>6, <1>10, <3>1, <4>1
    <3>2. CASE k = n
      <4>1. p.pool[n].key = r.label[n].key
        BY <1>10, <3>2
      <4>2. QED
        BY <1>4, <1>6, <3>2, <4>1 DEF Label
    <3>3. QED
      BY <3>1, <3>2
  <2>2. ASSUME NEW k \in n + 1..StackSize
        PROVE  w.pool[k] = p.pool[k]
    <3>1. k \in 1..StackSize /\ k # n
      BY <1>1
    <3>2. QED
      BY <1>6, <3>1
  <2>3. QED
    BY <1>4, <1>5, <1>9, <1>10, <2>1, <2>2 DEF HasLabels
<1>12. HasLinks(w, q)
  <2>1. w.pool[1].parent = 0
    <3>1. 1 \in 1..StackSize
      BY StackAssumption
    <3>2. QED
      BY <1>8, <3>1 DEF Mirrors, HasLinks
  <2>2. ASSUME NEW k \in 1..n, NEW s, s = Slots(r, k)
        PROVE  /\ w.pool[k].child = IF s = <<>> THEN 0 ELSE s[1]
               /\ w.pool[k].size = Len(s) + (IF k = 1 THEN q.earlier ELSE 0)
               /\ \A i \in 1..Len(s) :
                     /\ w.pool[s[i]].parent = k
                     /\ w.pool[s[i]].next = IF i = Len(s) THEN 0 ELSE s[i + 1]
    <3>1. /\ p.pool[k].child = IF s = <<>> THEN 0 ELSE s[1]
          /\ p.pool[k].size = Len(s) + (IF k = 1 THEN r.earlier ELSE 0)
          /\ \A i \in 1..Len(s) :
                /\ s[i] \in 1..StackSize /\ p.pool[s[i]].parent = k
                /\ p.pool[s[i]].next = IF i = Len(s) THEN 0 ELSE s[i + 1]
      BY <2>2, LinkFacts, SMTT(40) DEF n
    <3>2. k \in 1..StackSize
      BY <1>1
    <3>3. QED
      BY <1>4, <1>8, <3>1, <3>2, SMTT(40)
  <2>3. QED
    BY <1>4, <1>5, <2>1, <2>2 DEF HasLinks
<1>13. Stands(w, q)
  <2>1. Slots(q, Top(r)) = Slots(r, Top(r))
    BY <1>2, <1>5
  <2>2. QED
    BY <1>4, <1>5, <1>6, <2>1 DEF Mirrors, Stands
<1>14. QED
  BY <1>6, <1>11, <1>12, <1>13 DEF Mirrors

\* What is opened is the object that is current, and its child is the one that is due.
LEMMA OpenMirrors ==
    ASSUME NEW C, NULL \in C, NEW r, ReaderInv(r, C), NEW p, Mirrors(p, r, C),
           p.current \in 1..Nodes(r), InUse(r) = Nodes(r), InUse(r) + 1 <= StackSize,
           NEW type \in {"object", "array"},
           NEW q, q.open # <<>>, Top(q) = p.current, Nodes(q) = Nodes(r), InUse(q) = InUse(r) + 1,
           \A k \in 1..Nodes(r) : k # p.current => q.label[k] = r.label[k],
           q.label[p.current] = Label(type, r.label[p.current].key, r.label[p.current].value),
           \A k \in 1..Nodes(r) : k # p.current => Slots(q, k) = Slots(r, k),
           Slots(q, p.current) = <<Nodes(r) + 1>>,
           p.current = 1 => q.earlier = Len(Slots(r, 1)) + r.earlier,
           p.current # 1 => Slots(r, p.current) = <<>> /\ q.earlier = r.earlier,
           NEW w, w = Open(p, type)
    PROVE  Mirrors(w, q, C)
<1> DEFINE n == Nodes(r)
           c == p.current
<1>1. /\ IsParser(p, C) /\ p.state = "reading" /\ p.next = n + 1
      /\ n \in Nat /\ n >= 1 /\ StackSize \in Nat /\ n + 1 <= StackSize
      /\ \A k \in 1..StackSize : p.pool[k] \in Objects(C)
  BY MirrorFacts
<1>2. /\ c \in 1..StackSize /\ n + 1 \in 1..StackSize /\ n + 1 # c /\ c \in 1..n
      /\ type \in Types
  BY <1>1 DEF Types
<1>3. /\ IsParser(w, C)
      /\ w.current = n + 1 /\ w.parent = c /\ w.next = n + 1 + 1 /\ w.state = p.state
      /\ \A k \in 1..StackSize : k \notin {c, n + 1} => w.pool[k] = p.pool[k]
      /\ w.pool[c].type = type /\ w.pool[c].key = p.pool[c].key
      /\ w.pool[c].value = p.pool[c].value
      /\ w.pool[c].parent = p.pool[c].parent /\ w.pool[c].next = p.pool[c].next
      /\ w.pool[c].child = n + 1 /\ w.pool[c].size = p.pool[c].size + 1
      /\ w.pool[n + 1] = [p.pool[n + 1] EXCEPT !.parent = c]
  <2>1. /\ IsParser(p, C) /\ p.current \in 1..StackSize /\ p.next \in 1..StackSize
        /\ p.next # p.current /\ type \in Types
    BY <1>1, <1>2
  <2>2. p.next = n + 1
    BY <1>1
  <2> HIDE DEF n
  <2>3. QED
    BY <2>1, <2>2, OpenChildFields
<1>5. /\ w.pool[n + 1].type = p.pool[n + 1].type /\ w.pool[n + 1].key = p.pool[n + 1].key
      /\ w.pool[n + 1].value = p.pool[n + 1].value /\ w.pool[n + 1].next = p.pool[n + 1].next
      /\ w.pool[n + 1].child = p.pool[n + 1].child /\ w.pool[n + 1].size = p.pool[n + 1].size
      /\ w.pool[n + 1].parent = c
  <2>1. p.pool[n + 1] \in Objects(C)
    BY <1>1, <1>2
  <2>2. QED
    BY <1>3, <2>1 DEF Objects
<1> HIDE DEF n, c
<1>6. /\ \A k \in 1..n : /\ p.pool[k].type = r.label[k].type
                         /\ p.pool[k].key = r.label[k].key
                         /\ p.pool[k].value = r.label[k].value
      /\ \A k \in n + 1..StackSize :
            /\ p.pool[k].type = "UNDEFINED" /\ p.pool[k].key = NULL /\ p.pool[k].value = NULL
            /\ p.pool[k].next = 0 /\ p.pool[k].child = 0 /\ p.pool[k].size = 0
            /\ p.pool[k].parent = 0
  BY DEF Mirrors, HasLabels, n
<1>7. n + 1 \in n + 1..StackSize
  BY <1>1
<1>8. HasLabels(w, q)
  <2>1. ASSUME NEW k \in 1..n
        PROVE  /\ w.pool[k].type = q.label[k].type
               /\ w.pool[k].key = q.label[k].key /\ w.pool[k].value = q.label[k].value
    <3>1. CASE k # c
      <4>1. k \in 1..StackSize /\ k \notin {c, n + 1}
        BY <1>1, <3>1
      <4>2. q.label[k] = r.label[k]
        BY <3>1 DEF n, c
      <4>3. QED
        BY <1>3, <1>6, <4>1, <4>2
    <3>2. CASE k = c
      <4>1. q.label[c] = Label(type, r.label[c].key, r.label[c].value)
        BY DEF c
      <4>2. QED
        BY <1>3, <1>6, <3>2, <4>1 DEF Label
    <3>3. QED
      BY <3>1, <3>2
  <2>2. ASSUME NEW k \in n + 1..StackSize
        PROVE  /\ w.pool[k].type = "UNDEFINED" /\ w.pool[k].key = NULL /\ w.pool[k].value = NULL
               /\ w.pool[k].next = 0 /\ w.pool[k].child = 0 /\ w.pool[k].size = 0
               /\ k # n + 1 => w.pool[k].parent = 0
    <3>1. CASE k = n + 1
      BY <1>5, <1>6, <1>7, <3>1
    <3>2. CASE k # n + 1
      <4>1. k \in 1..StackSize /\ k \notin {c, n + 1}
        BY <1>1, <1>2, <3>2
      <4>2. QED
        BY <1>3, <1>6, <3>2, <4>1
    <3>3. QED
      BY <3>1, <3>2
  <2>3. ASSUME NEW k \in n + 1 + 1..StackSize
        PROVE  w.pool[k].parent = 0
    <3>1. k \in n + 1..StackSize /\ k # n + 1
      BY <1>1
    <3>2. QED
      BY <2>2, <3>1
  <2>4. Nodes(q) = n /\ InUse(q) = n + 1
    BY DEF n
  <2>5. QED
    BY <2>1, <2>2, <2>3, <2>4 DEF HasLabels
<1>9. HasLinks(w, q)
  <2>1. w.pool[1].parent = 0
    <3>1. p.pool[1].parent = 0 /\ 1 \in 1..StackSize /\ 1 # n + 1
      BY <1>1 DEF Mirrors, HasLinks
    <3>2. QED
      BY <1>3, <3>1
  <2>2. \A x \in 1..n : w.pool[x].parent = p.pool[x].parent /\ w.pool[x].next = p.pool[x].next
    <3> TAKE x \in 1..n
    <3>1. x \in 1..StackSize /\ x # n + 1
      BY <1>1
    <3>2. QED
      BY <1>3, <3>1
  <2>3. ASSUME NEW k \in 1..n, NEW s, s = Slots(q, k)
        PROVE  /\ w.pool[k].child = IF s = <<>> THEN 0 ELSE s[1]
               /\ w.pool[k].size = Len(s) + (IF k = 1 THEN q.earlier ELSE 0)
               /\ \A i \in 1..Len(s) :
                     /\ w.pool[s[i]].parent = k
                     /\ w.pool[s[i]].next = IF i = Len(s) THEN 0 ELSE s[i + 1]
    <3>1. CASE k # c
      <4>1. s = Slots(r, k)
        BY <2>3, <3>1 DEF n, c
      <4>2. /\ p.pool[k].child = IF s = <<>> THEN 0 ELSE s[1]
            /\ p.pool[k].size = Len(s) + (IF k = 1 THEN r.earlier ELSE 0)
            /\ \A i \in 1..Len(s) :
                  /\ s[i] \in k + 1..InUse(r) /\ p.pool[s[i]].parent = k
                  /\ p.pool[s[i]].next = IF i = Len(s) THEN 0 ELSE s[i + 1]
        BY <4>1, LinkFacts, SMTT(40) DEF n
      <4>3. \A i \in 1..Len(s) : s[i] \in 1..n
        <5>1. \A x \in k + 1..InUse(r) : x \in 1..n
          BY <1>1 DEF n
        <5>2. QED
          BY <4>2, <5>1
      <4>4. k \in 1..StackSize /\ k \notin {c, n + 1}
        BY <1>1, <3>1
      <4>5. k = 1 => q.earlier = r.earlier
        BY <3>1 DEF c
      <4>6. \A i \in 1..Len(s) :
               /\ w.pool[s[i]].parent = k
               /\ w.pool[s[i]].next = IF i = Len(s) THEN 0 ELSE s[i + 1]
        BY <2>2, <4>2, <4>3
      <4>7. w.pool[k].child = p.pool[k].child /\ w.pool[k].size = p.pool[k].size
        BY <1>3, <4>4
      <4>8. QED
        BY <4>2, <4>5, <4>6, <4>7
    <3>2. CASE k = c
      <4>1. s = <<n + 1>>
        BY <2>3, <3>2 DEF n, c
      <4>2. Len(s) = 1 /\ s[1] = n + 1 /\ s # <<>>
        BY <4>1
      <4> DEFINE z == Slots(r, c)
      <4>3. p.pool[c].size = Len(z) + (IF c = 1 THEN r.earlier ELSE 0) /\ Len(z) \in Nat
        BY <1>2, LinkFacts DEF n
      <4>4. c = 1 => q.earlier = Len(z) + r.earlier
        BY DEF c
      <4>5. c # 1 => Len(z) = 0
        BY EmptyFacts DEF c
      <4>6. r.earlier \in Nat
        BY DEF ReaderInv, IsReader
      <4> HIDE DEF z
      <4>7. w.pool[c].size = 1 + (IF c = 1 THEN q.earlier ELSE 0)
        BY <1>3, <4>3, <4>4, <4>5, <4>6
      <4>8. w.pool[n + 1].parent = c /\ w.pool[n + 1].next = 0
        BY <1>5, <1>6, <1>7
      <4>9. \A i \in 1..1 : i = 1
        OBVIOUS
      <4>10. QED
        BY <1>3, <3>2, <4>2, <4>7, <4>8, <4>9
    <3>3. QED
      BY <3>1, <3>2
  <2>4. Nodes(q) = n
    BY DEF n
  <2>5. QED
    BY <2>3, <2>1, <2>4 DEF HasLinks
<1>10. Stands(w, q)
  <2>1. Slots(q, c) = <<n + 1>> /\ Top(q) = c /\ InUse(q) = n + 1
    BY DEF n, c
  <2>2. EndOf(<<n + 1>>) = n + 1
    BY DEF EndOf
  <2>3. QED
    BY <1>1, <1>3, <2>1, <2>2 DEF Stands
<1>11. QED
  BY <1>3, <1>8, <1>9, <1>10 DEF Mirrors

\* After a comma, the object that is due is the next of the last kid.
LEMMA CommaMirrors ==
    ASSUME NEW C, NULL \in C, NEW r, ReaderInv(r, C), r.at = "after",
           NEW p, Mirrors(p, r, C), InUse(r) + 1 <= StackSize,
           NEW q, q = At(r, "next"), NEW w, w = json_alloc_next(p)
    PROVE  Mirrors(w, q, C)
<1> DEFINE n == Nodes(r)
           t == Top(r)
           kids == r.kids[t]
           c == kids[Len(kids)]
<1>1. /\ q.open = r.open /\ q.label = r.label /\ q.earlier = r.earlier
      /\ Nodes(q) = n /\ Top(q) = t
  BY DEF At, ReaderInv, IsReader, Nodes, Top
<1>2. /\ InUse(q) = n + 1 /\ InUse(r) = n
      /\ \A k \in 1..n : k # t => Slots(q, k) = Slots(r, k)
      /\ Slots(r, t) = kids /\ Slots(q, t) = Append(kids, n + 1)
  <2> HIDE DEF n, t, kids
  <2>1. /\ InUse(q) = InUse(r) + 1 /\ InUse(r) = Nodes(r)
        /\ \A k \in 1..Nodes(r) : k # Top(r) => Slots(q, k) = Slots(r, k)
        /\ Slots(r, Top(r)) = r.kids[Top(r)]
        /\ Slots(q, Top(r)) = Append(r.kids[Top(r)], Nodes(r) + 1)
    <3>1. HasMadeSlot(q, r)
      BY CommaKeeps
    <3>2. QED
      BY <3>1 DEF HasMadeSlot
  <2>2. QED
    BY <2>1 DEF n, t, kids
<1>3. /\ IsParser(p, C) /\ p.state = "reading" /\ p.next = n + 1
      /\ n \in Nat /\ n >= 1 /\ StackSize \in Nat /\ n + 1 <= StackSize
      /\ \A k \in 1..StackSize : p.pool[k] \in Objects(C)
  BY <1>2, MirrorFacts
<1>4. /\ r.open # <<>> /\ p.parent = t /\ t \in 1..n /\ p.current = c
      /\ p.pool[t].type \in {"object", "array"} /\ kids \in Seq(Nat)
  <2>1. r.at # "outside"
    OBVIOUS
  <2>2. /\ r.open # <<>> /\ p.parent = t /\ t \in 1..n /\ p.current = c
        /\ p.pool[t].type = TopType(r)
    BY <2>1, StandsFacts DEF EndOf
  <2>3. TopType(r) \in {"object", "array"} /\ kids \in Seq(Nat)
    BY <2>2, TopFacts
  <2>4. QED
    BY <2>2, <2>3
<1>5. Len(kids) \in 1..Len(kids) /\ Len(kids) \in Nat
  <2>1. Len(kids) > 0
    BY DEF ReaderInv, IsPlaced
  <2>2. Len(kids) \in Nat
    BY <1>4, EmptyFacts
  <2>3. QED
    BY <2>1, <2>2
<1>6. /\ \A i \in 1..Len(kids) : kids[i] \in t + 1..n
      /\ \A i, j \in 1..Len(kids) : i < j => kids[i] < kids[j]
  BY <1>4 DEF ReaderInv, InOrder
<1>7. /\ p.pool[t].child = IF kids = <<>> THEN 0 ELSE kids[1]
      /\ p.pool[t].size = Len(kids) + (IF t = 1 THEN r.earlier ELSE 0)
      /\ \A i \in 1..Len(kids) :
            /\ p.pool[kids[i]].parent = t
            /\ p.pool[kids[i]].next = IF i = Len(kids) THEN 0 ELSE kids[i + 1]
  <2>1. kids = Slots(r, t)
    BY <1>2
  <2>2. t \in 1..Nodes(r)
    BY <1>4
  <2> HIDE DEF kids, n, t
  <2>3. QED
    BY <2>1, <2>2, LinkFacts, SMTT(40)
<1> HIDE DEF n, t, kids, c
<1>8. c \in t + 1..n /\ p.pool[c].parent = t
  BY <1>5, <1>6, <1>7 DEF c
<1>9. /\ c \in 1..StackSize /\ t \in 1..StackSize /\ n + 1 \in 1..StackSize
      /\ n + 1 # c /\ n + 1 # t /\ c # t
  <2>1. c \in 1..n /\ c # t
    BY <1>4, <1>8
  <2>2. QED
    BY <1>3, <1>4, <2>1
<1>10. /\ IsParser(w, C)
       /\ w.current = n + 1 /\ w.parent = t /\ w.next = n + 1 + 1 /\ w.state = p.state
       /\ \A k \in 1..StackSize : /\ w.pool[k].type = p.pool[k].type
                                  /\ w.pool[k].key = p.pool[k].key
                                  /\ w.pool[k].value = p.pool[k].value
                                  /\ w.pool[k].child = p.pool[k].child
                                  /\ k # c => w.pool[k].next = p.pool[k].next
                                  /\ k # n + 1 => w.pool[k].parent = p.pool[k].parent
                                  /\ k # t => w.pool[k].size = p.pool[k].size
       /\ w.pool[c].next = n + 1 /\ w.pool[n + 1].parent = t
       /\ w.pool[t].size = p.pool[t].size + 1
  <2>1. /\ p.current \in 1..StackSize /\ p.parent \in 1..StackSize
        /\ p.next \in 1..StackSize /\ p.next # p.current /\ p.next # p.parent
        /\ p.current # p.parent /\ p.pool[p.parent].type \in {"object", "array"}
        /\ IsParser(p, C)
    BY <1>3, <1>4, <1>9
  <2>2. p.current = c /\ p.parent = t /\ p.next = n + 1
    BY <1>3, <1>4
  <2>3. QED
    BY <2>1, <2>2, AllocNextFields
<1>14. /\ \A k \in 1..n : /\ p.pool[k].type = r.label[k].type
                          /\ p.pool[k].key = r.label[k].key
                          /\ p.pool[k].value = r.label[k].value
       /\ \A k \in n + 1..StackSize :
             /\ p.pool[k].type = "UNDEFINED" /\ p.pool[k].key = NULL /\ p.pool[k].value = NULL
             /\ p.pool[k].next = 0 /\ p.pool[k].child = 0 /\ p.pool[k].size = 0
             /\ p.pool[k].parent = 0
  BY <1>2 DEF Mirrors, HasLabels, n
<1>15. HasLabels(w, q)
  <2>1. ASSUME NEW k \in 1..n
        PROVE  /\ w.pool[k].type = q.label[k].type
               /\ w.pool[k].key = q.label[k].key /\ w.pool[k].value = q.label[k].value
    <3>1. k \in 1..StackSize
      BY <1>3
    <3>2. QED
      BY <1>1, <1>10, <1>14, <3>1
  <2>2. ASSUME NEW k \in n + 1..StackSize
        PROVE  /\ w.pool[k].type = "UNDEFINED" /\ w.pool[k].key = NULL /\ w.pool[k].value = NULL
               /\ w.pool[k].next = 0 /\ w.pool[k].child = 0 /\ w.pool[k].size = 0
               /\ k # n + 1 => w.pool[k].parent = 0
    <3>1. k \in 1..StackSize /\ k # c /\ k # t
      BY <1>3, <1>4, <1>8
    <3>2. QED
      BY <1>10, <1>14, <3>1
  <2>3. ASSUME NEW k \in n + 1 + 1..StackSize
        PROVE  w.pool[k].parent = 0
    <3>1. k \in n + 1..StackSize /\ k # n + 1
      BY <1>3
    <3>2. QED
      BY <2>2, <3>1
  <2>4. QED
    BY <1>1, <1>2, <2>1, <2>2, <2>3 DEF HasLabels
<1>16. HasLinks(w, q)
  <2>1. w.pool[1].parent = 0
    <3>1. p.pool[1].parent = 0 /\ 1 \in 1..StackSize /\ 1 # n + 1
      BY <1>3 DEF Mirrors, HasLinks
    <3>2. QED
      BY <1>10, <3>1
  <2>2. ASSUME NEW k \in 1..n, k # t, NEW s, s = Slots(r, k)
        PROVE  /\ w.pool[k].child = IF s = <<>> THEN 0 ELSE s[1]
               /\ w.pool[k].size = Len(s) + (IF k = 1 THEN r.earlier ELSE 0)
               /\ \A i \in 1..Len(s) :
                     /\ w.pool[s[i]].parent = k
                     /\ w.pool[s[i]].next = IF i = Len(s) THEN 0 ELSE s[i + 1]
    <3>1. /\ p.pool[k].child = IF s = <<>> THEN 0 ELSE s[1]
          /\ p.pool[k].size = Len(s) + (IF k = 1 THEN r.earlier ELSE 0)
          /\ \A i \in 1..Len(s) :
                /\ s[i] \in k + 1..InUse(r) /\ s[i] \in 1..StackSize /\ p.pool[s[i]].parent = k
                /\ p.pool[s[i]].next = IF i = Len(s) THEN 0 ELSE s[i + 1]
      BY <2>2, LinkFacts, SMTT(40) DEF n
    <3>2. k \in 1..StackSize
      BY <1>3
    <3>3. \A x \in k + 1..InUse(r) : x # n + 1
      BY <1>2, <1>3
    <3>4. \A i \in 1..Len(s) : s[i] # c /\ s[i] # n + 1
      BY <1>8, <2>2, <3>1, <3>3
    <3>5. w.pool[k].child = p.pool[k].child /\ w.pool[k].size = p.pool[k].size
      BY <1>10, <2>2, <3>2
    <3>6. \A i \in 1..Len(s) : /\ w.pool[s[i]].parent = p.pool[s[i]].parent
                               /\ w.pool[s[i]].next = p.pool[s[i]].next
      BY <1>10, <3>1, <3>4
    <3>7. QED
      BY <3>1, <3>5, <3>6
  <2>3. ASSUME NEW s, s = Append(kids, n + 1)
        PROVE  /\ w.pool[t].child = IF s = <<>> THEN 0 ELSE s[1]
               /\ w.pool[t].size = Len(s) + (IF t = 1 THEN r.earlier ELSE 0)
               /\ \A i \in 1..Len(s) :
                     /\ w.pool[s[i]].parent = t
                     /\ w.pool[s[i]].next = IF i = Len(s) THEN 0 ELSE s[i + 1]
    <3> DEFINE m == Len(kids)
    <3>1. /\ s \in Seq(Nat) /\ Len(s) = m + 1 /\ s[m + 1] = n + 1
          /\ \A i \in 1..m : s[i] = kids[i]
      BY <1>3, <1>4, <2>3, AppendFacts
    <3>2. s # <<>> /\ kids # <<>> /\ m \in Nat /\ m > 0 /\ m \in 1..m /\ 1 \in 1..m
      <4>1. m \in Nat /\ m > 0 /\ m \in 1..m /\ 1 \in 1..m
        BY <1>5
      <4>2. Len(s) # 0
        BY <3>1, <4>1
      <4>3. QED
        BY <1>4, <3>1, <4>1, <4>2, EmptyFacts
    <3> HIDE DEF m
    <3>3. w.pool[t].child = s[1]
      BY <1>7, <1>9, <1>10, <3>1, <3>2
    <3>4. w.pool[t].size = m + 1 + (IF t = 1 THEN r.earlier ELSE 0)
      <4>1. r.earlier \in Nat
        BY DEF ReaderInv, IsReader
      <4>2. p.pool[t].size = m + (IF t = 1 THEN r.earlier ELSE 0)
        BY <1>7 DEF m
      <4>3. QED
        BY <1>10, <3>2, <4>1, <4>2
    <3>5. ASSUME NEW i \in 1..m + 1
          PROVE  /\ w.pool[s[i]].parent = t
                 /\ w.pool[s[i]].next = IF i = m + 1 THEN 0 ELSE s[i + 1]
      <4>1. CASE i = m + 1
        <5>1. p.pool[n + 1].next = 0
          <6>1. n + 1 \in n + 1..StackSize
            BY <1>3
          <6>2. QED
            BY <1>14, <6>1
        <5>2. w.pool[n + 1].next = 0
          BY <1>9, <1>10, <5>1
        <5>3. QED
          BY <1>10, <3>1, <4>1, <5>2
      <4>2. CASE i = m
        <5>1. s[i] = c /\ s[i + 1] = n + 1 /\ i # m + 1
          BY <3>1, <3>2, <4>2 DEF c, m
        <5>2. w.pool[c].parent = t
          BY <1>8, <1>9, <1>10
        <5>3. QED
          BY <1>10, <5>1, <5>2
      <4>3. CASE i \in 1..m /\ i # m
        <5>1. i + 1 \in 1..m /\ i < m /\ i # m + 1
          BY <3>2, <4>3
        <5>2. s[i] = kids[i] /\ s[i + 1] = kids[i + 1]
          BY <3>1, <4>3, <5>1
        <5>3. kids[i] \in 1..StackSize /\ kids[i] # n + 1
          <6>1. kids[i] \in t + 1..n
            BY <1>6, <4>3 DEF m
          <6>2. QED
            BY <1>3, <1>4, <6>1
        <5>4. kids[i] # c
          <6>1. kids[i] < kids[m]
            BY <1>6, <3>2, <4>3, <5>1 DEF m
          <6>2. kids[m] = c /\ kids[m] \in t + 1..n
            BY <1>8 DEF c, m
          <6>3. QED
            BY <1>3, <1>4, <6>1, <6>2
        <5>5. p.pool[kids[i]].parent = t /\ p.pool[kids[i]].next = kids[i + 1]
          BY <1>7, <4>3 DEF m
        <5>6. w.pool[kids[i]].parent = t /\ w.pool[kids[i]].next = kids[i + 1]
          BY <1>10, <5>3, <5>4, <5>5
        <5>7. QED
          BY <5>1, <5>2, <5>6
      <4>4. QED
        BY <3>2, <4>1, <4>2, <4>3
    <3>6. QED
      BY <3>1, <3>2, <3>3, <3>4, <3>5
  <2>4. ASSUME NEW k \in 1..n, NEW s, s = Slots(q, k)
        PROVE  /\ w.pool[k].child = IF s = <<>> THEN 0 ELSE s[1]
               /\ w.pool[k].size = Len(s) + (IF k = 1 THEN q.earlier ELSE 0)
               /\ \A i \in 1..Len(s) :
                     /\ w.pool[s[i]].parent = k
                     /\ w.pool[s[i]].next = IF i = Len(s) THEN 0 ELSE s[i + 1]
    <3>1. CASE k = t
      <4>1. s = Append(kids, n + 1)
        BY <1>2, <2>4, <3>1
      <4>2. /\ w.pool[t].child = IF s = <<>> THEN 0 ELSE s[1]
            /\ w.pool[t].size = Len(s) + (IF t = 1 THEN r.earlier ELSE 0)
            /\ \A i \in 1..Len(s) :
                  /\ w.pool[s[i]].parent = t
                  /\ w.pool[s[i]].next = IF i = Len(s) THEN 0 ELSE s[i + 1]
        BY <2>3, <4>1
      <4>3. q.earlier = r.earlier
        BY <1>1
      <4>4. QED
        BY <3>1, <4>2, <4>3
    <3>2. CASE k # t
      <4>1. s = Slots(r, k)
        BY <1>2, <2>4, <3>2
      <4>2. QED
        BY <1>1, <2>2, <3>2, <4>1
    <3>3. QED
      BY <3>1, <3>2
  <2>5. QED
    BY <1>1, <2>1, <2>4 DEF HasLinks
<1>17. Stands(w, q)
  <2>1. EndOf(Slots(q, t)) = n + 1
    <3>1. Len(Append(kids, n + 1)) = Len(kids) + 1 /\ Append(kids, n + 1)[Len(kids) + 1] = n + 1
      BY <1>3, <1>4, AppendFacts
    <3>2. QED
      BY <1>2, <3>1 DEF EndOf
  <2>2. QED
    BY <1>1, <1>2, <1>3, <1>4, <1>10, <2>1 DEF Stands
<1>18. QED
  BY <1>10, <1>15, <1>16, <1>17 DEF Mirrors

\* After the mark that closes, the parser stands at the container it has closed.
LEMMA RiseMirrors ==
    ASSUME NEW C, NULL \in C, NEW r, ReaderInv(r, C), r.at \in {"first", "after"},
           NEW q, q = Closed(r),
           NEW p, IsParser(p, C), p.state = "reading", p.parent = Top(r),
           p.next = Nodes(r) + 1, Nodes(r) <= StackSize, HasLabels(p, q), HasLinks(p, q),
           NEW w, w = [p EXCEPT !.current = p.parent, !.parent = p.pool[p.parent].parent]
    PROVE  Mirrors(w, q, C)
<1> DEFINE n == Nodes(r)
           t == Top(r)
           m == Len(r.open)
<1>1. r.open # <<>> /\ IsReader(r, C)
  BY OpenFacts DEF ReaderInv
<1>2. /\ t \in 1..n /\ n \in Nat /\ StackSize \in Nat /\ m \in Nat /\ m > 0
      /\ \A k \in 1..n : k \in 1..StackSize
  <2>1. t \in 1..n /\ n \in Nat /\ m \in Nat /\ m > 0
    BY <1>1, TopFacts
  <2>2. QED
    BY <2>1, StackAssumption
<1>3. /\ ReaderInv(q, C) /\ InUse(q) = n
      /\ \A k \in 1..n : Slots(q, k) = r.kids[k]
      /\ (q.open = <<>>) <=> (m = 1)
      /\ m > 1 => /\ Top(q) = r.open[m - 1]
                  /\ Len(r.kids[Top(q)]) > 0
                  /\ EndOf(r.kids[Top(q)]) = t
  <2>1. /\ ReaderInv(q, C) /\ InUse(q) = Nodes(r)
        /\ \A k \in 1..Nodes(r) : Slots(q, k) = r.kids[k]
    BY ClosedKeeps
  <2> HIDE DEF n, m, t
  <2>2. /\ (q.open = <<>>) <=> (Len(r.open) = 1)
        /\ Len(r.open) > 1 => /\ Top(q) = r.open[Len(r.open) - 1]
                              /\ Len(r.kids[Top(q)]) > 0
                              /\ EndOf(r.kids[Top(q)]) = Top(r)
    BY <1>1, ClosedTop
  <2>3. QED
    BY <2>1, <2>2 DEF n, m, t
<1>4. Nodes(q) = n /\ q.label = r.label /\ q.earlier = r.earlier
  <2> HIDE DEF n, t, m
  <2>1. Nodes(q) = Nodes(r) /\ q.label = r.label /\ q.earlier = r.earlier
    BY ClosedKeeps
  <2>2. QED
    BY <2>1 DEF n
<1>5. p.pool[t] \in Objects(C)
  BY <1>2 DEF IsParser
<1>6. p.pool[t].parent \in Nat
  BY <1>5 DEF Objects
<1>7. /\ IsParser(w, C) /\ w.pool = p.pool /\ w.state = "reading" /\ w.next = n + 1
      /\ w.current = t /\ w.parent = p.pool[t].parent
  BY <1>2, <1>6 DEF IsParser
<1> HIDE DEF n, t, m
<1>8. HasLabels(w, q) /\ HasLinks(w, q)
  BY <1>7 DEF HasLabels, HasLinks
<1>9. Stands(w, q)
  <2>1. CASE m = 1
    <3>1. t = 1
      <4>1. t = r.open[m]
        BY DEF t, m, Top
      <4>2. r.open[1] = 1
        BY <1>1 DEF ReaderInv, IsPath
      <4>3. QED
        BY <2>1, <4>1, <4>2
    <3>2. p.pool[1].parent = 0
      BY DEF HasLinks
    <3>3. QED
      BY <1>2, <1>3, <1>7, <2>1, <3>1, <3>2 DEF Stands, n
  <2>2. CASE m > 1
    <3> DEFINE k == Top(q)
               s == r.kids[k]
    <3>1. q.open # <<>> /\ EndOf(s) = t
      BY <1>3, <2>2
    <3>2. k \in 1..n
      BY <1>3, <1>4, <3>1, TopFacts
    <3>3. s \in Seq(Nat) /\ Len(s) > 0
      <4>1. s \in Seq(Nat)
        <5>1. r.kids \in Seq(Seq(Nat)) /\ k \in 1..Len(r.kids)
          BY <1>1, <3>2 DEF IsReader, n
        <5>2. QED
          BY <5>1, ElementFacts
      <4>2. QED
        BY <1>3, <2>2, <4>1
    <3>4. Slots(q, k) = s
      BY <1>3, <3>2
    <3>5. Len(s) \in 1..Len(s)
      BY <3>3, EmptyFacts
    <3>6. p.pool[s[Len(s)]].parent = k
      BY <1>4, <3>2, <3>4, <3>5 DEF HasLinks
    <3>7. p.pool[t].parent = k
      BY <3>1, <3>6 DEF EndOf
    <3>8. QED
      BY <1>2, <1>3, <1>7, <3>1, <3>4, <3>7 DEF Stands, n
  <2>3. QED
    BY <1>2, <2>1, <2>2
<1>10. QED
  BY <1>7, <1>8, <1>9 DEF Mirrors

\* A parser that mirrors a reader, and the links and the labels of the reader that has
\* closed its container.
LEMMA KeptMirrors ==
    ASSUME NEW C, NEW r, ReaderInv(r, C), r.at = "after", NEW q, q = Closed(r),
           NEW p, Mirrors(p, r, C)
    PROVE  HasLabels(p, q) /\ HasLinks(p, q) /\ p.next = Nodes(r) + 1
<1> DEFINE n == Nodes(r)
<1>1. r.open # <<>> /\ IsReader(r, C) /\ n \in Nat
  <2>1. r.open # <<>> /\ IsReader(r, C)
    BY OpenFacts DEF ReaderInv
  <2>2. QED
    BY <2>1, TopFacts
<1>2. InUse(q) = n /\ \A k \in 1..n : Slots(q, k) = r.kids[k]
  BY ClosedKeeps
<1> HIDE DEF n
<1>3. Nodes(q) = Nodes(r) /\ q.label = r.label /\ q.earlier = r.earlier
  BY ClosedKeeps
<1>4. InUse(r) = n /\ \A k \in 1..n : Slots(r, k) = r.kids[k]
  BY <1>1 DEF InUse, IsDue, Slots, n
<1>5. HasLabels(p, q)
  BY <1>2, <1>3, <1>4 DEF Mirrors, HasLabels, n
<1>6. HasLinks(p, q)
  BY <1>2, <1>3, <1>4, SMTT(40) DEF Mirrors, HasLinks, n
<1>7. QED
  BY <1>4, <1>5, <1>6 DEF Mirrors, Stands, n

\* An empty container gives the object back that was due in it.
LEMMA FreeMirrors ==
    ASSUME NEW C, NULL \in C, NEW r, ReaderInv(r, C), r.at = "first", NEW q, q = Closed(r),
           NEW p, Mirrors(p, r, C), NEW f, f = json_free_child(p)
    PROVE  /\ IsParser(f, C) /\ f.state = "reading" /\ f.parent = Top(r)
           /\ f.next = Nodes(r) + 1 /\ HasLabels(f, q) /\ HasLinks(f, q)
<1> DEFINE n == Nodes(r)
           t == Top(r)
<1>1. r.open # <<>> /\ IsReader(r, C) /\ IsDue(r)
  BY OpenFacts DEF ReaderInv, IsDue
<1>2. InUse(q) = n /\ \A k \in 1..n : Slots(q, k) = r.kids[k]
  BY ClosedKeeps
<1>3. Nodes(q) = n /\ q.label = r.label /\ q.earlier = r.earlier
  <2> HIDE DEF n, t
  <2>1. Nodes(q) = Nodes(r) /\ q.label = r.label /\ q.earlier = r.earlier
    BY ClosedKeeps
  <2>2. QED
    BY <2>1 DEF n
<1>4. /\ IsParser(p, C) /\ p.state = "reading" /\ InUse(r) <= StackSize
      /\ p.next = InUse(r) + 1 /\ n \in Nat /\ n >= 1 /\ StackSize \in Nat
      /\ \A k \in 1..StackSize : p.pool[k] \in Objects(C)
  BY MirrorFacts
<1>5. InUse(r) = n + 1
  BY <1>1, <1>4 DEF InUse
<1>6. p.parent = t /\ t \in 1..n /\ p.current = n + 1
  <2>1. r.at # "outside"
    OBVIOUS
  <2>2. QED
    BY <1>1, <2>1, StandsFacts
<1>7. r.kids[t] = <<>> /\ Slots(r, t) = <<n + 1>>
  <2>1. r.kids[t] = <<>>
    BY DEF ReaderInv, IsPlaced
  <2>2. Slots(r, t) = Append(<<>>, n + 1)
    BY <1>1, <2>1 DEF Slots
  <2>3. QED
    BY <2>1, <2>2
<1>8. p.pool[t].size = 1 + (IF t = 1 THEN r.earlier ELSE 0) /\ r.earlier \in Nat
  <2>1. t \in 1..Nodes(r) /\ Len(Slots(r, t)) = 1
    BY <1>6, <1>7
  <2>2. p.pool[t].size = Len(Slots(r, t)) + (IF t = 1 THEN r.earlier ELSE 0)
    BY <2>1 DEF Mirrors, HasLinks
  <2>3. r.earlier \in Nat
    BY <1>1 DEF IsReader
  <2>4. QED
    BY <2>1, <2>2, <2>3
<1> HIDE DEF n, t
<1>9. n + 1 \in 1..StackSize /\ t \in 1..StackSize /\ n + 1 # t
  BY <1>4, <1>5, <1>6
<1>10. /\ IsParser(f, C)
       /\ f.current = n + 1 /\ f.parent = t /\ f.next = n + 1 /\ f.state = p.state
       /\ \A k \in 1..StackSize : k \notin {n + 1, t} => f.pool[k] = p.pool[k]
       /\ f.pool[n + 1] = Blank
       /\ f.pool[t].type = p.pool[t].type /\ f.pool[t].key = p.pool[t].key
       /\ f.pool[t].value = p.pool[t].value /\ f.pool[t].parent = p.pool[t].parent
       /\ f.pool[t].next = p.pool[t].next /\ f.pool[t].child = 0
       /\ f.pool[t].size = p.pool[t].size - 1
  <2>1. /\ p.current \in 1..StackSize /\ p.parent \in 1..StackSize /\ p.current # p.parent
        /\ p.next > 0 /\ p.pool[p.parent].size > 0 /\ IsParser(p, C)
    <3>1. p.pool[t].size > 0
      BY <1>8
    <3>2. QED
      BY <1>4, <1>5, <1>6, <1>9, <3>1
  <2>2. p.current = n + 1 /\ p.parent = t /\ p.next - 1 = n + 1
    BY <1>4, <1>5, <1>6
  <2>3. QED
    BY <2>1, <2>2, FreeChildFields
<1>11. /\ \A k \in 1..n : /\ p.pool[k].type = r.label[k].type
                          /\ p.pool[k].key = r.label[k].key
                          /\ p.pool[k].value = r.label[k].value
       /\ \A k \in n + 1..StackSize :
             /\ p.pool[k].type = "UNDEFINED" /\ p.pool[k].key = NULL /\ p.pool[k].value = NULL
             /\ p.pool[k].next = 0 /\ p.pool[k].child = 0 /\ p.pool[k].size = 0
       /\ \A k \in n + 1 + 1..StackSize : p.pool[k].parent = 0
  BY <1>5 DEF Mirrors, HasLabels, n
<1>12. HasLabels(f, q)
  <2>1. ASSUME NEW k \in 1..n
        PROVE  /\ f.pool[k].type = r.label[k].type
               /\ f.pool[k].key = r.label[k].key /\ f.pool[k].value = r.label[k].value
    <3>1. k \in 1..StackSize /\ k # n + 1
      BY <1>4, <1>5
    <3>2. QED
      BY <1>10, <1>11, <3>1
  <2>2. ASSUME NEW k \in n + 1..StackSize
        PROVE  /\ f.pool[k].type = "UNDEFINED" /\ f.pool[k].key = NULL /\ f.pool[k].value = NULL
               /\ f.pool[k].next = 0 /\ f.pool[k].child = 0 /\ f.pool[k].size = 0
               /\ f.pool[k].parent = 0
    <3>1. CASE k = n + 1
      BY <1>10, <3>1 DEF Blank
    <3>2. CASE k # n + 1
      <4>1. k \in 1..StackSize /\ k \notin {n + 1, t} /\ k \in n + 1 + 1..StackSize
        BY <1>4, <1>6, <3>2
      <4>2. QED
        BY <1>10, <1>11, <4>1
    <3>3. QED
      BY <3>1, <3>2
  <2>3. QED
    BY <1>2, <1>3, <2>1, <2>2 DEF HasLabels
<1>13. HasLinks(f, q)
  <2>1. f.pool[1].parent = 0
    <3>1. p.pool[1].parent = 0
      BY DEF Mirrors, HasLinks
    <3>2. 1 \in 1..StackSize /\ 1 # n + 1
      BY <1>4, <1>5
    <3>3. QED
      BY <1>10, <3>1, <3>2
  <2>2. \A x \in 1..n : f.pool[x].parent = p.pool[x].parent /\ f.pool[x].next = p.pool[x].next
    <3> TAKE x \in 1..n
    <3>1. x \in 1..StackSize /\ x # n + 1
      BY <1>4, <1>5
    <3>2. QED
      BY <1>10, <3>1
  <2>3. ASSUME NEW k \in 1..n, NEW s, s = r.kids[k]
        PROVE  /\ f.pool[k].child = IF s = <<>> THEN 0 ELSE s[1]
               /\ f.pool[k].size = Len(s) + (IF k = 1 THEN r.earlier ELSE 0)
               /\ \A i \in 1..Len(s) :
                     /\ f.pool[s[i]].parent = k
                     /\ f.pool[s[i]].next = IF i = Len(s) THEN 0 ELSE s[i + 1]
    <3>1. CASE k = t
      <4>1. s = <<>> /\ Len(s) = 0
        BY <1>7, <2>3, <3>1, EmptyFacts
      <4>2. f.pool[t].child = 0 /\ f.pool[t].size = (IF t = 1 THEN r.earlier ELSE 0)
        BY <1>8, <1>10
      <4>3. (IF t = 1 THEN r.earlier ELSE 0) \in Nat
        BY <1>8
      <4>4. QED
        BY <3>1, <4>1, <4>2, <4>3
    <3>2. CASE k # t
      <4>1. s = Slots(r, k)
        BY <2>3, <3>2 DEF Slots, t
      <4>2. /\ p.pool[k].child = IF s = <<>> THEN 0 ELSE s[1]
            /\ p.pool[k].size = Len(s) + (IF k = 1 THEN r.earlier ELSE 0)
            /\ \A i \in 1..Len(s) :
                  /\ p.pool[s[i]].parent = k
                  /\ p.pool[s[i]].next = IF i = Len(s) THEN 0 ELSE s[i + 1]
        BY <4>1, LinkFacts, SMTT(40) DEF n
      <4>3. \A i \in 1..Len(s) : s[i] \in 1..n
        <5>1. \A i \in 1..Len(s) : s[i] \in k + 1..n
          BY <2>3 DEF ReaderInv, InOrder, n
        <5>2. \A x \in k + 1..n : x \in 1..n
          BY <1>4
        <5>3. QED
          BY <5>1, <5>2
      <4>4. \A i \in 1..Len(s) :
               /\ f.pool[s[i]].parent = k
               /\ f.pool[s[i]].next = IF i = Len(s) THEN 0 ELSE s[i + 1]
        BY <2>2, <4>2, <4>3
      <4>5. k \in 1..StackSize /\ k \notin {n + 1, t}
        BY <1>4, <1>5, <3>2
      <4>6. f.pool[k].child = p.pool[k].child /\ f.pool[k].size = p.pool[k].size
        BY <1>10, <4>5
      <4>7. QED
        BY <4>2, <4>4, <4>6
    <3>3. QED
      BY <3>1, <3>2
  <2>4. ASSUME NEW k \in 1..n, NEW s, s = Slots(q, k)
        PROVE  /\ f.pool[k].child = IF s = <<>> THEN 0 ELSE s[1]
               /\ f.pool[k].size = Len(s) + (IF k = 1 THEN q.earlier ELSE 0)
               /\ \A i \in 1..Len(s) :
                     /\ f.pool[s[i]].parent = k
                     /\ f.pool[s[i]].next = IF i = Len(s) THEN 0 ELSE s[i + 1]
    <3>1. s = r.kids[k] /\ q.earlier = r.earlier
      BY <1>2, <1>3, <2>4
    <3>2. QED
      BY <2>3, <3>1
  <2>5. QED
    BY <1>3, <2>1, <2>4 DEF HasLinks
<1>14. QED
  BY <1>4, <1>10, <1>12, <1>13 DEF n, t

\* The mark that matches the innermost container closes it.
LEMMA CloseMirrors ==
    ASSUME NEW C, NULL \in C, NEW r, ReaderInv(r, C), r.at \in {"first", "after"},
           NEW p, Mirrors(p, r, C), NEW q, q = Closed(r), NEW w, w = Close(p, TopType(r))
    PROVE  Mirrors(w, q, C)
<1> DEFINE f == IF Current(p).key = NULL /\ Current(p).type = "UNDEFINED"
                  THEN json_free_child(p) ELSE p
           n == Nodes(r)
<1>1. /\ IsParser(p, C) /\ p.state = "reading" /\ InUse(r) <= StackSize
      /\ n \in Nat /\ n >= 1 /\ InUse(r) \in Nat /\ StackSize \in Nat /\ n <= StackSize
  BY MirrorFacts
<1>2. r.at # "outside"
  OBVIOUS
<1>3. /\ p.parent = Top(r) /\ Top(r) \in 1..n /\ r.open # <<>>
      /\ p.pool[Top(r)].type = TopType(r)
  BY <1>2, StandsFacts
<1>4. /\ IsParser(f, C) /\ f.state = "reading" /\ f.parent = Top(r)
      /\ f.next = n + 1 /\ HasLabels(f, q) /\ HasLinks(f, q)
  <2>1. CASE r.at = "first"
    <3>1. IsDue(r)
      BY <2>1 DEF IsDue
    <3>2. p.current = n + 1 /\ InUse(r) = n + 1
      BY <1>1, <1>2, <3>1, StandsFacts DEF InUse
    <3>3. n + 1 \in n + 1..StackSize
      BY <1>1, <3>2
    <3>4. Current(p).key = NULL /\ Current(p).type = "UNDEFINED"
      BY <3>2, <3>3 DEF Current, Mirrors, HasLabels
    <3>5. f = json_free_child(p)
      BY <3>4
    <3> HIDE DEF f
    <3>6. QED
      BY <2>1, <3>5, FreeMirrors
  <2>2. CASE r.at = "after"
    <3>1. p.current = EndOf(r.kids[Top(r)])
      BY <1>2, <2>2, StandsFacts
    <3>2. r.label[p.current].type # "UNDEFINED" /\ Len(r.kids[Top(r)]) > 0
      BY <2>2, <3>1 DEF ReaderInv, IsPlaced
    <3>3. p.current \in 1..n
      <4> DEFINE s == r.kids[Top(r)]
      <4>1. s \in Seq(Nat)
        BY <1>3, TopFacts
      <4>2. Len(s) \in 1..Len(s)
        BY <3>2, <4>1, EmptyFacts
      <4>3. s[Len(s)] \in Top(r) + 1..n
        BY <1>3, <4>2 DEF ReaderInv, InOrder
      <4>4. p.current \in Top(r) + 1..n
        BY <3>1, <4>3 DEF EndOf
      <4>5. QED
        BY <1>1, <1>3, <4>4
    <3>4. p.pool[p.current].type # "UNDEFINED"
      BY <3>2, <3>3 DEF Mirrors, HasLabels
    <3>5. f = p
      BY <3>4 DEF Current
    <3>6. HasLabels(p, q) /\ HasLinks(p, q) /\ p.next = n + 1
      BY <2>2, KeptMirrors
    <3>7. QED
      BY <1>1, <1>3, <3>5, <3>6
  <2>3. QED
    BY <2>1, <2>2
<1> HIDE DEF f, n
<1>5. f.parent # 0 /\ Parent(f).type = TopType(r)
  <2>1. q.label = r.label /\ Nodes(q) = Nodes(r)
    BY ClosedKeeps
  <2>2. f.pool[Top(r)].type = q.label[Top(r)].type
    BY <1>3, <1>4, <2>1 DEF HasLabels, n
  <2>3. QED
    BY <1>1, <1>3, <1>4, <2>1, <2>2 DEF Parent, TopType
<1>6. w = [f EXCEPT !.current = f.parent, !.parent = f.pool[f.parent].parent]
  BY <1>5 DEF Close, Parent, f
<1>7. QED
  BY <1>1, <1>4, <1>6, RiseMirrors DEF n

-----------------------------------------------------------------------------
(* One token                                                                *)

\* What a parser is to a reader that has taken the same tokens: it has the tree, or it
\* has refused what does not fit.
Follows(p, r, C) ==
    /\ ReaderInv(r, C)
    /\ IF r.readable /\ InUse(r) <= StackSize THEN Mirrors(p, r, C) ELSE p.state = "refused"

\* The room and what is readable are as they were.
Keeps(q, r) == q.room = r.room /\ q.readable = r.readable

\* The node for a value: the parser stands at its object already.
LEMMA NodeFollows ==
    ASSUME NEW C, NULL \in C, NEW r, ReaderInv(r, C), MayHaveValue(r),
           NEW p, Mirrors(p, r, C), NEW v, v = Node(r)
    PROVE  ReaderInv(v, C) /\ v.at = "value" /\ Mirrors(p, v, C) /\ Keeps(v, r)
<1>1. CASE r.at = "value"
  BY <1>1 DEF Node, Keeps
<1>2. CASE r.at # "value"
  <2>1. IsDue(r) /\ TopType(r) = "array" /\ v = Begin(r, NULL)
    BY <1>2 DEF MayHaveValue, Node
  <2>2. Suits(r, NULL)
    BY <2>1 DEF Suits
  <2>3. r.open # <<>> /\ r.at # "outside"
    BY <2>1, OpenFacts DEF IsDue
  <2>4. /\ ReaderInv(v, C) /\ InUse(v) = InUse(r)
        /\ \A k \in 1..Nodes(r) : Slots(v, k) = Slots(r, k)
    BY <2>1, <2>2, BeginKeeps
  <2>5. /\ Nodes(v) = Nodes(r) + 1 /\ Top(v) = Top(r)
        /\ v.at = "value" /\ v.open = r.open /\ v.earlier = r.earlier
        /\ v.room = r.room /\ v.readable = r.readable
        /\ \A k \in 1..Nodes(r) : v.label[k] = r.label[k]
        /\ v.label[Nodes(r) + 1] = Label("UNDEFINED", NULL, NULL)
        /\ v.kids[Nodes(r) + 1] = <<>>
    BY <2>1, <2>3, BeginFields
  <2>6. Slots(v, Nodes(r) + 1) = <<>>
    BY <2>5 DEF Slots, IsDue
  <2> DEFINE w == WithKey(p, NULL)
  <2>7. Mirrors(w, v, C) /\ p.pool[p.current].key = NULL
    BY <2>1, <2>4, <2>5, <2>6, KeyMirrors
  <2>8. w = p
    <3>1. IsParser(p, C) /\ p.current \in 1..StackSize
      <4>1. /\ IsParser(p, C) /\ InUse(r) <= StackSize /\ InUse(r) \in Nat
            /\ Nodes(r) \in Nat /\ StackSize \in Nat
        BY MirrorFacts
      <4>2. p.current = Nodes(r) + 1 /\ InUse(r) = Nodes(r) + 1
        BY <2>1, <2>3, <4>1, StandsFacts DEF InUse
      <4>3. QED
        BY <4>1, <4>2
    <3>2. p.pool \in [1..StackSize -> Objects(C)] /\ p.pool[p.current] \in Objects(C)
      BY <3>1 DEF IsParser
    <3>3. [p.pool[p.current] EXCEPT !.key = NULL] = p.pool[p.current]
      BY <2>7, <3>2 DEF Objects
    <3>4. [p.pool EXCEPT ![p.current] = p.pool[p.current]] = p.pool
      BY <3>1, <3>2
    <3>5. w = [p EXCEPT !.pool = [p.pool EXCEPT ![p.current] =
                 [p.pool[p.current] EXCEPT !.key = NULL]]]
      BY DEF WithKey
    <3>6. w = [p EXCEPT !.pool = p.pool]
      BY <3>3, <3>4, <3>5
    <3>7. QED
      BY <3>1, <3>6 DEF IsParser
  <2>9. QED
    BY <2>4, <2>5, <2>7, <2>8 DEF Keeps
<1>3. QED
  BY <1>1, <1>2

\* Where a value may come, the parser has a parent and wants no key.
LEMMA ValueIsPlaced ==
    ASSUME NEW C, NEW r, ReaderInv(r, C), r.at = "value", NEW p, Mirrors(p, r, C)
    PROVE  /\ p.parent # 0 /\ ~IsMisplaced(p)
           /\ ~(Parent(p).type = "object" /\ Current(p).key = NULL)
<1>1. r.at # "outside" /\ IsWaiting(r)
  BY DEF ReaderInv, IsPlaced
<1>2. /\ p.parent = Top(r) /\ Top(r) \in 1..Nodes(r) /\ p.current = Nodes(r)
      /\ p.pool[p.parent].type = TopType(r)
  BY <1>1, StandsFacts
<1>3. Nodes(r) \in 1..Nodes(r)
  BY MirrorFacts
<1>4. p.pool[p.current].key = r.label[Nodes(r)].key
  BY <1>2, <1>3 DEF Mirrors, HasLabels
<1>5. Suits(r, p.pool[p.current].key)
  BY <1>1, <1>4 DEF IsWaiting
<1>6. QED
  BY <1>2, <1>5 DEF Suits, IsMisplaced, Parent, Current

\* A value that is stored.
LEMMA StoreFollows ==
    ASSUME NEW C, NULL \in C, NEW r, ReaderInv(r, C), MayHaveValue(r), r.readable,
           NEW p, Mirrors(p, r, C), NEW type \in Types \ {"UNDEFINED"}, NEW content \in C,
           NEW q, q = Filled(Node(r), type, content), NEW w, w = Store(p, type, content)
    PROVE  Follows(w, q, C) /\ Keeps(q, r) /\ InUse(q) <= StackSize
<1> DEFINE v == Node(r)
<1>1. ReaderInv(v, C) /\ v.at = "value" /\ Mirrors(p, v, C) /\ Keeps(v, r)
  BY NodeFollows
<1> HIDE DEF v
<1>2. q = Filled(v, type, content)
  BY DEF v
<1>3. Mirrors(w, q, C)
  BY <1>1, <1>2, StoreMirrors
<1>4. ReaderInv(q, C) /\ InUse(q) = InUse(v)
  BY <1>1, <1>2, FilledKeeps
<1>5. Keeps(q, v)
  <2>1. type \in Types /\ IsReader(v, C)
    BY <1>1 DEF ReaderInv
  <2>2. q.room = v.room /\ q.readable = v.readable
    BY <1>2, <2>1, FilledFields
  <2>3. QED
    BY <2>2 DEF Keeps
<1>6. InUse(q) <= StackSize
  BY <1>3 DEF Mirrors, Stands
<1>7. QED
  BY <1>1, <1>3, <1>4, <1>5, <1>6 DEF Follows, Keeps

\* Nothing is opened when the pool has no object left.
LEMMA NoneToOpen ==
    ASSUME NEW C, NEW p, IsParser(p, C), p.next > StackSize, NEW type, NEW w, w = Open(p, type)
    PROVE  w.state = "refused"
<1> DEFINE u == [p EXCEPT !.pool[p.current].type = type]
<1>1. u.next = p.next
  BY DEF IsParser
<1>2. u \in [pool : {u.pool}, current : Nat, parent : Nat, next : Nat,
             state : {"reading", "refused", "undefined"}]
  BY DEF IsParser
<1>3. w = json_alloc_child(u)
  BY DEF Open
<1> HIDE DEF u
<1>4. w = [u EXCEPT !.state = "refused"]
  BY <1>1, <1>3 DEF json_alloc_child, Refused
<1>5. QED
  BY <1>2, <1>4

\* An object or an array that is opened as a value.
LEMMA OpenFollows ==
    ASSUME NEW C, NULL \in C, NEW r, ReaderInv(r, C), MayHaveValue(r), r.readable,
           NEW p, Mirrors(p, r, C), NEW type \in {"object", "array"},
           NEW q, q = Opened(Node(r), type), NEW w, w = Open(p, type)
    PROVE  Follows(w, q, C) /\ Keeps(q, r)
<1> DEFINE v == Node(r)
           n == Nodes(v)
<1>1. ReaderInv(v, C) /\ v.at = "value" /\ Mirrors(p, v, C) /\ Keeps(v, r)
  BY NodeFollows
<1> HIDE DEF v
<1>2. q = Opened(v, type)
  BY DEF v
<1>3. /\ ReaderInv(q, C) /\ InUse(q) = InUse(v) + 1 /\ InUse(v) = n
      /\ \A k \in 1..n : k # n => Slots(q, k) = Slots(v, k)
      /\ Slots(v, n) = <<>> /\ Slots(q, n) = <<n + 1>>
  BY <1>1, <1>2, OpenedKeeps
<1>4. /\ Nodes(q) = n /\ Top(q) = n
      /\ q.earlier = v.earlier /\ q.room = v.room /\ q.readable = v.readable
      /\ \A k \in 1..n : k # n => q.label[k] = v.label[k]
      /\ q.label[n] = Label(type, v.label[n].key, v.label[n].value)
  <2>1. type \in Types /\ IsReader(v, C)
    BY <1>1 DEF ReaderInv, Types
  <2>2. QED
    BY <1>2, <2>1, OpenedFields
<1>5. q.open # <<>>
  <2>1. q.at = "first"
    <3>1. type \in Types /\ IsReader(v, C)
      BY <1>1 DEF ReaderInv, Types
    <3>2. QED
      BY <1>2, <3>1, OpenedFields
  <2>2. QED
    BY <1>3, <2>1, OpenFacts
<1>6. p.current = n /\ n \in 1..n /\ n \in Nat /\ n # 1
  <2>1. v.at # "outside" /\ n \in Nat /\ n >= 1
    BY <1>1, MirrorFacts
  <2>2. p.current = n /\ p.current # Top(v) /\ Top(v) \in 1..n
    BY <1>1, <2>1, StandsFacts
  <2>3. QED
    BY <2>1, <2>2
<1>7. Keeps(q, r)
  BY <1>1, <1>4 DEF Keeps
<1>8. CASE n + 1 <= StackSize
  <2> HIDE DEF n
  <2>1. /\ p.current \in 1..Nodes(v) /\ InUse(v) = Nodes(v) /\ InUse(v) + 1 <= StackSize
        /\ p.current # 1 /\ Slots(v, p.current) = <<>> /\ q.earlier = v.earlier
    BY <1>3, <1>4, <1>6, <1>8 DEF n
  <2>2. /\ Top(q) = p.current /\ Nodes(q) = Nodes(v) /\ InUse(q) = InUse(v) + 1
        /\ \A k \in 1..Nodes(v) : k # p.current => q.label[k] = v.label[k]
        /\ q.label[p.current] = Label(type, v.label[p.current].key, v.label[p.current].value)
        /\ \A k \in 1..Nodes(v) : k # p.current => Slots(q, k) = Slots(v, k)
        /\ Slots(q, p.current) = <<Nodes(v) + 1>>
    BY <1>3, <1>4, <1>6 DEF n
  <2>3. Mirrors(w, q, C)
    BY <1>1, <1>5, <2>1, <2>2, OpenMirrors
  <2>4. InUse(q) <= StackSize
    BY <2>3 DEF Mirrors, Stands
  <2>5. QED
    BY <1>3, <1>4, <1>7, <2>3, <2>4 DEF Follows, Keeps
<1>9. CASE ~(n + 1 <= StackSize)
  <2>1. p.next = n + 1 /\ StackSize \in Nat
    BY <1>1, <1>3, MirrorFacts
  <2>2. p.next > StackSize
    BY <1>6, <1>9, <2>1
  <2>3. w.state = "refused"
    <3>1. IsParser(p, C)
      BY <1>1 DEF Mirrors
    <3>2. QED
      BY <2>2, <3>1, NoneToOpen
  <2>4. ~(InUse(q) <= StackSize)
    BY <1>3, <1>9
  <2>5. QED
    BY <1>3, <1>7, <2>3, <2>4 DEF Follows
<1>10. QED
  BY <1>8, <1>9
\* What one token makes of a reader and of the parser that goes with it: the reader
\* keeps its invariant, and the parser follows if it had the tree.
Tracks(w, q, p, r, C) ==
    /\ ReaderInv(q, C) /\ q.room = r.room /\ (q.readable => r.readable)
    /\ Mirrors(p, r, C) /\ r.readable => Follows(w, q, C)

\* The node for a value, of the reader alone.
LEMMA NodeKeeps ==
    ASSUME NEW C, NULL \in C, NEW r, ReaderInv(r, C), MayHaveValue(r), NEW v, v = Node(r)
    PROVE  ReaderInv(v, C) /\ v.at = "value" /\ Keeps(v, r)
<1>1. CASE r.at = "value"
  BY <1>1 DEF Node, Keeps
<1>2. CASE r.at # "value"
  <2>1. IsDue(r) /\ TopType(r) = "array" /\ v = Begin(r, NULL)
    BY <1>2 DEF MayHaveValue, Node
  <2>2. Suits(r, NULL)
    BY <2>1 DEF Suits
  <2>3. r.open # <<>>
    BY <2>1, OpenFacts DEF IsDue
  <2>4. ReaderInv(v, C)
    BY <2>1, <2>2, BeginKeeps
  <2>5. v.at = "value" /\ v.room = r.room /\ v.readable = r.readable
    BY <2>1, <2>3, BeginFields
  <2>6. QED
    BY <2>4, <2>5 DEF Keeps
<1>3. QED
  BY <1>1, <1>2

\* A value that is stored, of the reader alone.
LEMMA StoreKeeps ==
    ASSUME NEW C, NULL \in C, NEW r, ReaderInv(r, C), MayHaveValue(r),
           NEW type \in Types \ {"UNDEFINED"}, NEW content \in C,
           NEW q, q = Filled(Node(r), type, content)
    PROVE  ReaderInv(q, C) /\ Keeps(q, r)
<1> DEFINE v == Node(r)
<1>1. ReaderInv(v, C) /\ v.at = "value" /\ Keeps(v, r)
  BY NodeKeeps
<1> HIDE DEF v
<1>2. q = Filled(v, type, content)
  BY DEF v
<1>3. ReaderInv(q, C)
  BY <1>1, <1>2, FilledKeeps
<1>4. type \in Types /\ IsReader(v, C)
  BY <1>1 DEF ReaderInv
<1>5. q.room = v.room /\ q.readable = v.readable
  BY <1>2, <1>4, FilledFields
<1>6. QED
  BY <1>1, <1>3, <1>5 DEF Keeps

\* What is opened as a value.
LEMMA OpenTracks ==
    ASSUME NEW C, NULL \in C, NEW r, ReaderInv(r, C), MayHaveValue(r), NEW p,
           NEW type \in {"object", "array"},
           NEW q, q = Opened(Node(r), type), NEW w, w = Open(p, type)
    PROVE  Tracks(w, q, p, r, C)
<1> DEFINE v == Node(r)
<1>1. ReaderInv(v, C) /\ v.at = "value" /\ Keeps(v, r)
  BY NodeKeeps
<1>2. Mirrors(p, r, C) /\ r.readable => Follows(w, q, C)
  BY OpenFollows
<1> HIDE DEF v
<1>3. q = Opened(v, type)
  BY DEF v
<1>4. ReaderInv(q, C)
  BY <1>1, <1>3, OpenedKeeps
<1>5. type \in Types /\ IsReader(v, C)
  BY <1>1 DEF ReaderInv, Types
<1>6. q.room = v.room /\ q.readable = v.readable
  BY <1>3, <1>5, OpenedFields
<1>7. QED
  BY <1>1, <1>2, <1>4, <1>6 DEF Tracks, Keeps

\* Another object in the place of the one before it.
LEMMA AgainTracks ==
    ASSUME NEW C, NULL \in C, NEW r, ReaderInv(r, C), r.at = "outside", NEW p,
           NEW q, q = OpenedAgain(r), NEW w, w = Open(p, "object")
    PROVE  Tracks(w, q, p, r, C)
<1>1. /\ ReaderInv(q, C) /\ InUse(q) = InUse(r) + 1 /\ InUse(r) = Nodes(r)
      /\ \A k \in 1..Nodes(r) : k # 1 => Slots(q, k) = Slots(r, k)
      /\ Slots(r, 1) = r.kids[1] /\ Slots(q, 1) = <<Nodes(r) + 1>>
  BY OpenedAgainKeeps
<1>2. IsReader(r, C) /\ r.earlier \in Nat
  BY DEF ReaderInv, IsReader
<1>3. IsOpenedAgain(q, r, C)
  BY <1>2, OpenedAgainFields
<1>4. q.open # <<>>
  BY <1>3 DEF IsOpenedAgain
<1>5. ASSUME Mirrors(p, r, C), r.readable
      PROVE  Follows(w, q, C)
  <2>1. /\ IsParser(p, C) /\ p.next = InUse(r) + 1 /\ InUse(r) \in Nat /\ StackSize \in Nat
        /\ Nodes(r) \in Nat /\ Nodes(r) >= 1
    BY <1>5, MirrorFacts
  <2>2. p.current = 1 /\ 1 \in 1..Nodes(r)
    <3>1. r.open = <<>>
      BY DEF ReaderInv, IsPath
    <3>2. QED
      BY <1>5, <2>1, <3>1 DEF Mirrors, Stands
  <2>3. CASE InUse(r) + 1 <= StackSize
    <3>1. /\ p.current \in 1..Nodes(r)
          /\ Top(q) = p.current
          /\ \A k \in 1..Nodes(r) : k # p.current => q.label[k] = r.label[k]
          /\ q.label[p.current] = Label("object", r.label[p.current].key, r.label[p.current].value)
          /\ \A k \in 1..Nodes(r) : k # p.current => Slots(q, k) = Slots(r, k)
          /\ Slots(q, p.current) = <<Nodes(r) + 1>>
          /\ q.earlier = Len(Slots(r, 1)) + r.earlier
          /\ Nodes(q) = Nodes(r)
      BY <1>1, <1>2, <1>3, <2>2 DEF IsOpenedAgain
    <3>2. "object" \in {"object", "array"}
      OBVIOUS
    <3>3. Mirrors(w, q, C)
      BY <1>1, <1>4, <1>5, <2>2, <2>3, <3>1, <3>2, OpenMirrors
    <3>4. InUse(q) <= StackSize
      BY <1>1, <2>3
    <3>5. QED
      BY <1>1, <1>3, <1>5, <3>3, <3>4 DEF Follows, IsOpenedAgain
  <2>4. CASE ~(InUse(r) + 1 <= StackSize)
    <3>1. p.next > StackSize
      BY <2>1, <2>4
    <3>2. w.state = "refused"
      BY <2>1, <3>1, NoneToOpen
    <3>3. ~(InUse(q) <= StackSize)
      BY <1>1, <2>4
    <3>4. QED
      BY <1>1, <3>2, <3>3 DEF Follows
  <2>5. QED
    BY <2>3, <2>4
<1>6. QED
  BY <1>1, <1>3, <1>5 DEF Tracks, IsOpenedAgain

\* The mark that matches the innermost container.
LEMMA CloseTracks ==
    ASSUME NEW C, NULL \in C, NEW r, ReaderInv(r, C), r.at \in {"first", "after"}, NEW p,
           NEW q, q = Closed(r), NEW w, w = Close(p, TopType(r))
    PROVE  Tracks(w, q, p, r, C)
<1>1. ReaderInv(q, C) /\ q.room = r.room /\ q.readable = r.readable
  BY ClosedKeeps
<1>2. ASSUME Mirrors(p, r, C), r.readable
      PROVE  Follows(w, q, C)
  <2>1. Mirrors(w, q, C)
    BY <1>2, CloseMirrors
  <2>2. InUse(q) <= StackSize
    BY <2>1 DEF Mirrors, Stands
  <2>3. QED
    BY <1>1, <1>2, <2>1, <2>2 DEF Follows
<1>3. QED
  BY <1>1, <1>2 DEF Tracks

\* A comma after a value.
LEMMA CommaTracks ==
    ASSUME NEW C, NULL \in C, NEW r, ReaderInv(r, C), r.at = "after", NEW p,
           NEW q, q = At(r, "next"), NEW w, w = json_alloc_next(p)
    PROVE  Tracks(w, q, p, r, C)
<1>1. ReaderInv(q, C) /\ InUse(q) = InUse(r) + 1
  <2>1. ReaderInv(q, C) /\ HasMadeSlot(q, r)
    BY CommaKeeps
  <2>2. QED
    BY <2>1 DEF HasMadeSlot
<1>2. q.room = r.room /\ q.readable = r.readable
  BY DEF At, ReaderInv, IsReader
<1>3. ASSUME Mirrors(p, r, C), r.readable
      PROVE  Follows(w, q, C)
  <2>1. /\ IsParser(p, C) /\ p.next = InUse(r) + 1 /\ InUse(r) \in Nat /\ StackSize \in Nat
        /\ Nodes(r) \in Nat
    BY <1>3, MirrorFacts
  <2>2. CASE InUse(r) + 1 <= StackSize
    <3>1. Mirrors(w, q, C)
      BY <1>3, <2>2, CommaMirrors
    <3>2. InUse(q) <= StackSize
      BY <1>1, <2>2
    <3>3. QED
      BY <1>1, <1>2, <1>3, <3>1, <3>2 DEF Follows
  <2>3. CASE ~(InUse(r) + 1 <= StackSize)
    <3>1. p.next > StackSize
      BY <2>1, <2>3
    <3>2. p.parent # 0
      <4>1. r.at # "outside"
        OBVIOUS
      <4>2. p.parent = Top(r) /\ Top(r) \in 1..Nodes(r)
        BY <1>3, <4>1, StandsFacts
      <4>3. QED
        BY <2>1, <4>2
    <3>3. w = [p EXCEPT !.state = "refused"]
      BY <3>1, <3>2 DEF json_alloc_next, Refused
    <3>4. w.state = "refused"
      BY <2>1, <3>3 DEF IsParser
    <3>5. ~(InUse(q) <= StackSize)
      BY <1>1, <2>3
    <3>6. QED
      BY <1>1, <3>4, <3>5 DEF Follows
  <2>4. QED
    BY <2>2, <2>3
<1>4. QED
  BY <1>1, <1>2, <1>3 DEF Tracks

\* A colon after a key.
LEMMA ColonTracks ==
    ASSUME NEW C, NULL \in C, NEW r, ReaderInv(r, C), r.at = "colon", NEW p,
           NEW q, q = At(r, "value"), NEW w, w = Colon(p)
    PROVE  Tracks(w, q, p, r, C)
<1>1. /\ ReaderInv(q, C) /\ InUse(q) = InUse(r)
      /\ \A k \in 1..Nodes(r) : Slots(q, k) = Slots(r, k)
  BY ColonKeeps
<1>2. /\ q.room = r.room /\ q.readable = r.readable /\ q.open = r.open
      /\ q.label = r.label /\ q.earlier = r.earlier
  BY DEF At, ReaderInv, IsReader
<1>3. ASSUME Mirrors(p, r, C), r.readable
      PROVE  Follows(w, q, C)
  <2>1. r.at # "outside" /\ IsWaiting(r) /\ TopType(r) = "object"
    BY DEF ReaderInv, IsPlaced
  <2>2. /\ p.parent = Top(r) /\ Top(r) \in 1..Nodes(r) /\ p.current = Nodes(r)
        /\ p.pool[p.parent].type = TopType(r)
    BY <1>3, <2>1, StandsFacts
  <2>3. Nodes(r) \in 1..Nodes(r) /\ InUse(r) <= StackSize
    BY <1>3, MirrorFacts
  <2>4. p.pool[p.current].key = r.label[Nodes(r)].key
    BY <1>3, <2>2, <2>3 DEF Mirrors, HasLabels
  <2>5. p.pool[p.current].key # NULL
    BY <2>1, <2>4 DEF IsWaiting, Suits
  <2>6. w = p
    BY <2>1, <2>2, <2>5 DEF Colon, Parent, Current
  <2>7. Mirrors(w, q, C)
    BY <1>1, <1>2, <1>3, <2>2, <2>6, MirrorsKept
  <2>8. QED
    BY <1>1, <1>2, <1>3, <2>3, <2>7 DEF Follows
<1>4. QED
  BY <1>1, <1>2, <1>3 DEF Tracks

\* A key where a member is due.
LEMMA KeyTracks ==
    ASSUME NEW C, NULL \in C, NEW r, ReaderInv(r, C), IsDue(r), TopType(r) = "object", NEW p,
           NEW token, Str(Decoded(token.s)) \in C,
           NEW q, q = At(Begin(r, Str(Decoded(token.s))), "colon"),
           NEW w, w = json_parseString(p, token)
    PROVE  Tracks(w, q, p, r, C)
<1> DEFINE key == Str(Decoded(token.s))
           b == Begin(r, key)
           n == Nodes(r)
<1>1. key # NULL
  BY DEF Str, NULL
<1>2. r.at # "outside" /\ r.open # <<>>
  BY OpenFacts DEF IsDue
<1> HIDE DEF key
<1>3. key \in C \ {NULL} /\ q = At(b, "colon") /\ w = json_parseString(p, token)
  BY <1>1 DEF key
<1>4. /\ ReaderInv(q, C) /\ InUse(q) = InUse(r)
      /\ \A k \in 1..Nodes(r) : Slots(q, k) = Slots(r, k)
  BY <1>3, KeyKeeps
<1>5. /\ IsReader(b, C) /\ Nodes(b) = n + 1 /\ Top(b) = Top(r)
      /\ b.open = r.open /\ b.earlier = r.earlier /\ b.room = r.room /\ b.readable = r.readable
      /\ \A k \in 1..n : b.label[k] = r.label[k]
      /\ b.label[n + 1] = Label("UNDEFINED", key, NULL)
      /\ b.kids[n + 1] = <<>>
  BY <1>2, <1>3, BeginFields
<1> HIDE DEF b
<1>6. /\ q.at = "colon" /\ q.open = b.open /\ q.label = b.label /\ q.kids = b.kids
      /\ q.earlier = b.earlier /\ q.room = b.room /\ q.readable = b.readable
  BY <1>3, <1>5 DEF At, IsReader
<1>7. ASSUME Mirrors(p, r, C), r.readable
      PROVE  Follows(w, q, C)
  <2>1. Nodes(q) = n + 1 /\ Top(q) = Top(r)
    BY <1>5, <1>6 DEF Nodes, Top
  <2>2. Slots(q, n + 1) = <<>>
    BY <1>5, <1>6 DEF Slots, IsDue
  <2> DEFINE v == WithKey(p, key)
  <2>3. Mirrors(v, q, C) /\ p.pool[p.current].key = NULL
    <3>1. /\ q.open = r.open /\ q.earlier = r.earlier
          /\ \A k \in 1..Nodes(r) : q.label[k] = r.label[k]
          /\ q.label[Nodes(r) + 1] = Label("UNDEFINED", key, NULL)
          /\ Slots(q, Nodes(r) + 1) = <<>> /\ Nodes(q) = Nodes(r) + 1
      BY <1>5, <1>6, <2>1, <2>2
    <3> HIDE DEF n
    <3>2. QED
      BY <1>3, <1>4, <1>7, <2>1, <3>1, KeyMirrors
  <2>4. p.parent = Top(r) /\ Top(r) \in 1..n /\ p.pool[p.parent].type = TopType(r) /\ n \in Nat
    BY <1>2, <1>7, StandsFacts, MirrorFacts
  <2>5. w = v
    BY <1>3, <2>3, <2>4 DEF json_parseString, WithKey, Parent, Current, key
  <2>6. InUse(r) <= StackSize
    BY <1>7, MirrorFacts
  <2>7. QED
    BY <1>4, <1>5, <1>6, <1>7, <2>3, <2>5, <2>6 DEF Follows
<1>8. QED
  BY <1>4, <1>5, <1>6, <1>7 DEF Tracks

\* A string as a value.
LEMMA StringTracks ==
    ASSUME NEW C, NULL \in C, NEW r, ReaderInv(r, C), MayHaveValue(r), NEW p,
           NEW token, Str(Decoded(token.s)) \in C,
           NEW q, q = Filled(Node(r), "string", Str(Decoded(token.s))),
           NEW w, w = json_parseString(p, token)
    PROVE  Tracks(w, q, p, r, C)
<1> DEFINE content == Str(Decoded(token.s))
<1>1. "string" \in Types \ {"UNDEFINED"}
  BY DEF Types
<1>2. ReaderInv(q, C) /\ Keeps(q, r)
  BY <1>1, StoreKeeps
<1>3. ASSUME Mirrors(p, r, C), r.readable
      PROVE  Follows(w, q, C)
  <2>1. /\ p.parent # 0
        /\ ~(Parent(p).type = "object" /\ Current(p).key = NULL)
    <3> DEFINE v == Node(r)
    <3>1. ReaderInv(v, C) /\ v.at = "value" /\ Mirrors(p, v, C)
      BY <1>3, NodeFollows
    <3> HIDE DEF v
    <3>2. QED
      BY <3>1, ValueIsPlaced
  <2>2. w = Store(p, "string", content)
    BY <2>1 DEF json_parseString
  <2>3. QED
    BY <1>1, <1>3, <2>2, StoreFollows
<1>4. QED
  BY <1>2, <1>3 DEF Tracks, Keeps

\* A primitive as a value.
LEMMA PrimitiveTracks ==
    ASSUME NEW C, NULL \in C, NEW r, ReaderInv(r, C), MayHaveValue(r), NEW p,
           NEW token \in C, NEW type, type = IF token.t = "null" THEN "null" ELSE "boolean",
           NEW q, q = Filled(Node(r), type, token),
           NEW w, w = json_parsePrimitive(p, token)
    PROVE  Tracks(w, q, p, r, C)
<1>1. type \in Types \ {"UNDEFINED"}
  BY DEF Types
<1>2. ReaderInv(q, C) /\ Keeps(q, r)
  BY <1>1, StoreKeeps
<1>3. ASSUME Mirrors(p, r, C), r.readable
      PROVE  Follows(w, q, C)
  <2>1. p.parent # 0 /\ ~IsMisplaced(p)
    <3> DEFINE v == Node(r)
    <3>1. ReaderInv(v, C) /\ v.at = "value" /\ Mirrors(p, v, C)
      BY <1>3, NodeFollows
    <3> HIDE DEF v
    <3>2. QED
      BY <3>1, ValueIsPlaced
  <2>2. w = Store(p, type, token)
    BY <2>1 DEF json_parsePrimitive
  <2>3. QED
    BY <1>1, <1>3, <2>2, StoreFollows
<1>4. QED
  BY <1>2, <1>3 DEF Tracks, Keeps

\* q is f, but for what is readable.
IsShaped(q, f, readable) ==
    /\ q.open = f.open /\ q.label = f.label /\ q.earlier = f.earlier /\ q.room = f.room
    /\ q.readable = readable /\ InUse(q) = InUse(f)
    /\ \A k \in 1..Nodes(f) : Slots(q, k) = Slots(f, k)

\* What is readable does not matter to the invariant of the reader.
LEMMA ReadableKeeps ==
    ASSUME NEW C, NEW f, ReaderInv(f, C), NEW readable \in BOOLEAN,
           NEW q, q = [f EXCEPT !.readable = readable]
    PROVE  ReaderInv(q, C) /\ IsShaped(q, f, readable)
<1>1. /\ IsReader(q, C) /\ q.at = f.at /\ q.open = f.open /\ q.label = f.label
      /\ q.kids = f.kids /\ q.earlier = f.earlier /\ q.room = f.room
      /\ q.readable = readable
  BY DEF ReaderInv, IsReader, Nodes
<1>2. /\ ReaderInv(q, C) /\ InUse(q) = InUse(f)
      /\ \A k \in 1..Nodes(f) : Slots(q, k) = Slots(f, k)
  <2>1. ReaderInv(q, C) /\ InUse(q) = InUse(f)
    BY <1>1, ShapeKept
  <2>2. ASSUME NEW k \in 1..Nodes(f)
        PROVE  Slots(q, k) = Slots(f, k)
    BY <1>1 DEF Slots, IsDue, Top, Nodes
  <2>3. QED
    BY <2>1, <2>2
<1>3. QED
  BY <1>1, <1>2 DEF IsShaped

\* A number as a value: what cannot be read is refused.
LEMMA NumberTracks ==
    ASSUME NEW C, NULL \in C, NEW r, ReaderInv(r, C), MayHaveValue(r), NEW p,
           NEW token \in C,
           NEW q, q = [Filled(Node(r), "number", token) EXCEPT
                         !.readable = @ /\ ~Unreadable(token)],
           NEW w, w = json_parseNumber(p, token)
    PROVE  Tracks(w, q, p, r, C)
<1> DEFINE f == Filled(Node(r), "number", token)
<1>1. "number" \in Types \ {"UNDEFINED"}
  BY DEF Types
<1>2. ReaderInv(f, C) /\ Keeps(f, r)
  BY <1>1, StoreKeeps
<1> HIDE DEF f
<1>3. q = [f EXCEPT !.readable = f.readable /\ ~Unreadable(token)]
  BY DEF f
<1>4. f.readable \in BOOLEAN
  BY <1>2 DEF ReaderInv, IsReader
<1> DEFINE readable == f.readable /\ ~Unreadable(token)
<1>5. readable \in BOOLEAN
  BY Zenon
<1> HIDE DEF readable
<1>6. q = [f EXCEPT !.readable = readable]
  BY <1>3 DEF readable
<1>7. /\ ReaderInv(q, C) /\ IsShaped(q, f, readable)
  BY <1>2, <1>5, <1>6, ReadableKeeps
<1>8. ASSUME Mirrors(p, r, C), r.readable
      PROVE  Follows(w, q, C)
  <2>1. p.parent # 0 /\ ~IsMisplaced(p) /\ IsParser(p, C)
    <3> DEFINE v == Node(r)
    <3>1. ReaderInv(v, C) /\ v.at = "value" /\ Mirrors(p, v, C)
      BY <1>8, NodeFollows
    <3> HIDE DEF v
    <3>2. p.parent # 0 /\ ~IsMisplaced(p)
      BY <3>1, ValueIsPlaced
    <3>3. QED
      BY <3>1, <3>2 DEF Mirrors
  <2>2. CASE Unreadable(token)
    <3>1. w = [p EXCEPT !.state = "refused"]
      BY <2>1, <2>2 DEF json_parseNumber, Unreadable, Refused
    <3>2. w.state = "refused"
      BY <2>1, <3>1 DEF IsParser
    <3>3. ~q.readable
      BY <1>7, <2>2 DEF IsShaped, readable
    <3>4. QED
      BY <1>7, <3>2, <3>3 DEF Follows
  <2>3. CASE ~Unreadable(token)
    <3> DEFINE v == Store(p, "number", token)
    <3>1. w = v
      BY <2>1, <2>3 DEF json_parseNumber, Unreadable
    <3>2. Follows(v, f, C) /\ InUse(f) <= StackSize
      BY <1>1, <1>8, StoreFollows DEF f
    <3> HIDE DEF v
    <3>3. f.readable
      BY <1>2, <1>8 DEF Keeps
    <3>4. Mirrors(v, f, C)
      BY <3>2, <3>3 DEF Follows
    <3>5. f.open # <<>> => Top(f) \in 1..Nodes(f)
      BY <1>2, TopFacts
    <3>6. Mirrors(v, q, C)
      BY <1>7, <3>4, <3>5, MirrorsKept DEF IsShaped
    <3>7. q.readable
      BY <1>7, <2>3, <3>3 DEF IsShaped, readable
    <3>8. QED
      BY <1>7, <3>1, <3>2, <3>6, <3>7 DEF Follows, IsShaped
  <2>4. QED
    BY <2>2, <2>3
<1>9. q.room = r.room /\ (q.readable => r.readable)
  BY <1>2, <1>7 DEF Keeps, IsShaped, readable
<1>10. QED
  BY <1>7, <1>8, <1>9 DEF Tracks

\* A parser that is reading makes a step; one that is not had not the tree.
LEMMA StepTracks ==
    ASSUME NEW C, NEW r, NEW q, NEW p, NEW x, Tracks(x, q, p, r, C),
           NEW w, p.state = "reading" => w = x
    PROVE  Tracks(w, q, p, r, C)
<1>1. Mirrors(p, r, C) => w = x
  BY DEF Mirrors, Stands
<1>2. QED
  BY <1>1 DEF Tracks

\* Every token that is not wrong where it stands.
LEMMA TokenTracks ==
    ASSUME NEW C, NULL \in C, NEW r, ReaderInv(r, C), NEW p, NEW token \in C,
           token.t = "string" => Str(Decoded(token.s)) \in C,
           NEW q, q = Taken(r, token), NEW w, w = Step(p, token)
    PROVE  q = At(r, "wrong") \/ Tracks(w, q, p, r, C)
<1>1. CASE token.t = "{" /\ r.at = "outside"
  <2>1. q = OpenedAgain(r)
    BY <1>1, Zenon DEF Taken, MayHaveValue, IsDue, Primitives
  <2>2. p.state = "reading" => w = Open(p, "object")
    BY <1>1, Zenon DEF Step, Primitives
  <2>3. Tracks(Open(p, "object"), q, p, r, C)
    BY <1>1, <2>1, AgainTracks
  <2>4. QED
    BY <2>2, <2>3, StepTracks, Zenon
<1>2. CASE token.t = "{" /\ MayHaveValue(r)
  <2>1. q = Opened(Node(r), "object")
    BY <1>2, Zenon DEF Taken, MayHaveValue, IsDue, Primitives
  <2>2. p.state = "reading" => w = Open(p, "object")
    BY <1>2, Zenon DEF Step, Primitives
  <2>3. Tracks(Open(p, "object"), q, p, r, C)
    BY <1>2, <2>1, OpenTracks
  <2>4. QED
    BY <2>2, <2>3, StepTracks, Zenon
<1>3. CASE token.t = "[" /\ MayHaveValue(r)
  <2>1. q = Opened(Node(r), "array")
    BY <1>3, Zenon DEF Taken, MayHaveValue, IsDue, Primitives
  <2>2. p.state = "reading" => w = Open(p, "array")
    BY <1>3, Zenon DEF Step, Primitives
  <2>3. Tracks(Open(p, "array"), q, p, r, C)
    BY <1>3, <2>1, OpenTracks
  <2>4. QED
    BY <2>2, <2>3, StepTracks, Zenon
<1>4. CASE token.t = "}" /\ r.at \in {"first", "after"} /\ TopType(r) = "object"
  <2>1. q = Closed(r)
    BY <1>4, Zenon DEF Taken, MayHaveValue, IsDue, Primitives
  <2>2. p.state = "reading" => w = Close(p, "object")
    BY <1>4, Zenon DEF Step, Primitives
  <2>3. Tracks(Close(p, "object"), q, p, r, C)
    BY <1>4, <2>1, CloseTracks
  <2>4. QED
    BY <2>2, <2>3, StepTracks, Zenon
<1>5. CASE token.t = "]" /\ r.at \in {"first", "after"} /\ TopType(r) = "array"
  <2>1. q = Closed(r)
    BY <1>5, Zenon DEF Taken, MayHaveValue, IsDue, Primitives
  <2>2. p.state = "reading" => w = Close(p, "array")
    BY <1>5, Zenon DEF Step, Primitives
  <2>3. Tracks(Close(p, "array"), q, p, r, C)
    BY <1>5, <2>1, CloseTracks
  <2>4. QED
    BY <2>2, <2>3, StepTracks, Zenon
<1>6. CASE token.t = "," /\ r.at = "after"
  <2>1. q = At(r, "next")
    BY <1>6, Zenon DEF Taken, MayHaveValue, IsDue, Primitives
  <2>2. p.state = "reading" => w = json_alloc_next(p)
    BY <1>6, Zenon DEF Step, Primitives
  <2>3. Tracks(json_alloc_next(p), q, p, r, C)
    BY <1>6, <2>1, CommaTracks
  <2>4. QED
    BY <2>2, <2>3, StepTracks, Zenon
<1>7. CASE token.t = ":" /\ r.at = "colon"
  <2>1. q = At(r, "value")
    BY <1>7, Zenon DEF Taken, MayHaveValue, IsDue, Primitives
  <2>2. p.state = "reading" => w = Colon(p)
    BY <1>7, Zenon DEF Step, Primitives
  <2>3. Tracks(Colon(p), q, p, r, C)
    BY <1>7, <2>1, ColonTracks
  <2>4. QED
    BY <2>2, <2>3, StepTracks, Zenon
<1>8. CASE token.t = "string" /\ IsDue(r) /\ TopType(r) = "object"
  <2>1. q = At(Begin(r, Str(Decoded(token.s))), "colon")
    BY <1>8, Zenon DEF Taken, MayHaveValue, IsDue, Primitives
  <2>2. p.state = "reading" => w = json_parseString(p, token)
    BY <1>8, Zenon DEF Step, Primitives
  <2>3. Tracks(json_parseString(p, token), q, p, r, C)
    BY <1>8, <2>1, KeyTracks
  <2>4. QED
    BY <2>2, <2>3, StepTracks, Zenon
<1>9. CASE token.t = "string" /\ MayHaveValue(r)
  <2>1. q = Filled(Node(r), "string", Str(Decoded(token.s)))
    BY <1>9, Zenon DEF Taken, MayHaveValue, IsDue, Primitives
  <2>2. p.state = "reading" => w = json_parseString(p, token)
    BY <1>9, Zenon DEF Step, Primitives
  <2>3. Tracks(json_parseString(p, token), q, p, r, C)
    BY <1>9, <2>1, StringTracks
  <2>4. QED
    BY <2>2, <2>3, StepTracks, Zenon
<1>10. CASE token.t \in {"number", "decimal"} /\ MayHaveValue(r)
  <2>1. q = [Filled(Node(r), "number", token) EXCEPT !.readable = @ /\ ~Unreadable(token)]
    BY <1>10, Zenon DEF Taken, MayHaveValue, IsDue, Primitives
  <2>2. p.state = "reading" => w = json_parseNumber(p, token)
    BY <1>10, Zenon DEF Step, Primitives
  <2>3. Tracks(json_parseNumber(p, token), q, p, r, C)
    BY <1>10, <2>1, NumberTracks
  <2>4. QED
    BY <2>2, <2>3, StepTracks, Zenon
<1>11. CASE token.t \in Primitives /\ MayHaveValue(r)
  <2>1. q = Filled(Node(r), IF token.t = "null" THEN "null" ELSE "boolean", token)
    BY <1>11, Zenon DEF Taken, MayHaveValue, IsDue, Primitives
  <2>2. p.state = "reading" => w = json_parsePrimitive(p, token)
    BY <1>11, Zenon DEF Step, Primitives
  <2>3. Tracks(json_parsePrimitive(p, token), q, p, r, C)
    BY <1>11, <2>1, PrimitiveTracks
  <2>4. QED
    BY <2>2, <2>3, StepTracks, Zenon
<1>12. CASE ~(\/ token.t = "{" /\ r.at = "outside"
              \/ token.t = "{" /\ MayHaveValue(r)
              \/ token.t = "[" /\ MayHaveValue(r)
              \/ token.t = "}" /\ r.at \in {"first", "after"} /\ TopType(r) = "object"
              \/ token.t = "]" /\ r.at \in {"first", "after"} /\ TopType(r) = "array"
              \/ token.t = "," /\ r.at = "after"
              \/ token.t = ":" /\ r.at = "colon"
              \/ token.t = "string" /\ IsDue(r) /\ TopType(r) = "object"
              \/ token.t = "string" /\ MayHaveValue(r)
              \/ token.t \in {"number", "decimal"} /\ MayHaveValue(r)
              \/ token.t \in Primitives /\ MayHaveValue(r))
  <2>1. q = At(r, "wrong")
    BY <1>12, Zenon DEF Taken
  <2>2. QED
    BY <2>1
<1>13. QED
  BY <1>1, <1>2, <1>3, <1>4, <1>5, <1>6, <1>7, <1>8, <1>9, <1>10, <1>11, <1>12, Zenon

\* A reader whose room is another one.
WithRoom(t, room) == [t EXCEPT !.room = room]

\* The room does not matter to what the reader and the parser are.
LEMMA RoomKept ==
    ASSUME NEW C, NEW t, ReaderInv(t, C), NEW room \in Nat, NEW q, q = WithRoom(t, room)
    PROVE  /\ ReaderInv(q, C) /\ q.readable = t.readable /\ q.room = room /\ q.at = t.at
           /\ InUse(q) = InUse(t)
           /\ \A w : Mirrors(w, t, C) => Mirrors(w, q, C)
<1>1. /\ IsReader(q, C) /\ q.at = t.at /\ q.open = t.open /\ q.label = t.label
      /\ q.kids = t.kids /\ q.earlier = t.earlier /\ q.room = room
      /\ q.readable = t.readable
  BY DEF WithRoom, ReaderInv, IsReader, Nodes
<1>2. ReaderInv(q, C) /\ InUse(q) = InUse(t)
  BY <1>1, ShapeKept
<1>3. \A k \in 1..Nodes(t) : Slots(q, k) = Slots(t, k)
  BY <1>1 DEF Slots, IsDue, Top, Nodes
<1>4. t.open # <<>> => Top(t) \in 1..Nodes(t)
  BY TopFacts
<1>5. ASSUME NEW w, Mirrors(w, t, C)
      PROVE  Mirrors(w, q, C)
  BY <1>1, <1>2, <1>3, <1>4, <1>5, MirrorsKept
<1>6. QED
  BY <1>1, <1>2, <1>5

\* The two stay together.
LEMMA TogetherStep ==
    ASSUME NEW C, NULL \in C, NEW r, NEW p, Together(p, r, C), NEW token \in C,
           token.t = "string" => Str(Decoded(token.s)) \in C,
           NEW q, q = Passed(r, token), NEW w, w = Step(p, token)
    PROVE  Together(w, q, C)
<1>1. CASE r.at = "wrong"
  <2>1. q = r
    BY <1>1 DEF Passed
  <2>2. QED
    BY <1>1, <2>1 DEF Together
<1>2. CASE token = Space
  <2>1. q = r
    BY <1>2, Zenon DEF Passed
  <2>2. token.t = " "
    BY <1>2 DEF Space, Mark
  <2>3. w = p
    BY <2>2, Zenon DEF Step, Primitives
  <2>4. QED
    BY <2>1, <2>3
<1>3. CASE r.at # "wrong" /\ token # Space
  <2> DEFINE t == Taken(r, token)
             room == IF InUse(t) > r.room THEN InUse(t) ELSE r.room
  <2>1. ReaderInv(r, C) /\ IF Fits(r) THEN Mirrors(p, r, C) ELSE p.state = "refused"
    BY <1>3 DEF Together
  <2>2. t = At(r, "wrong") \/ Tracks(w, t, p, r, C)
    BY <2>1, TokenTracks
  <2>3. q = [t EXCEPT !.room = IF InUse(t) > t.room THEN InUse(t) ELSE t.room]
    BY <1>3, Zenon DEF Passed
  <2> HIDE DEF t
  <2>4. CASE t = At(r, "wrong")
    <3>1. q.at = "wrong"
      BY <2>1, <2>3, <2>4 DEF At, ReaderInv, IsReader
    <3>2. QED
      BY <3>1 DEF Together
  <2>5. CASE Tracks(w, t, p, r, C)
    <3>1. ReaderInv(t, C) /\ t.room = r.room /\ (t.readable => r.readable)
      BY <2>5 DEF Tracks
    <3>2. /\ r.room \in Nat /\ InUse(t) \in Nat /\ StackSize \in Nat
      <4>1. 1 \in 1..Nodes(t)
        BY <3>1 DEF ReaderInv, IsReader, Nodes
      <4>2. InUse(t) \in Nat
        BY <3>1, <4>1, SlotFacts
      <4>3. QED
        BY <2>1, <4>2, StackAssumption DEF ReaderInv, IsReader
    <3>3. room \in Nat /\ (room <= StackSize <=> r.room <= StackSize /\ InUse(t) <= StackSize)
      BY <3>2
    <3>4. q = WithRoom(t, room)
      BY <2>3, <3>1 DEF WithRoom
    <3> HIDE DEF room
    <3>5. /\ ReaderInv(q, C) /\ q.readable = t.readable /\ q.room = room
          /\ Mirrors(w, t, C) => Mirrors(w, q, C)
      BY <3>1, <3>3, <3>4, RoomKept
    <3>6. CASE Fits(q)
      <4>1. t.readable /\ r.room <= StackSize /\ InUse(t) <= StackSize /\ r.readable
        BY <3>1, <3>3, <3>5, <3>6 DEF Fits
      <4>2. Mirrors(p, r, C)
        BY <2>1, <4>1 DEF Fits
      <4>3. Follows(w, t, C)
        BY <2>5, <4>1, <4>2 DEF Tracks
      <4>4. Mirrors(w, q, C)
        BY <3>5, <4>1, <4>3 DEF Follows
      <4>5. QED
        BY <3>5, <3>6, <4>4 DEF Together
    <3>7. CASE ~Fits(q) /\ Fits(r)
      <4>1. Mirrors(p, r, C) /\ r.readable /\ r.room <= StackSize
        BY <2>1, <3>7 DEF Fits
      <4>2. Follows(w, t, C)
        BY <2>5, <4>1 DEF Tracks
      <4>3. ~(t.readable /\ InUse(t) <= StackSize)
        BY <3>3, <3>5, <3>7, <4>1 DEF Fits
      <4>4. w.state = "refused"
        BY <4>2, <4>3 DEF Follows
      <4>5. QED
        BY <3>5, <3>7, <4>4 DEF Together
    <3>8. CASE ~Fits(q) /\ ~Fits(r)
      <4>1. p.state = "refused"
        BY <2>1, <3>8
      <4>2. w = p
        BY <4>1, Zenon DEF Step
      <4>3. QED
        BY <3>5, <3>8, <4>1, <4>2 DEF Together
    <3>9. QED
      BY <3>6, <3>7, <3>8
  <2>6. QED
    BY <2>2, <2>4, <2>5
<1>4. QED
  BY <1>1, <1>2, <1>3

-----------------------------------------------------------------------------
(* All the tokens of a text                                                 *)

\* h has the parsers after each of the first n tokens.
IsRun(h, text, n) ==
    h = [k \in 0..n |-> IF k = 0 THEN json_init ELSE Step(h[k - 1], text[k])]

\* What such a function is worth, element by element.
LEMMA RunElements ==
    ASSUME NEW text, NEW n \in Nat, NEW h, IsRun(h, text, n)
    PROVE  h[0] = json_init /\ \A k \in 1..n : h[k] = Step(h[k - 1], text[k])
<1> DEFINE F == [k \in 0..n |-> IF k = 0 THEN json_init ELSE Step(h[k - 1], text[k])]
<1>1. h = F
  BY DEF IsRun
<1>2. F[0] = json_init
  OBVIOUS
<1>3. ASSUME NEW k \in 1..n PROVE F[k] = Step(h[k - 1], text[k])
  OBVIOUS
<1> HIDE DEF F
<1>4. QED
  BY <1>1, <1>2, <1>3

\* There is one, however long.
LEMMA RunExist ==
    ASSUME NEW text
    PROVE  \A n \in Nat : \E h : IsRun(h, text, n)
<1> DEFINE S == {n \in Nat : \E h : IsRun(h, text, n)}
<1>1. 0 \in S
  <2> DEFINE h == [k \in 0..0 |-> json_init]
  <2>1. h = [k \in 0..0 |-> IF k = 0 THEN json_init ELSE Step(h[k - 1], text[k])]
    OBVIOUS
  <2>2. IsRun(h, text, 0)
    BY <2>1 DEF IsRun
  <2>3. QED
    BY <2>2
<1>2. ASSUME NEW n \in Nat, n \in S
      PROVE  n + 1 \in S
  <2>1. PICK h : IsRun(h, text, n)
    BY <1>2
  <2>2. h[0] = json_init /\ \A k \in 1..n : h[k] = Step(h[k - 1], text[k])
    BY <2>1, RunElements
  <2> DEFINE z == Step(h[n], text[n + 1])
             g == [k \in 0..n + 1 |-> IF k = n + 1 THEN z ELSE h[k]]
             f == [k \in 0..n + 1 |-> IF k = 0 THEN json_init ELSE Step(g[k - 1], text[k])]
  <2>3. \A k \in 0..n : g[k] = h[k]
    OBVIOUS
  <2>4. g[n + 1] = z
    OBVIOUS
  <2>5. ASSUME NEW k \in 0..n + 1 PROVE g[k] = f[k]
    <3>1. CASE k = 0
      BY <2>2, <2>3, <3>1
    <3>2. CASE k = n + 1
      <4>1. k # 0 /\ k - 1 = n /\ n \in 0..n
        BY <3>2
      <4>2. f[k] = Step(g[k - 1], text[k])
        BY <4>1
      <4>3. g[k - 1] = h[n]
        BY <2>3, <4>1
      <4> HIDE DEF f, g
      <4>4. QED
        BY <2>4, <3>2, <4>2, <4>3
    <3>3. CASE k \in 1..n
      <4>1. k # 0 /\ k - 1 \in 0..n /\ k \in 0..n
        BY <3>3
      <4>2. f[k] = Step(g[k - 1], text[k])
        BY <4>1
      <4>3. g[k] = h[k] /\ g[k - 1] = h[k - 1]
        BY <2>3, <4>1
      <4> HIDE DEF f, g
      <4>4. QED
        BY <2>2, <3>3, <4>2, <4>3
    <3>4. QED
      BY <3>1, <3>2, <3>3
  <2>6. g = f
    BY <2>5
  <2> HIDE DEF z
  <2>7. IsRun(g, text, n + 1)
    BY <2>6 DEF IsRun
  <2>8. QED
    BY <2>7
<1> HIDE DEF S
<1>3. \A n \in Nat : n \in S
  BY <1>1, <1>2, Induction
<1>4. QED
  BY <1>3 DEF S

\* The parser after a text is that after each of its tokens, one by one.
LEMMA AfterTokensIs ==
    ASSUME NEW text, Len(text) \in Nat
    PROVE  \E h : IsRun(h, text, Len(text)) /\ AfterTokens(text) = h[Len(text)]
<1> DEFINE IsFixed(t) == t = [k \in 0..Len(text) |-> IF k = 0 THEN json_init
                                                   ELSE Step(t[k - 1], text[k])]
           p == CHOOSE t : IsFixed(t)
<1>1. \E t : IsFixed(t)
  BY RunExist DEF IsRun
<1>2. AfterTokens(text) = p[Len(text)]
  BY DEF AfterTokens
<1> HIDE DEF IsFixed
<1>3. IsFixed(p)
  BY <1>1
<1> HIDE DEF p
<1>4. IsRun(p, text, Len(text))
  BY <1>3 DEF IsRun, IsFixed
<1>5. QED
  BY <1>2, <1>4

\* h has the readers after each of the first n tokens.
IsReading(h, text, n) ==
    h = [k \in 0..n |-> IF k = 0 THEN Start ELSE Passed(h[k - 1], text[k])]

\* What such a function is worth, element by element.
LEMMA ReadingElements ==
    ASSUME NEW text, NEW n \in Nat, NEW h, IsReading(h, text, n)
    PROVE  h[0] = Start /\ \A k \in 1..n : h[k] = Passed(h[k - 1], text[k])
<1> DEFINE F == [k \in 0..n |-> IF k = 0 THEN Start ELSE Passed(h[k - 1], text[k])]
<1>1. h = F
  BY DEF IsReading
<1>2. F[0] = Start
  OBVIOUS
<1>3. ASSUME NEW k \in 1..n PROVE F[k] = Passed(h[k - 1], text[k])
  OBVIOUS
<1> HIDE DEF F
<1>4. QED
  BY <1>1, <1>2, <1>3

\* There is one, however long.
LEMMA ReadingExist ==
    ASSUME NEW text
    PROVE  \A n \in Nat : \E h : IsReading(h, text, n)
<1> DEFINE S == {n \in Nat : \E h : IsReading(h, text, n)}
<1>1. 0 \in S
  <2> DEFINE h == [k \in 0..0 |-> Start]
  <2>1. h = [k \in 0..0 |-> IF k = 0 THEN Start ELSE Passed(h[k - 1], text[k])]
    OBVIOUS
  <2>2. IsReading(h, text, 0)
    BY <2>1 DEF IsReading
  <2>3. QED
    BY <2>2
<1>2. ASSUME NEW n \in Nat, n \in S
      PROVE  n + 1 \in S
  <2>1. PICK h : IsReading(h, text, n)
    BY <1>2
  <2>2. h[0] = Start /\ \A k \in 1..n : h[k] = Passed(h[k - 1], text[k])
    BY <2>1, ReadingElements
  <2> DEFINE z == Passed(h[n], text[n + 1])
             g == [k \in 0..n + 1 |-> IF k = n + 1 THEN z ELSE h[k]]
             f == [k \in 0..n + 1 |-> IF k = 0 THEN Start ELSE Passed(g[k - 1], text[k])]
  <2>3. \A k \in 0..n : g[k] = h[k]
    OBVIOUS
  <2>4. g[n + 1] = z
    OBVIOUS
  <2>5. ASSUME NEW k \in 0..n + 1 PROVE g[k] = f[k]
    <3>1. CASE k = 0
      BY <2>2, <2>3, <3>1
    <3>2. CASE k = n + 1
      <4>1. k # 0 /\ k - 1 = n /\ n \in 0..n
        BY <3>2
      <4>2. f[k] = Passed(g[k - 1], text[k])
        BY <4>1
      <4>3. g[k - 1] = h[n]
        BY <2>3, <4>1
      <4> HIDE DEF f, g
      <4>4. QED
        BY <2>4, <3>2, <4>2, <4>3
    <3>3. CASE k \in 1..n
      <4>1. k # 0 /\ k - 1 \in 0..n /\ k \in 0..n
        BY <3>3
      <4>2. f[k] = Passed(g[k - 1], text[k])
        BY <4>1
      <4>3. g[k] = h[k] /\ g[k - 1] = h[k - 1]
        BY <2>3, <4>1
      <4> HIDE DEF f, g
      <4>4. QED
        BY <2>2, <3>3, <4>2, <4>3
    <3>4. QED
      BY <3>1, <3>2, <3>3
  <2>6. g = f
    BY <2>5
  <2> HIDE DEF z
  <2>7. IsReading(g, text, n + 1)
    BY <2>6 DEF IsReading
  <2>8. QED
    BY <2>7
<1> HIDE DEF S
<1>3. \A n \in Nat : n \in S
  BY <1>1, <1>2, Induction
<1>4. QED
  BY <1>3 DEF S

\* The reader after a text is that after each of its tokens, one by one.
LEMMA ReaderAfterIs ==
    ASSUME NEW text, Len(text) \in Nat
    PROVE  \E h : IsReading(h, text, Len(text)) /\ ReaderAfter(text) = h[Len(text)]
<1> DEFINE IsFixed(t) == t = [k \in 0..Len(text) |-> IF k = 0 THEN Start
                                                   ELSE Passed(t[k - 1], text[k])]
           p == CHOOSE t : IsFixed(t)
<1>1. \E t : IsFixed(t)
  BY ReadingExist DEF IsReading
<1>2. ReaderAfter(text) = p[Len(text)]
  BY DEF ReaderAfter
<1> HIDE DEF IsFixed
<1>3. IsFixed(p)
  BY <1>1
<1> HIDE DEF p
<1>4. IsReading(p, text, Len(text))
  BY <1>3 DEF IsReading, IsFixed
<1>5. QED
  BY <1>2, <1>4

\* The children found so far, and one more if the chain has it.
Linked(pool, obj, k, sofar) ==
    LET last == IF sofar = <<>> THEN pool[obj].child ELSE pool[sofar[Len(sofar)]].next
    IN  IF (sofar = <<>> /\ k > 1) \/ last = 0 THEN sofar ELSE Append(sofar, last)

\* h has the children of obj found in each of the first n steps.
IsChain(h, pool, obj, n) ==
    h = [k \in 0..n |-> IF k = 0 THEN <<>> ELSE Linked(pool, obj, k, h[k - 1])]

\* What such a function is worth, element by element.
LEMMA ChainElements ==
    ASSUME NEW pool, NEW obj, NEW n \in Nat, NEW h, IsChain(h, pool, obj, n)
    PROVE  h[0] = <<>> /\ \A k \in 1..n : h[k] = Linked(pool, obj, k, h[k - 1])
<1> DEFINE F == [k \in 0..n |-> IF k = 0 THEN <<>> ELSE Linked(pool, obj, k, h[k - 1])]
<1>1. h = F
  BY DEF IsChain
<1>2. F[0] = <<>>
  OBVIOUS
<1>3. ASSUME NEW k \in 1..n PROVE F[k] = Linked(pool, obj, k, h[k - 1])
  OBVIOUS
<1> HIDE DEF F
<1>4. QED
  BY <1>1, <1>2, <1>3

\* There is one, however long.
LEMMA ChainExist ==
    ASSUME NEW pool, NEW obj
    PROVE  \A n \in Nat : \E h : IsChain(h, pool, obj, n)
<1> DEFINE S == {n \in Nat : \E h : IsChain(h, pool, obj, n)}
<1>1. 0 \in S
  <2> DEFINE h == [k \in 0..0 |-> <<>>]
  <2>1. h = [k \in 0..0 |-> IF k = 0 THEN <<>> ELSE Linked(pool, obj, k, h[k - 1])]
    OBVIOUS
  <2>2. IsChain(h, pool, obj, 0)
    BY <2>1 DEF IsChain
  <2>3. QED
    BY <2>2
<1>2. ASSUME NEW n \in Nat, n \in S
      PROVE  n + 1 \in S
  <2>1. PICK h : IsChain(h, pool, obj, n)
    BY <1>2
  <2>2. h[0] = <<>> /\ \A k \in 1..n : h[k] = Linked(pool, obj, k, h[k - 1])
    BY <2>1, ChainElements
  <2> DEFINE z == Linked(pool, obj, n + 1, h[n])
             g == [k \in 0..n + 1 |-> IF k = n + 1 THEN z ELSE h[k]]
             f == [k \in 0..n + 1 |-> IF k = 0 THEN <<>> ELSE Linked(pool, obj, k, g[k - 1])]
  <2>3. \A k \in 0..n : g[k] = h[k]
    OBVIOUS
  <2>4. g[n + 1] = z
    OBVIOUS
  <2>5. ASSUME NEW k \in 0..n + 1 PROVE g[k] = f[k]
    <3>1. CASE k = 0
      BY <2>2, <2>3, <3>1
    <3>2. CASE k = n + 1
      <4>1. k # 0 /\ k - 1 = n /\ n \in 0..n
        BY <3>2
      <4>2. f[k] = Linked(pool, obj, k, g[k - 1])
        BY <4>1
      <4>3. g[k - 1] = h[n]
        BY <2>3, <4>1
      <4> HIDE DEF f, g
      <4>4. QED
        BY <2>4, <3>2, <4>2, <4>3
    <3>3. CASE k \in 1..n
      <4>1. k # 0 /\ k - 1 \in 0..n /\ k \in 0..n
        BY <3>3
      <4>2. f[k] = Linked(pool, obj, k, g[k - 1])
        BY <4>1
      <4>3. g[k] = h[k] /\ g[k - 1] = h[k - 1]
        BY <2>3, <4>1
      <4> HIDE DEF f, g
      <4>4. QED
        BY <2>2, <3>3, <4>2, <4>3
    <3>4. QED
      BY <3>1, <3>2, <3>3
  <2>6. g = f
    BY <2>5
  <2> HIDE DEF z
  <2>7. IsChain(g, pool, obj, n + 1)
    BY <2>6 DEF IsChain
  <2>8. QED
    BY <2>7
<1> HIDE DEF S
<1>3. \A n \in Nat : n \in S
  BY <1>1, <1>2, Induction
<1>4. QED
  BY <1>3 DEF S

\* The children of an object are those found one by one.
LEMMA ChildrenAre ==
    ASSUME NEW pool, NEW obj, NEW size \in Nat, pool[obj].size = size
    PROVE  \E h : IsChain(h, pool, obj, size) /\ Children(pool, obj) = h[size]
<1> DEFINE IsFixed(t) == t = [k \in 0..size |-> IF k = 0 THEN <<>>
                                               ELSE Linked(pool, obj, k, t[k - 1])]
           p == CHOOSE t : IsFixed(t)
<1>1. \E t : IsFixed(t)
  <2>1. PICK h : IsChain(h, pool, obj, size)
    BY ChainExist
  <2>2. IsFixed(h)
    BY <2>1 DEF IsChain
  <2>3. QED
    BY <2>2
<1>2. Children(pool, obj) = p[size]
  BY DEF Children, Linked
<1> HIDE DEF IsFixed
<1>3. IsFixed(p)
  BY <1>1
<1> HIDE DEF p
<1>4. IsChain(p, pool, obj, size)
  BY <1>3 DEF IsChain, IsFixed
<1>5. QED
  BY <1>2, <1>4

\* They begin together: no node but the root.
LEMMA TogetherStart ==
    ASSUME NEW C, NULL \in C
    PROVE  Together(json_init, Start, C)
<1> DEFINE p == json_init
           r == Start
<1>1. /\ r.at = "outside" /\ r.open = <<>> /\ r.label = <<NoLabel>> /\ r.kids = << <<>> >>
      /\ r.earlier = 0 /\ r.room = 1 /\ r.readable = TRUE
  BY DEF Start
<1>2. /\ p.pool = [k \in 1..StackSize |-> Blank] /\ p.current = 1 /\ p.parent = 0
      /\ p.next = 2 /\ p.state = "reading"
  BY DEF json_init
<1>3. NoLabel \in Labels(C) /\ Blank \in Objects(C)
  BY DEF NoLabel, Label, Labels, Types, Blank, Objects
<1>4. IsParser(p, C)
  BY <1>3 DEF json_init, IsParser
<1>5. /\ NoLabel.type = "UNDEFINED" /\ NoLabel.key = NULL /\ NoLabel.value = NULL
      /\ Blank.type = "UNDEFINED" /\ Blank.key = NULL /\ Blank.value = NULL
      /\ Blank.parent = 0 /\ Blank.next = 0 /\ Blank.child = 0 /\ Blank.size = 0
  BY DEF NoLabel, Label, Blank
<1>6. /\ Nodes(r) = 1 /\ r.label[1] = NoLabel /\ r.kids[1] = <<>> /\ Len(r.kids) = 1
  BY <1>1 DEF Nodes
<1>7. ~IsDue(r) /\ InUse(r) = 1 /\ Slots(r, 1) = <<>>
  BY <1>1, <1>6 DEF IsDue, InUse, Slots
<1>8. IsReader(r, C)
  <2>1. <<NoLabel>> \in Seq(Labels(C))
    BY <1>3
  <2>2. << <<>> >> \in Seq(Seq(Nat)) /\ <<>> \in Seq(Nat)
    OBVIOUS
  <2>3. r \in [at : Places, open : Seq(Nat), label : Seq(Labels(C)), kids : Seq(Seq(Nat)),
               earlier : Nat, room : Nat, readable : BOOLEAN]
    BY <2>1, <2>2 DEF Start, Places
  <2> HIDE DEF r
  <2>4. QED
    BY <1>6, <2>3 DEF IsReader
<1> HIDE DEF p, r
<1>9. InOrder(r)
  <2>1. \A k \in 1..1 : r.kids[k] = <<>>
    BY <1>6
  <2>2. Len(<<>>) = 0
    OBVIOUS
  <2>3. QED
    BY <1>6, <2>1, <2>2 DEF InOrder
<1>10. IsPath(r)
  <2>1. Len(r.open) = 0
    BY <1>1
  <2>2. QED
    BY <1>1, <2>1 DEF IsPath
<1>11. IsPlaced(r)
  BY <1>1 DEF IsPlaced
<1>12. StackSize \in Nat /\ StackSize >= 2
  BY StackAssumption
<1>13. Stands(p, r)
  BY <1>1, <1>2, <1>7, <1>12 DEF Stands
<1>14. \A k \in 1..StackSize : p.pool[k] = Blank
  BY <1>2
<1>15. HasLabels(p, r)
  BY <1>5, <1>6, <1>7, <1>12, <1>14 DEF HasLabels
<1>16. HasLinks(p, r)
  <2>1. Len(<<>>) = 0 /\ 1 \in 1..StackSize
    BY <1>12
  <2>2. /\ p.pool[1].parent = 0 /\ p.pool[1].child = 0 /\ p.pool[1].size = 0
    BY <1>5, <1>14, <2>1
  <2>3. QED
    BY <1>1, <1>6, <1>7, <2>1, <2>2 DEF HasLinks
<1>17. Fits(r)
  BY <1>1, <1>12 DEF Fits
<1>18. QED
  BY <1>4, <1>8, <1>9, <1>10, <1>11, <1>13, <1>15, <1>16, <1>17
     DEF Together, ReaderInv, Mirrors, p, r

\* What the tokens of a text, and the strings of them, are.
LEMMA ContentsFacts ==
    ASSUME NEW text, NEW token \in Range(text)
    PROVE  /\ NULL \in Contents(text) /\ token \in Contents(text)
           /\ token.t = "string" => Str(Decoded(token.s)) \in Contents(text)
<1>1. NULL \in Contents(text) /\ token \in Contents(text)
  BY DEF Contents
<1>2. token.t = "string" => Str(Decoded(token.s)) \in Contents(text)
  BY Zenon DEF Contents
<1>3. QED
  BY <1>1, <1>2

\* The parser and the reader stay together all along a text.
LEMMA TogetherAlong ==
    ASSUME NEW text, text \in Seq(Range(text)),
           NEW h, IsRun(h, text, Len(text)), NEW g, IsReading(g, text, Len(text))
    PROVE  \A k \in 0..Len(text) : Together(h[k], g[k], Contents(text))
<1> DEFINE C == Contents(text)
           N == Len(text)
           S == {k \in Nat : k <= N => Together(h[k], g[k], C)}
<1>1. N \in Nat
  OBVIOUS
<1>2. h[0] = json_init /\ \A k \in 1..N : h[k] = Step(h[k - 1], text[k])
  BY <1>1, RunElements
<1>3. g[0] = Start /\ \A k \in 1..N : g[k] = Passed(g[k - 1], text[k])
  BY <1>1, ReadingElements
<1>4. NULL \in C
  BY DEF Contents
<1>5. \A k \in 1..N : text[k] \in Range(text)
  OBVIOUS
<1> HIDE DEF C, N
<1>6. 0 \in S
  BY <1>2, <1>3, <1>4, TogetherStart
<1>7. ASSUME NEW k \in Nat, k \in S
      PROVE  k + 1 \in S
  <2> SUFFICES ASSUME k + 1 <= N PROVE Together(h[k + 1], g[k + 1], C)
    OBVIOUS
  <2>1. k + 1 \in 1..N /\ k + 1 - 1 = k /\ k <= N
    BY <1>1
  <2>2. Together(h[k], g[k], C)
    BY <1>7, <2>1
  <2>3. h[k + 1] = Step(h[k], text[k + 1]) /\ g[k + 1] = Passed(g[k], text[k + 1])
    BY <1>2, <1>3, <2>1
  <2>4. text[k + 1] \in Range(text)
    BY <1>5, <2>1
  <2>5. text[k + 1] \in C /\ (text[k + 1].t = "string" => Str(Decoded(text[k + 1].s)) \in C)
    BY <2>4, ContentsFacts DEF C
  <2>6. QED
    BY <1>4, <2>2, <2>3, <2>5, TogetherStep
<1> HIDE DEF S
<1>8. \A k \in Nat : k \in S
  BY <1>6, <1>7, Induction
<1>9. QED
  BY <1>1, <1>8 DEF S, C, N

-----------------------------------------------------------------------------
(* The tree, as the getters find it                                         *)

\* t has the first n elements of s, and no other.
HasFirst(t, s, n) == t \in Seq(Nat) /\ Len(t) = n /\ \A j \in 1..n : t[j] = s[j]

\* One more element of s, if that is where the links lead.
LEMMA LinkedMore ==
    ASSUME NEW pool, NEW obj, NEW s \in Seq(Nat), NEW n \in Nat, n + 1 <= Len(s),
           NEW sofar, HasFirst(sofar, s, n), s[n + 1] # 0,
           n = 0 => pool[obj].child = s[1], n > 0 => pool[s[n]].next = s[n + 1],
           NEW t, t = Linked(pool, obj, n + 1, sofar)
    PROVE  HasFirst(t, s, n + 1)
<1> DEFINE e == s[n + 1]
<1>1. e \in Nat
  OBVIOUS
<1>2. sofar \in Seq(Nat) /\ Len(sofar) = n /\ \A j \in 1..n : sofar[j] = s[j]
  BY DEF HasFirst
<1>3. sofar = <<>> <=> n = 0
  BY <1>2, EmptyFacts
<1>4. t = Append(sofar, e)
  <2>1. CASE n = 0
    BY <1>3, <2>1 DEF Linked
  <2>2. CASE n > 0
    <3>1. sofar # <<>> /\ sofar[Len(sofar)] = s[n]
      BY <1>2, <1>3, <2>2
    <3>2. pool[sofar[Len(sofar)]].next = e
      BY <2>2, <3>1
    <3>3. QED
      BY <3>1, <3>2 DEF Linked
  <2>3. n = 0 \/ n > 0
    OBVIOUS
  <2> HIDE DEF e
  <2>4. QED
    BY <2>1, <2>2, <2>3
<1>5. /\ Append(sofar, e) \in Seq(Nat) /\ Len(Append(sofar, e)) = n + 1
      /\ \A j \in 1..n : Append(sofar, e)[j] = sofar[j]
      /\ Append(sofar, e)[n + 1] = e
  <2> HIDE DEF e
  <2>1. /\ Append(sofar, e) \in Seq(Nat) /\ Len(Append(sofar, e)) = Len(sofar) + 1
        /\ \A j \in 1..Len(sofar) : Append(sofar, e)[j] = sofar[j]
        /\ Append(sofar, e)[Len(sofar) + 1] = e
    BY <1>1, <1>2, AppendFacts
  <2>2. QED
    BY <1>2, <2>1
<1>6. \A j \in 1..n + 1 : Append(sofar, e)[j] = s[j]
  <2> DEFINE u == Append(sofar, e)
  <2>1. /\ \A j \in 1..n : u[j] = s[j]
        /\ u[n + 1] = s[n + 1]
    BY <1>2, <1>5
  <2> HIDE DEF u
  <2>2. \A j \in 1..n + 1 : j \in 1..n \/ j = n + 1
    OBVIOUS
  <2>3. \A j \in 1..n + 1 : u[j] = s[j]
    BY <2>1, <2>2
  <2>4. QED
    BY <2>3 DEF u
<1> HIDE DEF e
<1>7. QED
  BY <1>4, <1>5, <1>6 DEF HasFirst

\* All the elements of s, when the links end there.
LEMMA LinkedAll ==
    ASSUME NEW pool, NEW obj, NEW s \in Seq(Nat), NEW k \in Nat, k >= Len(s),
           NEW sofar, HasFirst(sofar, s, Len(s)),
           Len(s) = 0 => pool[obj].child = 0, Len(s) > 0 => pool[s[Len(s)]].next = 0,
           NEW t, t = Linked(pool, obj, k + 1, sofar)
    PROVE  HasFirst(t, s, Len(s))
<1> DEFINE n == Len(s)
<1>1. n \in Nat
  OBVIOUS
<1>2. sofar \in Seq(Nat) /\ Len(sofar) = n /\ \A j \in 1..n : sofar[j] = s[j]
  BY DEF HasFirst
<1>3. sofar = <<>> <=> n = 0
  BY <1>2, EmptyFacts
<1>4. t = sofar
  <2>1. CASE n = 0
    BY <1>3, <2>1 DEF Linked
  <2>2. CASE n > 0
    <3>1. sofar # <<>> /\ sofar[Len(sofar)] = s[n]
      BY <1>1, <1>2, <1>3, <2>2
    <3>2. pool[sofar[Len(sofar)]].next = 0
      BY <2>2, <3>1
    <3>3. QED
      BY <3>1, <3>2 DEF Linked
  <2>3. QED
    BY <1>1, <2>1, <2>2
<1>5. QED
  BY <1>4

\* The getters find the slots of a node, in their order, however many its size counts.
LEMMA ChildrenFound ==
    ASSUME NEW C, NEW r, ReaderInv(r, C), NEW p, Mirrors(p, r, C), NEW k \in 1..Nodes(r)
    PROVE  Children(p.pool, k) = Slots(r, k)
<1> DEFINE s == Slots(r, k)
           more == IF k = 1 THEN r.earlier ELSE 0
           size == Len(s) + more
<1>1. /\ s \in Seq(Nat) /\ Len(s) \in Nat /\ (s = <<>> <=> Len(s) = 0)
      /\ p.pool[k].child = IF s = <<>> THEN 0 ELSE s[1]
      /\ p.pool[k].size = size
      /\ \A i \in 1..Len(s) : /\ s[i] \in k + 1..InUse(r)
                              /\ p.pool[s[i]].next = IF i = Len(s) THEN 0 ELSE s[i + 1]
  BY LinkFacts
<1>2. more \in Nat
  BY DEF ReaderInv, IsReader
<1>3. k \in Nat
  BY MirrorFacts
<1> HIDE DEF s, more
<1>4. size \in Nat /\ size >= Len(s)
  BY <1>1, <1>2
<1>5. \A i \in 1..Len(s) : s[i] # 0
  BY <1>1, <1>3
<1>6. PICK h : IsChain(h, p.pool, k, size) /\ Children(p.pool, k) = h[size]
  <2> HIDE DEF size
  <2>1. QED
    BY <1>1, <1>4, ChildrenAre
<1> HIDE DEF size
<1>7. h[0] = <<>> /\ \A i \in 1..size : h[i] = Linked(p.pool, k, i, h[i - 1])
  BY <1>4, <1>6, ChainElements
<1> DEFINE S == {i \in Nat : i <= size => /\ i <= Len(s) => HasFirst(h[i], s, i)
                                          /\ i >= Len(s) => HasFirst(h[i], s, Len(s))}
<1>8. 0 \in S
  <2>1. HasFirst(h[0], s, 0)
    BY <1>7 DEF HasFirst
  <2>2. QED
    BY <1>1, <2>1
<1>9. ASSUME NEW i \in Nat, i \in S
      PROVE  i + 1 \in S
  <2> SUFFICES ASSUME i + 1 <= size
               PROVE  /\ i + 1 <= Len(s) => HasFirst(h[i + 1], s, i + 1)
                      /\ i + 1 >= Len(s) => HasFirst(h[i + 1], s, Len(s))
    OBVIOUS
  <2>1. h[i + 1] = Linked(p.pool, k, i + 1, h[i]) /\ i <= size
    <3>1. i + 1 \in 1..size /\ i + 1 - 1 = i /\ i <= size
      BY <1>4
    <3>2. QED
      BY <1>7, <3>1
  <2>2. CASE i + 1 <= Len(s)
    <3>1. HasFirst(h[i], s, i)
      BY <1>1, <1>9, <2>1, <2>2
    <3>2. s[i + 1] # 0
      BY <1>1, <1>5, <2>2
    <3>3. i = 0 => p.pool[k].child = s[1]
      BY <1>1, <2>2
    <3>4. ASSUME i > 0 PROVE p.pool[s[i]].next = s[i + 1]
      <4>1. i \in 1..Len(s) /\ i # Len(s)
        BY <1>1, <2>2, <3>4
      <4>2. QED
        BY <1>1, <4>1
    <3>5. HasFirst(h[i + 1], s, i + 1)
      <4>1. s \in Seq(Nat) /\ (i > 0 => p.pool[s[i]].next = s[i + 1])
        BY <1>1, <3>4
      <4>2. QED
        BY <2>1, <2>2, <3>1, <3>2, <3>3, <4>1, LinkedMore
    <3>6. i + 1 >= Len(s) => i + 1 = Len(s)
      BY <1>1, <2>2
    <3>7. QED
      BY <3>5, <3>6
  <2>3. CASE ~(i + 1 <= Len(s))
    <3>1. i >= Len(s)
      BY <1>1, <2>3
    <3>2. HasFirst(h[i], s, Len(s))
      BY <1>9, <2>1, <3>1
    <3>3. Len(s) = 0 => p.pool[k].child = 0
      BY <1>1
    <3>4. ASSUME Len(s) > 0 PROVE p.pool[s[Len(s)]].next = 0
      <4>1. Len(s) \in 1..Len(s)
        BY <1>1, <3>4
      <4>2. QED
        BY <1>1, <4>1
    <3>5. HasFirst(h[i + 1], s, Len(s))
      BY <1>1, <2>1, <3>1, <3>2, <3>3, <3>4, LinkedAll
    <3>6. QED
      BY <2>3, <3>5
  <2>4. QED
    BY <2>2, <2>3
<1> HIDE DEF S
<1>10. size \in S
  BY <1>4, <1>8, <1>9, Induction
<1>11. HasFirst(h[size], s, Len(s))
  BY <1>4, <1>10 DEF S
<1>12. h[size] = s
  <2> DEFINE t == h[size]
  <2>1. s \in Seq(Nat) /\ t \in Seq(Nat) /\ Len(t) = Len(s) /\ \A j \in 1..Len(s) : t[j] = s[j]
    BY <1>1, <1>11 DEF HasFirst
  <2> HIDE DEF t
  <2>2. t = s
    BY <2>1, SeqEqual
  <2>3. QED
    BY <2>2 DEF t
<1>13. QED
  BY <1>6, <1>12 DEF s

\* Outside of every object, the pool has the tree of the reader.
LEMMA TreeIsThere ==
    ASSUME NEW C, NEW r, ReaderInv(r, C), r.at = "outside", NEW p, Mirrors(p, r, C)
    PROVE  HasTree(p, r) /\ p.parent = 0
<1>1. r.open = <<>> /\ ~IsDue(r)
  BY DEF ReaderInv, IsPath, IsDue
<1>2. p.state = "reading" /\ p.current = 1 /\ p.parent = 0
  BY <1>1 DEF Mirrors, Stands
<1>3. ASSUME NEW k \in 1..Nodes(r)
      PROVE  /\ Label(p.pool[k].type, p.pool[k].key, p.pool[k].value) = r.label[k]
             /\ Children(p.pool, k) = r.kids[k]
             /\ p.pool[k].size = Len(r.kids[k]) + (IF k = 1 THEN r.earlier ELSE 0)
  <2>1. Slots(r, k) = r.kids[k]
    BY <1>1 DEF Slots
  <2>2. Children(p.pool, k) = r.kids[k]
    BY <2>1, ChildrenFound
  <2>3. p.pool[k].size = Len(r.kids[k]) + (IF k = 1 THEN r.earlier ELSE 0)
    BY <2>1 DEF Mirrors, HasLinks
  <2>4. Label(p.pool[k].type, p.pool[k].key, p.pool[k].value) = r.label[k]
    <3>1. /\ p.pool[k].type = r.label[k].type /\ p.pool[k].key = r.label[k].key
          /\ p.pool[k].value = r.label[k].value
      BY DEF Mirrors, HasLabels
    <3>2. r.label[k] \in Labels(C)
      BY ElementFacts DEF ReaderInv, IsReader, Nodes
    <3>3. QED
      BY <3>1, <3>2 DEF Label, Labels
  <2>5. QED
    BY <2>2, <2>3, <2>4
<1>4. QED
  BY <1>2, <1>3 DEF HasTree

-----------------------------------------------------------------------------
(* The text                                                                 *)

\* What Filled makes of where a reader is.
LEMMA FilledAt ==
    ASSUME NEW C, NULL \in C, NEW r, ReaderInv(r, C), MayHaveValue(r),
           NEW type \in Types \ {"UNDEFINED"}, NEW content \in C,
           NEW q, q = Filled(Node(r), type, content)
    PROVE  q.at = "after"
<1> DEFINE v == Node(r)
<1>1. ReaderInv(v, C)
  BY NodeKeeps
<1> HIDE DEF v
<1>2. q = Filled(v, type, content) /\ type \in Types /\ IsReader(v, C)
  BY <1>1 DEF ReaderInv, v
<1>3. QED
  BY <1>2, FilledFields

\* What Opened makes of where a reader is.
LEMMA OpenedAt ==
    ASSUME NEW C, NULL \in C, NEW r, ReaderInv(r, C), MayHaveValue(r),
           NEW type \in {"object", "array"}, NEW q, q = Opened(Node(r), type)
    PROVE  q.at = "first"
<1> DEFINE v == Node(r)
<1>1. ReaderInv(v, C)
  BY NodeKeeps
<1> HIDE DEF v
<1>2. q = Opened(v, type) /\ type \in Types /\ IsReader(v, C)
  BY <1>1 DEF ReaderInv, v, Types
<1>3. QED
  BY <1>2, OpenedFields

\* The mark of an array closes none that is outermost.
LEMMA ArrayIsInside ==
    ASSUME NEW C, NEW r, ReaderInv(r, C), r.at \in {"first", "after"}, TopType(r) = "array",
           NEW q, q = Closed(r)
    PROVE  q.at # "outside"
<1>1. r.open # <<>> /\ IsReader(r, C)
  BY OpenFacts DEF ReaderInv
<1>2. Len(r.open) # 1
  <2>1. r.open[1] = 1 /\ r.label[1].type = "object"
    BY <1>1 DEF ReaderInv, IsPath
  <2>2. QED
    BY <2>1 DEF TopType, Top
<1>3. q.at = "after"
  BY <1>1, <1>2, ClosedOpen
<1>4. QED
  BY <1>3

\* Only the mark of an object leads outside.
LEMMA LastToken ==
    ASSUME NEW C, NULL \in C, NEW r, ReaderInv(r, C), NEW token \in C,
           token.t = "string" => Str(Decoded(token.s)) \in C,
           NEW q, q = Taken(r, token), q.at = "outside"
    PROVE  token.t = "}"
<1>1. CASE token.t = "{" /\ r.at = "outside"
  <2>1. q = OpenedAgain(r)
    BY <1>1, Zenon DEF Taken, MayHaveValue, IsDue, Primitives
  <2>2. IsReader(r, C)
    BY DEF ReaderInv
  <2>3. IsOpenedAgain(q, r, C)
    BY <2>1, <2>2, OpenedAgainFields
  <2>4. QED
    BY <2>3 DEF IsOpenedAgain
<1>2. CASE token.t = "{" /\ MayHaveValue(r)
  <2>1. q = Opened(Node(r), "object")
    BY <1>2, Zenon DEF Taken, MayHaveValue, IsDue, Primitives
  <2>2. q.at = "first"
    BY <1>2, <2>1, OpenedAt
  <2>3. QED
    BY <2>2
<1>3. CASE token.t = "[" /\ MayHaveValue(r)
  <2>1. q = Opened(Node(r), "array")
    BY <1>3, Zenon DEF Taken, MayHaveValue, IsDue, Primitives
  <2>2. q.at = "first"
    BY <1>3, <2>1, OpenedAt
  <2>3. QED
    BY <2>2
<1>4. CASE token.t = "}" /\ r.at \in {"first", "after"} /\ TopType(r) = "object"
  BY <1>4, Zenon
<1>5. CASE token.t = "]" /\ r.at \in {"first", "after"} /\ TopType(r) = "array"
  <2>1. q = Closed(r)
    BY <1>5, Zenon DEF Taken, MayHaveValue, IsDue, Primitives
  <2>2. q.at # "outside"
    BY <1>5, <2>1, ArrayIsInside
  <2>3. QED
    BY <2>2
<1>6. CASE token.t = "," /\ r.at = "after"
  <2>1. q = At(r, "next")
    BY <1>6, Zenon DEF Taken, MayHaveValue, IsDue, Primitives
  <2>2. QED
    BY <2>1 DEF At, ReaderInv, IsReader
<1>7. CASE token.t = ":" /\ r.at = "colon"
  <2>1. q = At(r, "value")
    BY <1>7, Zenon DEF Taken, MayHaveValue, IsDue, Primitives
  <2>2. QED
    BY <2>1 DEF At, ReaderInv, IsReader
<1>8. CASE token.t = "string" /\ IsDue(r) /\ TopType(r) = "object"
  <2>1. q = At(Begin(r, Str(Decoded(token.s))), "colon")
    BY <1>8, Zenon DEF Taken, MayHaveValue, IsDue, Primitives
  <2>2. Str(Decoded(token.s)) \in C /\ r.open # <<>>
    BY <1>8, OpenFacts DEF IsDue
  <2> DEFINE b == Begin(r, Str(Decoded(token.s)))
  <2>3. IsReader(b, C)
    BY <2>2, BeginFields
  <2> HIDE DEF b
  <2>4. q = At(b, "colon")
    BY <2>1 DEF b
  <2>5. QED
    BY <2>3, <2>4 DEF At, IsReader
<1>9. CASE token.t = "string" /\ MayHaveValue(r)
  <2>1. q = Filled(Node(r), "string", Str(Decoded(token.s)))
    BY <1>9, Zenon DEF Taken, MayHaveValue, IsDue, Primitives
  <2>2. "string" \in Types \ {"UNDEFINED"} /\ Str(Decoded(token.s)) \in C
    BY <1>9 DEF Types
  <2>3. q = Filled(Node(r), "string", Str(Decoded(token.s)))
    BY <2>1
  <2>4. q.at = "after"
    BY <1>9, <2>2, <2>3, FilledAt
  <2>5. QED
    BY <2>4
<1>10. CASE token.t \in {"number", "decimal"} /\ MayHaveValue(r)
  <2>1. q = [Filled(Node(r), "number", token) EXCEPT !.readable = @ /\ ~Unreadable(token)]
    BY <1>10, Zenon DEF Taken, MayHaveValue, IsDue, Primitives
  <2> DEFINE f == Filled(Node(r), "number", token)
  <2>2. "number" \in Types \ {"UNDEFINED"}
    BY DEF Types
  <2>3. f.at = "after"
    BY <1>10, <2>2, FilledAt
  <2>4. ReaderInv(f, C)
    BY <1>10, <2>2, StoreKeeps
  <2> DEFINE readable == f.readable /\ ~Unreadable(token)
  <2> HIDE DEF f
  <2>5. q = [f EXCEPT !.readable = readable]
    BY <2>1 DEF f
  <2> HIDE DEF readable
  <2>6. q.at = f.at
    BY <2>4, <2>5 DEF ReaderInv, IsReader
  <2>7. QED
    BY <2>3, <2>6
<1>11. CASE token.t \in Primitives /\ MayHaveValue(r)
  <2>1. q = Filled(Node(r), IF token.t = "null" THEN "null" ELSE "boolean", token)
    BY <1>11, Zenon DEF Taken, MayHaveValue, IsDue, Primitives
  <2> DEFINE type == IF token.t = "null" THEN "null" ELSE "boolean"
  <2>2. type \in Types \ {"UNDEFINED"} /\ token \in C
    BY <1>11 DEF Types
  <2>3. q = Filled(Node(r), type, token)
    BY <2>1
  <2> HIDE DEF type
  <2>4. q.at = "after"
    BY <1>11, <2>2, <2>3, FilledAt
  <2>5. QED
    BY <2>4
<1>12. CASE ~(\/ token.t = "{" /\ r.at = "outside"
              \/ token.t = "{" /\ MayHaveValue(r)
              \/ token.t = "[" /\ MayHaveValue(r)
              \/ token.t = "}" /\ r.at \in {"first", "after"} /\ TopType(r) = "object"
              \/ token.t = "]" /\ r.at \in {"first", "after"} /\ TopType(r) = "array"
              \/ token.t = "," /\ r.at = "after"
              \/ token.t = ":" /\ r.at = "colon"
              \/ token.t = "string" /\ IsDue(r) /\ TopType(r) = "object"
              \/ token.t = "string" /\ MayHaveValue(r)
              \/ token.t \in {"number", "decimal"} /\ MayHaveValue(r)
              \/ token.t \in Primitives /\ MayHaveValue(r))
  <2>1. q = At(r, "wrong")
    BY <1>12, Zenon DEF Taken
  <2>2. QED
    BY <2>1 DEF At, ReaderInv, IsReader
<1>13. QED
  BY <1>1, <1>2, <1>3, <1>4, <1>5, <1>6, <1>7, <1>8, <1>9, <1>10, <1>11, <1>12, Zenon

\* Outside, only an object may be opened.
LEMMA FirstToken ==
    ASSUME NEW token, token.t # "{"
    PROVE  Taken(Start, token) = At(Start, "wrong")
<1>1. Start.at = "outside"
  BY DEF Start
<1>2. QED
  BY <1>1, Zenon DEF Taken, MayHaveValue, IsDue

\* A reader that is wrong stays as it is.
LEMMA WrongStays ==
    ASSUME NEW text, NEW n \in Nat, NEW g, IsReading(g, text, n), NEW k \in 0..n,
           g[k].at = "wrong"
    PROVE  g[n] = g[k]
<1>1. \A i \in 1..n : g[i] = Passed(g[i - 1], text[i])
  BY ReadingElements
<1> DEFINE S == {i \in Nat : k + i <= n => g[k + i] = g[k]}
<1>2. 0 \in S
  OBVIOUS
<1>3. ASSUME NEW i \in Nat, i \in S
      PROVE  i + 1 \in S
  <2> SUFFICES ASSUME k + (i + 1) <= n PROVE g[k + (i + 1)] = g[k]
    OBVIOUS
  <2>1. k + i + 1 \in 1..n /\ k + i + 1 - 1 = k + i /\ k + i <= n /\ k + (i + 1) = k + i + 1
    OBVIOUS
  <2>2. g[k + i] = g[k]
    BY <1>3, <2>1
  <2>3. g[k + i + 1] = Passed(g[k + i], text[k + i + 1])
    BY <1>1, <2>1
  <2>4. QED
    BY <2>1, <2>2, <2>3 DEF Passed
<1> HIDE DEF S
<1>4. n - k \in Nat /\ k + (n - k) = n
  OBVIOUS
<1>5. n - k \in S
  BY <1>2, <1>3, <1>4, Induction
<1>6. QED
  BY <1>4, <1>5 DEF S

\* Where a token leads is where the reader has taken it.
LEMMA PassedAt ==
    ASSUME NEW r, r.at # "wrong", NEW token, token # Space,
           NEW C, IsReader(Taken(r, token), C), NEW q, q = Passed(r, token)
    PROVE  q.at = Taken(r, token).at
<1> DEFINE t == Taken(r, token)
<1>1. q = [t EXCEPT !.room = IF InUse(t) > t.room THEN InUse(t) ELSE t.room]
  BY Zenon DEF Passed
<1> HIDE DEF t
<1>2. QED
  BY <1>1 DEF IsReader, t

\* No step of g, the reader of a text without blanks that ends outside, is wrong.
IsRight(g, text) ==
    /\ g[0] = Start /\ g[Len(text)].at = "outside"
    /\ \A k \in 1..Len(text) : /\ ReaderInv(g[k - 1], Contents(text))
                               /\ g[k].at = Taken(g[k - 1], text[k]).at
                               /\ Taken(g[k - 1], text[k]) # At(g[k - 1], "wrong")

LEMMA StepsAreRight ==
    ASSUME NEW text, text \in Seq(Range(text)), \A k \in 1..Len(text) : text[k] # Space,
           ReaderAfter(text).at = "outside"
    PROVE  \E g : IsRight(g, text)
<1> DEFINE C == Contents(text)
           N == Len(text)
<1>1. N \in Nat
  OBVIOUS
<1>2. NULL \in C
  BY DEF Contents
<1>3. \A k \in 1..N : text[k] \in Range(text) /\ text[k] # Space
  OBVIOUS
<1>4. \A k \in 1..N : /\ text[k] \in C
                      /\ text[k].t = "string" => Str(Decoded(text[k].s)) \in C
  BY <1>3, ContentsFacts
<1>5. PICK g : IsReading(g, text, N) /\ ReaderAfter(text) = g[N]
  BY ReaderAfterIs
<1>6. PICK h : IsRun(h, text, N)
  BY <1>1, RunExist
<1>7. \A k \in 0..N : Together(h[k], g[k], C)
  BY <1>5, <1>6, TogetherAlong
<1> HIDE DEF C, N
<1>8. g[N].at = "outside"
  BY <1>5
<1>9. \A k \in 0..N : g[k].at # "wrong"
  BY <1>1, <1>5, <1>8, WrongStays
<1>10. g[0] = Start /\ \A k \in 1..N : g[k] = Passed(g[k - 1], text[k])
  BY <1>1, <1>5, ReadingElements
<1>11. ASSUME NEW k \in 1..N
       PROVE  /\ ReaderInv(g[k - 1], C)
              /\ g[k].at = Taken(g[k - 1], text[k]).at
              /\ Taken(g[k - 1], text[k]) # At(g[k - 1], "wrong")
  <2> DEFINE r == g[k - 1]
             t == Taken(r, text[k])
  <2>1. k - 1 \in 0..N /\ k \in 0..N
    BY <1>1
  <2>2. Together(h[k - 1], r, C) /\ r.at # "wrong" /\ g[k].at # "wrong"
    BY <1>7, <1>9, <2>1
  <2>3. ReaderInv(r, C)
    BY <2>2 DEF Together
  <2>4. g[k] = Passed(r, text[k])
    BY <1>10
  <2> HIDE DEF r
  <2>5. t = At(r, "wrong") \/ Tracks(Step(h[k - 1], text[k]), t, h[k - 1], r, C)
    BY <1>2, <1>4, <2>3, TokenTracks
  <2>6. IsReader(t, C)
    <3> HIDE DEF t
    <3>1. CASE t = At(r, "wrong")
      BY <2>3, <3>1 DEF At, ReaderInv, IsReader, Places, Nodes
    <3>2. CASE Tracks(Step(h[k - 1], text[k]), t, h[k - 1], r, C)
      BY <3>2 DEF Tracks, ReaderInv
    <3>3. QED
      BY <2>5, <3>1, <3>2
  <2>7. g[k].at = t.at
    BY <1>3, <2>2, <2>4, <2>6, PassedAt
  <2>8. t # At(r, "wrong")
    <3> HIDE DEF t
    <3>1. At(r, "wrong").at = "wrong"
      BY <2>3 DEF At, ReaderInv, IsReader
    <3>2. QED
      BY <2>2, <2>7, <3>1
  <2>9. QED
    BY <2>3, <2>7, <2>8 DEF r
<1>12. QED
  BY <1>8, <1>10, <1>11, Zenon DEF IsRight, C, N

\* A text that is not wrong, and leaves nothing open, has its braces.
LEMMA TextIsBraced ==
    ASSUME NEW text, text \in Seq(Range(text)), Len(text) > 2,
           \A k \in 1..Len(text) : text[k] # Space,
           ReaderAfter(text).at = "outside"
    PROVE  IsBraced(text)
<1> DEFINE C == Contents(text)
           N == Len(text)
<1>1. N \in Nat /\ N > 2
  OBVIOUS
<1>2. PICK g : IsRight(g, text)
  BY StepsAreRight
<1>3. /\ g[0] = Start /\ g[N].at = "outside"
      /\ \A k \in 1..N : /\ ReaderInv(g[k - 1], C)
                         /\ g[k].at = Taken(g[k - 1], text[k]).at
                         /\ Taken(g[k - 1], text[k]) # At(g[k - 1], "wrong")
  BY <1>2, Zenon DEF IsRight
<1>4. \A k \in 1..N : text[k] \in Range(text)
  OBVIOUS
<1>5. \A k \in 1..N : /\ text[k] \in C
                      /\ text[k].t = "string" => Str(Decoded(text[k].s)) \in C
  BY <1>4, ContentsFacts
<1>6. NULL \in C
  BY DEF Contents
<1> HIDE DEF C, N
<1>7. text[1].t = "{"
  <2>1. 1 \in 1..N /\ 1 - 1 = 0
    BY <1>1
  <2>2. Taken(Start, text[1]) # At(Start, "wrong")
    BY <1>3, <2>1
  <2>3. QED
    BY <2>2, FirstToken
<1>8. text[N].t = "}"
  <2>1. N \in 1..N
    BY <1>1
  <2>2. ReaderInv(g[N - 1], C) /\ Taken(g[N - 1], text[N]).at = "outside"
    BY <1>3, <2>1
  <2>3. text[N] \in C /\ (text[N].t = "string" => Str(Decoded(text[N].s)) \in C)
    BY <1>5, <2>1
  <2>4. QED
    BY <1>6, <2>2, <2>3, LastToken
<1>9. Len(text) >= 3
  BY <1>1 DEF N
<1>10. QED
  BY <1>7, <1>8, <1>9, Zenon DEF IsBraced, N

\* In such a text a comma or a closing mark comes after every number.
LEMMA NumbersEnd ==
    ASSUME NEW text, text \in Seq(Range(text)),
           \A k \in 1..Len(text) : text[k] # Space,
           ReaderAfter(text).at = "outside"
    PROVE  Scanned(text) = text
<1> DEFINE C == Contents(text)
           N == Len(text)
<1>1. N \in Nat /\ DOMAIN text = 1..N
  OBVIOUS
<1>2. PICK g : IsRight(g, text)
  BY StepsAreRight
<1>3. /\ g[N].at = "outside"
      /\ \A k \in 1..N : /\ ReaderInv(g[k - 1], C)
                         /\ g[k].at = Taken(g[k - 1], text[k]).at
                         /\ Taken(g[k - 1], text[k]) # At(g[k - 1], "wrong")
  BY <1>2, Zenon DEF IsRight
<1>4. \A k \in 1..N : text[k] \in Range(text)
  OBVIOUS
<1>5. NULL \in C /\ \A k \in 1..N : text[k] \in C
  BY <1>4, ContentsFacts DEF Contents
<1> HIDE DEF C, N
<1>6. ASSUME NEW k \in 1..N, text[k].t \in {"number", "-"}
      PROVE  IsEnded(text, k)
  <2> DEFINE r == g[k - 1]
  <2>1. ReaderInv(r, C) /\ Taken(r, text[k]) # At(r, "wrong")
    BY <1>3
  <2>2. text[k].t = "number" /\ MayHaveValue(r)
    BY <1>6, <2>1, Zenon DEF Taken, Primitives
  <2>3. Taken(r, text[k]) = [Filled(Node(r), "number", text[k])
                               EXCEPT !.readable = @ /\ ~Unreadable(text[k])]
    BY <2>2, Zenon DEF Taken, MayHaveValue, IsDue, Primitives
  <2>4. Filled(Node(r), "number", text[k]).at = "after"
    BY <1>5, <2>1, <2>2, FilledAt DEF Types
  <2>5. Taken(r, text[k]).at = "after"
    <3> DEFINE v == Filled(Node(r), "number", text[k])
               b == v.readable /\ ~Unreadable(text[k])
    <3>1. Taken(r, text[k]) = [v EXCEPT !.readable = b]
      BY <2>3
    <3>2. v.at = "after"
      BY <2>4
    <3>3. DOMAIN v = DOMAIN Node(r)
      BY Zenon DEF Filled
    <3> QED
      BY <3>1, <3>2
  <2>6. g[k].at = "after"
    BY <1>3, <2>5
  <2>7. k < N /\ k + 1 \in 1..N /\ k + 1 - 1 = k
    BY <1>1, <1>3, <2>6
  <2>8. Taken(g[k], text[k + 1]) # At(g[k], "wrong")
    BY <1>3, <2>7
  <2>9. text[k + 1].t \in {",", "]", "}"}
    BY <2>6, <2>8, Zenon DEF Taken, MayHaveValue, IsDue, Primitives
  <2>10. QED
    BY <2>7, <2>9 DEF IsEnded, N
<1>7. \A k \in DOMAIN text :
        (IF text[k].t \in {"number", "-"} /\ ~IsEnded(text, k) THEN Decimal ELSE text[k]) = text[k]
  BY <1>1, <1>6
<1>8. Scanned(text) = [k \in DOMAIN text |-> text[k]]
  BY <1>7 DEF Scanned
<1>9. QED
  BY <1>8

\* A text as json_parse takes its numbers has its length.
LEMMA ScannedFacts ==
    ASSUME NEW text, text \in Seq(Range(text)), NEW s, s = Scanned(text)
    PROVE  s \in Seq(Range(s)) /\ Len(s) = Len(text)
<1> DEFINE f(k) == IF text[k].t \in {"number", "-"} /\ ~IsEnded(text, k) THEN Decimal ELSE text[k]
<1>1. DOMAIN text = 1..Len(text) /\ Len(text) \in Nat
  OBVIOUS
<1>2. s = [k \in 1..Len(text) |-> f(k)]
  BY <1>1 DEF Scanned
<1> HIDE DEF f
<1>3. DOMAIN s = 1..Len(text)
  BY <1>2
<1>4. \A k \in 1..Len(text) : s[k] \in Range(s)
  BY <1>3 DEF Range
<1>5. s = [k \in 1..Len(text) |-> s[k]]
  BY <1>2, <1>3
<1>6. s \in [1..Len(text) -> Range(s)]
  BY <1>4, <1>5
<1>7. QED
  BY <1>1, <1>3, <1>6

\* After a text the parser and the reader are together.
LEMMA TogetherAfter ==
    ASSUME NEW text, text \in Seq(Range(text))
    PROVE  Together(AfterTokens(text), ReaderAfter(text), Contents(text))
<1> DEFINE N == Len(text)
<1>1. N \in Nat /\ N \in 0..N
  OBVIOUS
<1>2. PICK h : IsRun(h, text, N) /\ AfterTokens(text) = h[N]
  BY AfterTokensIs
<1>3. PICK g : IsReading(g, text, N) /\ ReaderAfter(text) = g[N]
  BY ReaderAfterIs
<1>4. Together(h[N], g[N], Contents(text))
  BY <1>1, <1>2, <1>3, TogetherAlong
<1>5. QED
  BY <1>2, <1>3, <1>4

\* Every text of JSON objects, blanks anywhere in it, is read as IsRead says of it, and
\* every head of one.
THEOREM TextIsRead ==
    ASSUME NEW text, text \in Seq(Range(text))
    PROVE  IsRead(text)
<1> DEFINE s == Scanned(text)
           C == Contents(s)
           r == ReaderAfter(s)
           q == AfterTokens(s)
           p == json_parse(text)
<1>1. s \in Seq(Range(s))
  BY ScannedFacts
<1>2. Together(q, r, C)
  BY <1>1, TogetherAfter
<1>3. /\ ~IsBraced(text) => p = Refused(json_init)
      /\ IsBraced(text) => p = IF q.state = "reading" /\ q.parent # 0 THEN Refused(q) ELSE q
  BY DEF json_parse
<1>6. Refused(json_init).state = "refused"
  BY DEF Refused, json_init
<1> HIDE DEF C, r, q, p
<1>7. ASSUME r.at # "wrong"
      PROVE  IF r.at = "outside" /\ IsBraced(text) /\ Fits(r) THEN HasTree(p, r)
             ELSE p.state = "refused"
  <2>1. ReaderInv(r, C) /\ IF Fits(r) THEN Mirrors(q, r, C) ELSE q.state = "refused"
    BY <1>2, <1>7 DEF Together
  <2>2. CASE ~IsBraced(text)
    BY <1>3, <1>6, <2>2
  <2>3. CASE IsBraced(text) /\ ~Fits(r)
    BY <1>3, <2>1, <2>3
  <2>4. CASE IsBraced(text) /\ Fits(r) /\ r.at = "outside"
    <3>1. HasTree(q, r) /\ q.parent = 0
      BY <2>1, <2>4, TreeIsThere
    <3>2. QED
      BY <1>3, <2>4, <3>1
  <2>5. CASE IsBraced(text) /\ Fits(r) /\ r.at # "outside"
    <3>1. Mirrors(q, r, C)
      BY <2>1, <2>5
    <3>2. q.parent = Top(r) /\ Top(r) \in 1..Nodes(r)
      BY <2>1, <2>5, <3>1, StandsFacts
    <3>3. q.state = "reading" /\ q.parent # 0 /\ IsParser(q, C)
      BY <2>1, <3>1, <3>2, MirrorFacts
    <3>4. p = [q EXCEPT !.state = "refused"]
      BY <1>3, <2>5, <3>3 DEF Refused
    <3>5. p.state = "refused"
      BY <3>3, <3>4 DEF IsParser
    <3>6. QED
      BY <2>5, <3>5
  <2>6. QED
    BY <2>2, <2>3, <2>4, <2>5
<1>8. QED
  BY <1>7 DEF IsRead, r, p

\* All the texts, whatever they are.
THEOREM AllTextsAreRead == AllAreRead
<1>1. ASSUME NEW text \in Texts
      PROVE  IsRead(text)
  BY TextsAssumption, TextIsRead
<1>2. QED
  BY <1>1 DEF AllAreRead

\* The least number of a set is one of it.
LEMMA MinFacts ==
    ASSUME NEW T, T \subseteq Nat, T # {}
    PROVE  Min(T) \in T /\ \A y \in T : Min(T) <= y
<1>1. \E x \in T : \A y \in T : x <= y
  BY LeastNatural
<1>2. QED
  BY <1>1 DEF Min

\* What is found, in a tree that is there.
Finds(o, r, k, key) ==
    LET kids == r.kids[k]
    IN  \/ \E i \in 1..Len(kids) : /\ o = kids[i] /\ r.label[o].key = Str(key)
                                   /\ \A j \in 1..i - 1 : r.label[kids[j]].key # Str(key)
        \/ /\ \A i \in 1..Len(kids) : r.label[kids[i]].key # Str(key)
           /\ o = IF k = 1 /\ r.earlier > 0 THEN -1 ELSE 0

\* json_get finds the first member that has the key. If none has it, it leaves the
\* chain of the children only if it looks in the root, and an object that came before
\* in the same text had members.
THEOREM MembersAreFound ==
    ASSUME NEW text, text \in Seq(Range(text)), IsBraced(text),
           NEW r, r = ReaderAfter(Scanned(text)), r.at = "outside", Fits(r),
           NEW k \in 1..Nodes(r), r.label[k].type = "object", NEW key
    PROVE  Finds(json_get(json_parse(text).pool, k, key), r, k, key)
<1> DEFINE p == json_parse(text)
           C == Contents(Scanned(text))
           kids == r.kids[k]
           I == {i \in 1..Len(kids) : p.pool[kids[i]].key = Str(key)}
           size == p.pool[k].size
<1>1. ReaderInv(r, C)
  <2>1. Scanned(text) \in Seq(Range(Scanned(text)))
    BY ScannedFacts
  <2>2. Together(AfterTokens(Scanned(text)), r, C)
    BY <2>1, TogetherAfter
  <2>3. QED
    BY <2>2 DEF Together
<1>2. HasTree(p, r)
  BY TextIsRead DEF IsRead
<1> HIDE DEF p, C
<1>3. /\ k \in Nat /\ k >= 1 /\ kids \in Seq(Nat) /\ Len(kids) \in Nat
      /\ \A i \in 1..Len(kids) : kids[i] \in 1..Nodes(r)
  <2>1. Nodes(r) \in Nat /\ r.kids \in Seq(Seq(Nat)) /\ Len(r.kids) = Nodes(r)
    BY <1>1 DEF ReaderInv, IsReader, Nodes
  <2>2. kids \in Seq(Nat) /\ k \in Nat /\ k >= 1
    BY <2>1, ElementFacts
  <2>3. \A i \in 1..Len(kids) : kids[i] \in k + 1..Nodes(r)
    BY <1>1 DEF ReaderInv, InOrder
  <2>4. \A x \in k + 1..Nodes(r) : x \in 1..Nodes(r)
    BY <2>1, <2>2
  <2>5. QED
    BY <2>2, <2>3, <2>4, EmptyFacts
<1>4. /\ p.pool[k].type = "object" /\ Children(p.pool, k) = kids
      /\ size = Len(kids) + (IF k = 1 THEN r.earlier ELSE 0)
  <2>1. /\ Label(p.pool[k].type, p.pool[k].key, p.pool[k].value) = r.label[k]
        /\ Children(p.pool, k) = kids
        /\ size = Len(kids) + (IF k = 1 THEN r.earlier ELSE 0)
    BY <1>2 DEF HasTree
  <2>2. r.label[k].type = p.pool[k].type
    BY <2>1 DEF Label
  <2>3. QED
    BY <2>1, <2>2
<1>5. \A j \in 1..Nodes(r) : p.pool[j].key = r.label[j].key
  <2> TAKE j \in 1..Nodes(r)
  <2>1. Label(p.pool[j].type, p.pool[j].key, p.pool[j].value) = r.label[j]
    BY <1>2 DEF HasTree
  <2>2. QED
    BY <2>1 DEF Label
<1>6. r.earlier \in Nat
  BY <1>1 DEF ReaderInv, IsReader
<1>7. json_get(p.pool, k, key) = IF (IF I # {} THEN Min(I) ELSE 0) # 0
                                 THEN kids[IF I # {} THEN Min(I) ELSE 0]
                                 ELSE IF Len(kids) < size THEN -1 ELSE 0
  <2> DEFINE all == Children(p.pool, k)
             J == {i \in 1..Len(all) : p.pool[all[i]].key = Str(key)}
             f == IF J # {} THEN Min(J) ELSE 0
  <2>1. J = I /\ all = kids
    BY <1>4
  <2>2. ~(k <= 0 \/ p.pool[k].type # "object")
    BY <1>3, <1>4
  <2>3. json_get(p.pool, k, key) = IF f # 0 THEN all[f]
                                   ELSE IF Len(all) < size THEN -1 ELSE 0
    BY <2>2, Zenon DEF json_get, SelectInSeq
  <2> HIDE DEF J, all, I, kids
  <2>4. QED
    BY <2>1, <2>3
<1>8. I \subseteq Nat /\ 0 \notin I /\ I \subseteq 1..Len(kids)
  OBVIOUS
<1> HIDE DEF kids, size
<1>9. CASE I # {}
  <2> DEFINE m == Min(I)
  <2>1. m \in I /\ \A y \in I : m <= y
    <3> HIDE DEF I
    <3>1. QED
      BY <1>8, <1>9, MinFacts
  <2>2. json_get(p.pool, k, key) = kids[m]
    <3> HIDE DEF I
    <3>1. m # 0
      BY <1>8, <2>1
    <3>2. QED
      BY <1>7, <1>9, <3>1
  <2> HIDE DEF m
  <2>3. m \in 1..Len(kids) /\ p.pool[kids[m]].key = Str(key)
    BY <2>1
  <2>4. \A j \in 1..m - 1 : p.pool[kids[j]].key # Str(key)
    <3> SUFFICES ASSUME NEW j \in 1..m - 1, p.pool[kids[j]].key = Str(key) PROVE FALSE
      OBVIOUS
    <3>1. j \in 1..Len(kids) /\ ~(m <= j)
      BY <1>3, <2>3
    <3>2. j \in I
      BY <3>1
    <3>3. QED
      BY <2>1, <3>1, <3>2
  <2>5. \A j \in 1..m - 1 : j \in 1..Len(kids)
    BY <1>3, <2>3
  <2> HIDE DEF I
  <2>6. r.label[kids[m]].key = Str(key) /\ \A j \in 1..m - 1 : r.label[kids[j]].key # Str(key)
    BY <1>3, <1>5, <2>3, <2>4, <2>5
  <2>7. QED
    BY <2>2, <2>3, <2>6 DEF Finds, kids, p
<1>10. CASE I = {}
  <2>1. \A i \in 1..Len(kids) : r.label[kids[i]].key # Str(key)
    BY <1>3, <1>5, <1>10
  <2> HIDE DEF I
  <2>2. json_get(p.pool, k, key) = IF Len(kids) < size THEN -1 ELSE 0
    BY <1>7, <1>10
  <2>3. Len(kids) < size <=> k = 1 /\ r.earlier > 0
    BY <1>3, <1>4, <1>6
  <2>4. QED
    BY <2>1, <2>2, <2>3 DEF Finds, kids, p
<1>11. QED
  BY <1>9, <1>10
=============================================================================
