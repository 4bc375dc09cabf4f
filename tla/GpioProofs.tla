---------------------------- MODULE GpioProofs ----------------------------
(***************************************************************************)
(* What the GPIO driver remembers of its lines, proved for every table:    *)
(* any number of inputs and outputs, reversed or not.                      *)
(***************************************************************************)
EXTENDS Gpio, TLAPS

\* An event is never on an output, because its memory matches the line: reading
\* it finds no change. This ties the four together.
Inv == TypeOK /\ MemoryMatchesLine /\ UngrantedIsSilent /\ EventTellsEdge

\* gpio_compute_value makes a state of a level and takes it back.
LEMMA ComputeIsInverse ==
    ASSUME NEW id \in Ids, NEW v \in Levels
    PROVE  /\ gpio_compute_value(id, v) \in Levels
           /\ gpio_compute_value(id, gpio_compute_value(id, v)) = v
BY DEF gpio_compute_value, Levels

\* The program starts with a table that is all open, and with no handler.
LEMMA InvInit == Init => Inv
BY DEF Init, Inv, TypeOK, MemoryMatchesLine, UngrantedIsSilent, EventTellsEdge,
       Levels, OPEN

\* An initialisation, whole or stopped at line n, reads every line it gets.
LEMMA InitKeepsInv ==
    ASSUME Inv, NEW n \in 0..Count, gpio_init(n)
    PROVE  Inv'
<1>1. phase = "boot" /\ phase' = "ready"
  BY DEF gpio_init
<1>2. /\ handler' = [id \in Ids |-> IF id < n THEN "open"
                                    ELSE IF id = n THEN "none" ELSE handler[id]]
      /\ value' = [id \in Ids |-> IF id < n THEN gpio_compute_value(id, line'[id])
                                  ELSE IF id = n THEN OPEN ELSE value[id]]
      /\ event' = [id \in Ids |-> IF id <= n THEN "NONE" ELSE event[id]]
      /\ is_updated' = [id \in Ids |-> IF id <= n THEN id < n ELSE is_updated[id]]
  BY DEF gpio_init
<1>3. line' \in [Ids -> Levels]
  <2>1. InitState \in [Ids -> Levels] /\ line \in [Ids -> Levels]
    BY TableAssumption DEF TableAssumption, Inv, TypeOK
  <2>2. QED
    BY <2>1 DEF gpio_init, DefaultLevel
<1>4. \A id \in Ids : handler[id] # "open"
  BY <1>1 DEF Inv, TypeOK
<1>5. \A id \in Ids : handler'[id] = "open" <=> id < n
  BY <1>2, <1>4
<1>6. TypeOK'
  <2>1. handler' \in [Ids -> {"zero", "none", "open", "closed"}]
    BY <1>2 DEF Inv, TypeOK
  <2>2. value' \in [Ids -> Levels]
    BY <1>2, <1>3, ComputeIsInverse DEF Inv, TypeOK, Levels, OPEN
  <2>3. event' \in [Ids -> {"NONE", "RISING_EDGE", "FALLING_EDGE"}]
    BY <1>2 DEF Inv, TypeOK
  <2>4. is_updated' \in [Ids -> BOOLEAN]
    <3>1. \A id \in Ids : (id < n) \in BOOLEAN
      OBVIOUS
    <3>2. \A id \in Ids : is_updated[id] \in BOOLEAN
      BY DEF Inv, TypeOK
    <3>3. \A id \in Ids :
            (IF id <= n THEN id < n ELSE is_updated[id]) \in BOOLEAN
      BY <3>1, <3>2, Zenon
    <3>4. QED
      BY <1>2, <3>3, Zenon
  <2>5. QED
    BY <1>1, <1>3, <2>1, <2>2, <2>3, <2>4 DEF TypeOK
<1>7. MemoryMatchesLine'
  BY <1>2, <1>5 DEF MemoryMatchesLine, gpio_compute_value
<1>8. UngrantedIsSilent'
  <2> SUFFICES ASSUME NEW id \in Ids, handler'[id] \in {"zero", "none"}
               PROVE  value'[id] = OPEN /\ ~is_updated'[id]
    BY DEF UngrantedIsSilent
  <2>1. CASE id < n
    BY <1>2, <2>1
  <2>2. CASE id = n
    <3>1. value'[id] = OPEN
      BY <1>2, <2>2 DEF Ids
    <3>2. n <= n /\ ~(n < n)
      OBVIOUS
    <3>3. n \in Ids /\ ~is_updated'[n]
      BY <1>2, <2>2, <3>2, Zenon
    <3>4. QED
      BY <2>2, <3>1, <3>3
  <2>3. CASE id > n
    BY <1>2, <2>3 DEF Ids, Inv, UngrantedIsSilent
  <2>4. QED
    BY <2>1, <2>2, <2>3 DEF Ids
<1>9. EventTellsEdge'
  BY <1>2, <1>5 DEF Inv, EventTellsEdge, Ids
<1>10. QED
  BY <1>6, <1>7, <1>8, <1>9 DEF Inv

\* A read stores what the line does.
LEMMA ReadKeepsInv ==
    ASSUME Inv, NEW id \in Ids, gpio_read(id)
    PROVE  Inv'
<1> DEFINE state == gpio_compute_value(id, line[id])
<1>1. state \in Levels /\ line[id] \in Levels
  BY ComputeIsInverse DEF Inv, TypeOK
<1>2. /\ handler[id] = "open" /\ UNCHANGED <<phase, handler, line>>
      /\ value' = [value EXCEPT ![id] = state]
      /\ is_updated' \in [Ids -> BOOLEAN]
      /\ \A other \in Ids \ {id} : is_updated'[other] = is_updated[other]
      /\ event' = [event EXCEPT ![id] = IF state = value[id] THEN "NONE"
                                        ELSE Edge(id, state)]
  BY DEF gpio_read, Inv, TypeOK
<1> HIDE DEF state
<1>3. TypeOK'
  BY <1>1, <1>2 DEF Inv, TypeOK, Edge
<1>4. MemoryMatchesLine'
  BY <1>2 DEF Inv, TypeOK, MemoryMatchesLine, gpio_compute_value, state
<1>5. UngrantedIsSilent'
  BY <1>2 DEF Inv, TypeOK, UngrantedIsSilent
<1>6. EventTellsEdge'
  <2>1. Type[id] = "OUT_TOR" => state = value[id]
    BY <1>2 DEF Inv, MemoryMatchesLine, state
  <2>2. QED
    BY <1>1, <1>2, <2>1
       DEF Inv, TypeOK, EventTellsEdge, Edge, Levels, OPEN, CLOSE
<1>7. QED
  BY <1>3, <1>4, <1>5, <1>6 DEF Inv

\* A write moves the line and the memory together.
LEMMA WriteKeepsInv ==
    ASSUME Inv, NEW id \in Ids, NEW state \in Levels, gpio_write(id, state)
    PROVE  Inv'
<1> DEFINE level == gpio_compute_value(id, state)
<1>1. level \in Levels /\ gpio_compute_value(id, level) = state
  BY ComputeIsInverse
<1>2. /\ handler[id] = "open" /\ UNCHANGED <<phase, handler, event>>
      /\ Type[id] = "OUT_TOR"
      /\ line' = [line EXCEPT ![id] = level]
      /\ value' = [value EXCEPT ![id] = state]
      /\ is_updated' = [is_updated EXCEPT ![id] = TRUE]
  BY DEF gpio_write
<1> HIDE DEF level
<1>3. TypeOK'
  BY <1>1, <1>2 DEF Inv, TypeOK
<1>4. MemoryMatchesLine'
  BY <1>1, <1>2 DEF Inv, TypeOK, MemoryMatchesLine, gpio_compute_value
<1>5. UngrantedIsSilent'
  BY <1>2 DEF Inv, TypeOK, UngrantedIsSilent
<1>6. EventTellsEdge'
  BY <1>2 DEF Inv, TypeOK, EventTellsEdge
<1>7. QED
  BY <1>3, <1>4, <1>5, <1>6 DEF Inv

\* After gpio_clean no handler is open.
LEMMA CleanKeepsInv ==
    ASSUME Inv, NEW written \in SUBSET Ids, gpio_clean(written)
    PROVE  Inv'
<1>1. /\ phase' = "cleaned" /\ UNCHANGED <<value, event, is_updated>>
      /\ handler' = [id \in Ids |-> IF handler[id] = "open" THEN "closed"
                                                            ELSE handler[id]]
      /\ line' \in [Ids -> Levels]
  BY DEF gpio_clean, table, Inv, TypeOK, OPEN, Levels
<1>2. \A id \in Ids : handler'[id] # "open"
  BY <1>1
<1>3. QED
  BY <1>1, <1>2 DEF Inv, TypeOK, MemoryMatchesLine, UngrantedIsSilent, EventTellsEdge

\* The board does not move an output that is held.
LEMMA BoardKeepsInv ==
    ASSUME Inv, NEW id \in Ids, LineMoves(id)
    PROVE  Inv'
<1>1. /\ UNCHANGED <<phase, handler, value, event, is_updated>>
      /\ line' = [line EXCEPT ![id] = 1 - line[id]]
      /\ Type[id] = "IN_TOR" \/ handler[id] = "zero"
  BY DEF LineMoves, table
<1>2. line' \in [Ids -> Levels]
  BY <1>1 DEF Inv, TypeOK, Levels
<1>3. TypeOK' /\ UngrantedIsSilent' /\ EventTellsEdge'
  BY <1>1, <1>2 DEF Inv, TypeOK, UngrantedIsSilent, EventTellsEdge
<1>4. MemoryMatchesLine'
  BY <1>1 DEF Inv, TypeOK, MemoryMatchesLine, gpio_compute_value
<1>5. QED
  BY <1>3, <1>4 DEF Inv

\* Acknowledging a change, or doing nothing, moves neither line nor memory.
LEMMA QuietKeepsInv ==
    ASSUME Inv,
           UNCHANGED vars \/ \E id \in Ids : gpio_set_is_updated(id, FALSE)
    PROVE  Inv'
<1>1. CASE UNCHANGED vars
  BY <1>1 DEF vars, table, Inv, TypeOK, MemoryMatchesLine, UngrantedIsSilent,
              EventTellsEdge, gpio_compute_value
<1>2. CASE \E id \in Ids : gpio_set_is_updated(id, FALSE)
  BY <1>2 DEF gpio_set_is_updated, Inv, TypeOK, MemoryMatchesLine,
              UngrantedIsSilent, EventTellsEdge, gpio_compute_value
<1>3. QED
  BY <1>1, <1>2

\* Every step keeps the invariant.
LEMMA InvStep == Inv /\ [Next]_vars => Inv'
<1> SUFFICES ASSUME Inv, [Next]_vars PROVE Inv'
  OBVIOUS
<1>1. CASE \E n \in 0..Count : gpio_init(n)
  BY <1>1, InitKeepsInv
<1>2. CASE \E id \in Ids : gpio_read(id) \/ LineMoves(id)
  BY <1>2, ReadKeepsInv, BoardKeepsInv
<1>3. CASE \E id \in Ids, state \in Levels : gpio_write(id, state)
  BY <1>3, WriteKeepsInv
<1>4. CASE \E written \in SUBSET Ids : gpio_clean(written)
  BY <1>4, CleanKeepsInv
<1>5. CASE UNCHANGED vars \/ \E id \in Ids : gpio_set_is_updated(id, FALSE)
  BY <1>5, QuietKeepsInv
<1>6. QED
  BY <1>1, <1>2, <1>3, <1>4, <1>5 DEF Next, gpio_read_fails, gpio_write_nothing

\* The invariant holds of every behaviour.
LEMMA InvHolds == Spec => []Inv
BY InvInit, InvStep, PTL DEF Spec

\* The state always has its types.
THEOREM TypeCorrect == Spec => []TypeOK
<1>1. Inv => TypeOK
  BY DEF Inv
<1>2. QED
  BY <1>1, InvHolds, PTL

\* What the table says of an output it holds is what the line does.
THEOREM MemoryIsTrue == Spec => []MemoryMatchesLine
<1>1. Inv => MemoryMatchesLine
  BY DEF Inv
<1>2. QED
  BY <1>1, InvHolds, PTL

\* An output that was not granted is never reported as commanded.
THEOREM UngrantedStaysSilent == Spec => []UngrantedIsSilent
<1>1. Inv => UngrantedIsSilent
  BY DEF Inv
<1>2. QED
  BY <1>1, InvHolds, PTL

\* An event is the edge that led to the state the table has, and an output
\* never has one.
THEOREM EventsAreEdges == Spec => []EventTellsEdge
<1>1. Inv => EventTellsEdge
  BY DEF Inv
<1>2. QED
  BY <1>1, InvHolds, PTL

\* Where the table requests every output at the level of its open state, as
\* that of gpio.c does, starting closes no relay, even if it stops half-way.
THEOREM SafeStart ==
    ASSUME \A id \in Ids : Type[id] = "OUT_TOR"
                             => gpio_compute_value(id, InitState[id]) = OPEN
    PROVE  Spec => StartOpensRelays
<1> DEFINE Opens == phase = "boot" /\ phase' = "ready" =>
                      \A id \in Ids :
                        line'[id] # line[id] => gpio_compute_value(id, line'[id]) = OPEN
<1>1. Inv /\ [Next]_vars => [Opens]_vars
  <2> SUFFICES ASSUME Inv, Next, phase = "boot", phase' = "ready",
                      NEW id \in Ids, line'[id] # line[id]
               PROVE  gpio_compute_value(id, line'[id]) = OPEN
    OBVIOUS
  <2>1. PICK n \in 0..Count : gpio_init(n)
    BY DEF Next, gpio_read, gpio_set_is_updated, LineMoves, gpio_write, gpio_clean,
           gpio_read_fails, gpio_write_nothing, vars
  <2>2. line'[id] = InitState[id] /\ Type[id] = "OUT_TOR"
    BY <2>1 DEF gpio_init, DefaultLevel
  <2>3. QED
    BY <2>2 DEF gpio_compute_value
<1>2. QED
  BY <1>1, InvHolds, PTL DEF Spec, StartOpensRelays

-----------------------------------------------------------------------------
(* A line is an input *)

\* Before gpio_init no line has been asked for.
NothingHeld == phase = "boot" => \A id \in Ids : handler[id] = "zero"

\* Only gpio_init asks for one, and it ends that phase for good.
LEMMA NothingHeldHolds == Spec => []NothingHeld
<1>1. Init => NothingHeld
  BY DEF Init, NothingHeld
<1>2. NothingHeld /\ [Next]_vars => NothingHeld'
  BY DEF NothingHeld, Next, gpio_init, gpio_read, gpio_write, gpio_set_is_updated,
         gpio_clean, LineMoves, gpio_read_fails, gpio_write_nothing, vars
<1>3. QED
  BY <1>1, <1>2, PTL DEF Spec

\* It starts open, with nothing to tell.
LEMMA LineStarts ==
    ASSUME NEW id \in Ids
    PROVE  Init => Interface(id)!Init
<1> SUFFICES ASSUME Init PROVE Interface(id)!Init
  OBVIOUS
<1>1. value[id] = 0 /\ is_updated[id] = FALSE
  BY DEF Init, OPEN
<1>2. (phase # "boot") \in BOOLEAN
  OBVIOUS
<1>3. QED
  BY <1>1, <1>2, Zenon DEF Interface!Init

\* gpio_init gives it its first value, or leaves it as it was.
LEMMA LineIsInitialised ==
    ASSUME Inv, NothingHeld, NEW id \in Ids, NEW n \in 0..Count, gpio_init(n)
    PROVE  Interface(id)!Start
<1>1. phase = "boot" /\ phase' = "ready"
  BY DEF gpio_init
<1>2. /\ value'[id] = IF id < n THEN gpio_compute_value(id, line'[id])
                      ELSE IF id = n THEN OPEN ELSE value[id]
      /\ is_updated'[id] = IF id <= n THEN id < n ELSE is_updated[id]
  BY DEF gpio_init
<1>3. line'[id] \in Levels
  BY InitKeepsInv DEF Inv, TypeOK
<1>4. id \in Int /\ n \in Int
  BY DEF Ids
<1>5. CASE id < n
  <2>1. value'[id] \in Levels
    BY <1>2, <1>3, <1>5, ComputeIsInverse
  <2>2. id <= n
    BY <1>4, <1>5
  <2>3. is_updated'[id] = TRUE
    BY <1>2, <1>5, <2>2, Zenon
  <2>4. QED
    BY <1>1, <2>1, <2>3 DEF Interface!Start
<1>6. CASE ~(id < n)
  <2>1. value[id] = OPEN /\ is_updated[id] = FALSE
    BY <1>1 DEF NothingHeld, Inv, TypeOK, UngrantedIsSilent
  <2>2. is_updated'[id] = FALSE
    <3>1. ~is_updated'[id]
      BY <1>2, <1>6, <2>1, Zenon
    <3>2. is_updated'[id] \in BOOLEAN
      BY InitKeepsInv DEF Inv, TypeOK
    <3>3. QED
      BY <3>1, <3>2
  <2>3. value'[id] = OPEN
    BY <1>2, <1>6, <2>1
  <2>4. QED
    BY <1>1, <2>1, <2>2, <2>3 DEF Interface!Start
<1>7. QED
  BY <1>5, <1>6

\* Every other function changes it and flags it, acknowledges it, or leaves it.
LEMMA LineStep ==
    ASSUME NEW id \in Ids
    PROVE  Inv /\ NothingHeld /\ [Next]_vars
               => [Interface(id)!Next]_(Interface(id)!vars)
<1> SUFFICES ASSUME Inv, NothingHeld, [Next]_vars
             PROVE  [Interface(id)!Next]_(Interface(id)!vars)
  OBVIOUS
<1>1. value \in [Ids -> Levels] /\ is_updated \in [Ids -> BOOLEAN]
  BY DEF Inv, TypeOK
<1> DEFINE Same == value'[id] = value[id] /\ is_updated'[id] = is_updated[id]
<1>2. ASSUME Same, (phase # "boot") = (phase' # "boot")
      PROVE  [Interface(id)!Next]_(Interface(id)!vars)
  BY <1>2 DEF Interface!vars
<1>3. CASE \E n \in 0..Count : gpio_init(n)
  BY <1>3, LineIsInitialised DEF Interface!Next
<1>4. ASSUME NEW other \in Ids, NEW state \in Levels, handler[other] = "open",
             state # value[other],
             value' = [value EXCEPT ![other] = state],
             is_updated' = [is_updated EXCEPT ![other] = TRUE],
             UNCHANGED phase
      PROVE  [Interface(id)!Next]_(Interface(id)!vars)
  <2>1. phase = "ready"
    BY <1>4 DEF Inv, TypeOK
  <2>2. CASE other = id
    BY <1>1, <1>4, <2>1, <2>2 DEF Interface!Next, Interface!Change
  <2>3. CASE other # id
    BY <1>1, <1>2, <1>4, <2>3
  <2>4. QED
    BY <2>2, <2>3
<1>5. ASSUME NEW other \in Ids, gpio_read(other)
      PROVE  [Interface(id)!Next]_(Interface(id)!vars)
  <2> DEFINE state == gpio_compute_value(other, line[other])
  <2>1. state \in Levels /\ handler[other] = "open" /\ UNCHANGED phase
    BY <1>5, ComputeIsInverse DEF gpio_read, Inv, TypeOK
  <2>2. CASE state # value[other]
    <3>1. /\ value' = [value EXCEPT ![other] = state]
          /\ is_updated' = [is_updated EXCEPT ![other] = TRUE]
      BY <1>5, <2>2 DEF gpio_read
    <3> HIDE DEF state
    <3>2. QED
      BY <1>4, <2>1, <2>2, <3>1
  <2>3. CASE state = value[other]
    BY <1>2, <1>5, <2>1, <2>3 DEF gpio_read
  <2>4. QED
    BY <2>2, <2>3
<1>6. ASSUME NEW other \in Ids, NEW state \in Levels, gpio_write(other, state)
      PROVE  [Interface(id)!Next]_(Interface(id)!vars)
  BY <1>4, <1>6 DEF gpio_write
<1>7. ASSUME NEW other \in Ids, gpio_set_is_updated(other, FALSE)
      PROVE  [Interface(id)!Next]_(Interface(id)!vars)
  <2>1. UNCHANGED <<phase, value>>
        /\ is_updated' = [is_updated EXCEPT ![other] = FALSE]
    BY <1>7 DEF gpio_set_is_updated
  <2>2. CASE other = id
    BY <1>1, <2>1, <2>2 DEF Interface!Next, Interface!Acknowledge
  <2>3. CASE other # id
    BY <1>1, <1>2, <2>1, <2>3
  <2>4. QED
    BY <2>2, <2>3
<1>8. ASSUME NEW other \in Ids, LineMoves(other)
      PROVE  [Interface(id)!Next]_(Interface(id)!vars)
  BY <1>2, <1>8 DEF LineMoves, table
<1>9. ASSUME NEW written \in SUBSET Ids, gpio_clean(written)
      PROVE  [Interface(id)!Next]_(Interface(id)!vars)
  <2>1. Same /\ phase' = "cleaned"
    BY <1>9 DEF gpio_clean, table
  <2>2. CASE phase = "boot"
    BY <2>1, <2>2 DEF Interface!Next, Interface!Start
  <2>3. CASE phase # "boot"
    BY <1>2, <2>1, <2>3
  <2>4. QED
    BY <2>2, <2>3
<1>10. CASE UNCHANGED vars
  BY <1>2, <1>10 DEF vars, table
<1>11. QED
  BY <1>3, <1>5, <1>6, <1>7, <1>8, <1>9, <1>10
     DEF Next, gpio_read_fails, gpio_write_nothing

\* To the API server every line is an input like any other: its state never
\* changes silently, and its flag rises with a change or with its first read
\* and with nothing else.
THEOREM LineIsAnInput ==
    ASSUME NEW id \in Ids
    PROVE  Spec => Interface(id)!Spec
BY LineStarts, LineStep, InvHolds, NothingHeldHolds, PTL DEF Spec, Interface!Spec
=============================================================================
