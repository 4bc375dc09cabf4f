-------------------------------- MODULE Gpio --------------------------------
(***************************************************************************)
(* The GPIO driver, gpio.c: the table GPIO[], the level of each line on the*)
(* board, and the functions that keep the two together. Each function does *)
(* its work in one critical section and is one action. Levels and states   *)
(* are 0 and 1: IO_OPEN is 0 and IO_CLOSE is 1; with is_reversed, the      *)
(* state IO_CLOSE is the level 0, as a relay board wants it.               *)
(***************************************************************************)
EXTENDS Integers

CONSTANTS
    Count,        \* IO_COUNT
    Type,         \* the columns of the table GPIO[]
    IsReversed,
    InitState

Ids    == 0..Count - 1
Levels == {0, 1}
OPEN   == 0
CLOSE  == 1

ASSUME CountAssumption == Count \in Nat /\ Count > 0
ASSUME TableAssumption == /\ Type \in [Ids -> {"IN_TOR", "OUT_TOR"}]
                          /\ IsReversed \in [Ids -> BOOLEAN]
                          /\ InitState \in [Ids -> Levels]

VARIABLES
    phase,        \* before gpio_init, after it, after gpio_clean
    handler,      \* handler.fd: 0 as the program starts, -1, open or closed
    value, event, is_updated,
    line          \* the level of the line; external: the board

table == <<value, event, is_updated>>
vars  == <<phase, handler, table, line>>

Init ==
    /\ phase = "boot"
    /\ handler = [id \in Ids |-> "zero"]
    /\ value = [id \in Ids |-> OPEN]
    /\ event = [id \in Ids |-> "NONE"]
    /\ is_updated = [id \in Ids |-> FALSE]
    /\ line \in [Ids -> Levels]

-----------------------------------------------------------------------------
\* The definitions named Slip... are slips a programmer could make in the
\* definition that follows them; PROJECT.json pairs each with the property
\* that notices it. No definition of the model uses them.

\* gpio_compute_value is its own inverse: it makes a state of a level, and a
\* level of a state.
gpio_compute_value(id, v) == IF IsReversed[id] THEN 1 - v ELSE v

SlipDefaultIsState(id) == gpio_compute_value(id, InitState[id])

\* The table holds the level an output is requested with, not its state.
DefaultLevel(id) == InitState[id]

\* The lines below n are granted and read. The request of line n, if there is
\* one, is refused, or granted but its first read fails: an output is driven
\* all the same. The loop stops there, and the lines above n stay as they were.
gpio_init(n) ==
    /\ phase = "boot"
    /\ phase' = "ready"
    /\ handler' = [id \in Ids |-> IF id < n THEN "open"
                                  ELSE IF id = n THEN "none" ELSE handler[id]]
    /\ \E driven \in {{id \in Ids : id < n}, {id \in Ids : id <= n}} :
           line' = [id \in Ids |-> IF id \in driven /\ Type[id] = "OUT_TOR"
                                     THEN DefaultLevel(id) ELSE line[id]]
    /\ value' = [id \in Ids |-> IF id < n THEN gpio_compute_value(id, line'[id])
                                ELSE IF id = n THEN OPEN ELSE value[id]]
    /\ event' = [id \in Ids |-> IF id <= n THEN "NONE" ELSE event[id]]
    /\ is_updated' = [id \in Ids |-> IF id <= n THEN id < n ELSE is_updated[id]]

SlipEdge(id, state) == IF state = CLOSE THEN "FALLING_EDGE" ELSE "RISING_EDGE"

Edge(id, state) == IF state = OPEN THEN "FALLING_EDGE" ELSE "RISING_EDGE"

SlipReadOnlyRises(id) ==
    /\ handler[id] = "open"
    /\ LET state == gpio_compute_value(id, line[id])
       IN  IF state = CLOSE /\ value[id] = OPEN
             THEN /\ value' = [value EXCEPT ![id] = state]
                  /\ is_updated' = [is_updated EXCEPT ![id] = TRUE]
                  /\ event' = [event EXCEPT ![id] = Edge(id, state)]
             ELSE /\ event' = [event EXCEPT ![id] = "NONE"]
                  /\ UNCHANGED <<value, is_updated>>
    /\ UNCHANGED <<phase, handler, line>>

SlipNoFlag(id) ==
    /\ handler[id] = "open"
    /\ LET state == gpio_compute_value(id, line[id])
       IN  /\ value' = [value EXCEPT ![id] = state]
           /\ event' = [event EXCEPT ![id] = IF state # value[id] THEN Edge(id, state) ELSE "NONE"]
    /\ UNCHANGED <<phase, handler, line, is_updated>>

\* A change is stored and flagged, and its event lasts until the next read.
gpio_read(id) ==
    /\ handler[id] = "open"
    /\ LET state == gpio_compute_value(id, line[id])
       IN  IF state # value[id]
             THEN /\ value' = [value EXCEPT ![id] = state]
                  /\ is_updated' = [is_updated EXCEPT ![id] = TRUE]
                  /\ event' = [event EXCEPT ![id] = Edge(id, state)]
             ELSE /\ event' = [event EXCEPT ![id] = "NONE"]
                  /\ UNCHANGED <<value, is_updated>>
    /\ UNCHANGED <<phase, handler, line>>

\* The ioctl failed, as it always does without an open handler.
gpio_read_fails == UNCHANGED vars

SlipDriveState(id, state) ==
    /\ Type[id] = "OUT_TOR" /\ state # value[id] /\ handler[id] = "open"
    /\ line' = [line EXCEPT ![id] = state]
    /\ value' = [value EXCEPT ![id] = state]
    /\ is_updated' = [is_updated EXCEPT ![id] = TRUE]
    /\ UNCHANGED <<phase, handler, event>>

SlipStoreFirst(id, state) ==
    /\ Type[id] = "OUT_TOR" /\ state # value[id]
    /\ line' = IF handler[id] = "open"
                 THEN [line EXCEPT ![id] = gpio_compute_value(id, state)]
                 ELSE line
    /\ value' = [value EXCEPT ![id] = state]
    /\ is_updated' = [is_updated EXCEPT ![id] = TRUE]
    /\ UNCHANGED <<phase, handler, event>>

\* An output is driven only when it is asked for another state than the one
\* the table has.
gpio_write(id, state) ==
    /\ Type[id] = "OUT_TOR" /\ state # value[id] /\ handler[id] = "open"
    /\ line' = [line EXCEPT ![id] = gpio_compute_value(id, state)]
    /\ value' = [value EXCEPT ![id] = state]
    /\ is_updated' = [is_updated EXCEPT ![id] = TRUE]
    /\ UNCHANGED <<phase, handler, event>>

\* An input (-1), the state the table has (0), or an ioctl that failed (-1).
gpio_write_nothing == UNCHANGED vars

gpio_set_is_updated(id, flag) ==
    /\ is_updated' = [is_updated EXCEPT ![id] = flag]
    /\ UNCHANGED <<phase, handler, value, event, line>>

SlipCloseOutputsOnly(written) ==
    /\ line' = [id \in Ids |->
                  IF /\ handler[id] = "open" /\ Type[id] = "OUT_TOR"
                     /\ id \in written
                    THEN OPEN ELSE line[id]]
    /\ handler' = [id \in Ids |->
                     IF handler[id] = "open" /\ Type[id] = "OUT_TOR"
                       THEN "closed" ELSE handler[id]]
    /\ phase' = "cleaned"
    /\ UNCHANGED table

\* Outputs are written IO_OPEN, as a level; written are those whose ioctl
\* succeeded. A handler is closed and its number is kept: a second gpio_clean
\* finds a number that is no longer open, and nothing it can do to it.
gpio_clean(written) ==
    /\ line' = [id \in Ids |->
                  IF /\ handler[id] = "open" /\ Type[id] = "OUT_TOR"
                     /\ id \in written
                    THEN OPEN ELSE line[id]]
    /\ handler' = [id \in Ids |-> IF handler[id] = "open" THEN "closed"
                                                          ELSE handler[id]]
    /\ phase' = "cleaned"
    /\ UNCHANGED table

\* The board moves an input, or a line that nobody drives.
LineMoves(id) ==
    /\ Type[id] = "IN_TOR" \/ (phase = "boot" /\ handler[id] = "zero")
    /\ line' = [line EXCEPT ![id] = 1 - line[id]]
    /\ UNCHANGED <<phase, handler, table>>

-----------------------------------------------------------------------------
Next ==
    \/ \E n \in 0..Count : gpio_init(n)
    \/ \E id \in Ids :
         gpio_read(id) \/ gpio_set_is_updated(id, FALSE) \/ LineMoves(id)
    \/ \E id \in Ids, state \in Levels : gpio_write(id, state)
    \/ gpio_read_fails \/ gpio_write_nothing
    \/ \E written \in SUBSET Ids : gpio_clean(written)

Spec == Init /\ [][Next]_vars

\* The main loop reads every line for ever, and not every read fails.
FairSpec == Spec /\ \A id \in Ids : WF_vars(gpio_read(id))

-----------------------------------------------------------------------------
(* Properties *)

\* The state has its types; a handler is open only between the two calls.
TypeOK ==
    /\ phase \in {"boot", "ready", "cleaned"}
    /\ handler \in [Ids -> {"zero", "none", "open", "closed"}]
    /\ \A id \in Ids : handler[id] = "open" => phase = "ready"
    /\ value \in [Ids -> Levels]
    /\ event \in [Ids -> {"NONE", "RISING_EDGE", "FALLING_EDGE"}]
    /\ is_updated \in [Ids -> BOOLEAN]
    /\ line \in [Ids -> Levels]

\* The driver decides by the state it remembers whether to drive a line at all
\* (gpio_write), so the memory must be right: what the table says of an output
\* it holds is what the line does, whatever failed before.
MemoryMatchesLine ==
    \A id \in Ids :
        (handler[id] = "open" /\ Type[id] = "OUT_TOR")
            => value[id] = gpio_compute_value(id, line[id])

\* After an initialisation that stopped half-way, the outputs it did not get
\* are never reported as commanded: a set/out cannot pretend to have closed
\* one, and no push mentions one.
UngrantedIsSilent ==
    \A id \in Ids :
        handler[id] \in {"zero", "none"} => value[id] = OPEN /\ ~is_updated[id]

\* An event is the edge that led to the current state, and only lines that are
\* read, not driven, ever have one.
EventTellsEdge ==
    \A id \in Ids :
        /\ event[id] = "RISING_EDGE"  => value[id] = CLOSE
        /\ event[id] = "FALLING_EDGE" => value[id] = OPEN
        /\ Type[id] = "OUT_TOR" => event[id] = "NONE"

\* Starting closes no relay: an output that gpio_init moves is moved to its
\* open state, the one whose first read fails included.
StartOpensRelays ==
    [][ phase = "boot" /\ phase' = "ready" =>
          \A id \in Ids :
              line'[id] # line[id] => gpio_compute_value(id, line'[id]) = OPEN ]_vars

\* A line that rests at a level is seen at it, and the API server is told: the
\* table ends with its state; and whatever changes a state of the table, a line that
\* moved, a write or the initialisation, leaves the flag of it up.
RestingLineIsSeen ==
    /\ [][\A id \in Ids : value'[id] # value[id] => is_updated'[id]]_vars
    /\ \A id \in Ids :
           (<>[](handler[id] = "open") /\ (<>[](line[id] = 0) \/ <>[](line[id] = 1)))
               => <>[](value[id] = gpio_compute_value(id, line[id]))

\* gpio.c calls gpio_clean the "Safe Cleaner" and logs "Unable to open pin"
\* when its write fails: a write that succeeds opens the relay.
CleanOpensRelays ==
    [][ gpio_clean(Ids) =>
          \A id \in Ids :
              (Type[id] = "OUT_TOR" /\ handler[id] = "open")
                  => gpio_compute_value(id, line'[id]) = OPEN ]_vars

\* What the API server sees of a line: an input like any other, granted or
\* not, written by a client or moved by the board.
Interface(id) == INSTANCE Input
                   WITH value <- value[id], news <- is_updated[id],
                        started <- phase # "boot", Worths <- Levels
=============================================================================
