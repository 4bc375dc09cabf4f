------------------------------- MODULE Input -------------------------------
(***************************************************************************)
(* What the API server relies on of an input, whichever driver is behind   *)
(* it: a value never changes silently, and the flag that tells of a change *)
(* rises with nothing else, but for the first value of an input that has   *)
(* started. AdcMcp3008 and Gpio keep this promise, and it is all that      *)
(* UpdatePush has of them.                                                 *)
(***************************************************************************)
CONSTANT Worths   \* what the input can be worth

VARIABLES
    value,
    news,      \* value has changed since the API server last asked for it
    started

vars == <<value, news, started>>

Init ==
    /\ value = 0
    /\ news = FALSE
    /\ started \in BOOLEAN

\* The first value is news, whatever it is, unless the input is not there.
Start ==
    /\ ~started /\ started' = TRUE
    /\ \/ value' \in Worths /\ news' = TRUE
       \/ UNCHANGED <<value, news>>

Change ==
    /\ started
    /\ value' \in Worths \ {value} /\ news' = TRUE
    /\ UNCHANGED started

Acknowledge ==
    /\ news' = FALSE
    /\ UNCHANGED <<value, started>>

Next == Start \/ Change \/ Acknowledge

Spec == Init /\ [][Next]_vars
=============================================================================
