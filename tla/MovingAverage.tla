--------------------------- MODULE MovingAverage ---------------------------
(***************************************************************************)
(* What a filtered input promises: the mean of the latest Size samples,    *)
(* shown anew when it has moved by Band or has reached an end of the range.*)
(* There is no ring and no running sum here; AdcMcp3008 implements it.     *)
(***************************************************************************)
EXTENDS Integers, Sequences, Sums

CONSTANTS Size, Band, Low, High, Inputs

VARIABLES
    window,   \* the latest samples, oldest first
    shown,    \* the value shown to the clients
    news      \* whether it changed since it was last acknowledged

vars == <<window, shown, news>>

Average(s) == Sum(s) \div Len(s)

\* The last Size elements of s.
Latest(s) == IF Len(s) > Size THEN Tail(s) ELSE s

Moved(mean) ==
    \/ mean - shown >= Band \/ shown - mean >= Band
    \/ mean \in {Low, High} \ {shown}

Init == window = <<>> /\ shown = 0 /\ news = FALSE

Sample(s) ==
    /\ window' = Latest(Append(window, s))
    /\ LET mean == Average(window')
       IN  IF Moved(mean) THEN shown' = mean /\ news' = TRUE
                          ELSE UNCHANGED <<shown, news>>

Acknowledge ==
    /\ news' = FALSE
    /\ UNCHANGED <<window, shown>>

Next == (\E s \in Inputs : Sample(s)) \/ Acknowledge

Spec == Init /\ [][Next]_vars
=============================================================================
