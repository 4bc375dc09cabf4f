-------------------------- MODULE MCUpdateHistory --------------------------
(* UpdateHistory for TLC: one output and one analog input, worth 0 or 1.   *)
EXTENDS UpdateHistory

Binary == {0, 1}
Writes == {<< <<0, 0>> >>, << <<0, 1>>, <<0, 0>> >>}
Both == {TRUE, FALSE}
=============================================================================
