---------------------------- MODULE MCUpdatePush ----------------------------
(* UpdatePush for TLC: one or two inputs of each kind, worth 0 or 1.       *)
EXTENDS UpdatePush

Binary == {0, 1}
NoCommand == {}
OneWrite == {<< <<0, 0>> >>}
Short == {TRUE}
Both == {TRUE, FALSE}
=============================================================================
