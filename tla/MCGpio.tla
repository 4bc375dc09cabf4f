------------------------------- MODULE MCGpio -------------------------------
(* Gpio for TLC: two outputs as the table of gpio.c has them, then an input, *)
(* which the driver can handle and the table does not have.                  *)
EXTENDS Gpio

TableType      == [id \in 0..2 |-> IF id = 2 THEN "IN_TOR" ELSE "OUT_TOR"]
TableReversed  == [id \in 0..2 |-> id # 2]
TableInitState == [id \in 0..2 |-> 1]

OutputsType      == [id \in 0..1 |-> "OUT_TOR"]
OutputsReversed  == [id \in 0..1 |-> TRUE]
OutputsInitState == [id \in 0..1 |-> 1]
=============================================================================
