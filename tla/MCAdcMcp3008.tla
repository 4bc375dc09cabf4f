---------------------------- MODULE MCAdcMcp3008 ----------------------------
(* AdcMcp3008 for TLC: a ring of three samples, six levels.                *)
EXTENDS AdcMcp3008

SmallSamples == 0..5
=============================================================================
