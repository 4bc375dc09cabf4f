---------------------------- MODULE MCLifecycle ----------------------------
(* Lifecycle has no constants: TLC checks it as it is.                     *)
EXTENDS Lifecycle
=============================================================================
