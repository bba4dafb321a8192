---------------------------- MODULE MCLifecycle ----------------------------
(* Small instances of Lifecycle: one terminal and no TCP listener, which   *)
(* does what a terminal does but for the link.                             *)
EXTENDS Lifecycle
=============================================================================
