----------------------------- MODULE MCLoopback -----------------------------
(* Small instances of Loopback.                                            *)
EXTENDS Loopback
=============================================================================
