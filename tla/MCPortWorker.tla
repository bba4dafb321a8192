---------------------------- MODULE MCPortWorker ----------------------------
(* Small instances of PortWorker; contents are compared, so two values for *)
(* a byte; liveness is checked, so no symmetry.                            *)
EXTENDS PortWorker
=============================================================================
