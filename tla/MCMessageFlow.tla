--------------------------- MODULE MCMessageFlow ---------------------------
(* Instance of MessageFlow for TLC.                                        *)
EXTENDS MessageFlow
=============================================================================
