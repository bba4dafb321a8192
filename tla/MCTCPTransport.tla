--------------------------- MODULE MCTCPTransport ---------------------------
(* Small instances of TCPTransport.                                        *)
EXTENDS TCPTransport
=============================================================================
