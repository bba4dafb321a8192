--------------------------- MODULE MCUDPTransport ---------------------------
(* Small instances of UDPTransport.                                        *)
EXTENDS UDPTransport
=============================================================================
