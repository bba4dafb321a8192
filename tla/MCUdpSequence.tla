--------------------------- MODULE MCUdpSequence ----------------------------
(* The client-to-firmware direction with numbers of three bits.            *)
EXTENDS UdpSequence
=============================================================================
