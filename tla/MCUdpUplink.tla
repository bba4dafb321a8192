---------------------------- MODULE MCUdpUplink ----------------------------
(* UdpUplink with numbers of less than three bits, control blocks of two   *)
(* ports and a ring buffer of three slots.                                 *)
EXTENDS UdpUplink, TLC

\* A counter whose bytes all differ.
McCounters == {305419896}

Symmetry == Permutations(Byte)
=============================================================================
