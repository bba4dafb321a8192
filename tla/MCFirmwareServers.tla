------------------------- MODULE MCFirmwareServers -------------------------
(* Small instances of FirmwareServers.                                     *)
EXTENDS FirmwareServers
=============================================================================
