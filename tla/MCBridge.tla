------------------------------ MODULE MCBridge ------------------------------
(* Small instances of Bridge; the .cfg files say what each of them is for. *)
EXTENDS Bridge
=============================================================================
