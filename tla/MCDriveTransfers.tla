---------------------------- MODULE MCDriveTransfers ----------------------------
(* Small instances of DriveTransfers. *)
EXTENDS DriveTransfers
=============================================================================
