----------------------------- MODULE MCLocalBackup -----------------------------
(* Small instances of LocalBackup. *)
EXTENDS LocalBackup
=============================================================================
