--------------------------- MODULE MCBackupSchedule ---------------------------
(* A small instance of BackupSchedule: two zones, pages of two browsers.     *)
EXTENDS BackupSchedule

MCDefault == [enabled |-> TRUE, time |-> 1, zone |-> 0]
=============================================================================
