------------------------------ MODULE MCMaintenance ------------------------------
(* Model-checking instance of the composed maintenance jobs. *)
EXTENDS Maintenance
=============================================================================
