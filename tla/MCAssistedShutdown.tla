-------------------------- MODULE MCAssistedShutdown --------------------------
(* Small instances of AssistedShutdown. *)
EXTENDS AssistedShutdown
=============================================================================
