--------------------------- MODULE MCLoginProtection ---------------------------
(* Small instances of LoginProtection; the threads are interchangeable. *)
EXTENDS LoginProtection, TLC

Symmetric == Permutations(Threads)
=============================================================================
