------------------------------ MODULE MCAccounts ------------------------------
(* Small instances of Accounts; users and threads are interchangeable. *)
EXTENDS Accounts, TLC

Symmetric == Permutations(Users) \cup Permutations(Requests)
=============================================================================
