----------------------------- MODULE MCJobQueue -----------------------------
(* Small instances of JobQueue. *)
EXTENDS JobQueue, TLC

(* Lifecycle and update requests (refused by kind prefix or by either key), *)
(* a kind without lock, and a kind that records its own failure.            *)
MixedKinds == {"PALWORLD_START", "PALWORLD_UPDATE", "PALWORLD_UPDATE_CHECK", "LOCAL_BACKUP"}

OneRecord == {1}

(* Web threads and worker identities are interchangeable. *)
Symmetric == Permutations(Requests) \cup Permutations(Workers)
=============================================================================
