------------------------------ MODULE SettingsContent ------------------------------
(***************************************************************************)
(* What the Manager does to the contents of PalWorldSettings.ini and of      *)
(* GameUserSettings.ini: editing through the page, leaving secrets out of a   *)
(* backup, merging a backup into the current file.  A content gives for each  *)
(* key its entries in the order of the file: none, one, or more when the key  *)
(* is repeated.  Everything around the entries is never touched.             *)
(***************************************************************************)
EXTENDS Naturals, Sequences

CONSTANTS
  Editable,    \* keys with a known, editable format
  ReadOnly,    \* known keys that are never edited
  Sensitive,   \* known keys that hold a secret
  Suspect,     \* unknown keys with the name of a secret
  Unknown      \* other unknown keys

Keys   == Editable \cup ReadOnly \cup Sensitive \cup Suspect \cup Unknown
Secret == Sensitive \cup Suspect

ASSUME KeysAssumption ==
  /\ Editable \cap (ReadOnly \cup Secret \cup Unknown) = {}
  /\ ReadOnly \cap (Secret \cup Unknown) = {}
  /\ Sensitive \cap Suspect = {} /\ Secret \cap Unknown = {}

Values  == {"a", "b"}
Odd     == "odd"       \* a value its definition does not admit
Blank   == ""          \* what a backup holds in place of a secret
Entries == {<<>>, <<"a", "b">>, <<Blank, Blank>>} \cup {<<v>> : v \in Values \cup {Odd, Blank}}

Content == [Keys -> Entries]

(* ParsedIni.render: the value of every entry with a replaced key.           *)
Render(content, new) ==
  [k \in DOMAIN content |->
     IF k \in DOMAIN new THEN [i \in DOMAIN content[k] |-> new[k]] ELSE content[k]]

(* The fields the page lets an administrator change.                         *)
Fields(content) == {k \in Editable : Len(content[k]) = 1 /\ content[k][1] # Odd}

-----------------------------------------------------------------------------
(* Backup and Restore of PalWorldSettings.ini. *)

Redact(content) == Render(content, [k \in Secret \cap DOMAIN content |-> Blank])

(* No repeated key and no known value out of its format.                     *)
Unambiguous(content) ==
  \A k \in Keys :
    Len(content[k]) <= 1 /\ (k \in Editable => content[k] # <<Odd>>)

(* The keys a Restore takes from the backup.                                 *)
Restored(backup) == {k \in Editable \cup ReadOnly : backup[k] # <<>>}

Mergeable(backup, current) ==
  /\ Unambiguous(backup)
  /\ Unambiguous(current)
  /\ \A k \in Restored(backup) : current[k] # <<>>

(* Mutant of Merge: the secrets come from the backup like everything else.   *)
MergeWithSecrets(backup, current) ==
  Render(current, [k \in {x \in Keys : backup[x] # <<>>} |-> backup[k][1]])

Merge(backup, current) ==
  Render(current, [k \in Restored(backup) |-> backup[k][1]])

-----------------------------------------------------------------------------
(* GameUserSettings.ini has no known keys: a secret is told by its name, and  *)
(* everything else comes from the backup.  A host may lack the file.         *)

RelatedKeys == Suspect \cup Unknown
NoFile == <<>>

RelatedMergeable(backup, current) ==
  /\ current # NoFile
  /\ \A k \in Suspect :
       /\ Len(current[k]) <= 1 /\ Len(backup[k]) <= 1
       /\ backup[k] # <<>> => current[k] # <<>>

RelatedMerge(backup, current) ==
  [k \in RelatedKeys |-> IF k \in Suspect /\ backup[k] # <<>> THEN current[k] ELSE backup[k]]
=============================================================================
