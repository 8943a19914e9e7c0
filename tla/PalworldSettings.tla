------------------------------ MODULE PalworldSettings ------------------------------
(***************************************************************************)
(* The settings files of the game and those who write them: administrators   *)
(* with the page of the web process, the worker's Restore from an archive,    *)
(* and whoever edits on the host.  A handler of the page runs to its end      *)
(* before the next one; the worker is another process.  The version of a file *)
(* is its hash, so it stands for the content itself.                         *)
(***************************************************************************)
EXTENDS SettingsContent

CONSTANTS
  Browsers,      \* pages open at the same time
  MaxEdits,      \* bound: edits of a file on the host
  MaxSaves,      \* bound: forms submitted
  MaxAlterations \* bound: changes of the published archive

VARIABLES
  file,        \* PalWorldSettings.ini
  related,     \* GameUserSettings.ini
  world,       \* "bare" while no player has joined, then "played"
  page,        \* what each open page was made from
  save,        \* the save under way in the web process
  archive,     \* what the published archive holds
  record,      \* what it held when its hash was recorded
  step,        \* where the worker is
  copy,        \* private copy of the archive a Restore works on
  merge,       \* merged contents, with what they were made from
  edits, saves, alterations

hostVars    == <<file, related, world>>
webVars     == <<page, save, saves>>
archiveVars == <<archive, record, alterations>>
workerVars  == <<step, copy, merge>>
vars == <<hostVars, webVars, archiveVars, workerVars, edits>>

NoSave  == [phase |-> "none"]
NoMerge == [phase |-> "none"]
NoPage  == <<>>
Nothing == [world |-> "none"]

Related == [RelatedKeys -> Entries] \cup {NoFile}
Payload == [world : {"bare", "played"}, settings : Content, related : Related]

(* Every variable has its type. *)
TypeOK ==
  /\ file \in Content
  /\ related \in Related
  /\ world \in {"bare", "played"}
  /\ page \in [Browsers -> Content \cup {NoPage}]
  /\ save # NoSave =>
       /\ save.phase \in {"reading", "replacing"} /\ save.by \in Browsers
       /\ {save.basis, save.content, save.saw} \subseteq Content
       /\ save.changed \subseteq Editable
  /\ {archive, record, copy} \subseteq Payload \cup {Nothing}
  /\ step \in {"idle", "copied", "checked", "prepared", "replacing", "related"}
  /\ merge # NoMerge =>
       /\ {merge.basis, merge.content, merge.saw} \subseteq Content
       /\ {merge.related, merge.relatedSaw} \subseteq Related
  /\ edits \in 0..MaxEdits /\ saves \in 0..MaxSaves
  /\ alterations \in 0..MaxAlterations

(* A file with one entry per key; the server may never have been played on.  *)
Init ==
  /\ file = [k \in Keys |-> <<"a">>]
  /\ related \in {[k \in RelatedKeys |-> <<"a">>], NoFile}
  /\ world \in {"bare", "played"}
  /\ page = [b \in Browsers |-> NoPage]
  /\ save = NoSave
  /\ archive = Nothing /\ record = Nothing
  /\ step = "idle" /\ copy = Nothing /\ merge = NoMerge
  /\ edits = 0 /\ saves = 0 /\ alterations = 0

-----------------------------------------------------------------------------
(* The page. *)

Open(b) ==
  /\ page[b] # file
  /\ page' = [page EXCEPT ![b] = file]
  /\ UNCHANGED <<save, saves, hostVars, archiveVars, workerVars, edits>>

(* The form brings a value for each field of the page.  A stale page, a value *)
(* out of format and a form that changes nothing end here.                   *)
Submit(b) ==
  /\ save = NoSave
  /\ page[b] # NoPage
  /\ saves < MaxSaves
  /\ saves' = saves + 1
  /\ \E form \in [Fields(page[b]) -> Values \cup {Odd}] :
       LET changed == {k \in DOMAIN form : form[k] # page[b][k][1]}
           new == [k \in changed |-> form[k]]
       IN IF page[b] = file /\ (\A k \in DOMAIN form : form[k] # Odd) /\ changed # {}
          THEN save' = [phase |-> "reading", by |-> b, changed |-> changed, basis |-> file,
                        content |-> Render(file, new), saw |-> file]
          ELSE save' = NoSave
  /\ UNCHANGED <<page, hostVars, archiveVars, workerVars, edits>>

(* Mutant of CompareSave: the file is not read again before it is replaced.  *)
CompareSaveNever ==
  /\ save.phase = "reading"
  /\ save' = [save EXCEPT !.phase = "replacing", !.saw = file]
  /\ UNCHANGED <<page, saves, hostVars, archiveVars, workerVars, edits>>

(* The storage reads the file again; a copy of it is put aside.              *)
CompareSave ==
  /\ save.phase = "reading"
  /\ save' = IF file = save.basis
             THEN [save EXCEPT !.phase = "replacing", !.saw = file] ELSE NoSave
  /\ UNCHANGED <<page, saves, hostVars, archiveVars, workerVars, edits>>

ReplaceBySave ==
  /\ save.phase = "replacing"
  /\ file' = save.content
  /\ page' = [page EXCEPT ![save.by] = save.content]
  /\ save' = NoSave
  /\ UNCHANGED <<related, world, saves, archiveVars, workerVars, edits>>

(* The disk is full or the directory not writable.                           *)
SaveFails ==
  /\ save.phase = "replacing"
  /\ save' = NoSave
  /\ UNCHANGED <<page, saves, hostVars, archiveVars, workerVars, edits>>

-----------------------------------------------------------------------------
(* The worker: a backup, and the part of a Restore that concerns settings.   *)

(* Staging asks for Level.sav, LevelMeta.sav and a Players directory, not for *)
(* a player in it.                                                           *)
Backup ==
  /\ step = "idle"
  /\ record = Nothing
  /\ record' = [world |-> world, settings |-> Redact(file), related |-> Redact(related)]
  /\ archive' = record'
  /\ UNCHANGED <<alterations, hostVars, webVars, workerVars, edits>>

(* The recorded hash, and with it the structure and the manifest that were    *)
(* validated when the archive was built.                                     *)
Intact(payload) == payload = record

(* All configurations, and a world with Level.sav, LevelMeta.sav and at least *)
(* one player's file.                                                        *)
Complete(payload) == payload.world = "played"

(* Mutant of CheckArchive: what is hashed is the archive, not the copy.      *)
CheckArchiveAtSource ==
  /\ step = "copied"
  /\ step' = IF Intact(archive) /\ Complete(copy) THEN "checked" ELSE "idle"
  /\ UNCHANGED <<copy, merge, hostVars, webVars, archiveVars, edits>>

(* The archive is copied before it is looked at.                             *)
CopyArchive ==
  /\ step = "idle"
  /\ archive # Nothing
  /\ copy' = archive
  /\ step' = "copied"
  /\ UNCHANGED <<merge, hostVars, webVars, archiveVars, edits>>

CheckArchive ==
  /\ step = "copied"
  /\ step' = IF Intact(copy) /\ Complete(copy) THEN "checked" ELSE "idle"
  /\ UNCHANGED <<copy, merge, hostVars, webVars, archiveVars, edits>>

(* The current files are read and merged once, before the server is stopped; *)
(* a backup without GameUserSettings.ini leaves that file alone.             *)
Prepare ==
  /\ step = "checked"
  /\ IF /\ Mergeable(copy.settings, file)
        /\ copy.related # NoFile => RelatedMergeable(copy.related, related)
     THEN /\ merge' = [phase |-> "made", basis |-> file, saw |-> file,
                       content |-> Merge(copy.settings, file), relatedSaw |-> related,
                       related |-> IF copy.related = NoFile THEN NoFile
                                   ELSE RelatedMerge(copy.related, related)]
          /\ step' = "prepared"
     ELSE step' = "idle" /\ UNCHANGED merge
  /\ UNCHANGED <<copy, hostVars, webVars, archiveVars, edits>>

(* After the world has been replaced: the same storage, the same comparison. *)
CompareMerge ==
  /\ step = "prepared"
  /\ IF file = merge.basis
     THEN step' = "replacing" /\ merge' = [merge EXCEPT !.saw = file]
     ELSE step' = "idle" /\ merge' = NoMerge
  /\ UNCHANGED <<copy, hostVars, webVars, archiveVars, edits>>

ReplaceByMerge ==
  /\ step = "replacing"
  /\ file' = merge.content
  /\ step' = "related"
  /\ UNCHANGED <<related, world, copy, merge, webVars, archiveVars, edits>>

(* GameUserSettings.ini is replaced without a comparison.                    *)
ReplaceRelated ==
  /\ step = "related"
  /\ related' = IF merge.related = NoFile \/ related = NoFile THEN related ELSE merge.related
  /\ step' = "idle"
  /\ merge' = NoMerge
  /\ UNCHANGED <<file, world, copy, webVars, archiveVars, edits>>

(* A write fails, or the worker dies.                                        *)
RestoreFails ==
  /\ step # "idle"
  /\ step' = "idle"
  /\ merge' = NoMerge
  /\ UNCHANGED <<copy, hostVars, webVars, archiveVars, edits>>

-----------------------------------------------------------------------------
(* The host. *)

Edit ==
  /\ edits < MaxEdits
  /\ edits' = edits + 1
  /\ \/ /\ \E k \in Keys, e \in Entries : file' = [file EXCEPT ![k] = e]
        /\ UNCHANGED <<related, world>>
     \/ /\ related # NoFile
        /\ \E k \in RelatedKeys, e \in Entries : related' = [related EXCEPT ![k] = e]
        /\ UNCHANGED <<file, world>>
     \/ /\ related' = IF related = NoFile THEN [k \in RelatedKeys |-> <<"a">>] ELSE NoFile
        /\ UNCHANGED <<file, world>>
  /\ UNCHANGED <<webVars, archiveVars, workerVars>>

Join ==
  /\ world = "bare"
  /\ world' = "played"
  /\ UNCHANGED <<file, related, webVars, archiveVars, workerVars, edits>>

(* The archive is damaged, exchanged or put right again.                     *)
Alter ==
  /\ archive # Nothing
  /\ alterations < MaxAlterations
  /\ alterations' = alterations + 1
  /\ \E k \in Editable, v \in Values :
       archive' = [archive EXCEPT !.settings[k] = <<v>>]
  /\ UNCHANGED <<record, hostVars, webVars, workerVars, edits>>

Web    == (\E b \in Browsers : Open(b) \/ Submit(b)) \/ CompareSave \/ ReplaceBySave \/ SaveFails
Worker == \/ Backup \/ CopyArchive \/ CheckArchive \/ Prepare \/ CompareMerge
          \/ ReplaceByMerge \/ ReplaceRelated \/ RestoreFails
Host   == Edit \/ Join \/ Alter

Next == Web \/ Worker \/ Host

Spec == Init /\ [][Next]_vars
-----------------------------------------------------------------------------
(* Whatever the Manager writes agrees with the content it last compared       *)
(* itself with in everything it was not told to change: a save in all but     *)
(* the edited fields, a Restore in secrets and unknown keys, so that every    *)
(* edit made before that comparison survives and no blank of a backup takes   *)
(* the place of a secret, in GameUserSettings.ini neither.                   *)
SettingsArePreserved ==
  [][/\ ReplaceBySave => \A k \in Keys \ save.changed : file'[k] = save.saw[k]
     /\ ReplaceByMerge =>
          \A k \in Keys \ (Editable \cup ReadOnly) : file'[k] = merge.saw[k]
     /\ ReplaceRelated /\ related' # related =>
          \A k \in Suspect : related'[k] \in {<<>>, merge.relatedSaw[k]}]_vars

(* What a Restore gets ready to put in place is what the backup recorded,     *)
(* whenever the archive is damaged or exchanged, and it has a played world.  *)
RestoresWhatWasRecorded ==
  step \in {"prepared", "replacing", "related"} =>
    /\ copy = record
    /\ copy.world = "played"
    /\ \A k \in Restored(record.settings) : merge.content[k] = record.settings[k]
=============================================================================
