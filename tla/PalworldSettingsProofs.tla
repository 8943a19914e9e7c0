------------------------ MODULE PalworldSettingsProofs ------------------------
(***************************************************************************)
(* Proofs about PalworldSettings: what saves and Restores leave alone and    *)
(* what a Restore puts in place, for all sets of keys, any number of pages,  *)
(* saves, edits and alterations.                                             *)
(***************************************************************************)
EXTENDS PalworldSettings, TLAPS

(* A value for every key; nothing is said of the entries.                    *)
Keyed(content) == content = [k \in Keys |-> content[k]]

(* What is ready to be written agrees with what it was made from.            *)
SaveKept ==
  save.phase \in {"reading", "replacing"} =>
    /\ Keyed(save.content)
    /\ \A k \in Keys \ save.changed : save.content[k] = save.basis[k]
    /\ save.phase = "replacing" => save.saw = save.basis

MergeKept ==
  step \in {"prepared", "replacing", "related"} =>
    /\ DOMAIN merge = {"phase", "basis", "saw", "content", "relatedSaw", "related"}
    /\ Keyed(merge.content)
    /\ \A k \in Keys \ (Editable \cup ReadOnly) : merge.content[k] = merge.basis[k]
    /\ step = "replacing" => merge.saw = merge.basis
    /\ merge.related # NoFile =>
         \A k \in Suspect : merge.related[k] \in {<<>>, merge.relatedSaw[k]}

KeptInv == Keyed(file) /\ SaveKept /\ MergeKept

(* Rendering touches no key without a new value.                             *)
LEMMA RenderKeeps ==
  ASSUME NEW content, Keyed(content), NEW new
  PROVE  /\ Keyed(Render(content, new))
         /\ \A k \in Keys \ DOMAIN new : Render(content, new)[k] = content[k]
<1>1. DOMAIN content = Keys
  BY DEF Keyed
<1> QED
  BY <1>1 DEF Render, Keyed

LEMMA MergeKeeps ==
  ASSUME NEW backup, NEW current, Keyed(current)
  PROVE  /\ Keyed(Merge(backup, current))
         /\ \A k \in Keys \ (Editable \cup ReadOnly) : Merge(backup, current)[k] = current[k]
<1>1. Restored(backup) \subseteq Editable \cup ReadOnly
  BY DEF Restored
<1>2. DOMAIN [k \in Restored(backup) |-> backup[k][1]] = Restored(backup)
  OBVIOUS
<1> QED
  BY <1>1, <1>2, RenderKeeps DEF Merge

(* A secret of GameUserSettings.ini is the current one or left out.          *)
LEMMA RelatedMergeKeeps ==
  ASSUME NEW backup, NEW current, NEW k \in Suspect
  PROVE  RelatedMerge(backup, current)[k] \in {<<>>, current[k]}
  BY DEF RelatedMerge, RelatedKeys

LEMMA InitKept == Init => KeptInv
  BY DEF Init, KeptInv, Keyed, SaveKept, MergeKept, NoSave

LEMMA StepKept == KeptInv /\ [Next]_vars => KeptInv'
<1> SUFFICES ASSUME KeptInv, [Next]_vars PROVE KeptInv'
  OBVIOUS
<1>1. ASSUME NEW b \in Browsers, Open(b) PROVE KeptInv'
  BY <1>1 DEF Open, KeptInv, Keyed, SaveKept, MergeKept, hostVars, workerVars
<1>2. ASSUME NEW b \in Browsers, Submit(b) PROVE KeptInv'
  <2>1. UNCHANGED <<file, step, merge>>
    BY <1>2 DEF Submit, hostVars, workerVars
  <2>2. SaveKept'
    <3>1. PICK form \in [Fields(page[b]) -> Values \cup {Odd}] :
            LET changed == {k \in DOMAIN form : form[k] # page[b][k][1]}
                new == [k \in changed |-> form[k]]
            IN \/ save' = [phase |-> "reading", by |-> b, changed |-> changed, basis |-> file,
                           content |-> Render(file, new), saw |-> file]
               \/ save' = NoSave
      BY <1>2 DEF Submit
    <3> DEFINE changed == {k \in DOMAIN form : form[k] # page[b][k][1]}
               new == [k \in changed |-> form[k]]
    <3>2. CASE save' = NoSave
      BY <3>2 DEF SaveKept, NoSave
    <3>3. CASE save' = [phase |-> "reading", by |-> b, changed |-> changed, basis |-> file,
                        content |-> Render(file, new), saw |-> file]
      <4>1. DOMAIN new = changed
        OBVIOUS
      <4>2. /\ Keyed(Render(file, new))
            /\ \A k \in Keys \ changed : Render(file, new)[k] = file[k]
        BY <4>1, RenderKeeps DEF KeptInv
      <4>3. /\ save'.phase = "reading" /\ save'.changed = changed /\ save'.basis = file
            /\ save'.content = Render(file, new)
        BY <3>3
      <4> HIDE DEF changed, new
      <4> QED
        BY <4>2, <4>3 DEF SaveKept, Keyed
    <3> QED
      BY <3>1, <3>2, <3>3
  <2> QED
    BY <2>1, <2>2 DEF KeptInv, Keyed, MergeKept
<1>3. CASE CompareSave
  BY <1>3 DEF CompareSave, KeptInv, Keyed, SaveKept, MergeKept, NoSave, hostVars, workerVars
<1>4. CASE ReplaceBySave
  BY <1>4 DEF ReplaceBySave, KeptInv, Keyed, SaveKept, MergeKept, NoSave, workerVars
<1>5. CASE SaveFails
  BY <1>5 DEF SaveFails, KeptInv, Keyed, SaveKept, MergeKept, NoSave, hostVars, workerVars
<1>6. CASE Backup \/ CopyArchive \/ CheckArchive \/ ReplaceRelated \/ RestoreFails
  BY <1>6 DEF Backup, CopyArchive, CheckArchive, ReplaceRelated, RestoreFails, KeptInv, Keyed,
              SaveKept, MergeKept, hostVars, webVars, workerVars
<1>7. CASE Prepare
  <2>1. Keyed(file)' /\ SaveKept'
    BY <1>7 DEF Prepare, KeptInv, Keyed, SaveKept, hostVars, webVars
  <2>2. MergeKept'
    <3>1. CASE step' = "idle"
      BY <3>1 DEF MergeKept
    <3>2. CASE step' = "prepared"
      <4>1. merge' = [phase |-> "made", basis |-> file, saw |-> file,
                      content |-> Merge(copy.settings, file), relatedSaw |-> related,
                      related |-> IF copy.related = NoFile THEN NoFile
                                  ELSE RelatedMerge(copy.related, related)]
        BY <1>7, <3>2 DEF Prepare
      <4>2. /\ DOMAIN merge' = {"phase", "basis", "saw", "content", "relatedSaw", "related"}
            /\ merge'.basis = file /\ merge'.content = Merge(copy.settings, file)
            /\ merge'.relatedSaw = related
            /\ merge'.related # NoFile => merge'.related = RelatedMerge(copy.related, related)
        BY <4>1
      <4> QED
        BY <3>2, <4>2, MergeKeeps, RelatedMergeKeeps DEF KeptInv, MergeKept, Keyed
    <3> QED
      BY <1>7, <3>1, <3>2 DEF Prepare
  <2> QED
    BY <2>1, <2>2 DEF KeptInv
<1>8. CASE CompareMerge
  <2>1. Keyed(file)' /\ SaveKept'
    BY <1>8 DEF CompareMerge, KeptInv, Keyed, SaveKept, hostVars, webVars
  <2>2. CASE file = merge.basis
    <3>1. MergeKept /\ step = "prepared" /\ step' = "replacing"
          /\ merge' = [merge EXCEPT !.saw = file]
      BY <1>8, <2>2 DEF CompareMerge, KeptInv
    <3>2. /\ DOMAIN merge' = DOMAIN merge
          /\ merge'.content = merge.content /\ merge'.basis = merge.basis
          /\ merge'.related = merge.related /\ merge'.relatedSaw = merge.relatedSaw
          /\ merge'.saw = file
      BY <3>1 DEF MergeKept
    <3> QED
      BY <2>1, <2>2, <3>1, <3>2 DEF KeptInv, MergeKept, Keyed
  <2>3. CASE file # merge.basis
    BY <1>8, <2>1, <2>3 DEF CompareMerge, KeptInv, MergeKept
  <2> QED
    BY <2>2, <2>3
<1>9. CASE ReplaceByMerge
  BY <1>9 DEF ReplaceByMerge, KeptInv, Keyed, SaveKept, MergeKept, webVars
<1>10. CASE Edit
  BY <1>10 DEF Edit, KeptInv, Keyed, SaveKept, MergeKept, webVars, workerVars
<1>11. CASE Join \/ Alter
  BY <1>11 DEF Join, Alter, KeptInv, Keyed, SaveKept, MergeKept, hostVars, webVars, workerVars
<1>12. CASE UNCHANGED vars
  BY <1>12 DEF vars, KeptInv, Keyed, SaveKept, MergeKept, hostVars, webVars, workerVars
<1> QED
  BY <1>1, <1>2, <1>3, <1>4, <1>5, <1>6, <1>7, <1>8, <1>9, <1>10, <1>11, <1>12
     DEF Next, Web, Worker, Host

LEMMA KeptPreserves ==
  ASSUME KeptInv
  PROVE  /\ ReplaceBySave => \A k \in Keys \ save.changed : file'[k] = save.saw[k]
         /\ ReplaceByMerge =>
              \A k \in Keys \ (Editable \cup ReadOnly) : file'[k] = merge.saw[k]
         /\ ReplaceRelated /\ related' # related =>
              \A k \in Suspect : related'[k] \in {<<>>, merge.relatedSaw[k]}
  BY DEF KeptInv, SaveKept, MergeKept, ReplaceBySave, ReplaceByMerge, ReplaceRelated

(* Whatever interleaving of saves, Restores and edits on the host: a write    *)
(* of the Manager keeps every field it was not told to change as it was last  *)
(* compared (palworld_settings/storage.py:128, restores/service.py:687).      *)
THEOREM SettingsSurvive == Spec => SettingsArePreserved
<1>1. Init => KeptInv
  BY InitKept
<1>2. KeptInv /\ [Next]_vars => KeptInv'
  BY StepKept
<1>3. KeptInv =>
        /\ ReplaceBySave => \A k \in Keys \ save.changed : file'[k] = save.saw[k]
        /\ ReplaceByMerge =>
             \A k \in Keys \ (Editable \cup ReadOnly) : file'[k] = merge.saw[k]
        /\ ReplaceRelated /\ related' # related =>
             \A k \in Suspect : related'[k] \in {<<>>, merge.relatedSaw[k]}
  BY KeptPreserves
<1> QED
  BY <1>1, <1>2, <1>3, PTL DEF Spec, SettingsArePreserved

-----------------------------------------------------------------------------
(* What a Restore puts in place. *)

Only == Values \cup {Odd, Blank}

(* The entries of an unambiguous key that is present: exactly one.           *)
LEMMA OneEntry ==
  ASSUME NEW x \in Entries, Len(x) <= 1, x # <<>>
  PROVE  /\ x[1] \in Only /\ x = <<x[1]>> /\ DOMAIN x = {1}
  BY DEF Entries, Only

LEMMA OneIsEntry ==
  ASSUME NEW v \in Only
  PROVE  <<v>> \in Entries
  BY DEF Entries, Only

(* The same value for every entry of a key: the entries stay as many.        *)
LEMMA RenderOne ==
  ASSUME NEW content \in Content, NEW new, NEW k \in Keys, k \in DOMAIN new,
         Len(content[k]) <= 1, content[k] # <<>>
  PROVE  Render(content, new)[k] = <<new[k]>>
<1>1. content[k] \in Entries
  BY DEF Content
<1>2. DOMAIN content[k] = {1}
  BY <1>1, OneEntry
<1>3. Render(content, new)[k] = [i \in {1} |-> new[k]]
  BY <1>2 DEF Content, Render
<1>4. [i \in {1} |-> new[k]] = <<new[k]>>
  OBVIOUS
<1> QED BY <1>3, <1>4

LEMMA RedactTyped ==
  ASSUME NEW content \in Content
  PROVE  Redact(content) \in Content
<1> DEFINE new == [k \in Secret \cap DOMAIN content |-> Blank]
<1>1. DOMAIN content = Keys
  BY DEF Content
<1>2. ASSUME NEW x \in Entries PROVE [i \in DOMAIN x |-> Blank] \in Entries
  <2>1. CASE x = <<>>
    BY <2>1 DEF Entries
  <2>2. CASE x \in {<<"a", "b">>, <<Blank, Blank>>}
    <3>1. DOMAIN x = 1..2
      BY <2>2
    <3>2. [i \in 1..2 |-> Blank] = <<Blank, Blank>>
      OBVIOUS
    <3> QED BY <3>1, <3>2 DEF Entries
  <2>3. CASE Len(x) <= 1 /\ x # <<>>
    <3>1. DOMAIN x = {1}
      BY <2>3, OneEntry
    <3>2. [i \in {1} |-> Blank] = <<Blank>>
      OBVIOUS
    <3> QED BY <3>1, <3>2 DEF Entries
  <2> QED BY <2>1, <2>2, <2>3 DEF Entries
<1>3. ASSUME NEW k \in Keys PROVE Render(content, new)[k] \in Entries
  <2>1. content[k] \in Entries
    BY DEF Content
  <2>2. Render(content, new)[k] \in {content[k], [i \in DOMAIN content[k] |-> Blank]}
    BY <1>1 DEF Render
  <2> QED BY <1>2, <2>1, <2>2
<1>4. Render(content, new) = [k \in Keys |-> Render(content, new)[k]]
  BY <1>1 DEF Render
<1> QED BY <1>3, <1>4 DEF Redact, Content

(* A merge takes over what it restores, entry for entry, and is a content.   *)
LEMMA MergeRestores ==
  ASSUME NEW backup \in Content, NEW current \in Content, Mergeable(backup, current)
  PROVE  /\ Merge(backup, current) \in Content
         /\ \A k \in Restored(backup) : Merge(backup, current)[k] = backup[k]
<1> DEFINE new == [k \in Restored(backup) |-> backup[k][1]]
<1>1. ASSUME NEW k \in Restored(backup)
      PROVE  Render(current, new)[k] = backup[k] /\ backup[k] \in Entries
  <2>1. k \in Keys /\ backup[k] \in Entries /\ backup[k] # <<>>
    BY DEF Restored, Keys, Content
  <2>2. Len(backup[k]) <= 1 /\ Len(current[k]) <= 1 /\ current[k] # <<>>
    BY <2>1 DEF Mergeable, Unambiguous
  <2>3. backup[k] = <<backup[k][1]>>
    BY <2>1, <2>2, OneEntry
  <2>4. Render(current, new)[k] = <<new[k]>>
    BY <2>1, <2>2, RenderOne
  <2> QED BY <2>1, <2>3, <2>4
<1>2. DOMAIN current = Keys /\ DOMAIN new = Restored(backup)
  BY DEF Content
<1>3. ASSUME NEW k \in Keys \ Restored(backup) PROVE Render(current, new)[k] \in Entries
  BY <1>2 DEF Render, Content
<1>4. Render(current, new) = [k \in Keys |-> Render(current, new)[k]]
  BY <1>2 DEF Render
<1> QED BY <1>1, <1>3, <1>4 DEF Merge, Content

LEMMA SaveRenders ==
  ASSUME NEW content \in Content, NEW new, DOMAIN new \subseteq Fields(content),
         \A k \in DOMAIN new : new[k] \in Values
  PROVE  Render(content, new) \in Content
<1>1. ASSUME NEW k \in Keys PROVE Render(content, new)[k] \in Entries
  <2>1. CASE k \in DOMAIN new
    <3>0. Len(content[k]) = 1 /\ content[k] \in Entries
      BY <2>1 DEF Fields, Content
    <3>1. Len(content[k]) <= 1 /\ content[k] # <<>>
      <4> DEFINE x == content[k]
      <4>1. x \in Entries /\ Len(x) = 1
        BY <3>0
      <4> HIDE DEF x
      <4>2. Len(x) <= 1 /\ x # <<>>
        BY <4>1
      <4> QED BY <4>2 DEF x
    <3>2. Render(content, new)[k] = <<new[k]>>
      BY <2>1, <3>1, RenderOne
    <3> QED BY <2>1, <3>2, OneIsEntry DEF Only
  <2>2. CASE k \notin DOMAIN new
    BY <2>2 DEF Render, Content
  <2> QED BY <2>1, <2>2
<1>2. Render(content, new) = [k \in Keys |-> Render(content, new)[k]]
  BY DEF Render, Content
<1> QED BY <1>1, <1>2 DEF Content

(* An archive that is there has its three parts, the settings a content.     *)
Stored(payload) ==
  /\ payload = [world |-> payload.world, settings |-> payload.settings,
                related |-> payload.related]
  /\ payload.settings \in Content

ContentInv ==
  /\ file \in Content
  /\ save.phase \in {"reading", "replacing"} => save.content \in Content
  /\ step \in {"prepared", "replacing"} => merge.content \in Content

ArchiveInv ==
  /\ archive # Nothing => Stored(archive)
  /\ step # "idle" => Stored(copy)
  /\ step \in {"checked", "prepared", "replacing", "related"} =>
       copy = record /\ copy.world = "played"

MergeInv ==
  step \in {"prepared", "replacing", "related"} =>
    \A k \in Restored(record.settings) : merge.content[k] = record.settings[k]

RecordInv == KeptInv /\ ContentInv /\ ArchiveInv /\ MergeInv

LEMMA InitRecorded == Init => RecordInv
<1> SUFFICES ASSUME Init PROVE RecordInv
  OBVIOUS
<1>1. <<"a">> \in Entries
  BY OneIsEntry DEF Only, Values
<1> QED
  BY <1>1, InitKept
  DEF Init, RecordInv, ContentInv, ArchiveInv, MergeInv, Content, NoSave

(* A save: the rendered form is a content. *)
LEMMA SubmitTyped ==
  ASSUME RecordInv, NEW b \in Browsers, Submit(b)
  PROVE  ContentInv'
<1>1. UNCHANGED <<file, step, merge>>
  BY DEF Submit, hostVars, workerVars
<1>2. PICK form \in [Fields(page[b]) -> Values \cup {Odd}] :
        LET changed == {k \in DOMAIN form : form[k] # page[b][k][1]}
            new == [k \in changed |-> form[k]]
        IN \/ /\ page[b] = file /\ \A k \in DOMAIN form : form[k] # Odd
              /\ save' = [phase |-> "reading", by |-> b, changed |-> changed, basis |-> file,
                          content |-> Render(file, new), saw |-> file]
           \/ save' = NoSave
  BY DEF Submit
<1> DEFINE changed == {k \in DOMAIN form : form[k] # page[b][k][1]}
           new == [k \in changed |-> form[k]]
<1>3. CASE save' = NoSave
  BY <1>1, <1>3 DEF RecordInv, ContentInv, NoSave
<1>4. CASE /\ page[b] = file /\ \A k \in DOMAIN form : form[k] # Odd
           /\ save' = [phase |-> "reading", by |-> b, changed |-> changed, basis |-> file,
                       content |-> Render(file, new), saw |-> file]
  <2>1. DOMAIN new \subseteq Fields(file) /\ \A k \in DOMAIN new : new[k] \in Values
    BY <1>4
  <2>2. Render(file, new) \in Content
    BY <2>1, SaveRenders DEF RecordInv, ContentInv
  <2>3. save'.content = Render(file, new)
    BY <1>4
  <2> QED BY <1>1, <2>2, <2>3 DEF RecordInv, ContentInv
<1> QED BY <1>2, <1>3, <1>4

(* Restoring: what is prepared holds what the backup recorded. *)
LEMMA PrepareRestores ==
  ASSUME RecordInv, Prepare
  PROVE  ContentInv' /\ ArchiveInv' /\ MergeInv'
<1>1. /\ step = "checked" /\ UNCHANGED <<copy, file, save, archive, record>>
  BY DEF Prepare, hostVars, webVars, archiveVars
<1>2. CASE step' = "idle"
  BY <1>1, <1>2 DEF RecordInv, ContentInv, ArchiveInv, MergeInv
<1>3. CASE step' = "prepared" /\ Mergeable(copy.settings, file)
           /\ merge'.content = Merge(copy.settings, file)
  <2>1. copy.settings \in Content /\ file \in Content /\ copy = record
    BY <1>1 DEF RecordInv, ContentInv, ArchiveInv, Stored
  <2>2. /\ merge'.content \in Content
        /\ \A k \in Restored(record.settings) : merge'.content[k] = record.settings[k]
    BY <1>3, <2>1, MergeRestores
  <2> QED
    BY <1>1, <1>3, <2>2 DEF RecordInv, ContentInv, ArchiveInv, MergeInv
<1> QED
  <2>1. \/ step' = "idle"
        \/ /\ step' = "prepared" /\ Mergeable(copy.settings, file)
           /\ merge' = [phase |-> "made", basis |-> file, saw |-> file,
                        content |-> Merge(copy.settings, file), relatedSaw |-> related,
                        related |-> IF copy.related = NoFile THEN NoFile
                                    ELSE RelatedMerge(copy.related, related)]
    BY DEF Prepare
  <2> QED BY <1>2, <1>3, <2>1

LEMMA StepRecorded == RecordInv /\ [Next]_vars => RecordInv'
<1> SUFFICES ASSUME RecordInv, [Next]_vars PROVE ContentInv' /\ ArchiveInv' /\ MergeInv'
  BY StepKept DEF RecordInv
<1> USE DEF RecordInv
<1> DEFINE Goal == ContentInv' /\ ArchiveInv' /\ MergeInv'
<1>1. ASSUME NEW b \in Browsers, Open(b) PROVE Goal
  BY <1>1 DEF Open, ContentInv, ArchiveInv, MergeInv, hostVars, archiveVars, workerVars
<1>2. ASSUME NEW b \in Browsers, Submit(b) PROVE Goal
  <2>1. UNCHANGED <<archive, record, step, copy, merge>>
    BY <1>2 DEF Submit, archiveVars, workerVars
  <2> QED BY <1>2, <2>1, SubmitTyped DEF ArchiveInv, MergeInv
<1>3. CASE CompareSave
  <2>1. /\ UNCHANGED <<file, archive, record, step, copy, merge>>
        /\ save' = NoSave \/ save' = [save EXCEPT !.phase = "replacing", !.saw = file]
        /\ save.phase = "reading"
    BY <1>3 DEF CompareSave, hostVars, archiveVars, workerVars
  <2>2. save'.phase \in {"reading", "replacing"} => save'.content \in Content
    <3>1. CASE save' = NoSave
      BY <3>1 DEF NoSave
    <3>2. CASE save' = [save EXCEPT !.phase = "replacing", !.saw = file]
      BY <2>1, <3>2 DEF ContentInv
    <3> QED BY <2>1, <3>1, <3>2
  <2> QED BY <2>1, <2>2 DEF ContentInv, ArchiveInv, MergeInv
<1>4. CASE ReplaceBySave
  BY <1>4 DEF ReplaceBySave, ContentInv, ArchiveInv, MergeInv, NoSave, archiveVars, workerVars
<1>5. CASE SaveFails
  BY <1>5 DEF SaveFails, ContentInv, ArchiveInv, MergeInv, NoSave, hostVars, archiveVars,
              workerVars
<1>6. CASE Backup
  <2>1. /\ step = "idle" /\ UNCHANGED <<file, save, step, copy, merge>>
        /\ archive' = [world |-> world, settings |-> Redact(file), related |-> Redact(related)]
    BY <1>6 DEF Backup, hostVars, webVars, workerVars
  <2>2. Stored(archive')
    BY <2>1, RedactTyped DEF Stored, ContentInv
  <2> QED BY <2>1, <2>2 DEF ContentInv, ArchiveInv, MergeInv
<1>7. CASE CopyArchive
  BY <1>7 DEF CopyArchive, ContentInv, ArchiveInv, MergeInv, hostVars, webVars, archiveVars
<1>8. CASE CheckArchive
  BY <1>8 DEF CheckArchive, Intact, Complete, ContentInv, ArchiveInv, MergeInv, hostVars,
              webVars, archiveVars
<1>9. CASE Prepare
  BY <1>9, PrepareRestores
<1>10. CASE CompareMerge
  <2>1. step = "prepared" /\ UNCHANGED <<copy, file, save, archive, record>>
    BY <1>10 DEF CompareMerge, hostVars, webVars, archiveVars
  <2>2. CASE step' = "idle"
    BY <2>1, <2>2 DEF ContentInv, ArchiveInv, MergeInv
  <2>3. CASE step' = "replacing" /\ merge' = [merge EXCEPT !.saw = file]
    <3>1. merge'.content = merge.content
      BY <2>1, <2>3 DEF KeptInv, MergeKept
    <3> QED BY <2>1, <2>3, <3>1 DEF ContentInv, ArchiveInv, MergeInv
  <2> QED BY <1>10, <2>2, <2>3 DEF CompareMerge
<1>11. CASE ReplaceByMerge
  BY <1>11 DEF ReplaceByMerge, ContentInv, ArchiveInv, MergeInv, webVars, archiveVars
<1>12. CASE ReplaceRelated \/ RestoreFails
  BY <1>12 DEF ReplaceRelated, RestoreFails, ContentInv, ArchiveInv, MergeInv, hostVars,
               webVars, archiveVars
<1>13. CASE Edit
  <2>1. UNCHANGED <<save, archive, record, step, copy, merge>>
    BY <1>13 DEF Edit, webVars, archiveVars, workerVars
  <2>2. file' \in Content
    BY <1>13 DEF Edit, ContentInv, Content
  <2> QED BY <2>1, <2>2 DEF ContentInv, ArchiveInv, MergeInv
<1>14. CASE Join
  BY <1>14 DEF Join, ContentInv, ArchiveInv, MergeInv, webVars, archiveVars, workerVars
<1>15. CASE Alter
  <2>1. PICK k \in Editable, v \in Values :
               archive' = [archive EXCEPT !.settings[k] = <<v>>]
    BY <1>15 DEF Alter
  <2>2. Stored(archive) /\ <<v>> \in Entries
    BY <1>15, OneIsEntry DEF Alter, ArchiveInv, Only
  <2>3. /\ archive' = [world |-> archive.world, related |-> archive.related,
                       settings |-> [archive.settings EXCEPT ![k] = <<v>>]]
    BY <2>1, <2>2 DEF Stored
  <2>4. Stored(archive')
    BY <2>2, <2>3 DEF Stored, Content
  <2>5. UNCHANGED <<record, file, save, step, copy, merge>>
    BY <1>15 DEF Alter, hostVars, webVars, workerVars
  <2> QED BY <2>4, <2>5 DEF ContentInv, ArchiveInv, MergeInv
<1>16. CASE UNCHANGED vars
  BY <1>16 DEF vars, ContentInv, ArchiveInv, MergeInv, hostVars, webVars, archiveVars, workerVars
<1> QED
  BY <1>1, <1>2, <1>3, <1>4, <1>5, <1>6, <1>7, <1>8, <1>9, <1>10, <1>11, <1>12, <1>13, <1>14,
     <1>15, <1>16 DEF Next, Web, Worker, Host

(* Whatever happens to the published archive, a Restore prepares and writes   *)
(* what the backup recorded (restores/service.py:148).                      *)
THEOREM RestoresTheRecord == Spec => []RestoresWhatWasRecorded
<1>1. RecordInv => RestoresWhatWasRecorded
  BY DEF RecordInv, ArchiveInv, MergeInv, RestoresWhatWasRecorded
<1> QED
  BY InitRecorded, StepRecorded, <1>1, PTL DEF Spec
=============================================================================
