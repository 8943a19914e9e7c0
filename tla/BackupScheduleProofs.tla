------------------------- MODULE BackupScheduleProofs -------------------------
(***************************************************************************)
(* Proofs about BackupSchedule: types, saves that never undo another one,   *)
(* and at most one automatic backup per local date as long as the local     *)
(* clock does not go back, for every calendar, set of timezones, number of   *)
(* administrators, saves, crashes and requests.                             *)
(***************************************************************************)
EXTENDS BackupSchedule, TLAPS

(* Dates are integers, and later ticks or zones further east have later or   *)
(* equal dates.                                                             *)
LEMMA DateIsInt ==
  ASSUME NEW t \in Int, NEW z \in Int
  PROVE  Date(t, z) \in Int
  BY ScheduleAssumption DEF Date

LEMMA DateRises ==
  ASSUME NEW t \in Int, NEW z \in Int, NEW u \in Int, NEW y \in Int, t =< u, z =< y
  PROVE  Date(t, z) =< Date(u, y)
<1>1. t + z \in Int /\ u + y \in Int /\ t + z =< u + y
  OBVIOUS
<1>2. ASSUME NEW a \in Int, NEW b \in Int, a =< b, NEW n \in Nat \ {0}
      PROVE  a \div n =< b \div n
  BY <1>2, SMTT(30)
<1> QED
  BY <1>1, <1>2, ScheduleAssumption DEF Date

LEMMA DatesAreInts == Dates \subseteq Int
  BY DateIsInt, ScheduleAssumption, ManagerSettingsAssumption DEF Dates

(* What the timezone of any stored settings, and of the defaults, is.        *)
LEMMA ZonesAreInts ==
  /\ \A s \in Settings : s.zone \in Zones
  /\ Zones \subseteq Int
  /\ Default.zone \in Zones
  BY ManagerSettingsAssumption DEF Settings

-----------------------------------------------------------------------------
(* Types. *)

LEMMA InitTyped == Init => TypeOK
<1> SUFFICES ASSUME Init PROVE TypeOK
  OBVIOUS
<1>1. SettingsTypeOK
  BY ManagerSettingsAssumption DEF Init, SettingsInit, SettingsTypeOK
<1>2. view \in [now : 0..LastTick, zone : Zones, date : Dates \cup {NoDate}]
  BY ZonesAreInts, ScheduleAssumption DEF Init, NothingSeen
<1> QED
  BY <1>1, <1>2, ScheduleAssumption DEF Init, TypeOK, Phases

LEMMA StepTyped == TypeOK /\ [Next]_vars => TypeOK'
<1> SUFFICES ASSUME TypeOK, [Next]_vars PROVE TypeOK'
  OBVIOUS
<1> USE ScheduleAssumption, ManagerSettingsAssumption, ZonesAreInts
<1>0. NothingSeen \in [now : 0..LastTick, zone : Zones, date : Dates \cup {NoDate}]
  BY DEF NothingSeen
<1>1. CASE ReadEnabled
  BY <1>0, <1>1 DEF ReadEnabled, TypeOK, SettingsTypeOK, settingsVars, countVars, Phases, NothingSeen
<1>2. CASE ReadZone
  BY <1>2 DEF ReadZone, TypeOK, SettingsTypeOK, settingsVars, countVars, Phases
<1>3. CASE ReadTime
  <2>1. Date(view.now, view.zone) \in Dates
    BY DEF TypeOK, Dates
  <2>2. view' \in [now : 0..LastTick, zone : Zones, date : Dates \cup {NoDate}]
    BY <1>0, <1>3, <2>1 DEF ReadTime, TypeOK
  <2> QED
    BY <1>3, <2>2 DEF ReadTime, TypeOK, SettingsTypeOK, settingsVars, countVars, Phases
<1>4. CASE ReadActive
  BY <1>0, <1>4 DEF ReadActive, TypeOK, SettingsTypeOK, settingsVars, countVars, Phases
<1>5. CASE InsertAutomatic
  <2>1. made' = [d \in Dates |-> IF d = view.date THEN made[d] + 1 ELSE made[d]]
    BY <1>5 DEF InsertAutomatic, TypeOK
  <2>2. \A d \in Dates : made[d] \in Nat /\ made[d] + 1 \in Nat
    BY DEF TypeOK
  <2>3. made' \in [Dates -> Nat]
    BY <2>1, <2>2
  <2> QED
    BY <1>0, <1>5, <2>3 DEF InsertAutomatic, TypeOK, SettingsTypeOK, settingsVars, countVars, Phases
<1>6. CASE InsertFails
  BY <1>0, <1>6 DEF InsertFails, TypeOK, SettingsTypeOK, settingsVars, countVars, Phases
<1>7. CASE Process
  BY <1>7 DEF Process, TypeOK, SettingsTypeOK, settingsVars, countVars, Phases
<1>8. CASE Finish
  BY <1>8 DEF Finish, TypeOK, SettingsTypeOK, settingsVars, countVars, Phases
<1>9. CASE Restart
  BY <1>9 DEF Restart, TypeOK, SettingsTypeOK, settingsVars, countVars, Phases
<1>10. CASE Crash
  BY <1>0, <1>10 DEF Crash, TypeOK, SettingsTypeOK, settingsVars, Phases
<1>11. CASE RequestManual
  BY <1>11 DEF RequestManual, TypeOK, SettingsTypeOK, settingsVars
<1>12. CASE Tick
  BY <1>12 DEF Tick, TypeOK, SettingsTypeOK, settingsVars, workerVars, countVars
<1>13. CASE SetBack
  BY <1>13 DEF SetBack, TypeOK, SettingsTypeOK, settingsVars, workerVars
<1>14. CASE \E a \in Admins : Administer(a)
  <2>1. PICK a \in Admins : Administer(a)
    BY <1>14
  <2>2. SettingsTypeOK'
    BY <2>1 DEF Administer, Open, Save, Conflict, TypeOK, SettingsTypeOK
  <2>3. westward' \in Nat
    BY <2>1 DEF Administer, TypeOK
  <2> QED
    BY <2>1, <2>2, <2>3 DEF Administer, TypeOK, workerVars, countVars
<1>15. CASE UNCHANGED vars
  BY <1>15 DEF vars, TypeOK, SettingsTypeOK, settingsVars, workerVars, countVars
<1> QED
  BY <1>1, <1>2, <1>3, <1>4, <1>5, <1>6, <1>7, <1>8, <1>9, <1>10, <1>11, <1>12,
     <1>13, <1>14, <1>15 DEF Next, Worker

(* Every reachable state is well typed                                      *)
(* (app/backups/scheduler.py, app/manager_settings/service.py).             *)
THEOREM ScheduleTyped == Spec => []TypeOK
<1>1. Init => TypeOK
  BY InitTyped
<1>2. TypeOK /\ [Next]_vars => TypeOK'
  BY StepTyped
<1> QED
  BY <1>1, <1>2, PTL DEF Spec

-----------------------------------------------------------------------------
(* Saves. *)

LEMMA StepKeepsEdits ==
  ASSUME TypeOK, [Next]_vars
  PROVE  [\A a \in Admins : settings' # settings /\ page'[a] # page[a] =>
            \A f \in DOMAIN settings :
              settings'[f] # settings[f] => settings'[f] # page[a][f]]_settingsVars
<1>1. CASE \E a \in Admins : Administer(a)
  <2>1. PICK b \in Admins : Administer(b)
    BY <1>1
  <2>2. CASE Save(b)
    <3>1. page[b] = settings
      BY <2>2 DEF Save, Current
    <3>2. \A a \in Admins : a # b => page'[a] = page[a]
      BY <2>2 DEF Save, TypeOK, SettingsTypeOK
    <3> QED
      BY <3>1, <3>2
  <2>3. CASE Open(b) \/ Conflict(b)
    BY <2>3 DEF Open, Conflict
  <2> QED
    BY <2>1, <2>2, <2>3 DEF Administer
<1>2. CASE ~\E a \in Admins : Administer(a)
  BY <1>2 DEF Next, Worker, vars, ReadEnabled, ReadZone, ReadTime, ReadActive, InsertAutomatic,
              InsertFails, Process, Finish, Restart, Crash, RequestManual, Tick, SetBack
<1> QED
  BY <1>1, <1>2

(* No save undoes a field another administrator saved after this page was    *)
(* opened (app/manager_settings/service.py, update_manager_settings).        *)
THEOREM EditsSurvive == Spec => EditsAreNotReverted
<1>1. TypeOK /\ [Next]_vars =>
        [\A a \in Admins : settings' # settings /\ page'[a] # page[a] =>
            \A f \in DOMAIN settings :
              settings'[f] # settings[f] => settings'[f] # page[a][f]]_settingsVars
  BY StepKeepsEdits
<1> QED
  BY <1>1, ScheduleTyped, PTL DEF Spec, EditsAreNotReverted

-----------------------------------------------------------------------------
(* One automatic backup per date.  Dates reach the marker along the chain    *)
(* marker, date being read, date of today.  The chain goes down at a link    *)
(* only after the local clock went back, and each such move pays for one     *)
(* repetition of every date.                                                *)

Beyond(d) == marker = NoDate \/ marker < d

(* k moves back have not been used by a repetition yet.                      *)
Slack(k) ==
  \A d \in Dates :
    /\ made[d] + k =< westward + 1
    /\ Beyond(d) => made[d] + k =< westward

Reading == phase \in {"zone", "time", "conflict", "insert"}

(* The date the scheduler is going to act on, as far as it is settled.       *)
SeenDate ==
  IF phase = "zone" THEN Date(view.now, settings.zone)
  ELSE IF phase = "time" THEN Date(view.now, view.zone)
  ELSE IF phase \in {"conflict", "insert"} THEN view.date
  ELSE Today

Behind == marker # NoDate /\ SeenDate < marker

(* The local clock went back since the scheduler read clock or timezone.     *)
Moved ==
  \/ Reading /\ now < view.now
  \/ Reading /\ phase # "zone" /\ settings.zone < view.zone

Chosen ==
  phase \in {"conflict", "insert"} =>
    view.date = Date(view.now, view.zone) /\ view.date # marker

Paid ==
  /\ Slack(0)
  /\ Behind \/ Moved => Slack(1)
  /\ Behind /\ Moved => Slack(2)

IInv == Paid /\ Chosen

LEMMA InitIInv == Init => IInv
<1> SUFFICES ASSUME Init PROVE IInv
  OBVIOUS
<1>1. Slack(0)
  BY DEF Init, Slack
<1>2. ~Behind /\ ~Moved /\ Chosen
  BY DEF Init, Behind, Moved, Reading, Chosen
<1> QED
  BY <1>1, <1>2 DEF IInv, Paid

(* The integers that the date arithmetic is about.                           *)
LEMMA TypedInts ==
  ASSUME TypeOK
  PROVE  /\ now \in Int /\ view.now \in Int /\ view.zone \in Int /\ settings.zone \in Int
         /\ marker \in Int \cup {NoDate} /\ westward \in Nat
         /\ \A d \in Dates : made[d] \in Nat /\ d \in Int
<1>1. now \in Int /\ view.now \in Int
  BY ScheduleAssumption DEF TypeOK
<1>2. view.zone \in Int
  BY ZonesAreInts DEF TypeOK
<1>3. settings.zone \in Int
  BY ZonesAreInts DEF TypeOK, SettingsTypeOK
<1>4. marker \in Int \cup {NoDate} /\ westward \in Nat
  BY DatesAreInts DEF TypeOK
<1>5. \A d \in Dates : made[d] \in Nat /\ d \in Int
  BY DatesAreInts DEF TypeOK
<1> QED
  BY <1>1, <1>2, <1>3, <1>4, <1>5

(* Unless the clock moved, today is not before the date being acted on.      *)
LEMMA TodayFollows ==
  ASSUME TypeOK, Chosen, Reading, ~Moved
  PROVE  SeenDate =< Today /\ SeenDate \in Int /\ Today \in Int
<1>1. now \in Int /\ view.now \in Int /\ view.zone \in Int /\ settings.zone \in Int
  BY TypedInts
<1>2. CASE phase = "zone"
  <2>1. SeenDate = Date(view.now, settings.zone)
    BY <1>2 DEF SeenDate
  <2>2. view.now =< now /\ settings.zone =< settings.zone
    BY <1>1 DEF Moved
  <2>3. Date(view.now, settings.zone) =< Date(now, settings.zone)
    BY <1>1, <2>2, DateRises
  <2> QED
    BY <1>1, <2>1, <2>3, DateIsInt DEF Today
<1>3. CASE phase \in {"time", "conflict", "insert"}
  <2>1. SeenDate = Date(view.now, view.zone)
    BY <1>3 DEF SeenDate, Chosen
  <2>2. view.now =< now /\ view.zone =< settings.zone
    BY <1>1, <1>3 DEF Moved, Reading
  <2>3. Date(view.now, view.zone) =< Date(now, settings.zone)
    BY <1>1, <2>2, DateRises
  <2> QED
    BY <1>1, <2>1, <2>3, DateIsInt DEF Today
<1> QED
  BY <1>2, <1>3 DEF Reading

(* Steps that use up no move and make none.                                  *)
LEMMA KeepPaid ==
  ASSUME TypeOK, Paid, UNCHANGED <<marker, made, westward>>,
         Behind' \/ Moved' => Behind \/ Moved,
         Behind' /\ Moved' => Behind /\ Moved
  PROVE  Paid'
<1>1. \A k \in {0, 1, 2} : Slack(k) => Slack(k)'
  BY DEF Slack, Beyond
<1> QED
  BY <1>1 DEF Paid

(* A move back of the local clock turns at most one link of the chain.       *)
LEMMA MovePaid ==
  ASSUME TypeOK, Paid, UNCHANGED <<marker, made>>, westward' = westward + 1,
         Behind' /\ Moved' => Behind \/ Moved
  PROVE  Paid'
<1> USE TypedInts
<1>1. Slack(0) => Slack(0)' /\ Slack(1)'
  BY DEF Slack, Beyond
<1>2. Slack(1) => Slack(2)'
  BY DEF Slack, Beyond
<1> QED
  BY <1>1, <1>2 DEF Paid

(* The scheduler gives the date up, or the worker dies.                      *)
LEMMA LeavePaid ==
  ASSUME TypeOK, IInv, Reading, ~Reading',
         UNCHANGED <<marker, made, westward, now, settings>>
  PROVE  IInv'
<1>1. ~Moved' /\ Chosen'
  BY DEF Moved, Chosen, Reading
<1>2. SeenDate' = Today
  BY DEF SeenDate, Reading, Today
<1>3. Behind' => Behind \/ Moved
  BY <1>2, TodayFollows, TypedInts DEF Behind, IInv
<1> QED
  BY <1>1, <1>3, KeepPaid DEF IInv

(* The repetition of a date uses up the move that made it possible.          *)
LEMMA InsertPaid == ASSUME TypeOK, IInv, InsertAutomatic PROVE IInv'
<1> USE TypedInts
<1> DEFINE d0 == view.date
<1>1. phase = "insert" /\ d0 # marker /\ d0 \in Int /\ SeenDate = d0
  BY DateIsInt DEF InsertAutomatic, IInv, Chosen, SeenDate
<1>2. marker' = d0 /\ westward' = westward /\ now' = now /\ settings' = settings
  BY DEF InsertAutomatic, settingsVars
<1>3. \A d \in Dates : made'[d] = IF d = d0 THEN made[d] + 1 ELSE made[d]
  BY DEF InsertAutomatic, TypeOK
<1>4. ~Moved' /\ Chosen'
  BY DEF InsertAutomatic, Moved, Chosen, Reading
<1>5. marker' # NoDate
  BY <1>1, <1>2, ScheduleAssumption
<1>6. ASSUME NEW k \in {0, 1}, Slack(k), d0 < marker /\ marker # NoDate => Slack(k + 1)
      PROVE  Slack(k)'
  <2>1. CASE marker # NoDate /\ d0 < marker
    <3>1. Slack(k + 1)
      BY <1>6, <2>1
    <3> QED
      BY <1>1, <1>2, <1>3, <1>5, <3>1 DEF Slack, Beyond
  <2>2. CASE Beyond(d0)
    BY <1>1, <1>2, <1>3, <1>5, <1>6, <2>2 DEF Slack, Beyond
  <2> QED
    BY <1>1, <2>1, <2>2 DEF Beyond
<1>7. Slack(0)'
  <2>1. d0 < marker /\ marker # NoDate => Slack(0 + 1)
    BY <1>1 DEF IInv, Paid, Behind
  <2> QED
    BY <1>6, <2>1 DEF IInv, Paid
<1>8. Behind' => Slack(1)'
  <2> SUFFICES ASSUME Behind' PROVE Slack(1)'
    OBVIOUS
  <2>1. Today < d0
    BY <1>2 DEF InsertAutomatic, Behind, SeenDate, Today
  <2>2. Moved
    BY <1>1, <2>1, TodayFollows DEF IInv, Reading
  <2>3. Slack(1) /\ (d0 < marker /\ marker # NoDate => Slack(1 + 1))
    BY <1>1, <2>2 DEF IInv, Paid, Behind
  <2> QED
    BY <1>6, <2>3
<1> QED
  BY <1>4, <1>7, <1>8 DEF IInv, Paid

LEMMA ReadPaid ==
  ASSUME TypeOK, IInv, ReadEnabled \/ ReadZone \/ ReadTime \/ ReadActive
  PROVE  IInv'
<1> USE TypedInts
<1>0. UNCHANGED <<marker, made, westward, now, settings>>
  BY DEF ReadEnabled, ReadZone, ReadTime, ReadActive, settingsVars
<1>1. CASE Reading /\ ~Reading'
  BY <1>0, <1>1, LeavePaid
<1>2. CASE ReadEnabled
  <2>1. ~Reading /\ ~Moved /\ ~Moved' /\ Chosen'
    BY <1>0, <1>2 DEF ReadEnabled, Reading, Moved, Chosen, NothingSeen
  <2>2. SeenDate = Today /\ SeenDate' = Today
    BY <1>0, <1>2 DEF ReadEnabled, SeenDate, Today, NothingSeen
  <2> QED
    BY <1>0, <2>1, <2>2, KeepPaid DEF IInv, Behind
<1>3. CASE ReadZone
  <2>1. SeenDate' = SeenDate /\ (Moved' <=> Moved) /\ Chosen'
    BY <1>0, <1>3 DEF ReadZone, SeenDate, Moved, Reading, Chosen, TypeOK
  <2> QED
    BY <1>0, <2>1, KeepPaid DEF IInv, Behind
<1>4. CASE ReadTime /\ Reading'
  <2>1. /\ phase = "time" /\ phase' = "conflict"
        /\ view' = [view EXCEPT !.date = Date(view.now, view.zone)]
        /\ Date(view.now, view.zone) # marker
    BY <1>4 DEF ReadTime, Reading, Fresh
  <2>2. SeenDate' = SeenDate /\ (Moved' <=> Moved) /\ Chosen'
    BY <1>0, <2>1 DEF SeenDate, Moved, Reading, Chosen, TypeOK
  <2> QED
    BY <1>0, <2>2, KeepPaid DEF IInv, Behind
<1>5. CASE ReadActive /\ Reading'
  <2>1. phase = "conflict" /\ phase' = "insert" /\ view' = view
    BY <1>5 DEF ReadActive, Reading
  <2>2. SeenDate' = SeenDate /\ (Moved' <=> Moved) /\ Chosen'
    BY <1>0, <2>1 DEF SeenDate, Moved, Reading, Chosen, IInv
  <2> QED
    BY <1>0, <2>2, KeepPaid DEF IInv, Behind
<1> QED
  BY <1>1, <1>2, <1>3, <1>4, <1>5 DEF ReadTime, ReadActive, Reading

(* Steps that leave the scheduler's chain alone, or only let time pass.      *)
LEMMA OtherPaid ==
  ASSUME TypeOK, IInv,
         UNCHANGED <<marker, made, westward, view, settings>>,
         now' \in Int, now =< now',
         phase' = phase \/ (~Reading /\ ~Reading')
  PROVE  IInv'
<1> USE TypedInts
<1>1. Chosen'
  BY DEF Chosen, Reading, IInv
<1>2. Moved' => Moved
  BY DEF Moved, Reading
<1>3. Today =< Today' /\ Today \in Int /\ Today' \in Int
  <2>1. settings.zone =< settings.zone
    OBVIOUS
  <2>2. Date(now, settings.zone) =< Date(now', settings.zone)
    BY <2>1, DateRises
  <2> QED
    BY <2>2, DateIsInt DEF Today
<1>4. SeenDate' = SeenDate \/ (SeenDate = Today /\ SeenDate' = Today')
  BY DEF SeenDate, Reading, Today
<1>5. Behind' => Behind
  BY <1>3, <1>4 DEF Behind
<1> QED
  BY <1>1, <1>2, <1>5, KeepPaid DEF IInv

LEMMA SetBackPaid == ASSUME TypeOK, IInv, SetBack PROVE IInv'
<1> USE TypedInts
<1>0. UNCHANGED <<settings, marker, phase, view, made>> /\ westward' = westward + 1
  BY DEF SetBack, workerVars, settingsVars
<1>1. Chosen'
  BY <1>0 DEF Chosen, IInv
<1>2. Behind' /\ Moved' => Behind \/ Moved
  BY <1>0 DEF Behind, Moved, SeenDate, Reading
<1> QED
  BY <1>0, <1>1, <1>2, MovePaid DEF IInv

LEMMA AdministerPaid ==
  ASSUME TypeOK, TypeOK', IInv, NEW a \in Admins, Administer(a)
  PROVE  IInv'
<1> USE TypedInts
<1>0. UNCHANGED <<marker, phase, view, made, now>>
  BY DEF Administer, workerVars
<1>1. Chosen'
  BY <1>0 DEF Chosen, IInv
<1>2. settings'.zone \in Int
  BY ZonesAreInts DEF TypeOK, SettingsTypeOK
<1>3. CASE settings'.zone < settings.zone
  <2>1. westward' = westward + 1
    BY <1>3 DEF Administer
  <2>2. Behind' /\ Moved' => Behind \/ Moved
    BY <1>0 DEF Behind, Moved, SeenDate, Reading
  <2> QED
    BY <1>0, <1>1, <2>1, <2>2, MovePaid DEF IInv
<1>4. CASE ~(settings'.zone < settings.zone)
  <2>1. westward' = westward
    BY <1>4 DEF Administer
  <2>2. Moved' => Moved
    BY <1>0, <1>2, <1>4 DEF Moved, Reading
  <2>3. \A t \in Int : /\ Date(t, settings.zone) =< Date(t, settings'.zone)
                       /\ Date(t, settings.zone) \in Int /\ Date(t, settings'.zone) \in Int
    <3> TAKE t \in Int
    <3>1. t =< t /\ settings.zone =< settings'.zone
      BY <1>2, <1>4
    <3> QED
      BY <1>2, <3>1, DateIsInt, DateRises
  <2>4. Behind' => Behind
    BY <1>0, <2>3 DEF Behind, SeenDate, Today
  <2> QED
    BY <1>0, <1>1, <2>1, <2>2, <2>4, KeepPaid DEF IInv
<1> QED
  BY <1>3, <1>4

LEMMA StepIInv == TypeOK /\ IInv /\ [Next]_vars => IInv'
<1> SUFFICES ASSUME TypeOK, IInv, [Next]_vars PROVE IInv'
  OBVIOUS
<1> USE TypedInts
<1>1. CASE ReadEnabled \/ ReadZone \/ ReadTime \/ ReadActive
  BY <1>1, ReadPaid
<1>2. CASE InsertAutomatic
  BY <1>2, InsertPaid
<1>3. CASE InsertFails
  BY <1>3, LeavePaid DEF InsertFails, Reading, settingsVars
<1>4. CASE Process \/ Finish \/ Restart
  BY <1>4, OtherPaid DEF Process, Finish, Restart, Reading, settingsVars
<1>5. CASE Crash
  <2>1. UNCHANGED <<marker, made, westward, now, settings>> /\ ~Reading'
    BY <1>5 DEF Crash, Reading, settingsVars
  <2>2. CASE Reading
    BY <2>1, <2>2, LeavePaid
  <2>3. CASE ~Reading
    <3>1. ~Moved /\ ~Moved' /\ Chosen'
      BY <2>1, <2>3 DEF Moved, Chosen, Reading
    <3>2. SeenDate' = SeenDate
      BY <2>1, <2>3 DEF SeenDate, Reading, Today
    <3> QED
      BY <2>1, <3>1, <3>2, KeepPaid DEF IInv, Behind
  <2> QED
    BY <2>2, <2>3
<1>6. CASE RequestManual
  BY <1>6, OtherPaid DEF RequestManual, settingsVars
<1>7. CASE Tick
  BY <1>7, OtherPaid DEF Tick, settingsVars, workerVars
<1>8. CASE SetBack
  BY <1>8, SetBackPaid
<1>9. CASE \E a \in Admins : Administer(a)
  BY <1>9, AdministerPaid, StepTyped
<1>10. CASE UNCHANGED vars
  BY <1>10, OtherPaid DEF vars, settingsVars, workerVars
<1> QED
  BY <1>1, <1>2, <1>3, <1>4, <1>5, <1>6, <1>7, <1>8, <1>9, <1>10 DEF Next, Worker

(* A date gets at most one automatic backup more than the local clock went   *)
(* back (app/backups/scheduler.py, schedule_daily_backup).                   *)
THEOREM DatesAreNotRepeated == Spec => []OncePerDate
<1>1. Init => IInv
  BY InitIInv
<1>2. TypeOK /\ IInv /\ [Next]_vars => IInv'
  BY StepIInv
<1>3. TypeOK /\ IInv => OncePerDate
  BY TypedInts DEF IInv, Paid, Slack, OncePerDate
<1> QED
  BY <1>1, <1>2, <1>3, ScheduleTyped, PTL DEF Spec
=============================================================================
