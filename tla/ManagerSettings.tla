--------------------------- MODULE ManagerSettings ---------------------------
(***************************************************************************)
(* The operational settings of the panel.  A page carries a digest of the   *)
(* values it shows; a save compares it with the stored values and writes    *)
(* all fields under one BEGIN IMMEDIATE.  Only the fields the scheduler     *)
(* reads are kept; the others are compared and written in the same way.     *)
(***************************************************************************)
EXTENDS Integers

CONSTANTS
  Zones,      \* timezones, each as its offset in ticks from UTC
  Times,      \* ticks of the day a backup can be scheduled at
  Default,    \* the values used for keys without a row
  Admins,     \* browser pages of administrators
  NoPage,     \* the page is not open
  MaxSaves    \* bound: saves accepted

Settings == [enabled : BOOLEAN, time : Times, zone : Zones]

ASSUME ManagerSettingsAssumption ==
  /\ Zones \subseteq Int
  /\ Times \subseteq Nat
  /\ Default \in Settings
  /\ NoPage \notin Settings
  /\ MaxSaves \in Nat

VARIABLES
  settings,   \* rows of app_settings, or the defaults
  page,       \* the values each page shows, which its digest stands for
  saves       \* saves accepted so far

settingsVars == <<settings, page, saves>>

SettingsTypeOK ==
  /\ settings \in Settings
  /\ page \in [Admins -> Settings \cup {NoPage}]
  /\ saves \in 0..MaxSaves

SettingsInit ==
  /\ settings = Default
  /\ page = [a \in Admins |-> NoPage]
  /\ saves = 0

(* Mutant of Current: any well-formed digest is accepted.                    *)
CurrentIfOpen(a) == page[a] # NoPage

(* The digest of the form is the digest of the stored values.               *)
Current(a) == page[a] = settings

Open(a) ==
  /\ page[a] # settings
  /\ page' = [page EXCEPT ![a] = settings]
  /\ UNCHANGED <<settings, saves>>

(* The form sends every field, also those the administrator did not touch.  *)
Save(a) ==
  /\ page[a] # NoPage
  /\ Current(a)
  /\ saves < MaxSaves
  /\ settings' \in Settings
  /\ saves' = saves + 1
  /\ page' = [page EXCEPT ![a] = NoPage]

(* The answer to a conflict is a page with the stored values.               *)
Conflict(a) ==
  /\ page[a] # NoPage
  /\ ~Current(a)
  /\ page' = [page EXCEPT ![a] = settings]
  /\ UNCHANGED <<settings, saves>>

(* A save changes a field only if its administrator changed it: two         *)
(* administrators with open pages never undo each other's edits.            *)
(* (app/manager_settings/service.py, update_manager_settings)               *)
EditsAreNotReverted ==
  [][\A a \in Admins : settings' # settings /\ page'[a] # page[a] =>
       \A f \in DOMAIN settings :
         settings'[f] # settings[f] => settings'[f] # page[a][f]]_settingsVars
=============================================================================
