SPECIFICATION Spec
CONSTANTS
  Editable = {rate}
  ReadOnly = {platforms}
  Sensitive = {password}
  Suspect = {token}
  Unknown = {extra}
  rate = rate
  platforms = platforms
  password = password
  token = token
  extra = extra
  Browsers = {b1, b2}
  b1 = b1
  b2 = b2
  MaxEdits = 1
  MaxSaves = 2
  MaxAlterations = 2
SYMMETRY Symmetric
CHECK_DEADLOCK FALSE
INVARIANTS
  RestoresWhatWasRecorded
PROPERTIES
  SettingsArePreserved
