CONSTANTS
  Profiles <- MCProfiles
  Known = {2}
  Loop = 4
  BufferSize = 6
  MaxFollows = 3
  MaxCrashes = 1

SPECIFICATION Spec

INVARIANTS
  TypeOK
  SavedWhenQuiet
  RestoresOnlyWhatWas

CHECK_DEADLOCK FALSE
