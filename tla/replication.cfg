CONSTANTS
  ana = ana
  bia = bia
  Nobody = Nobody
  Servers = {1,2,3}
  Primary = 1
  Registered <- UpToTwo
  Joining = {2}
  Profiles <- MCProfiles
  Files <- WholeOrCutOff
  MaxSessions = 2
  FirstPort = 10000
  LastPort = 10001
  MaxFollows = 1
  MaxSends = 1
  MaxInbox = 1
  MaxCrashes = 1

SPECIFICATION MCSpec

INVARIANTS
  TypeOK
  InStep
  ClientsServed
  KnownRows
  OfflineKept
  UpToDatePortsFree

CHECK_DEADLOCK FALSE
