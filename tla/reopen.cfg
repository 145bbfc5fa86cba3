CONSTANTS
  ana = ana
  bia = bia
  Nobody = Nobody
  Servers = {1,2}
  Primary = 1
  Registered <- OneBackup
  Joining = {}
  Profiles <- MCProfiles
  Files <- OneKnown
  MaxSessions = 2
  FirstPort = 10000
  LastPort = 10001
  MaxFollows = 0
  MaxSends = 0
  MaxInbox = 1
  MaxCrashes = 1

SPECIFICATION Spec

INVARIANTS
  PortsFree

CHECK_DEADLOCK FALSE
