CONSTANTS
  ana = ana
  bia = bia
  Nobody = Nobody
  Profiles <- MCOneProfile
  Backups <- MCNoBackup
  MaxSessions = 2
  FirstPort = 10000
  LastPort = 10002
  ClientsPerProfile <- Three
  MaxPosts = 2

SPECIFICATION FairSpec

INVARIANTS
  SessionCap
  SessionsMatchThreads
  SessionInv

PROPERTIES
  InOrder
  InboxDrains
