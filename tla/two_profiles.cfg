CONSTANTS
  ana = ana
  bia = bia
  Nobody = Nobody
  Profiles <- MCProfiles
  Backups <- MCOldServer
  MaxSessions = 2
  FirstPort = 10000
  LastPort = 10002
  ClientsPerProfile <- TwoAndOne
  MaxPosts = 1

SPECIFICATION Spec

INVARIANTS
  TypeOK
  FewDuplicates

PROPERTIES
  OnlyTheFileLosesRows
  ImplementsMailbox
