CONSTANTS
  ana = ana
  bia = bia
  Nobody = Nobody
  Profiles <- MCOneProfile
  Backups <- MCNoBackup
  MaxSessions = 2
  FirstPort = 10000
  LastPort = 10001
  ClientsPerProfile <- TwoOfOne
  MaxPosts = 2

SPECIFICATION Spec

INVARIANTS
  NoReadOfEmptyList
