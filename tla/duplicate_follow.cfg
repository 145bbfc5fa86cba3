CONSTANTS
  ana = ana
  bia = bia
  Nobody = Nobody
  Profiles <- MCProfiles
  Backups <- MCBackups
  MaxSessions = 2
  FirstPort = 10000
  LastPort = 10002
  ClientsPerProfile <- Two
  MaxPosts = 2

SPECIFICATION Spec

INVARIANTS
  FollowersListedOnce
