CONSTANTS
  Servers = {1,2,3,4}
  First = 2
  Nobody = Nobody
  Registered = {1,3}
  Late = FALSE
  MaxCrashes = 1
  MaxElections = 2
  MaxInbox = 2

SPECIFICATION FairSpec

INVARIANTS
  Acquainted
  HighestWins

PROPERTIES
  PortServed

CHECK_DEADLOCK FALSE
