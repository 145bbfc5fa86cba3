CONSTANTS
  Servers = {1,2,3}
  First = 2
  Nobody = Nobody
  Registered = {1,3}
  Late = FALSE
  MaxCrashes = 1
  MaxElections = 1
  MaxInbox = 2

SPECIFICATION Spec

INVARIANTS
  BindSucceeds

CHECK_DEADLOCK FALSE
