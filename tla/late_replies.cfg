CONSTANTS
  Servers = {1,2,3}
  First = 2
  Nobody = Nobody
  Registered = {}
  Late = TRUE
  MaxCrashes = 2
  MaxElections = 2
  MaxInbox = 2

SPECIFICATION Spec

INVARIANTS
  TypeOK
  OnePrimary
  CoordinatorForgotten

CHECK_DEADLOCK FALSE
