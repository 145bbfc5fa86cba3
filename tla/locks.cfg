CONSTANTS
  Threads = {loop, client1, client2}
  Nobody = Nobody
  MaxNesting = 2

SPECIFICATION FairSpec

INVARIANTS
  TypeOK
  Exclusion
  ReadersCounted
  LockInv

PROPERTIES
  ImplementsSharedAccess
  CallsKeepReturning
