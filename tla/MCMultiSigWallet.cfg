SPECIFICATION Spec
CONSTANTS
  alice = alice  bob = bob  carol = carol  pool = pool  oracle = oracle
  Accounts = {alice, bob, carol}
  ZeroAddress = ZeroAddress
  Applicants = {carol}
  Targets = {pool, oracle}
  InitialOwners <- MCInitialOwners
  threshold = 2
  MaxApplications = 2
INVARIANTS
  TypeOK
PROPERTIES
  KeepsPromise
CHECK_DEADLOCK FALSE
