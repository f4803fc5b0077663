SPECIFICATION Spec
CONSTANTS
  alice = alice  bob = bob  carol = carol  eve = eve
  Accounts = {alice, bob, carol, eve}
  Owners = {alice, bob, carol}
  ContractOwners = {alice, bob}
  required = 2
  Values = {0, 1}
  MaxTransactions = 2
  MaxReceived = 2
  MaxDepth = 2
SYMMETRY MCSymmetry
INVARIANTS
  TypeOK
  ConfirmationsCounted
  ExecutedByQuorum
  PaidOnce
PROPERTIES
  ExecutedIsFinal
CHECK_DEADLOCK FALSE
