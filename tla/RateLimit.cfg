SPECIFICATION Spec
CONSTANTS
  alice = alice
  bob = bob
  carol = carol
  Clients <- ThreeClients
  Addresses <- TwoAddresses
  AddressOf <- TheAddresses
  MaxRequests = 2
  Window = 2
  MaxTime = 7
INVARIANTS
  TypeOK
  WindowBounded
  RefusalIsJustified
  RemainingIsExact
