SPECIFICATION Spec
CONSTANTS
  c1 = c1
  c2 = c2
  c3 = c3
  home = home
  office = office
  NoBucket = NoBucket
  Clients <- ThreeClients
  Addresses <- TwoAddresses
  AddressOf <- MCAddressOf
  Polite <- MCPolite
  Burst = 2
  Unit = 3
  Gain = 2
  Second = 2
  Window = 3
INVARIANTS TypeOK NeverMoreThanRate ToldWithinHalfSecond
PROPERTIES RefusedThenServed
