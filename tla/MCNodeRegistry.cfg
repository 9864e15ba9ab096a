SPECIFICATION RegistrySpec
CONSTANTS
  Nobody = Nobody
  Address = {n1, n2, n3, n4}
  MaxBlock = 3
INVARIANTS ListTypes WellFormed
PROPERTIES StartBlockStable ImplementsNodeList
SYMMETRY Addresses
