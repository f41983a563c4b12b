SPECIFICATION Spec
CONSTANTS
  h1 = h1
  h2 = h2
  h3 = h3
  s1 = s1
  s2 = s2
  a1 = a1
  a2 = a2
  Handle <- MCTwoHandles
  Sock <- MCSock
  Addr <- MCAddr
  Port = {7, 9}
  Hops = {1, 256}
  KernelTtl = 64
  KernelAssignsPorts = TRUE
  None = None
SYMMETRY MCSymmetry
INVARIANTS TypeOK BoundToTruthful IdentifiersTellSocketsApart WireCarriesIdentifier UndisturbedTtl ChecksumSourceBound AsyncNeverBlocks
