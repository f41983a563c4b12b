SPECIFICATION Spec
CONSTANTS
  h1 = h1
  h2 = h2
  Handle = {h1, h2}
  Platforms = {TRUE, FALSE}
  Offsets <- MCOffsets
  Second = 2
  MaxTime = 2
  MaxPackets = 2
SYMMETRY MCSymmetry
INVARIANTS TypeOK KernelTimeIsArrival KernelTimeGiven ReceivedAtAfterArrival
