SPECIFICATION Spec
CONSTANTS
  h1 = h1
  h2 = h2
  Handle = {h1, h2}
  V6 = FALSE
  Platforms = {TRUE, FALSE}
  Timeouts = {"none", "long"}
  DefaultCap = 2048
  Ops = {"recv", "meta"}
  Caps = {0}
  MinLen = 8
  Packets <- MCPackets
  MaxPackets = 2
SYMMETRY MCSymmetry
INVARIANTS TypeOK ErrorsHaveCause NoneBlocks
PROPERTY KeepsContract
