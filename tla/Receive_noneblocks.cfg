SPECIFICATION Spec
CONSTANTS
  h1 = h1
  h2 = h2
  Handle = {h1, h2}
  V6 = FALSE
  Platforms = {TRUE}
  Timeouts = {"none", "long"}
  DefaultCap = 2048
  Ops = {"recv"}
  Caps = {4096}
  MinLen = 8
  Packets <- MCOnePacket
  MaxPackets = 2
SYMMETRY MCSymmetry
INVARIANT NoneAlwaysBlocks
