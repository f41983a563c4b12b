SPECIFICATION FairSpec
CONSTANTS
  h1 = h1
  h2 = h2
  Handle = {h1, h2}
  V6 = FALSE
  Platforms = {TRUE}
  Timeouts = {"none", "tiny", "long"}
  DefaultCap = 2048
  Ops = {"recv"}
  Caps = {}
  MinLen = 8
  Packets <- MCOnePacket
  MaxPackets = 2
PROPERTY TimedCallReturns
