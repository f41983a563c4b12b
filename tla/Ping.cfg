SPECIFICATION Spec
CONSTANTS
  a = a
  b = b
  here = here
  far = far
  other = other
  third = third
  Client = {a, b}
  Jobs <- MCJobs
  Host = {here, far, other, third}
  Port <- MCPort
  Local = here
  Stray <- MCStray
  Nobody = Nobody
  SeqMod = 2
  MaxRounds <- MCMaxRounds
  MaxFaults = 1
INVARIANTS TypeOK PrintsOwnReplies TimeIsOwn
PROPERTIES Paced RoundEnds
CHECK_DEADLOCK FALSE
