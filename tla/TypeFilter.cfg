SPECIFICATION Spec
CONSTANTS
  c1 = c1
  c2 = c2
  Caller = {c1, c2}
  Type = {31, 32, 255}
  MaxList = 3
SYMMETRY MCSymmetry
INVARIANTS TypeOK MaskTracksLoop FilterMatchesRequest InvalidExactlyWhenUnfilterable
