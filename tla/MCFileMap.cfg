SPECIFICATION Spec
CONSTANTS
  Kernels = {"v6", "v7", "211"}
  NADDR <- MCNaddr
  PER = 2
  BnRange = 12
  MaxL = 12
  Blocks = {b1, b2, b3, b4, b5}
  Others = {other}
  Junk <- MCJunk
CONSTRAINT MCNothingForgotten
SYMMETRY MCSymmetry
INVARIANTS BlocksAccounted MappedStays CutsTheTail
