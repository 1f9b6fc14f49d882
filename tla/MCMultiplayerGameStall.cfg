SPECIFICATION Spec
CONSTANTS
  N = 3
  Bounds <- MCStall
INVARIANTS
  NeverStalled
