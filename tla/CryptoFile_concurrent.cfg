SPECIFICATION Spec
CONSTANTS
  noText = noText
  shortText = shortText
  longText = longText
  shortZeros = shortZeros
  longZeros = longZeros
  h1 = h1
  h2 = h2
  pwA = pwA
  pwB = pwB
  Handles = {h1, h2}
  Passwords = {pwA}
  Empty = noText
  Garbage = longZeros
  Docs <- MCFewDocs
  Blocks <- MCFewBlocks
  Zeroed <- MCFewZeroed
  OldDocs = {}
  NewDocs <- MCOneDoc
  ReadOps = {"read"}
  Serialised = FALSE
  Faults = {"crash"}
  MaxFresh = 3
INVARIANTS ReadIsAuthentic
SYMMETRY MCHandleSymmetry
