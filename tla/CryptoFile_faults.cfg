SPECIFICATION Spec
CONSTANTS
  noText = noText
  shortText = shortText
  longText = longText
  shortZeros = shortZeros
  longZeros = longZeros
  h1 = h1
  h2 = h2
  pwA = pwA
  pwB = pwB
  Handles = {h1}
  Passwords = {pwA, pwB}
  Empty = noText
  Garbage = longZeros
  Docs <- MCDocs
  Blocks <- MCBlocks
  Zeroed <- MCZeroed
  OldDocs <- MCOneDoc
  NewDocs <- MCOneDoc
  ReadOps = {"read", "read_old"}
  Serialised = TRUE
  Faults = {"random","open","write","crash"}
  MaxFresh = 3
INVARIANTS TypeOK ReadIsAuthentic IvNeverReused FailedReadLeavesNoText
SYMMETRY MCPasswordSymmetry
