SPECIFICATION Spec
CONSTANTS
  noText = noText
  shortText = shortText
  longText = longText
  shortZeros = shortZeros
  longZeros = longZeros
  h1 = h1
  h2 = h2
  pwA = pwA
  pwB = pwB
  Handles = {h1}
  Passwords = {pwA}
  Empty = noText
  Garbage = longZeros
  Docs <- MCFewDocs
  Blocks <- MCFewBlocks
  Zeroed <- MCFewZeroed
  OldDocs = {}
  NewDocs = {}
  ReadOps = {"read"}
  Serialised = TRUE
  Faults = {"open", "write"}
  MaxFresh = 3
INVARIANT SuccessMeansWritten
