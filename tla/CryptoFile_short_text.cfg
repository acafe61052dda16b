SPECIFICATION Spec
CONSTANTS
  noText = noText
  shortText = shortText
  longText = longText
  shortZeros = shortZeros
  longZeros = longZeros
  h1 = h1
  h2 = h2
  pwA = pwA
  pwB = pwB
  Handles = {h1}
  Passwords = {pwA}
  Empty = noText
  Garbage = longZeros
  Docs <- MCDocs
  Blocks <- MCBlocks
  Zeroed <- MCZeroed
  OldDocs = {}
  NewDocs = {}
  ReadOps = {"read"}
  Serialised = TRUE
  Faults = {}
  MaxFresh = 3
INVARIANT RoundTrip
