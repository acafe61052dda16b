SPECIFICATION ConvertSpec
CONSTANTS
  noText = noText
  shortText = shortText
  longText = longText
  shortZeros = shortZeros
  longZeros = longZeros
  h1 = h1
  h2 = h2
  pwA = pwA
  pwB = pwB
  Handles = {h1, h2}
  Passwords = {pwA, pwB}
  Empty = noText
  Garbage = longZeros
  Docs <- MCFewDocs
  Blocks <- MCFewBlocks
  Zeroed <- MCFewZeroed
  OldDocs <- MCOneDoc
  NewDocs = {}
  ReadOps = {"read_old"}
  Serialised = TRUE
  Faults = {}
  MaxFresh = 4
CHECK_DEADLOCK FALSE
INVARIANTS ConversionKeepsDocument
