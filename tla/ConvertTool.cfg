SPECIFICATION ConvertSpec
CONSTANTS
  noText = noText
  shortText = shortText
  longText = longText
  shortZeros = shortZeros
  longZeros = longZeros
  h1 = h1
  h2 = h2
  pwA = pwA
  pwB = pwB
  Handles = {h1, h2}
  Passwords = {pwA}
  Empty = noText
  Garbage = longZeros
  Docs <- MCFewDocs
  Blocks <- MCFewBlocks
  Zeroed <- MCFewZeroed
  OldDocs <- MCFewDocs
  NewDocs = {}
  ReadOps = {"read_old"}
  Serialised = TRUE
  Faults = {"crash","random","write"}
  MaxFresh = 4
CHECK_DEADLOCK FALSE
INVARIANTS ConversionKeepsDocument SuccessMeansConverted
PROPERTIES ConvertedIsLeftAlone
