SPECIFICATION RefSpec
CONSTANTS
  noText = noText
  shortText = shortText
  longText = longText
  shortZeros = shortZeros
  longZeros = longZeros
  h1 = h1
  h2 = h2
  pwA = pwA
  pwB = pwB
  Handles = {h1}
  Passwords = {pwA, pwB}
  Empty = noText
  Garbage = longZeros
  Docs <- MCFewDocs
  Blocks <- MCFewBlocks
  Zeroed <- MCFewZeroed
  OldDocs = {}
  NewDocs <- MCOneDoc
  ReadOps = {"read", "read_old"}
  Serialised = TRUE
  Faults = {"crash","random"}
  MaxFresh = 3
PROPERTIES ImplementsRegister
PROPERTIES WriteReachesFile
