SPECIFICATION KeySpec
CONSTANTS
  PrfLength = 20
  MaxBlocks = 2
  Counts = {1, 2, 3}
  KeyLengths = {19, 20, 21, 40}
INVARIANTS Pkcs5Function
