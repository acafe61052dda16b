SPECIFICATION ComputationsSpec
CONSTANTS
  MaxInt = 2147483647
  Lengths <- MCLengths
  ForeignLengths <- MCForeignLengths
  PrfLength = 20
  MaxBlocks = 2
  Counts = {0, 1, 2, 3}
  KeyLengths = {0, 1, 19, 20, 21, 32, 40, 41}
  Hmacs = {"h1", "h2"}
  Outputs = {"s1"}
  PieceBound = 2
  Alphabet = {65, 66, 68, 70}
  TextLengths = {0, 1, 3}
  Engines = {"stl", "cx11", "c", "dc3"}
  MaxText = 8
  MaxPattern = 2
  Texts <- MCTexts
  Patterns <- MCPatterns
  SizeModulus = 65536
  MaxSplit = 5
  SplitTexts <- MCSplitTexts
  Delimiters <- MCDelimiters
  Half = 4
  WordBits = 3
  BitCounts = {0, 2, 3, 4}
INVARIANTS ComputationsTypeOK StaysInStrings LengthsAreRight KeyIsComplete TextIsFromSet Dc3SortsSuffixes FindsAllOccurrences WildOnlyBelowAll IntSearchStaysInside TokensAreRight WordsAreExact BitsAreKept
PROPERTIES ComputationsReturn AllOrNothing
CHECK_DEADLOCK FALSE
