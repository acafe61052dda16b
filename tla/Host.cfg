SPECIFICATION HostSpec
CONSTANTS
  Objects = {"o1", "o2"}
  MaxInput = 1
  Faults = {"open", "attributes", "interrupt", "other_reader"}
  Watchers = {"w1", "w2"}
  Sizes = {"80x24", "132x43"}
  SizeFaults = {"block", "signalfd", "read", "ioctl"}
  Requestors = {"r1", "r2"}
  Pids = {"p1", "p2"}
  MaxInt = 3
  BufferSizes = {0, 1, 3, 5}
  StreamBound = 6
  Entries = {"a", "b"}
  Limit = 3
  MaxDepth = 2
INVARIANTS HostTypeOK ModeRestored StaysRaw SizeIsCurrent ResultTellsPaste StatusReachesCaller BytesInOrder ResultTellsAll TrueMeansWalked
PROPERTIES NewerSelectionStands RequestsAreAnswered HostCallsReturn
