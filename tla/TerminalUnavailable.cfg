SPECIFICATION TerminalSpec
CONSTANTS
  Holder = {"a", "b"}
  MaxLookups = 1
  MaxWork = 3
INVARIANT UnavailableMeansUnpaid
CHECK_DEADLOCK FALSE
