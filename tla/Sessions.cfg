SPECIFICATION Runs
CONSTANTS
  a = a b = b x = x y = y
  Poller = Poller NoReader = NoReader NoChild = NoChild
CHECK_DEADLOCK FALSE
INVARIANTS LaneKept
PROPERTIES   CallsEnd
