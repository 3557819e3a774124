\* Three runs, one after the other, whose processes end in any order.
CONSTANTS
  Runs = {r1, r2, r3}
SPECIFICATION RunsFairSpec
CHECK_DEADLOCK FALSE
INVARIANT SlotIsHonest
PROPERTY SettledOnce
PROPERTY SlotFrees
