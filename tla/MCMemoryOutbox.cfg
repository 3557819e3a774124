\* Three records, two troubles: outages, failures, lost answers, crashes.
CONSTANTS
  m1 = m1
  m2 = m2
  m3 = m3
  Records = {m1, m2, m3}
  MaxSubmits = 1
  MaxTrouble = 2
SPECIFICATION AnsweredSpec
CHECK_DEADLOCK FALSE
INVARIANT NothingLost
INVARIANT IndexHolds
PROPERTY DrainSettles
