\* Two keys, two confirmations, a change from outside and a crash.
CONSTANTS
  k1 = k1
  k2 = k2
  safe = safe
  risky = risky
  Keys = {k1, k2}
  Actions = {safe, risky}
  Risky = {risky}
  MaxConfirmations = 2
  MaxChanges = 1
  MaxCrashes = 1
SYMMETRY Alike
SPECIFICATION Spec
CHECK_DEADLOCK FALSE
INVARIANT OneEffectPerKey
INVARIANT ConfirmedOnce
PROPERTY BegunAsConfirmed
