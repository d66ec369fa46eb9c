CONSTANTS
  Tiers = {1, 2}
  Free = 1
  TierWindow = 3
  Second = 2
  Grace = 3
  Admins = {a1, a2}
  MaxTime = 8
  MaxRequests = 6
SPECIFICATION TierSpec
SYMMETRY Symmetry
INVARIANTS AtMostTwoBursts RetryIsHonest TierMatchesRow
CHECK_DEADLOCK FALSE
