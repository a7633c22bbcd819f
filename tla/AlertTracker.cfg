SPECIFICATION Spec
CONSTANTS
  Alerts = {a1}
  Raisers = {r1, r2}
  Clients = {c1}
  Limits <- MCLimits
  DefaultLimit <- MCDefault
  FromFile <- MCFromFile
  NumBacklog = 1
  TicksPerSec = 1
  Start = 5
  MaxTime = 8
  MaxSent = 3
  NoAlert = NoAlert
SYMMETRY MCSymmetry
INVARIANTS LimitsHeld FollowerMissesNone
