CONSTANTS
  Runners = {r1, r2}
  Gated = FALSE
  Callbacks = {own, shared}
  SharedCallbacks = {shared}
  Priorities = {0, 1}
  MaxHandlers = 3
  NoRunner = NoRunner
SPECIFICATION Spec
INVARIANTS
  EditsApplied
  PriorityOrder
  PacketSeesDue
