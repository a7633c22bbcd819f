SPECIFICATION FairSpec
CONSTANTS
  t1 = t1  t2 = t2
  Timers = {t1, t2}
  OneShots = {t1}
  Timeslices <- MCTimeslices
  Slots <- MCSlots
  Clock <- MCClock
  SERVER_TIMESLICES_SEC = 10
  NoTimer = NoTimer
INVARIANTS CallbacksSerial OneShotAtMostTwice TriggerInTime
PROPERTIES DueRuns RemovedIsSwept
CHECK_DEADLOCK FALSE
