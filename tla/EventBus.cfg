SPECIFICATION FairSpec
CONSTANTS
  e1 = e1  e2 = e2  e3 = e3  p1 = p1  p2 = p2
  Events = {e1, e2}
  ChannelOf <- MCChannelOf
  Publishers = {p1, p2}
  Feed <- MCFeedOne
  Timer = {timer}
  Tick = Tick
  TickChannel = "PACKETCHAIN_STATS"
  MaxTicks = 1
  ChannelLists <- MCLists
  MaxListeners = 2
  All = "*"
  NoEvent = NoEvent
  Nobody = Nobody
INVARIANTS TablesAgree CalledAsOwed PublishOrder
PROPERTIES PublishedIsDispatched
CHECK_DEADLOCK FALSE
