CONSTANTS
  c1 = c1
  c2 = c2
  p1 = p1
  p2 = p2
  p3 = p3
  p4 = p4
  A = A
  B = B
  NoFrame = NoFrame
  NoPacket = NoPacket
  NoThread = NoThread
  Packets = {p1, p2, p3, p4}
  Producers = {c1, c2}
  Feed <- FeedTwo
  Frame <- FrameTwo
  assignment_id <- AssignTwo
  n_packet_threads = 2
  packet_queue_drop = 1
  DedupeSize = 1
SPECIFICATION FairSpec
INVARIANTS
  TypeInv
  ChainsSerial
  OriginalComplete
  QueueBound
  DeviceOrder
  PacketConserved
PROPERTIES
  QueuedIsProcessed
  DestructorEnds
  ImplementsPipeline
CHECK_DEADLOCK FALSE
