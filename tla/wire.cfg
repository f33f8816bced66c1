CONSTANTS
  p1 = p1
  p2 = p2
  Packets = {p1, p2}
  PACKET_SIZE = 3
  BufferSize = 4
  MaxPackets = 4
  MaxTimeouts = 2
SPECIFICATION FairSpec
INVARIANTS TypeOK NoLostEdge
PROPERTIES PacketsHandled SessionCloses FIFOUntilTorn
CHECK_DEADLOCK FALSE
