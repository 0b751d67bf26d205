SPECIFICATION Spec
CONSTANTS
  c1 = c1
  c2 = c2
  c3 = c3
  Conns = {c1, c2, c3}
  NoConn = NoConn
  MAX_CLIENTS = 2
  LastFd = 9
  Backlog = 2
  MaxFrames = 2
  UpCap = 1
  DownCap = 1
  Readers = {c1, c2, c3}
  Faults = {"listen", "select", "accept", "short"}
SYMMETRY Symmetry
CHECK_DEADLOCK FALSE
INVARIANTS
  TypeOK
  TablesMatchSockets
  NoBlockingRecv
  NoBlockingAccept
  FairPass
  Delivered
PROPERTIES
  ImplementsMedium
  PassIsBounded
