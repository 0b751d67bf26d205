SPECIFICATION FairSpec
CONSTANTS
  c1 = c1
  c2 = c2
  Conns = {c1, c2}
  NoConn = NoConn
  MAX_CLIENTS = 2
  LastFd = 9
  Backlog = 2
  MaxFrames = 2
  UpCap = 1
  DownCap = 1
  Readers = {c1}
  Faults = {}
CHECK_DEADLOCK FALSE
PROPERTY
  BroadcastEnds
