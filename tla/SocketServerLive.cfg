CONSTANTS
  c1 = c1
  c2 = c2
  c3 = c3
  Clients <- TwoClients
  MaxFd = 2
  LinkCapacity = 2
  MaxFrames = 2
  Listener = Listener
  Free = Free
  Null = Null
SPECIFICATION FairSpec
PROPERTIES
  EndedConnectionsClose
  QueueMoves
CHECK_DEADLOCK FALSE
