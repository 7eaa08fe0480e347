CONSTANTS
  c1 = c1
  c2 = c2
  c3 = c3
  Clients <- MCClients
  MaxFd = 2
  LinkCapacity = 2
  MaxFrames = 2
  Listener = Listener
  Free = Free
  Null = Null
SPECIFICATION Spec
PROPERTY
  ImplementsLog
INVARIANTS
  LinksMatchSockets
  EventsAreFresh
  RecipientsStay
  StreamsInOrder
  NothingMissed
SYMMETRY MCSymmetry
CHECK_DEADLOCK FALSE
