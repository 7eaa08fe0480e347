SPECIFICATION FilterSpec
CONSTANTS
  server = server
  a = a
  b = b
  id1 = id1
  id2 = id2
  vector = vector
  Filters <- MCFilters
  Server = server
  Parameters <- MCParameters
  Unset = "unset"
  Optimal = "optimal"
  TableSize <- MCTableSize
  BitsPerChar = 2
  Keys <- MCKeys
  Pids <- MCPids
  TheVector = vector
  Hashes <- MCHashes
  HashesOf <- MCHashesOf
INVARIANTS
  NoFalseNegatives
  ListedPlayersPass
SYMMETRY MCSymmetry
CHECK_DEADLOCK FALSE
