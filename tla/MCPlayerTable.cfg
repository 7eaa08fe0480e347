SPECIFICATION Spec
CONSTANTS
  s1 = s1
  s2 = s2
  i1 = i1
  i2 = i2
  i3 = i3
  n1 = n1
  n2 = n2
  n3 = n3
  v1 = v1
  v2 = v2
  Servers <- MCServers
  Ids <- MCIds
  Names <- MCNames
  Columns = {"rank", "exp", "bagInfo"}
  Values <- MCValues
  NoRow = NoRow
  NoCall = NoCall
INVARIANT NamesAreUnique
PROPERTY OwnRowOnly
SYMMETRY MCSymmetry
