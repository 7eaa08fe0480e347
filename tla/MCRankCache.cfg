SPECIFICATION Spec
CONSTANTS
  Pids <- MCPids
  MemberOrder <- MCMemberOrder
  Exps <- MCExps
  Ends <- MCEnds
  Level = 1
  MaxScore = 1
  Null = Null
INVARIANTS
  InfoMatchesRank
  ListHoldsTable
  RepliesCoverTable
