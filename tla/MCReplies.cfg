SPECIFICATION Spec
CONSTANTS
  Ints <- MCInts
  Strings = {"", "player:1", "player:-2147483648", "long"}
  StrLen <- MCStrLen
  NotUtf8 = {}
  Payloads = {}
  Null = Null
  Pids <- MCPids
  MAX_BAG_SIZE = 48
  MAX_ITEM_BAGOVERLY = 99
  MAX_ITEM_CURRENCYOVERLY = 999999999
  BUFFER_SIZE = 1024
  Items <- MCItems
  Touched <- MCTouched
  Rows <- MCRows
  Infos <- MCInfos
  Unknowns <- MCUnknowns
  RankLists <- MCRankLists
  MaxRequests = 3
INVARIANTS
  ShortMessagesFit
  LoginAnswerOverruns
CHECK_DEADLOCK FALSE
