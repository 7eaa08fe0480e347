-------------------------- MODULE MCMessageObjects --------------------------
(* MessageObjects with the classes of the protocol. *)
EXTENDS MessageObjects, GameSpecMessages, PlainMessages

MCKinds == {
  "BagItem", "EquipItem", "CurrencyItem", "BagInfo", "Players",
  "AddItemReq", "AddItemRsp", "CtlMsgLoginReq", "CtlMsgLoginRsp",
  "CtlMsgSearchReq", "CtlMsgSearchRsp", "RemoveItemReq", "RemoveItemRsp",
  "RankReq", "RankRsp", "MSG_PLAYER_MOVE", "MSG_PLAYER_REGISTER", "MsgTest"}

MCDefault(k) ==
  CASE k = "BagItem" -> BagItemDefault
    [] k = "EquipItem" -> EquipItemDefault
    [] k = "CurrencyItem" -> CurrencyItemDefault
    [] k = "BagInfo" -> BagInfoDefault
    [] k = "Players" -> PlayersDefault
    [] k = "AddItemReq" -> AddItemReqDefault
    [] k = "AddItemRsp" -> AddItemRspDefault
    [] k = "CtlMsgLoginReq" -> CtlMsgLoginReqDefault
    [] k = "CtlMsgLoginRsp" -> CtlMsgLoginRspDefault
    [] k = "CtlMsgSearchReq" -> CtlMsgSearchReqDefault
    [] k = "CtlMsgSearchRsp" -> CtlMsgSearchRspDefault
    [] k = "RemoveItemReq" -> RemoveItemReqDefault
    [] k = "RemoveItemRsp" -> RemoveItemRspDefault
    [] k = "RankReq" -> RankReqDefault
    [] k = "RankRsp" -> RankRspDefault
    [] k = "MSG_PLAYER_MOVE" -> MSG_PLAYER_MOVE_Default
    [] k = "MSG_PLAYER_REGISTER" -> MSG_PLAYER_REGISTER_Default
    [] k = "MsgTest" -> MsgTestDefault

MCSetters(k, m) ==
  CASE k = "BagItem" -> BagItemSet(m)
    [] k = "EquipItem" -> EquipItemSet(m)
    [] k = "CurrencyItem" -> CurrencyItemSet(m)
    [] k = "BagInfo" -> BagInfoSet(m)
    [] k = "Players" -> PlayersSet(m)
    [] k = "AddItemReq" -> AddItemReqSet(m)
    [] k = "AddItemRsp" -> AddItemRspSet(m)
    [] k = "CtlMsgLoginReq" -> CtlMsgLoginReqSet(m)
    [] k = "CtlMsgLoginRsp" -> CtlMsgLoginRspSet(m)
    [] k = "CtlMsgSearchReq" -> CtlMsgSearchReqSet(m)
    [] k = "CtlMsgSearchRsp" -> CtlMsgSearchRspSet(m)
    [] k = "RemoveItemReq" -> RemoveItemReqSet(m)
    [] k = "RemoveItemRsp" -> RemoveItemRspSet(m)
    [] k = "RankReq" -> RankReqSet(m)
    [] k = "RankRsp" -> RankRspSet(m)
    [] k = "MSG_PLAYER_MOVE" -> MSG_PLAYER_MOVE_Set(m)
    [] k = "MSG_PLAYER_REGISTER" -> MSG_PLAYER_REGISTER_Set(m)
    [] k = "MsgTest" -> MsgTestSet(m)

MCField(k, m, t) ==
  CASE k = "BagItem" -> BagItemField(m, t)
    [] k = "EquipItem" -> EquipItemField(m, t)
    [] k = "CurrencyItem" -> CurrencyItemField(m, t)
    [] k = "BagInfo" -> BagInfoField(m, t)
    [] k = "Players" -> PlayersField(m, t)
    [] k = "AddItemReq" -> AddItemReqField(m, t)
    [] k = "AddItemRsp" -> AddItemRspField(m, t)
    [] k = "CtlMsgLoginReq" -> CtlMsgLoginReqField(m, t)
    [] k = "CtlMsgLoginRsp" -> CtlMsgLoginRspField(m, t)
    [] k = "CtlMsgSearchReq" -> CtlMsgSearchReqField(m, t)
    [] k = "CtlMsgSearchRsp" -> CtlMsgSearchRspField(m, t)
    [] k = "RemoveItemReq" -> RemoveItemReqField(m, t)
    [] k = "RemoveItemRsp" -> RemoveItemRspField(m, t)
    [] k = "RankReq" -> RankReqField(m, t)
    [] k = "RankRsp" -> RankRspField(m, t)
    [] k = "MSG_PLAYER_MOVE" -> MSG_PLAYER_MOVE_Field(m, t)
    [] k = "MSG_PLAYER_REGISTER" -> MSG_PLAYER_REGISTER_Field(m, t)
    [] k = "MsgTest" -> MsgTestField(m, t)

MCWrite(k, m) ==
  CASE k = "BagItem" -> BagItemWrite(m)
    [] k = "EquipItem" -> EquipItemWrite(m)
    [] k = "CurrencyItem" -> CurrencyItemWrite(m)
    [] k = "BagInfo" -> BagInfoWrite(m)
    [] k = "Players" -> PlayersWrite(m)
    [] k = "AddItemReq" -> AddItemReqWrite(m)
    [] k = "AddItemRsp" -> AddItemRspWrite(m)
    [] k = "CtlMsgLoginReq" -> CtlMsgLoginReqWrite(m)
    [] k = "CtlMsgLoginRsp" -> CtlMsgLoginRspWrite(m)
    [] k = "CtlMsgSearchReq" -> CtlMsgSearchReqWrite(m)
    [] k = "CtlMsgSearchRsp" -> CtlMsgSearchRspWrite(m)
    [] k = "RemoveItemReq" -> RemoveItemReqWrite(m)
    [] k = "RemoveItemRsp" -> RemoveItemRspWrite(m)
    [] k = "RankReq" -> RankReqWrite(m)
    [] k = "RankRsp" -> RankRspWrite(m)
    [] k = "MSG_PLAYER_MOVE" -> MSG_PLAYER_MOVE_Write(m)
    [] k = "MSG_PLAYER_REGISTER" -> MSG_PLAYER_REGISTER_Write(m)
    [] k = "MsgTest" -> MsgTestWrite(m)

MCSize(k, m) ==
  CASE k = "BagItem" -> BagItemSize(m)
    [] k = "EquipItem" -> EquipItemSize(m)
    [] k = "CurrencyItem" -> CurrencyItemSize(m)
    [] k = "BagInfo" -> BagInfoSize(m)
    [] k = "Players" -> PlayersSize(m)
    [] k = "AddItemReq" -> AddItemReqSize(m)
    [] k = "AddItemRsp" -> AddItemRspSize(m)
    [] k = "CtlMsgLoginReq" -> CtlMsgLoginReqSize(m)
    [] k = "CtlMsgLoginRsp" -> CtlMsgLoginRspSize(m)
    [] k = "CtlMsgSearchReq" -> CtlMsgSearchReqSize(m)
    [] k = "CtlMsgSearchRsp" -> CtlMsgSearchRspSize(m)
    [] k = "RemoveItemReq" -> RemoveItemReqSize(m)
    [] k = "RemoveItemRsp" -> RemoveItemRspSize(m)
    [] k = "RankReq" -> RankReqSize(m)
    [] k = "RankRsp" -> RankRspSize(m)
    [] k = "MSG_PLAYER_MOVE" -> MSG_PLAYER_MOVE_Size(m)
    [] k = "MSG_PLAYER_REGISTER" -> MSG_PLAYER_REGISTER_Size(m)
    [] k = "MsgTest" -> MsgTestSize(m)

MCMerge(k, m, from) ==
  CASE k = "BagItem" -> BagItemMerge(m, from)
    [] k = "EquipItem" -> EquipItemMerge(m, from)
    [] k = "CurrencyItem" -> CurrencyItemMerge(m, from)
    [] k = "BagInfo" -> BagInfoMerge(m, from)
    [] k = "Players" -> PlayersMerge(m, from)
    [] k = "AddItemReq" -> AddItemReqMerge(m, from)
    [] k = "AddItemRsp" -> AddItemRspMerge(m, from)
    [] k = "CtlMsgLoginReq" -> CtlMsgLoginReqMerge(m, from)
    [] k = "CtlMsgLoginRsp" -> CtlMsgLoginRspMerge(m, from)
    [] k = "CtlMsgSearchReq" -> CtlMsgSearchReqMerge(m, from)
    [] k = "CtlMsgSearchRsp" -> CtlMsgSearchRspMerge(m, from)
    [] k = "RemoveItemReq" -> RemoveItemReqMerge(m, from)
    [] k = "RemoveItemRsp" -> RemoveItemRspMerge(m, from)
    [] k = "RankReq" -> RankReqMerge(m, from)
    [] k = "RankRsp" -> RankRspMerge(m, from)
    [] k = "MSG_PLAYER_MOVE" -> MSG_PLAYER_MOVE_Merge(m, from)
    [] k = "MSG_PLAYER_REGISTER" -> MSG_PLAYER_REGISTER_Merge(m, from)
    [] k = "MsgTest" -> MsgTestMerge(m, from)

MCInts == {0, -1, 300}
\* The text "bytes" is the three bytes 78 AC 02: not UTF-8, 300 in field 15 to
\* who takes them for a message, and the numbers 120 and 300.
MCPayloads == {
  [str |-> "", msg |-> <<>>, packed |-> <<>>],
  [str |-> "bytes", msg |-> <<Varint(15, 300)>>, packed |-> <<120, 300>>]}

\* Field 15 is nobody's.  Field 3 is a number, one of many (RankRsp), a text
\* (MsgTest) or a message (BagInfo); 1, 2 and 5 are a number or delimited.
MCOddFields == {Varint(15, 300), Varint(3, -1), Text(1, EmptyString)}
  \cup {Embedded(num, <<Varint(15, 300)>>) : num \in {2, 3, 5}}

MCStrLen == [s \in Strings |-> CASE s = "" -> 0 [] s = "long" -> 130 [] s = "bytes" -> 3 [] OTHER -> 5]
=============================================================================
