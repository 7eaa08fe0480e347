-------------------------- MODULE GameSpecMessages --------------------------
(***************************************************************************)
(* The fifteen messages of GameSpec.proto as the generated classes of      *)
(* GameSpec.pb.cc and GameSpec.pb.h make them.  A message is a record of   *)
(* its fields and of the fields it did not know when it was read.          *)
(*                                                                         *)
(* Of a class X: XDefault is what Clear leaves, XSet(m) what one call of   *)
(* an accessor makes of m, XField(m, t) what MergePartialFromCodedStream   *)
(* makes of field t, XWrite(m) the fields SerializeWithCachedSizes[ToArray]*)
(* puts out, XSize(m) ByteSizeLong and XMerge(m, from) MergeFrom.          *)
(***************************************************************************)
EXTENDS WireFormat

-----------------------------------------------------------------------------
(* BagItem *)

BagItemDefault == [
  itemid |-> 0, typeid |-> 0, count |-> 0, overly |-> 0, binded |-> 0,
  unknown |-> <<>>]

BagItemSet(m) ==
  SetInts(m, {"itemid", "typeid", "count", "overly"})
  \cup SetBool(m, "binded")

BagItemField(m, t) ==
  IF IsVarint(t, 5) THEN ReadBool("binded", m, t)
  ELSE ReadInts(<<"itemid", "typeid", "count", "overly">>, m, t)

BagItemWrite(m) ==
  WriteInt(1, m.itemid) \o WriteInt(2, m.typeid) \o WriteInt(3, m.count)
  \o WriteInt(4, m.overly) \o WriteInt(5, m.binded) \o m.unknown

BagItemSize(m) ==
  UnknownSize(m.unknown) + IntSize(m.itemid) + IntSize(m.typeid)
  + IntSize(m.count) + IntSize(m.overly) + BoolSize(m.binded)

BagItemMerge(m, from) ==
  MergeInts({"itemid", "typeid", "count", "overly", "binded"}, m, from)

-----------------------------------------------------------------------------
(* EquipItem *)

EquipItemDefault == [
  itemid |-> 0, typeid |-> 0, count |-> 0, overly |-> 0, binded |-> 0,
  attack |-> 0, durability |-> 0, unknown |-> <<>>]

EquipItemSet(m) ==
  SetInts(m, {"itemid", "typeid", "count", "overly", "attack", "durability"})
  \cup SetBool(m, "binded")

EquipItemField(m, t) ==
  IF IsVarint(t, 5) THEN ReadBool("binded", m, t)
  ELSE ReadInts(
         1 :> "itemid" @@ 2 :> "typeid" @@ 3 :> "count" @@ 4 :> "overly" @@ 6 :> "attack" @@ 7 :> "durability",
         m, t)

EquipItemWrite(m) ==
  WriteInt(1, m.itemid) \o WriteInt(2, m.typeid) \o WriteInt(3, m.count)
  \o WriteInt(4, m.overly) \o WriteInt(5, m.binded) \o WriteInt(6, m.attack)
  \o WriteInt(7, m.durability) \o m.unknown

\* Variant: fields 6 and 7 were added to the other methods only.
EquipItemSizeBefore(m) ==
  UnknownSize(m.unknown) + IntSize(m.itemid) + IntSize(m.typeid)
  + IntSize(m.count) + IntSize(m.overly) + BoolSize(m.binded)

EquipItemSize(m) ==
  UnknownSize(m.unknown) + IntSize(m.itemid) + IntSize(m.typeid)
  + IntSize(m.count) + IntSize(m.overly) + BoolSize(m.binded)
  + IntSize(m.attack) + IntSize(m.durability)

EquipItemMerge(m, from) ==
  MergeInts({"itemid", "typeid", "count", "overly", "binded", "attack", "durability"},
            m, from)

-----------------------------------------------------------------------------
(* CurrencyItem *)

CurrencyItemDefault == [
  itemid |-> 0, typeid |-> 0, count |-> 0, overly |-> 0, unknown |-> <<>>]

CurrencyItemSet(m) == SetInts(m, {"itemid", "typeid", "count", "overly"})

CurrencyItemField(m, t) ==
  ReadInts(<<"itemid", "typeid", "count", "overly">>, m, t)

CurrencyItemWrite(m) ==
  WriteInt(1, m.itemid) \o WriteInt(2, m.typeid) \o WriteInt(3, m.count)
  \o WriteInt(4, m.overly) \o m.unknown

CurrencyItemSize(m) ==
  UnknownSize(m.unknown) + IntSize(m.itemid) + IntSize(m.typeid)
  + IntSize(m.count) + IntSize(m.overly)

CurrencyItemMerge(m, from) ==
  MergeInts({"itemid", "typeid", "count", "overly"}, m, from)

-----------------------------------------------------------------------------
(* BagInfo *)

BagInfoDefault == [
  bag |-> <<>>, equipment |-> <<>>, currency |-> <<>>, unknown |-> <<>>]

BagInfoSet(m) ==
  SetRepeated(m, "bag", BagItemDefault, BagItemSet)
  \cup SetRepeated(m, "equipment", EquipItemDefault, EquipItemSet)
  \cup SetRepeated(m, "currency", CurrencyItemDefault, CurrencyItemSet)

BagInfoField(m, t) ==
  IF IsDelimited(t, 1)
    THEN ReadElement(BagItemField, BagItemDefault, "bag", m, t)
  ELSE IF IsDelimited(t, 2)
    THEN ReadElement(EquipItemField, EquipItemDefault, "equipment", m, t)
  ELSE IF IsDelimited(t, 3)
    THEN ReadElement(CurrencyItemField, CurrencyItemDefault, "currency", m, t)
  ELSE SkipField(m, t)

BagInfoWrite(m) ==
  WriteMessages(1, m.bag, BagItemWrite)
  \o WriteMessages(2, m.equipment, EquipItemWrite)
  \o WriteMessages(3, m.currency, CurrencyItemWrite) \o m.unknown

BagInfoSize(m) ==
  UnknownSize(m.unknown) + MessagesSize(m.bag, BagItemSize)
  + MessagesSize(m.equipment, EquipItemSize)
  + MessagesSize(m.currency, CurrencyItemSize)

BagInfoMerge(m, from) ==
  [MergeInts({}, m, from) EXCEPT
    !.bag = @ \o from.bag,
    !.equipment = @ \o from.equipment,
    !.currency = @ \o from.currency]

-----------------------------------------------------------------------------
(* Players *)

PlayersDefault == [
  id |-> 0, name |-> EmptyString, rank |-> 0, exp |-> 0, bags |-> Null,
  unknown |-> <<>>]

PlayersSet(m) ==
  SetInts(m, {"id", "rank", "exp"}) \cup SetText(m, "name")
  \cup SetMessage(m, "bags", BagInfoDefault, BagInfoSet)

PlayersField(m, t) ==
  IF IsDelimited(t, 2) THEN ReadText("name", m, t)
  ELSE IF IsDelimited(t, 5)
    THEN ReadMessage(BagInfoField, BagInfoDefault, "bags", m, t)
  ELSE ReadInts(1 :> "id" @@ 3 :> "rank" @@ 4 :> "exp", m, t)

\* Variant: the fields that were not known are not kept (the default before 3.5).
PlayersWriteKnown(m) ==
  WriteInt(1, m.id) \o WriteText(2, m.name) \o WriteInt(3, m.rank)
  \o WriteInt(4, m.exp) \o WriteMessage(5, m.bags, BagInfoWrite)

PlayersWrite(m) ==
  WriteInt(1, m.id) \o WriteText(2, m.name) \o WriteInt(3, m.rank)
  \o WriteInt(4, m.exp) \o WriteMessage(5, m.bags, BagInfoWrite) \o m.unknown

PlayersSize(m) ==
  UnknownSize(m.unknown) + TextSize(m.name) + MessageSize(m.bags, BagInfoSize)
  + IntSize(m.id) + IntSize(m.rank) + IntSize(m.exp)

\* Variant: the sub-message is replaced.
PlayersMergeReplaces(m, from) ==
  [MergeInts({"id", "rank", "exp"}, m, from) EXCEPT
    !.name = MergeText(@, from.name),
    !.bags = IF from.bags = Null THEN @ ELSE from.bags]

PlayersMerge(m, from) ==
  [MergeInts({"id", "rank", "exp"}, m, from) EXCEPT
    !.name = MergeText(@, from.name),
    !.bags = MergeMessage(@, from.bags, BagInfoDefault, BagInfoMerge)]

-----------------------------------------------------------------------------
(* AddItemReq *)

AddItemReqDefault == [itemid |-> 0, count |-> 0, unknown |-> <<>>]

AddItemReqSet(m) == SetInts(m, {"itemid", "count"})

AddItemReqField(m, t) == ReadInts(<<"itemid", "count">>, m, t)

AddItemReqWrite(m) ==
  WriteInt(1, m.itemid) \o WriteInt(2, m.count) \o m.unknown

AddItemReqSize(m) ==
  UnknownSize(m.unknown) + IntSize(m.itemid) + IntSize(m.count)

AddItemReqMerge(m, from) == MergeInts({"itemid", "count"}, m, from)

-----------------------------------------------------------------------------
(* AddItemRsp *)

AddItemRspDefault == [errcode |-> 0, unknown |-> <<>>]

AddItemRspSet(m) == SetInts(m, {"errcode"})

AddItemRspField(m, t) == ReadInts(<<"errcode">>, m, t)

AddItemRspWrite(m) == WriteInt(1, m.errcode) \o m.unknown

AddItemRspSize(m) == UnknownSize(m.unknown) + IntSize(m.errcode)

AddItemRspMerge(m, from) == MergeInts({"errcode"}, m, from)

-----------------------------------------------------------------------------
(* CtlMsgLoginReq *)

CtlMsgLoginReqDefault == [
  name |-> EmptyString, password |-> EmptyString, unknown |-> <<>>]

CtlMsgLoginReqSet(m) == SetText(m, "name") \cup SetText(m, "password")

CtlMsgLoginReqField(m, t) ==
  IF IsDelimited(t, 1) THEN ReadText("name", m, t)
  ELSE IF IsDelimited(t, 2) THEN ReadText("password", m, t)
  ELSE SkipField(m, t)

CtlMsgLoginReqWrite(m) ==
  WriteText(1, m.name) \o WriteText(2, m.password) \o m.unknown

CtlMsgLoginReqSize(m) ==
  UnknownSize(m.unknown) + TextSize(m.name) + TextSize(m.password)

CtlMsgLoginReqMerge(m, from) ==
  [MergeInts({}, m, from) EXCEPT
    !.name = MergeText(@, from.name),
    !.password = MergeText(@, from.password)]

-----------------------------------------------------------------------------
(* CtlMsgLoginRsp *)

CtlMsgLoginRspDefault == [errcode |-> 0, player |-> Null, unknown |-> <<>>]

CtlMsgLoginRspSet(m) ==
  SetInts(m, {"errcode"})
  \cup SetMessage(m, "player", PlayersDefault, PlayersSet)

CtlMsgLoginRspField(m, t) ==
  IF IsDelimited(t, 2)
    THEN ReadMessage(PlayersField, PlayersDefault, "player", m, t)
  ELSE ReadInts(<<"errcode">>, m, t)

CtlMsgLoginRspWrite(m) ==
  WriteInt(1, m.errcode) \o WriteMessage(2, m.player, PlayersWrite)
  \o m.unknown

CtlMsgLoginRspSize(m) ==
  UnknownSize(m.unknown) + MessageSize(m.player, PlayersSize)
  + IntSize(m.errcode)

CtlMsgLoginRspMerge(m, from) ==
  [MergeInts({"errcode"}, m, from) EXCEPT
    !.player = MergeMessage(@, from.player, PlayersDefault, PlayersMerge)]

-----------------------------------------------------------------------------
(* CtlMsgSearchReq *)

CtlMsgSearchReqDefault == [id |-> 0, name |-> EmptyString, unknown |-> <<>>]

CtlMsgSearchReqSet(m) == SetInts(m, {"id"}) \cup SetText(m, "name")

CtlMsgSearchReqField(m, t) ==
  IF IsDelimited(t, 2) THEN ReadText("name", m, t)
  ELSE ReadInts(<<"id">>, m, t)

CtlMsgSearchReqWrite(m) ==
  WriteInt(1, m.id) \o WriteText(2, m.name) \o m.unknown

CtlMsgSearchReqSize(m) ==
  UnknownSize(m.unknown) + TextSize(m.name) + IntSize(m.id)

CtlMsgSearchReqMerge(m, from) ==
  [MergeInts({"id"}, m, from) EXCEPT !.name = MergeText(@, from.name)]

-----------------------------------------------------------------------------
(* CtlMsgSearchRsp *)

CtlMsgSearchRspDefault == [errcode |-> 0, player |-> Null, unknown |-> <<>>]

CtlMsgSearchRspSet(m) ==
  SetInts(m, {"errcode"})
  \cup SetMessage(m, "player", PlayersDefault, PlayersSet)

CtlMsgSearchRspField(m, t) ==
  IF IsDelimited(t, 2)
    THEN ReadMessage(PlayersField, PlayersDefault, "player", m, t)
  ELSE ReadInts(<<"errcode">>, m, t)

CtlMsgSearchRspWrite(m) ==
  WriteInt(1, m.errcode) \o WriteMessage(2, m.player, PlayersWrite)
  \o m.unknown

CtlMsgSearchRspSize(m) ==
  UnknownSize(m.unknown) + MessageSize(m.player, PlayersSize)
  + IntSize(m.errcode)

CtlMsgSearchRspMerge(m, from) ==
  [MergeInts({"errcode"}, m, from) EXCEPT
    !.player = MergeMessage(@, from.player, PlayersDefault, PlayersMerge)]

-----------------------------------------------------------------------------
(* RemoveItemReq *)

RemoveItemReqDefault == [
  itemid |-> 0, count |-> 0, pos |-> 0, unknown |-> <<>>]

RemoveItemReqSet(m) == SetInts(m, {"itemid", "count", "pos"})

RemoveItemReqField(m, t) == ReadInts(<<"itemid", "count", "pos">>, m, t)

RemoveItemReqWrite(m) ==
  WriteInt(1, m.itemid) \o WriteInt(2, m.count) \o WriteInt(3, m.pos)
  \o m.unknown

RemoveItemReqSize(m) ==
  UnknownSize(m.unknown) + IntSize(m.itemid) + IntSize(m.count)
  + IntSize(m.pos)

RemoveItemReqMerge(m, from) == MergeInts({"itemid", "count", "pos"}, m, from)

-----------------------------------------------------------------------------
(* RemoveItemRsp *)

RemoveItemRspDefault == [errcode |-> 0, unknown |-> <<>>]

RemoveItemRspSet(m) == SetInts(m, {"errcode"})

RemoveItemRspField(m, t) == ReadInts(<<"errcode">>, m, t)

RemoveItemRspWrite(m) == WriteInt(1, m.errcode) \o m.unknown

RemoveItemRspSize(m) == UnknownSize(m.unknown) + IntSize(m.errcode)

RemoveItemRspMerge(m, from) == MergeInts({"errcode"}, m, from)

-----------------------------------------------------------------------------
(* RankReq *)

RankReqDefault == [start |-> 0, end |-> 0, unknown |-> <<>>]

RankReqSet(m) == SetInts(m, {"start", "end"})

RankReqField(m, t) == ReadInts(<<"start", "end">>, m, t)

RankReqWrite(m) == WriteInt(1, m.start) \o WriteInt(2, m.end) \o m.unknown

RankReqSize(m) == UnknownSize(m.unknown) + IntSize(m.start) + IntSize(m.end)

RankReqMerge(m, from) == MergeInts({"start", "end"}, m, from)

-----------------------------------------------------------------------------
(* RankRsp *)

RankRspDefault == [
  errcode |-> 0, name |-> <<>>, exp |-> <<>>, unknown |-> <<>>]

RankRspSet(m) ==
  SetInts(m, {"errcode"}) \cup SetValues(m, "name", Strings)
  \cup SetValues(m, "exp", Ints)

RankRspField(m, t) ==
  IF IsDelimited(t, 2) THEN ReadTextElement("name", m, t)
  ELSE IF IsDelimited(t, 3) THEN ReadPacked("exp", m, t)
  ELSE IF IsVarint(t, 3) THEN ReadIntElement("exp", m, t)
  ELSE ReadInts(<<"errcode">>, m, t)

RankRspWrite(m) ==
  WriteInt(1, m.errcode) \o WriteTexts(2, m.name) \o WritePacked(3, m.exp)
  \o m.unknown

RankRspSize(m) ==
  UnknownSize(m.unknown) + TextsSize(m.name) + PackedSize(m.exp)
  + IntSize(m.errcode)

RankRspMerge(m, from) ==
  [MergeInts({"errcode"}, m, from) EXCEPT
    !.name = @ \o from.name,
    !.exp = @ \o from.exp]
=============================================================================
