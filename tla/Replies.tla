------------------------------ MODULE Replies -------------------------------
(***************************************************************************)
(* What the handlers of EventSystem.cpp send, and the static buffer of     *)
(* 1024 bytes in which BroadCast serializes it.                            *)
(*                                                                         *)
(* The reply of every handler is built field by field as a message of      *)
(* GameSpecMessages or PlainMessages.  Which slot an item lands in, and    *)
(* what a row holds, is the subject of ItemContainer and GameServer; here  *)
(* any slot may come to hold any of a few items.                           *)
(***************************************************************************)
EXTENDS GameSpecMessages, PlainMessages, FiniteSets

CONSTANTS
  Pids,
  MAX_BAG_SIZE,             \* slots of a container (48)
  MAX_ITEM_BAGOVERLY,       \* 99
  MAX_ITEM_CURRENCYOVERLY,  \* 999999999
  BUFFER_SIZE,              \* of s_buffer (1024)
  Items,                    \* [id, type, count]: what a slot may hold
  Touched,                  \* the slots that requests change
  Rows,                     \* the containers of the rows: [bag, equipment, currency]
  Infos,                    \* [name, exp] of players
  Unknowns,                 \* what a request has besides the declared fields
  RankLists,                \* lists of the ranking: [members, name, exp]
  MaxRequests               \* bound on the requests of a behaviour

SlotIds == 1 .. MAX_BAG_SIZE
Empty == [i \in SlotIds |-> Null]
Stacks == [id : Int, type : Int, count : Int]
Containers == [SlotIds -> {Null} \cup Stacks]

\* A member of the ranking is "player:" and an int32, at most ten digits and a sign.
ASSUME RepliesAssumption ==
  /\ MAX_BAG_SIZE \in Nat \ {0}
  /\ Pids \subseteq Int
  /\ Items \subseteq Stacks
  /\ Touched \subseteq SlotIds
  /\ Rows \subseteq [bag : Containers, equipment : Containers, currency : Containers]
  /\ Infos \subseteq [name : Strings, exp : Int]
  /\ RankLists \subseteq
       [members : Nat, name : {s \in Strings : StrLen[s] <= 18}, exp : Int]

\* What the sizes of the program are like.  The buffer has room for the answers
\* of at most six numbers.  It has none for the bags, which take 22 bytes for a
\* slot of each container: 4 in the bag, whose limit is not 0, 10 in the
\* equipment, and 8 for currency, whose limit takes five bytes.
ASSUME SizesAssumption ==
  /\ BUFFER_SIZE \in 66 .. 16384
  /\ BUFFER_SIZE < 22 * MAX_BAG_SIZE
  /\ MAX_ITEM_BAGOVERLY \in Nat \ {0}
  /\ MAX_ITEM_CURRENCYOVERLY \in Nat /\ MAX_ITEM_CURRENCYOVERLY >= 268435456

\* The messages an answer to a login is made of.  The null pointer is none.
BagItems == [
  itemid : Int, typeid : Int, count : Int, overly : Int, binded : {0}, unknown : {<<>>}]
EquipItems == [
  itemid : Int, typeid : Int, count : Int, overly : Int, binded : {0}, attack : Int,
  durability : Int, unknown : {<<>>}]
CurrencyItems == [
  itemid : Int, typeid : Int, count : Int, overly : Int, unknown : {<<>>}]
BagInfos == [
  bag : [SlotIds -> BagItems], equipment : [SlotIds -> EquipItems],
  currency : [SlotIds -> CurrencyItems], unknown : {<<>>}]
PlayerInfos == [
  id : Int, name : Strings, rank : Int, exp : Int, bags : BagInfos, unknown : {<<>>}]
ASSUME NullAssumption == Null \notin BagInfos \cup PlayerInfos

VARIABLES
  entities,   \* Pids -> Null or the containers and the info of the player
  last,       \* the last message broadcast: what it answers, its size, whether
              \* it has declared fields only, how many members it lists
  up,         \* the process runs
  requests    \* requests so far
vars == <<entities, last, up, requests>>

-----------------------------------------------------------------------------
(* BagSystem::GetPlayerInfo. *)

\* The entry of an empty slot has the itemid -1, which takes 10 bytes.
BagEntry(item) ==
  IF item = Null
    THEN [BagItemDefault EXCEPT !.itemid = -1]
    ELSE [BagItemDefault EXCEPT !.itemid = item.id, !.typeid = item.type,
            !.count = item.count, !.overly = MAX_ITEM_BAGOVERLY]
EquipEntry(item) ==
  IF item = Null
    THEN [EquipItemDefault EXCEPT !.itemid = -1]
    ELSE [EquipItemDefault EXCEPT !.itemid = item.id, !.typeid = item.type,
            !.count = 1, !.overly = 1, !.attack = 90, !.durability = 100]
CurrencyEntry(item) ==
  IF item = Null
    THEN [CurrencyItemDefault EXCEPT !.itemid = -1]
    ELSE [CurrencyItemDefault EXCEPT !.itemid = item.id, !.typeid = item.type,
            !.count = item.count, !.overly = MAX_ITEM_CURRENCYOVERLY]

\* Variant: no entries for empty slots.
Taken(container) == SelectSeq(container, LAMBDA item : item # Null)
OccupiedOnly(e) ==
  [BagInfoDefault EXCEPT
    !.bag = [i \in DOMAIN Taken(e.bag) |-> BagEntry(Taken(e.bag)[i])],
    !.equipment = [i \in DOMAIN Taken(e.equipment) |-> EquipEntry(Taken(e.equipment)[i])],
    !.currency = [i \in DOMAIN Taken(e.currency) |-> CurrencyEntry(Taken(e.currency)[i])]]

GetBagInfo(e) ==
  [BagInfoDefault EXCEPT
    !.bag = [i \in SlotIds |-> BagEntry(e.bag[i])],
    !.equipment = [i \in SlotIds |-> EquipEntry(e.equipment[i])],
    !.currency = [i \in SlotIds |-> CurrencyEntry(e.currency[i])]]

\* The second set_rank overwrites the first, exp stays 0.
GetPlayerInfo(p, e) ==
  [PlayersDefault EXCEPT !.id = p, !.name = e.name, !.rank = e.exp, !.bags = GetBagInfo(e)]

-----------------------------------------------------------------------------
(* SocketServer::BroadCast. *)

\* SerializeToArray is told the size of the message for that of the buffer.
\* What it writes beyond the buffer belongs to something else: the process may
\* go on or end.
BroadCast(answers, size, declared, members) ==
  /\ last' = [answers |-> answers, size |-> size, declared |-> declared, members |-> members]
  /\ up' \in (IF size <= BUFFER_SIZE THEN {TRUE} ELSE BOOLEAN)

Request == up /\ requests < MaxRequests /\ requests' = requests + 1

-----------------------------------------------------------------------------
(* The handlers. *)

Entity(row, info) ==
  [bag |-> row.bag, equipment |-> row.equipment, currency |-> row.currency,
   name |-> info.name, exp |-> info.exp]

\* PlayerLogin: SetPlayer from the row unless the player is in memory.  (Every
\* entry of a row's equipment becomes a piece; Rows has those.)
PlayerLogin(p) ==
  /\ Request
  /\ IF entities[p] = Null
       THEN \E row \in Rows, info \in Infos : entities' = [entities EXCEPT ![p] = Entity(row, info)]
       ELSE UNCHANGED entities
  /\ LET rsp == [CtlMsgLoginRspDefault EXCEPT !.player = GetPlayerInfo(p, entities'[p])]
     IN BroadCast("login", CtlMsgLoginRspSize(rsp), TRUE, 0)

\* Variant: the answer carries the player it has just saved.
AddItemRspWithPlayer(p, code) ==
  CtlMsgLoginRspSize([CtlMsgLoginRspDefault EXCEPT
    !.errcode = code, !.player = GetPlayerInfo(p, entities[p])])

\* The answer to an item request: an error code.
ItemRspSize(p, code) == AddItemRspSize([AddItemRspDefault EXCEPT !.errcode = code])

\* PlayerAddItem and PlayerRemoveItem, successful (0) or not (4 and 3).
PlayerAddItem(p) ==
  /\ Request
  /\ entities[p] # Null
  /\ \E code \in {0, 4} :
       /\ \/ \E i \in Touched, item \in Items : entities' = [entities EXCEPT ![p].bag[i] = item]
          \/ UNCHANGED entities
       /\ BroadCast("add", ItemRspSize(p, code), TRUE, 0)

PlayerRemoveItem(p) ==
  /\ Request
  /\ entities[p] # Null
  /\ \E code \in {0, 3} :
       /\ \/ \E i \in Touched : entities' = [entities EXCEPT ![p].bag[i] = Null]
          \/ UNCHANGED entities
       /\ BroadCast("remove", ItemRspSize(p, code), TRUE, 0)

\* PlayerRegister sends the request on as it came; a player in memory gets nothing.
PlayerRegister(p) ==
  /\ Request
  /\ entities[p] = Null
  /\ \E info \in Infos :
       entities' = [entities EXCEPT ![p] =
                      Entity([bag |-> Empty, equipment |-> Empty, currency |-> Empty], info)]
  /\ \E v \in Ints, unknown \in Unknowns :
       LET msg_register == [x |-> v, z |-> v, ry |-> v, speed |-> v, professsional |-> v,
                            playerid |-> p, unknown |-> unknown]
       IN BroadCast("register", MSG_PLAYER_REGISTER_Size(msg_register), unknown = <<>>, 0)

\* PlayerMove, of any player: the request as it came.
PlayerMove ==
  /\ Request
  /\ \E v, playerid \in Ints, unknown \in Unknowns :
       LET msg_move == [x |-> v, z |-> v, ry |-> v, playerid |-> playerid, state |-> v,
                        unknown |-> unknown]
       IN BroadCast("move", MSG_PLAYER_MOVE_Size(msg_move), unknown = <<>>, 0)
  /\ UNCHANGED entities

\* GetRankList: the members are "player:" and an id.
GetRankList ==
  /\ Request
  /\ \E list \in RankLists :
       LET rsp == [RankRspDefault EXCEPT
                     !.name = [i \in 1 .. list.members |-> list.name],
                     !.exp = [i \in 1 .. list.members |-> list.exp]]
       IN BroadCast("rank", RankRspSize(rsp), TRUE, list.members)
  /\ UNCHANGED entities

\* A request that does not parse gets ERROR_PARSE_FAILED in its own kind of answer.
ParseFailed ==
  /\ Request
  /\ \E size \in {AddItemRspSize([AddItemRspDefault EXCEPT !.errcode = 5]),
                  RemoveItemRspSize([RemoveItemRspDefault EXCEPT !.errcode = 5]),
                  CtlMsgLoginRspSize([CtlMsgLoginRspDefault EXCEPT !.errcode = 5]),
                  RankRspSize([RankRspDefault EXCEPT !.errcode = 5])} :
       BroadCast("failed", size, TRUE, 0)
  /\ UNCHANGED entities

Init ==
  /\ entities = [p \in Pids |-> Null]
  /\ last = Null
  /\ up = TRUE
  /\ requests = 0

Next ==
  \/ \E p \in Pids :
       PlayerLogin(p) \/ PlayerAddItem(p) \/ PlayerRemoveItem(p) \/ PlayerRegister(p)
  \/ PlayerMove \/ GetRankList \/ ParseFailed

Spec == Init /\ [][Next]_vars

-----------------------------------------------------------------------------
(* Properties. *)

\* A list of so many members fits whatever their ids and experience are: a
\* member takes at most 20 bytes for its name and 10 for its experience, and
\* the experience comes as one field.
SafeMembers == (BUFFER_SIZE - 3) \div 30

(* SocketServer.cpp:189.  Only three messages can be larger than s_buffer: *)
(* the answer to a login, a rank list of more than SafeMembers players, and*)
(* a request sent on together with fields the server does not know.  All   *)
(* others fit, whatever numbers they carry.                                *)
ShortMessagesFit ==
  last # Null /\ last.size > BUFFER_SIZE =>
    \/ last.answers = "login"
    \/ last.answers = "rank" /\ last.members > SafeMembers
    \/ ~last.declared

(* BagSystem.cpp:74.  The answer to a login never fits, not even that of a *)
(* player who owns nothing: an empty slot takes more bytes than many items *)
(* do.  Adding or removing items does not make it fit.                     *)
LoginAnswerOverruns ==
  last # Null /\ last.answers = "login" => last.size > BUFFER_SIZE
=============================================================================
