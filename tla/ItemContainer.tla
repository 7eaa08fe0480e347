--------------------------- MODULE ItemContainer ----------------------------
(***************************************************************************)
(* The item containers of a player as operators on a vector of slots:      *)
(* BagContainer, EquipContainer and CurrencyContainer with the item        *)
(* classes of ItemBase.h, how BagSystem::GetBagInfo writes a container     *)
(* into a message and how EntityMgr::SetPlayer reads one back.             *)
(*                                                                         *)
(* A slot holds Null (nullptr) or an item, of which the id and the count   *)
(* are kept; typeID, overly, binded, attack and durability are constants   *)
(* of the class or of the id.                                              *)
(***************************************************************************)
EXTENDS Integers, Sequences, FiniteSetsExt, SequencesExt

CONSTANTS
  MAX_BAG_SIZE,             \* slots of a container (48)
  MAX_ITEM_BAGOVERLY,       \* largest stack of a bag item (99)
  MAX_ITEM_CURRENCYOVERLY,  \* largest stack of a currency (999999999)
  ItemIds,                  \* the ids of items
  NoItem,                   \* the itemid -1 of the entry of an empty slot
  Null                      \* nullptr

ASSUME ContainerAssumption ==
  /\ MAX_BAG_SIZE \in Nat \ {0}
  /\ MAX_ITEM_BAGOVERLY \in Nat \ {0}
  /\ MAX_ITEM_CURRENCYOVERLY \in Nat \ {0}
  /\ NoItem \notin ItemIds
  /\ Null \notin [id : ItemIds \cup {NoItem}, count : Int]

SlotIds == 0 .. MAX_BAG_SIZE - 1

\* ItemContainer::ItemContainer
EmptyContainer == [i \in SlotIds |-> Null]

Occupied(c) == {i \in SlotIds : c[i] # Null}
FreeSlots(c) == SlotIds \ Occupied(c)
Holding(c, id) == {i \in Occupied(c) : c[i].id = id}

\* How many of an item a container holds.
Total(c, id) == MapThenSumSet(LAMBDA i : c[i].count, Holding(c, id))

-----------------------------------------------------------------------------
(* BagItem and CurrencyItem. *)

\* Variants: the part the stack took is counted twice; the overflow is dropped.
LeftoverTwice(count, cnt, overly) == IF count + cnt > overly THEN cnt ELSE 0
LeftoverDropped(count, cnt, overly) == 0

\* AddItem of a stack: what it returns ...
Leftover(count, cnt, overly) ==
  IF count + cnt > overly THEN cnt - (overly - count) ELSE 0

\* ... and the count it leaves.
Stacked(count, cnt, overly) ==
  IF count + cnt > overly THEN overly ELSE count + cnt

\* Variant: a stack that comes to 0 is kept.
UsedUpBelowZero(count, cnt) == count - cnt < 0

\* RemoveItem of a stack returns false, "used up", at 0 and below.
UsedUp(count, cnt) == count - cnt <= 0

-----------------------------------------------------------------------------
(* AddItem of BagContainer and CurrencyContainer. *)

\* The loop adds what is left to slot i, if it has not broken off at an earlier
\* stack; a count that is 0 to begin with still goes to the first one.
Tops(c, id, i, left) ==
  i \in Holding(c, id) /\ (left # 0 \/ \A k \in Holding(c, id) : i <= k)

\* What is left of cnt when the loop reaches slot i.
LeftBefore(c, id, cnt, overly) ==
  LET left[i \in 0 .. MAX_BAG_SIZE] ==
        IF i = 0 THEN cnt
        ELSE IF Tops(c, id, i - 1, left[i - 1])
               THEN Leftover(c[i - 1].count, left[i - 1], overly)
               ELSE left[i - 1]
  IN left

\* The stacks of the item, filled up one after the other.
StacksFilled(c, id, cnt, overly) ==
  LET left == LeftBefore(c, id, cnt, overly)
  IN [i \in SlotIds |-> IF Tops(c, id, i, left[i])
                          THEN [id |-> id, count |-> Stacked(c[i].count, left[i], overly)]
                          ELSE c[i]]

\* What the stacks cannot take goes whole into the first free slot; newSlot is
\* what the function returns then.
AddToStacks(c, id, cnt, overly, newSlot) ==
  LET filled == StacksFilled(c, id, cnt, overly)
      rest == LeftBefore(c, id, cnt, overly)[MAX_BAG_SIZE]
  IN IF rest = 0
       THEN [cont |-> filled, ret |-> TRUE]
     ELSE IF FreeSlots(c) # {}
       THEN [cont |-> [filled EXCEPT ![Min(FreeSlots(c))] = [id |-> id, count |-> rest]],
             ret |-> newSlot]
     ELSE [cont |-> filled, ret |-> FALSE]

\* Variant: an item needs a free slot even when its stacks can take it.
BagAddItemNewSlot(c, id, cnt) ==
  IF FreeSlots(c) = {}
    THEN [cont |-> c, ret |-> FALSE]
    ELSE AddToStacks(c, id, cnt, MAX_ITEM_BAGOVERLY, TRUE)

\* BagContainer::AddItem
BagAddItem(c, id, cnt) == AddToStacks(c, id, cnt, MAX_ITEM_BAGOVERLY, TRUE)

\* CurrencyContainer::AddItem ends in "return false" after opening a slot too.
CurAddItem(c, id, cnt) == AddToStacks(c, id, cnt, MAX_ITEM_CURRENCYOVERLY, FALSE)

\* RemoveItem of both: from the slot num, whatever item it holds.  A num below 0
\* passes the test as well and reads outside the container; what that may find is
\* in GameServer's RemoveBelowFindsNull, RemoveBelowFindsSlot and RemoveBelowEnds.
RemoveFromSlot(c, num, cnt) ==
  IF num >= MAX_BAG_SIZE \/ c[num] = Null
    THEN c
  ELSE IF UsedUp(c[num].count, cnt)
    THEN [c EXCEPT ![num] = Null]
  ELSE [c EXCEPT ![num].count = @ - cnt]

-----------------------------------------------------------------------------
(* EquipContainer: one piece to a slot. *)

EquipAddItem(c, id) ==
  IF FreeSlots(c) = {}
    THEN [cont |-> c, ret |-> FALSE]
    ELSE [cont |-> [c EXCEPT ![Min(FreeSlots(c))] = [id |-> id, count |-> 1]], ret |-> TRUE]

\* No test of num at all; only positions of the container are asked for here.
EquipRemoveItem(c, num) == [c EXCEPT ![num] = Null]

-----------------------------------------------------------------------------
(* To a message and back. *)

\* BagSystem::GetBagInfo, for one container: an entry for every slot.
ContainerEntries(c) ==
  [k \in 1 .. MAX_BAG_SIZE |->
     IF c[k - 1] = Null THEN [id |-> NoItem, count |-> 0] ELSE c[k - 1]]

\* Variants: an entry larger than a stack is dropped; the first entry is skipped.
RestoreBagSlots(entries) ==
  FoldLeft(LAMBDA c, e : IF e.count > MAX_ITEM_BAGOVERLY
                           THEN c ELSE BagAddItem(c, e.id, e.count).cont,
           EmptyContainer, entries)
RestoreBagTail(entries) ==
  FoldLeft(LAMBDA c, e : BagAddItem(c, e.id, e.count).cont, EmptyContainer, Tail(entries))

\* EntityMgr::SetPlayer: the entries are added one after the other to an empty
\* container, their slots are not looked at.
RestoreBag(entries) ==
  FoldLeft(LAMBDA c, e : BagAddItem(c, e.id, e.count).cont, EmptyContainer, entries)
RestoreCurrency(entries) ==
  FoldLeft(LAMBDA c, e : CurAddItem(c, e.id, e.count).cont, EmptyContainer, entries)

\* The entry of an empty slot becomes a piece of equipment with itemid -1.
RestoreEquipment(entries) ==
  FoldLeft(LAMBDA c, e : EquipAddItem(c, e.id).cont, EmptyContainer, entries)
=============================================================================
