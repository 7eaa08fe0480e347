---------------------------- MODULE ContainerOps ----------------------------
(***************************************************************************)
(* One item container under any sequence of calls: AddItem and RemoveItem  *)
(* of BagContainer, CurrencyContainer or EquipContainer, and a save and    *)
(* reload as a restart of the server makes it.                             *)
(***************************************************************************)
EXTENDS ItemContainer

CONSTANTS
  AddCounts,      \* the counts items are added in
  RemoveCounts,   \* the counts items are removed in; -1 has a documented meaning
  MaxCount        \* bound on a stack: no call is made on a larger one

\* Counts come from messages, where nothing says that they are positive.
ASSUME CallAssumption == AddCounts \subseteq Int /\ RemoveCounts \subseteq Int

VARIABLES
  kind,           \* which class the container is of: "bag", "currency", "equip"
  m_container,    \* its slots
  call,           \* the last call: [op, id, num, cnt, ret]
  sane            \* history: what was added had an id and no negative count

vars == <<kind, m_container, call, sane>>

Kinds == {"bag", "currency", "equip"}
NoCall == [op |-> "new", id |-> NoItem, num |-> 0, cnt |-> 0, ret |-> TRUE]

Init ==
  /\ kind \in Kinds
  /\ m_container = EmptyContainer
  /\ call = NoCall
  /\ sane = TRUE

InBounds ==
  \A i \in Occupied(m_container) : m_container[i].count \in -MaxCount .. MaxCount

Added(id, cnt) ==
  CASE kind = "bag"      -> BagAddItem(m_container, id, cnt)
    [] kind = "currency" -> CurAddItem(m_container, id, cnt)
    [] kind = "equip"    -> EquipAddItem(m_container, id)

AddItem(id, cnt) ==
  /\ InBounds
  /\ kind = "equip" => cnt = 1
  /\ m_container' = Added(id, cnt).cont
  /\ call' = [op |-> "add", id |-> id, num |-> 0, cnt |-> cnt, ret |-> Added(id, cnt).ret]
  /\ sane' = (sane /\ id # NoItem /\ cnt >= 0)
  /\ UNCHANGED kind

RemoveItem(num, cnt) ==
  /\ InBounds
  /\ kind = "equip" => num < MAX_BAG_SIZE
  /\ m_container' = IF kind = "equip" THEN EquipRemoveItem(m_container, num)
                                      ELSE RemoveFromSlot(m_container, num, cnt)
  /\ call' = [op |-> "remove", id |-> NoItem, num |-> num, cnt |-> cnt, ret |-> TRUE]
  /\ UNCHANGED <<kind, sane>>

Reloaded(c) ==
  CASE kind = "bag"      -> RestoreBag(ContainerEntries(c))
    [] kind = "currency" -> RestoreCurrency(ContainerEntries(c))
    [] kind = "equip"    -> RestoreEquipment(ContainerEntries(c))

Reload ==
  /\ m_container' = Reloaded(m_container)
  /\ call' = [NoCall EXCEPT !.op = "reload"]
  /\ UNCHANGED <<kind, sane>>

Next ==
  \/ \E id \in ItemIds \cup {NoItem}, cnt \in AddCounts : AddItem(id, cnt)
  \/ \E num \in 0 .. MAX_BAG_SIZE, cnt \in RemoveCounts : RemoveItem(num, cnt)
  \/ Reload

Spec == Init /\ [][Next]_vars

-----------------------------------------------------------------------------
(* Properties. *)

\* No slot is kept by an item that is used up, and no stack holds the entry of
\* an empty slot, save in the equipment after a reload, as long as nobody adds
\* a negative count, or an item without an id.
NoEmptyStack ==
  sane => \A i \in Occupied(m_container) :
            /\ m_container[i].count > 0
            /\ m_container[i].id = NoItem => kind = "equip"

Others(id) == ItemIds \ {id}

\* AddItem returning true, and also CurrencyContainer::AddItem when it returns
\* false with a slot to open, has added exactly what was asked, over all the
\* stacks it topped up and the slot it opened, and has touched no other item.
AddIsExact ==
  [][call'.op = "add" /\ (call'.ret \/ FreeSlots(m_container) # {}) =>
       /\ Total(m_container', call'.id) = Total(m_container, call'.id) + call'.cnt
       /\ \A o \in Others(call'.id) : Holding(m_container', o) = Holding(m_container, o)
                                   /\ Total(m_container', o) = Total(m_container, o)]_vars

\* BagContainer::AddItem and EquipContainer::AddItem return false only when no
\* slot is free and no stack of the item could take more.
RefusedOnlyWhenFull ==
  [][call'.op = "add" /\ ~call'.ret /\ kind # "currency" =>
       /\ FreeSlots(m_container) = {}
       /\ kind = "bag" => \A i \in Holding(m_container', call'.id) :
                            m_container'[i].count = MAX_ITEM_BAGOVERLY]_vars

\* As long as no stack of the item is larger than its maximum, an AddItem that
\* is refused takes nothing away and adds less than was asked, if anything.
RefusalKeepsItems ==
  [][call'.op = "add" /\ ~call'.ret /\ kind = "bag"
     /\ (\A i \in Holding(m_container, call'.id) :
           m_container[i].count <= MAX_ITEM_BAGOVERLY) =>
       LET gained == Total(m_container', call'.id) - Total(m_container, call'.id)
       IN gained \in {0} \cup 1 .. call'.cnt - 1]_vars

\* A save and a reload (GetBagInfo, then SetPlayer) may move and merge stacks,
\* but the player owns as many of every item as before, whatever was added.
ReloadKeepsTotals ==
  \A id \in ItemIds : Total(Reloaded(m_container), id) = Total(m_container, id)

\* What a reload rearranges it rearranges once: a second one changes nothing,
\* under the same condition as NoEmptyStack.
ReloadSettles == sane => Reloaded(Reloaded(m_container)) = Reloaded(m_container)
=============================================================================
