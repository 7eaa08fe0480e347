------------------------- MODULE ContainerOpsProofs -------------------------
(***************************************************************************)
(* Theorems of ContainerOps, for containers and stacks of any size, any    *)
(* items and any counts: what AddItem does when it takes an item and when  *)
(* it refuses one, and that a save and a reload lose nothing.              *)
(*                                                                         *)
(* The invariant says no more than what the slots may hold; the work is in *)
(* the lemmas of ContainerLemmas about the loops over slots and entries.   *)
(***************************************************************************)
EXTENDS ContainerOps, ContainerLemmas

\* The inductive invariant: a container of its class, and as long as no call
\* was out of place every stack holds an item of which there is some.
SlotsOK == m_container \in IF kind = "equip" THEN Pieces ELSE Containers
IInv ==
  /\ kind \in Kinds
  /\ SlotsOK
  /\ sane /\ kind # "equip" => Proper(m_container)

\* How the stacks of the two classes of stacks are added to.
Overly == IF kind = "bag" THEN MAX_ITEM_BAGOVERLY ELSE MAX_ITEM_CURRENCYOVERLY
Rest(id, cnt) == LeftBefore(m_container, id, cnt, Overly)[MAX_BAG_SIZE]

-----------------------------------------------------------------------------
(* The steps. *)

\* What AddItem of a bag and of a currency container returns and leaves.
StacksAdded(id, cnt) ==
  LET rest == Rest(id, cnt) IN
  /\ m_container' \in Containers
  /\ \A o : o # id => Holding(m_container', o) = Holding(m_container, o)
                   /\ Total(m_container', o) = Total(m_container, o)
  /\ rest = 0 \/ FreeSlots(m_container) # {} =>
       Total(m_container', id) = Total(m_container, id) + cnt
  /\ rest # 0 /\ FreeSlots(m_container) = {} =>
       /\ Total(m_container', id) = Total(m_container, id) + cnt - rest
       /\ \A i \in Holding(m_container', id) : m_container'[i].count = Overly
  /\ rest \in Int
  /\ call'.ret => rest = 0 \/ FreeSlots(m_container) # {}
  /\ ~call'.ret => kind = "currency" \/ (rest # 0 /\ FreeSlots(m_container) = {})
  /\ sane' => Proper(m_container')

LEMMA AddToStacksStep ==
  ASSUME IInv, kind # "equip", NEW id \in ItemIds \cup {NoItem}, NEW cnt \in AddCounts,
         AddItem(id, cnt)
  PROVE  StacksAdded(id, cnt)
  <1> DEFINE newSlot == kind = "bag"
             a == AddToStacks(m_container, id, cnt, Overly, newSlot)
             rest == Rest(id, cnt)
  <1>1. m_container \in Containers /\ cnt \in Int
        /\ Overly \in Nat \ {0} /\ (kind = "bag" \/ kind = "currency")
    BY CallAssumption, ContainerAssumption DEF IInv, SlotsOK, Kinds, Overly
  <1>2. Added(id, cnt) = a
    <2>1. CASE kind = "bag"
      BY <2>1 DEF Added, BagAddItem, Overly
    <2>2. CASE kind = "currency"
      BY <2>2 DEF Added, CurAddItem, Overly
    <2> QED
      BY <1>1, <2>1, <2>2
  <1>3. m_container' = a.cont /\ call'.ret = a.ret
    BY <1>2 DEF AddItem
  <1>4. /\ a.cont \in Containers
        /\ \A o : o # id => Holding(a.cont, o) = Holding(m_container, o)
                         /\ Total(a.cont, o) = Total(m_container, o)
        /\ rest = 0 \/ FreeSlots(m_container) # {} =>
             Total(a.cont, id) = Total(m_container, id) + cnt
        /\ rest # 0 /\ FreeSlots(m_container) = {} =>
             /\ Total(a.cont, id) = Total(m_container, id) + cnt - rest
             /\ \A i \in Holding(a.cont, id) : a.cont[i].count = Overly
    <2>1. Gains(a, m_container, id, cnt, Overly, rest)
      BY <1>1, AddKeeps DEF Rest
    <2> QED
      BY <2>1 DEF Gains
  <1>5. /\ rest \in Int
        /\ \/ rest = 0 /\ a.ret = TRUE
           \/ rest # 0 /\ FreeSlots(m_container) # {} /\ a.ret = newSlot
           \/ rest # 0 /\ FreeSlots(m_container) = {} /\ a.ret = FALSE
    <2>1. Ends(a, StacksFilled(m_container, id, cnt, Overly), rest, m_container, id, cnt, newSlot)
      BY <1>1, AddEnds DEF Rest
    <2> QED
      BY <2>1, <1>1 DEF Ends
  <1>7. sane' => Proper(a.cont)
    <2> SUFFICES ASSUME sane' PROVE Proper(a.cont)
      OBVIOUS
    <2>1. sane /\ id # NoItem /\ cnt >= 0
      BY DEF AddItem
    <2>2. cnt \in Nat /\ (id = NoItem => cnt = 0) /\ Proper(m_container)
      BY <1>1, <2>1 DEF IInv
    <2> QED
      BY <1>1, <2>2, AddStaysProper
  <1> HIDE DEF a, rest
  <1>6. /\ call'.ret => rest = 0 \/ FreeSlots(m_container) # {}
        /\ ~call'.ret => kind = "currency" \/ (rest # 0 /\ FreeSlots(m_container) = {})
    BY <1>1, <1>3, <1>5
  <1> QED
    BY <1>3, <1>4, <1>5, <1>6, <1>7 DEF StacksAdded, rest

\* What AddItem of the equipment returns and leaves.
LEMMA AddPieceStep ==
  ASSUME IInv, kind = "equip", NEW id \in ItemIds \cup {NoItem}, NEW cnt \in AddCounts,
         AddItem(id, cnt)
  PROVE  LET a == [cont |-> m_container', ret |-> call'.ret] IN
           OnePieceMore(a, m_container, id) /\ cnt = 1
  <1>1. m_container \in Pieces /\ cnt = 1
    BY DEF IInv, SlotsOK, AddItem
  <1>2. m_container' = EquipAddItem(m_container, id).cont /\ call'.ret = EquipAddItem(m_container, id).ret
    BY DEF AddItem, Added
  <1>3. OnePieceMore(EquipAddItem(m_container, id), m_container, id)
    BY <1>1, EquipAddKeeps
  <1> QED
    BY <1>1, <1>2, <1>3 DEF OnePieceMore

\* A removal leaves no stack that is used up.
LEMMA RemoveStaysProper ==
  ASSUME NEW c \in Containers, Proper(c), NEW num \in Nat, NEW cnt \in Int
  PROVE  Proper(RemoveFromSlot(c, num, cnt))
  <1> DEFINE d == RemoveFromSlot(c, num, cnt)
             s == [c[num] EXCEPT !.count = @ - cnt]
  <1>1. CASE num >= MAX_BAG_SIZE \/ c[num] = Null
    BY <1>1 DEF RemoveFromSlot
  <1>2. CASE ~(num >= MAX_BAG_SIZE \/ c[num] = Null)
    <2>1. num \in SlotIds /\ c[num] \in Stacks /\ c[num].id # NoItem /\ c \in [SlotIds -> {Null} \cup Stacks]
      BY <1>2, ContainerAssumption DEF SlotIds, Containers, Occupied, Proper
    <2>2. CASE UsedUp(c[num].count, cnt)
      <3>1. d = [c EXCEPT ![num] = Null]
        BY <1>2, <2>2 DEF RemoveFromSlot
      <3> HIDE DEF d
      <3>2. \A i \in Occupied(d) : i \in Occupied(c) /\ d[i] = c[i]
        BY <2>1, <3>1 DEF Occupied
      <3> QED
        BY <3>2 DEF Proper, d
    <2>3. CASE ~UsedUp(c[num].count, cnt)
      <3>1. d = [c EXCEPT ![num] = s]
        BY <1>2, <2>3 DEF RemoveFromSlot
      <3>2. s.count > 0 /\ s.id # NoItem
        BY <2>1, <2>3 DEF UsedUp, Stacks
      <3> HIDE DEF d, s
      <3>3. \A i \in Occupied(d) : d[i] = s \/ (i \in Occupied(c) /\ d[i] = c[i])
        BY <2>1, <3>1 DEF Occupied
      <3> QED
        BY <3>2, <3>3 DEF Proper, d
    <2> QED
      BY <2>2, <2>3
  <1> QED
    BY <1>1, <1>2

\* What a save and a reload leave, and when a second one changes nothing.
LEMMA ReloadStep ==
  ASSUME IInv
  PROVE  LET r == Reloaded(m_container) IN
           /\ r \in IF kind = "equip" THEN Pieces ELSE Containers
           /\ \A id \in ItemIds : Total(r, id) = Total(m_container, id)
           /\ sane /\ kind # "equip" => Proper(r)
           /\ sane => Reloaded(r) = r
  <1>1. CASE kind = "bag"
    <2> DEFINE r == RestoreBag(ContainerEntries(m_container))
    <2>1. /\ Reloads(BagClass, r, m_container)
          /\ Proper(m_container) => RestoreBag(ContainerEntries(r)) = r
      BY <1>1, BagReloads DEF IInv, SlotsOK
    <2>2. \A c : Reloaded(c) = RestoreBag(ContainerEntries(c))
      BY <1>1 DEF Reloaded
    <2> HIDE DEF r
    <2> QED
      BY <1>1, <2>1, <2>2 DEF Reloads, ContainersOf, BagClass, IInv, r
  <1>2. CASE kind = "currency"
    <2> DEFINE r == RestoreCurrency(ContainerEntries(m_container))
    <2>1. /\ Reloads(CurrencyClass, r, m_container)
          /\ Proper(m_container) => RestoreCurrency(ContainerEntries(r)) = r
      BY <1>2, CurrencyReloads DEF IInv, SlotsOK
    <2>2. \A c : Reloaded(c) = RestoreCurrency(ContainerEntries(c))
      BY <1>2 DEF Reloaded
    <2> HIDE DEF r
    <2> QED
      BY <1>2, <2>1, <2>2 DEF Reloads, ContainersOf, CurrencyClass, IInv, r
  <1>3. CASE kind = "equip"
    <2> DEFINE r == RestoreEquipment(ContainerEntries(m_container))
    <2>1. Reloads(EquipClass, r, m_container) /\ RestoreEquipment(ContainerEntries(r)) = r
      BY <1>3, EquipmentReloads DEF IInv, SlotsOK
    <2>2. \A c : Reloaded(c) = RestoreEquipment(ContainerEntries(c))
      BY <1>3 DEF Reloaded
    <2> HIDE DEF r
    <2> QED
      BY <1>3, <2>1, <2>2 DEF Reloads, ContainersOf, EquipClass, IInv, r
  <1> QED
    BY <1>1, <1>2, <1>3 DEF IInv, Kinds

-----------------------------------------------------------------------------
(* The invariant. *)

\* A new container.
THEOREM InitIInv == Init => IInv
BY EmptyContainerTypes DEF Init, IInv, SlotsOK, Proper

\* Every call and every reload keeps the invariant.
THEOREM StepIInv == IInv /\ [Next]_vars => IInv'
<1> SUFFICES ASSUME IInv, [Next]_vars PROVE IInv'
  OBVIOUS
<1>1. CASE UNCHANGED vars
  BY <1>1 DEF vars, IInv, SlotsOK
<1>2. ASSUME NEW id \in ItemIds \cup {NoItem}, NEW cnt \in AddCounts, AddItem(id, cnt) PROVE IInv'
  <2>1. kind' = kind
    BY <1>2 DEF AddItem
  <2>2. CASE kind = "equip"
    <3>1. m_container' \in Pieces
      BY <1>2, <2>2, AddPieceStep DEF OnePieceMore
    <3> QED
      BY <2>1, <2>2, <3>1 DEF IInv, SlotsOK
  <2>3. CASE kind # "equip"
    <3>1. StacksAdded(id, cnt)
      BY <1>2, <2>3, AddToStacksStep
    <3>2. m_container' \in Containers /\ (sane' => Proper(m_container'))
      BY <3>1 DEF StacksAdded
    <3> QED
      BY <2>1, <2>3, <3>2 DEF IInv, SlotsOK
  <2> QED
    BY <2>2, <2>3
<1>3. ASSUME NEW num \in 0 .. MAX_BAG_SIZE, NEW cnt \in RemoveCounts, RemoveItem(num, cnt) PROVE IInv'
  <2>1. kind' = kind /\ sane' = sane
    BY <1>3 DEF RemoveItem
  <2>2. CASE kind = "equip"
    <3>1. m_container' = EquipRemoveItem(m_container, num) /\ m_container \in Pieces
      BY <1>3, <2>2 DEF RemoveItem, IInv, SlotsOK
    <3>2. m_container' \in Pieces
      BY <3>1, EquipRemoveKeeps
    <3> QED
      BY <2>1, <2>2, <3>2 DEF IInv, SlotsOK
  <2>3. CASE kind # "equip"
    <3>1. m_container' = RemoveFromSlot(m_container, num, cnt) /\ m_container \in Containers
      BY <1>3, <2>3 DEF RemoveItem, IInv, SlotsOK
    <3>2. num \in Nat /\ cnt \in Int
      BY CallAssumption, ContainerAssumption
    <3>3. m_container' \in Containers
      BY <3>1, <3>2, RemoveKeeps DEF OneItemLess
    <3>4. sane => Proper(m_container')
      BY <2>3, <3>1, <3>2, RemoveStaysProper DEF IInv
    <3> QED
      BY <2>1, <2>3, <3>3, <3>4 DEF IInv, SlotsOK
  <2> QED
    BY <2>2, <2>3
<1>4. CASE Reload
  BY <1>4, ReloadStep DEF Reload, IInv, SlotsOK
<1> QED
  BY <1>1, <1>2, <1>3, <1>4 DEF Next

\* The invariant holds after any sequence of calls.
THEOREM SpecIInv == Spec => []IInv
BY InitIInv, StepIInv, PTL DEF Spec

\* Unless a call is out of place, no slot is kept by an item that is used up.
THEOREM NoStackIsEmpty == Spec => []NoEmptyStack
<1>1. IInv => NoEmptyStack
  <2> SUFFICES ASSUME IInv, sane, NEW i \in Occupied(m_container)
               PROVE  m_container[i].count > 0 /\ (m_container[i].id = NoItem => kind = "equip")
    BY DEF NoEmptyStack
  <2>1. CASE kind = "equip"
    BY <2>1 DEF IInv, SlotsOK, Pieces
  <2>2. CASE kind # "equip"
    BY <2>2 DEF IInv, Proper
  <2> QED
    BY <2>1, <2>2
<1> QED BY <1>1, SpecIInv, PTL

\* A save and a reload give a player as many of every item as before.
THEOREM ReloadLosesNothing == Spec => []ReloadKeepsTotals
<1>1. IInv => ReloadKeepsTotals
  BY ReloadStep DEF ReloadKeepsTotals
<1> QED BY <1>1, SpecIInv, PTL

\* A second reload changes nothing, unless a call was out of place.
THEOREM ReloadsSettle == Spec => []ReloadSettles
<1>1. IInv => ReloadSettles
  BY ReloadStep DEF ReloadSettles
<1> QED BY <1>1, SpecIInv, PTL

-----------------------------------------------------------------------------
(* Action properties. *)

\* Only AddItem says "add".
LEMMA OnlyAddItemAdds ==
  ASSUME IInv, Next, call'.op = "add"
  PROVE  \E id \in ItemIds \cup {NoItem}, cnt \in AddCounts :
           AddItem(id, cnt) /\ call'.id = id /\ call'.cnt = cnt
  <1>1. ASSUME NEW num, NEW cnt, RemoveItem(num, cnt) PROVE FALSE
    BY <1>1 DEF RemoveItem
  <1>2. ~Reload
    BY DEF Reload, NoCall
  <1>3. PICK id \in ItemIds \cup {NoItem}, cnt \in AddCounts : AddItem(id, cnt)
    BY <1>1, <1>2 DEF Next
  <1> QED
    BY <1>3 DEF AddItem

\* An item AddItem takes is there in full and nothing else has changed.
THEOREM AddsAreExact == Spec => AddIsExact
<1> DEFINE Exact == call'.op = "add" /\ (call'.ret \/ FreeSlots(m_container) # {}) =>
       /\ Total(m_container', call'.id) = Total(m_container, call'.id) + call'.cnt
       /\ \A o \in Others(call'.id) : Holding(m_container', o) = Holding(m_container, o)
                                   /\ Total(m_container', o) = Total(m_container, o)
<1>1. ASSUME IInv, Next PROVE Exact
  <2> SUFFICES ASSUME call'.op = "add", call'.ret \/ FreeSlots(m_container) # {}
               PROVE  /\ Total(m_container', call'.id) = Total(m_container, call'.id) + call'.cnt
                      /\ \A o \in Others(call'.id) : Holding(m_container', o) = Holding(m_container, o)
                                                  /\ Total(m_container', o) = Total(m_container, o)
    OBVIOUS
  <2>1. PICK id \in ItemIds \cup {NoItem}, cnt \in AddCounts :
          AddItem(id, cnt) /\ call'.id = id /\ call'.cnt = cnt
    BY <1>1, OnlyAddItemAdds
  <2>2. CASE kind = "equip"
    <3> DEFINE a == [cont |-> m_container', ret |-> call'.ret]
    <3>1. OnePieceMore(a, m_container, id) /\ cnt = 1
      BY <1>1, <2>1, <2>2, AddPieceStep
    <3> QED
      BY <2>1, <3>1 DEF OnePieceMore, Others
  <2>3. CASE kind # "equip"
    <3>1. StacksAdded(id, cnt)
      BY <1>1, <2>1, <2>3, AddToStacksStep
    <3> QED
      BY <2>1, <3>1 DEF StacksAdded, Others
  <2> QED
    BY <2>2, <2>3
<1>2. IInv /\ [Next]_vars => [Exact]_vars
  BY <1>1
<1> HIDE DEF Exact
<1> QED BY <1>2, SpecIInv, PTL DEF Spec, AddIsExact, Exact

\* A bag or the equipment refuses an item only when there is no room for it.
THEOREM RefusesWhenFull == Spec => RefusedOnlyWhenFull
<1> DEFINE Full == call'.op = "add" /\ ~call'.ret /\ kind # "currency" =>
       /\ FreeSlots(m_container) = {}
       /\ kind = "bag" => \A i \in Holding(m_container', call'.id) :
                            m_container'[i].count = MAX_ITEM_BAGOVERLY
<1>1. ASSUME IInv, Next PROVE Full
  <2> SUFFICES ASSUME call'.op = "add", ~call'.ret, kind # "currency"
               PROVE  /\ FreeSlots(m_container) = {}
                      /\ kind = "bag" => \A i \in Holding(m_container', call'.id) :
                                           m_container'[i].count = MAX_ITEM_BAGOVERLY
    OBVIOUS
  <2>1. PICK id \in ItemIds \cup {NoItem}, cnt \in AddCounts :
          AddItem(id, cnt) /\ call'.id = id /\ call'.cnt = cnt
    BY <1>1, OnlyAddItemAdds
  <2>2. CASE kind = "equip"
    <3> DEFINE a == [cont |-> m_container', ret |-> call'.ret]
    <3>1. OnePieceMore(a, m_container, id)
      BY <1>1, <2>1, <2>2, AddPieceStep
    <3> QED
      BY <2>2, <3>1 DEF OnePieceMore
  <2>3. CASE kind = "bag"
    <3>1. StacksAdded(id, cnt)
      BY <1>1, <2>1, <2>3, AddToStacksStep
    <3> QED
      BY <2>1, <2>3, <3>1 DEF StacksAdded, Overly
  <2> QED
    BY <1>1, <2>2, <2>3 DEF IInv, Kinds
<1>2. IInv /\ [Next]_vars => [Full]_vars
  BY <1>1
<1> HIDE DEF Full
<1> QED BY <1>2, SpecIInv, PTL DEF Spec, RefusedOnlyWhenFull, Full

\* A bag that refuses an item has lost none and gained less than was asked,
\* unless a stack was above its maximum.
THEOREM RefusalsKeepItems == Spec => RefusalKeepsItems
<1> DEFINE Kept == call'.op = "add" /\ ~call'.ret /\ kind = "bag"
     /\ (\A i \in Holding(m_container, call'.id) :
           m_container[i].count <= MAX_ITEM_BAGOVERLY) =>
       LET gained == Total(m_container', call'.id) - Total(m_container, call'.id)
       IN gained \in {0} \cup 1 .. call'.cnt - 1
<1>1. ASSUME IInv, Next PROVE Kept
  <2> SUFFICES ASSUME call'.op = "add", ~call'.ret, kind = "bag",
                      \A i \in Holding(m_container, call'.id) :
                         m_container[i].count <= MAX_ITEM_BAGOVERLY
               PROVE  LET gained == Total(m_container', call'.id) - Total(m_container, call'.id)
                      IN gained \in {0} \cup 1 .. call'.cnt - 1
    OBVIOUS
  <2>1. PICK id \in ItemIds \cup {NoItem}, cnt \in AddCounts :
          AddItem(id, cnt) /\ call'.id = id /\ call'.cnt = cnt
    BY <1>1, OnlyAddItemAdds
  <2>2. m_container \in Containers /\ cnt \in Int /\ Overly = MAX_ITEM_BAGOVERLY
    BY <1>1, CallAssumption DEF IInv, SlotsOK, Overly
  <2>3. StacksAdded(id, cnt)
    BY <1>1, <2>1, AddToStacksStep
  <2>4. /\ Rest(id, cnt) \in Int \ {0} /\ m_container' \in Containers
        /\ Total(m_container', id) = Total(m_container, id) + cnt - Rest(id, cnt)
    BY <2>3 DEF StacksAdded
  <2>5. Rest(id, cnt) \in {0, cnt} \cup 1 .. cnt
    BY <2>1, <2>2, RestIsNoMore, ContainerAssumption DEF Rest
  <2>6. Total(m_container, id) \in Int
    BY <2>2, TotalIsInt
  <2> QED
    BY <2>1, <2>2, <2>4, <2>5, <2>6
<1>2. IInv /\ [Next]_vars => [Kept]_vars
  BY <1>1
<1> HIDE DEF Kept
<1> QED BY <1>2, SpecIInv, PTL DEF Spec, RefusalKeepsItems, Kept
=============================================================================
