-------------------------- MODULE GameServerProofs --------------------------
(***************************************************************************)
(* Theorems of GameServer, for any set of players, items, container sizes, *)
(* stack sizes, tables and requests: the two maps of EntityMgr agree, an   *)
(* entity is kept as long as the process runs, a save goes to the row of   *)
(* the player whose handler makes it, a row gives back what its player     *)
(* owns, and the server implements PlayerStore.                            *)
(*                                                                         *)
(* There are two invariants.  IInv speaks of the maps alone; DataInv adds  *)
(* what entities and rows hold, with the lemmas of ContainerLemmas for     *)
(* what the operators on containers do.                                    *)
(***************************************************************************)
EXTENDS GameServer, ContainerLemmas

\* An entity restored from a row carries the id of the player it belongs to.
RestoredOwnInfo == \A p \in Restored : GetEttyByPid(p).info.pid = p

\* The counter is a number, and a handler yet to save works for a player that
\* is in memory while the process runs.
CounterOK == m_eidpos \in Nat /\ m_eidpos >= FirstEid

\* EntityMapsAgree as it is needed of the maps of a step.
MapsAgree == EntityMapsAgree /\ CounterOK

\* The inductive invariant.
IInv == MapsAgree /\ RestoredOwnInfo

-----------------------------------------------------------------------------
(* Lemmas about the steps the handlers are made of. *)

\* A new entity for a player that has none.
LEMMA AddEntityKeepsMaps ==
  ASSUME IInv, NEW p \in Pids, ~HasPlayer(p), NEW e, AddEntity(p, e),
         e.restored => e.info.pid = p
  PROVE  IInv'
<1> DEFINE eid == m_eidpos
<1>1. /\ DOMAIN m_PlayerMap' = DOMAIN m_PlayerMap \cup {p}
      /\ m_PlayerMap'[p] = eid
      /\ \A q \in DOMAIN m_PlayerMap : m_PlayerMap'[q] = m_PlayerMap[q]
  <2>1. m_PlayerMap' = Put(m_PlayerMap, p, eid)
    BY DEF AddEntity
  <2> QED BY <2>1 DEF Put, HasPlayer
<1>2. eid \notin DOMAIN m_EntityMap
  BY DEF IInv, MapsAgree, CounterOK, EntityMapsAgree
<1>3. /\ DOMAIN m_EntityMap' = DOMAIN m_EntityMap \cup {eid}
      /\ m_EntityMap'[eid] = e
      /\ \A x \in DOMAIN m_EntityMap : m_EntityMap'[x] = m_EntityMap[x]
  <2>1. m_EntityMap' = Put(m_EntityMap, eid, e)
    BY DEF AddEntity
  <2> QED BY <2>1, <1>2 DEF Put
<1>4. m_eidpos' = m_eidpos + 1 /\ CounterOK'
  BY ServerAssumption DEF AddEntity, IInv, MapsAgree, CounterOK
<1>5. EntityMapsAgree'
  <2>1. DOMAIN m_PlayerMap' \subseteq Pids
    BY <1>1 DEF IInv, MapsAgree, EntityMapsAgree
  <2>2. \A q \in DOMAIN m_PlayerMap' : m_PlayerMap'[q] \in DOMAIN m_EntityMap'
    BY <1>1, <1>3 DEF IInv, MapsAgree, EntityMapsAgree
  <2>3. \A x \in DOMAIN m_EntityMap' : \E q \in DOMAIN m_PlayerMap' : m_PlayerMap'[q] = x
    BY <1>1, <1>3 DEF IInv, MapsAgree, EntityMapsAgree
  <2>4. \A q, r \in DOMAIN m_PlayerMap' : m_PlayerMap'[q] = m_PlayerMap'[r] => q = r
    BY <1>1, <1>2 DEF IInv, MapsAgree, EntityMapsAgree
  <2>5. DOMAIN m_EntityMap' \subseteq FirstEid .. m_eidpos' - 1
    <3>1. DOMAIN m_EntityMap \subseteq FirstEid .. eid - 1 /\ eid \in Nat /\ eid >= FirstEid
      BY DEF IInv, MapsAgree, CounterOK, EntityMapsAgree
    <3> QED BY <3>1, <1>3, <1>4, ServerAssumption
  <2> QED BY <2>1, <2>2, <2>3, <2>4, <2>5 DEF EntityMapsAgree
<1>6. RestoredOwnInfo'
  <2> SUFFICES ASSUME NEW q \in DOMAIN m_PlayerMap', m_EntityMap'[m_PlayerMap'[q]].restored
               PROVE  m_EntityMap'[m_PlayerMap'[q]].info.pid = q
    BY DEF RestoredOwnInfo, Restored, GetEttyByPid
  <2>1. CASE q = p
    BY <2>1, <1>1, <1>3
  <2>2. CASE q # p
    BY <2>2, <1>1, <1>3 DEF IInv, MapsAgree, EntityMapsAgree, RestoredOwnInfo, Restored, GetEttyByPid
  <2> QED BY <2>1, <2>2
<1> QED BY <1>4, <1>5, <1>6 DEF IInv, MapsAgree

\* One entity changes; so do none of the ids.
LEMMA EntityChangedKeepsMaps ==
  ASSUME IInv, NEW p, NEW q, HasPlayer(q), NEW e, EntityChanged(p, q, e),
         e.info = GetEttyByPid(q).info, e.restored = GetEttyByPid(q).restored
  PROVE  IInv'
<1>1. /\ m_PlayerMap' = m_PlayerMap /\ m_eidpos' = m_eidpos
      /\ DOMAIN m_EntityMap' = DOMAIN m_EntityMap
  BY DEF EntityChanged
<1>2. \A x \in DOMAIN m_EntityMap :
        /\ m_EntityMap'[x].info = m_EntityMap[x].info
        /\ m_EntityMap'[x].restored = m_EntityMap[x].restored
  BY DEF EntityChanged, GetEttyByPid
<1>3. EntityMapsAgree' /\ CounterOK'
  BY <1>1 DEF IInv, MapsAgree, EntityMapsAgree, CounterOK
<1>4. RestoredOwnInfo'
  BY <1>1, <1>2 DEF IInv, MapsAgree, EntityMapsAgree, RestoredOwnInfo, Restored, GetEttyByPid
<1> QED BY <1>3, <1>4 DEF IInv, MapsAgree

\* The end of the process empties both maps.
LEMMA DiesKeepsMaps ==
  ASSUME Dies
  PROVE  IInv'
<1>1. DOMAIN m_PlayerMap' = {} /\ DOMAIN m_EntityMap' = {} /\ m_eidpos' = FirstEid
  BY DEF Dies, EmptyMap
<1> QED
  BY <1>1, ServerAssumption DEF IInv, MapsAgree, EntityMapsAgree, CounterOK, RestoredOwnInfo, Restored

\* The invariant speaks of the memory alone.
LEMMA MemoryUnchanged ==
  ASSUME IInv, UNCHANGED memory
  PROVE  IInv'
BY DEF IInv, MapsAgree, EntityMapsAgree, CounterOK, RestoredOwnInfo, Restored, GetEttyByPid, memory

-----------------------------------------------------------------------------
(* What a step can do to memory and rows, whatever request it handles. *)

\* The end of the process, for whatever reason.
ProcessEnds == Dies /\ db' = db

\* An entity that no row was read for.
Detaches(p) ==
  \E info \in Infos :
    ~HasPlayer(p) /\ AddEntity(p, CreatedEntity(info)) /\ UNCHANGED <<db, saving, history>>

\* What an item request makes of an entity d.
ChangedEntity(d, e) ==
  \/ \E id \in ItemIds \cup {NoItem}, cnt \in AddCounts :
       e = [d EXCEPT !.bag = BagAddItem(d.bag, id, cnt).cont]
  \/ \E pos \in Nat, cnt \in RemoveCounts : e = [d EXCEPT !.bag = RemoveFromSlot(d.bag, pos, cnt)]
  \/ e = [d EXCEPT !.bag = d.bag]
  \/ \E f \in {"bag", "equip", "cur"}, i \in SlotIds, cnt \in RemoveCounts :
       e = TakenFrom(d, f, i, cnt)

\* An item request of p that changes the entity of q, its own as a rule.
Changes(p, q, e) ==
  /\ saving = Nobody /\ HasPlayer(p) /\ HasPlayer(q)
  /\ ChangedEntity(GetEttyByPid(q), e)
  /\ EntityChanged(p, q, e)
  /\ stale' = IF p = q THEN stale ELSE stale \cup {q}

StepForm ==
  \/ UNCHANGED <<memory, db, saving, history>>
  \/ ProcessEnds
  \/ \E p \in Pids : PlayerLogin(p) \/ Detaches(p)
  \/ \E p, q \in Pids : \E e : Changes(p, q, e)
  \/ \E ok \in BOOLEAN : UpdatePlayerInfo(ok)

\* Every step of the server is of one of these forms.
LEMMA StepForms ==
  ASSUME [Next]_vars
  PROVE  StepForm
<1>1. CASE UNCHANGED vars
  BY <1>1 DEF vars, StepForm
<1>2. ASSUME NEW p \in Pids, LoginAgain(p) PROVE StepForm
  BY <1>2 DEF LoginAgain, StepForm
<1>3. ASSUME NEW p \in Pids, PlayerLogin(p) PROVE StepForm
  BY <1>3 DEF StepForm
<1>4. ASSUME NEW p \in Pids,
             LoginAnswerEnds(p) \/ LoginWithoutRow(p) \/ RemoveBelowEnds(p)
      PROVE  StepForm
  BY <1>4 DEF LoginAnswerEnds, LoginWithoutRow, RemoveBelowEnds, ProcessEnds, StepForm
<1>5. ASSUME NEW p \in Pids, LoginQueryFails(p) PROVE StepForm
  <2>1. CASE p = DefaultId
    <3> DEFINE info == [pid |-> p, rank |-> 0, exp |-> 0]
    <3>1. info \in Infos
      BY DEF Infos
    <3>2. ~HasPlayer(p) /\ AddEntity(p, CreatedEntity(info)) /\ UNCHANGED <<db, saving, history>>
      BY <1>5, <2>1 DEF LoginQueryFails, EntityOfNothing
    <3> HIDE DEF info
    <3> QED BY <3>1, <3>2 DEF Detaches, StepForm
  <2>2. CASE p # DefaultId
    BY <1>5, <2>2 DEF LoginQueryFails, ProcessEnds, StepForm
  <2> QED BY <2>1, <2>2
<1>6. ASSUME NEW p \in Pids, NEW what, ItemRequestBeforeLogin(p, what) PROVE StepForm
  BY <1>6 DEF ItemRequestBeforeLogin, ProcessEnds, StepForm
<1>7. ASSUME NEW p \in Pids, PlayerRegister(p) PROVE StepForm
  <2>1. CASE HasPlayer(p)
    BY <1>7, <2>1 DEF PlayerRegister, StepForm
  <2>2. CASE ~HasPlayer(p)
    <3>1. PICK info \in Uninitialised : AddEntity(p, CreatedEntity(info))
      BY <1>7, <2>2 DEF PlayerRegister
    <3>2. info \in Infos /\ UNCHANGED <<db, saving, history>>
      BY <1>7, ServerAssumption DEF PlayerRegister
    <3> QED BY <2>2, <3>1, <3>2 DEF Detaches, StepForm
  <2> QED BY <2>1, <2>2
<1>8. ASSUME NEW p \in Pids, NEW q \in Pids, NEW e, saving = Nobody, HasPlayer(p), HasPlayer(q),
             EntityChanged(p, q, e), stale' = IF p = q THEN stale ELSE stale \cup {q},
             ChangedEntity(GetEttyByPid(q), e)
      PROVE  StepForm
  BY <1>8 DEF Changes, StepForm
<1>9. ASSUME NEW p \in Pids, NEW c, saving = Nobody, HasPlayer(p), BagChanged(p, c),
             ChangedEntity(GetEttyByPid(p), [GetEttyByPid(p) EXCEPT !.bag = c])
      PROVE  StepForm
  BY <1>8, <1>9 DEF BagChanged
<1>10. ASSUME NEW p \in Pids, NEW id \in ItemIds \cup {NoItem}, NEW cnt \in AddCounts,
              PlayerAddItem(p, id, cnt)
       PROVE  StepForm
  <2> DEFINE d == GetEttyByPid(p)
             c == BagAddItem(d.bag, id, cnt).cont
  <2>1. ChangedEntity(d, [d EXCEPT !.bag = c])
    BY DEF ChangedEntity
  <2>2. saving = Nobody /\ HasPlayer(p) /\ BagChanged(p, c)
    BY <1>10 DEF PlayerAddItem, Request, Idle
  <2> HIDE DEF c
  <2> QED BY <1>9, <2>1, <2>2
<1>11. ASSUME NEW p \in Pids, NEW pos \in 0 .. MAX_BAG_SIZE, NEW cnt \in RemoveCounts,
              PlayerRemoveItem(p, pos, cnt)
       PROVE  StepForm
  <2> DEFINE d == GetEttyByPid(p)
             c == RemoveFromSlot(d.bag, pos, cnt)
  <2>1. pos \in Nat
    BY ContainerAssumption
  <2>2. ChangedEntity(d, [d EXCEPT !.bag = c])
    BY <2>1 DEF ChangedEntity
  <2>3. saving = Nobody /\ HasPlayer(p) /\ BagChanged(p, c)
    BY <1>11 DEF PlayerRemoveItem, Request, Idle
  <2> HIDE DEF c
  <2> QED BY <1>9, <2>2, <2>3
<1>12. ASSUME NEW p \in Pids, RemoveBelowFindsNull(p) PROVE StepForm
  <2> DEFINE d == GetEttyByPid(p)
             c == d.bag
  <2>1. ChangedEntity(d, [d EXCEPT !.bag = c])
    BY DEF ChangedEntity
  <2>2. saving = Nobody /\ HasPlayer(p) /\ BagChanged(p, c)
    BY <1>12 DEF RemoveBelowFindsNull, Request, Idle
  <2> HIDE DEF c
  <2> QED BY <1>9, <2>1, <2>2
<1>13. ASSUME NEW p \in Pids, NEW q \in Pids, NEW f \in {"bag", "equip", "cur"},
              NEW i \in SlotIds, NEW cnt \in RemoveCounts, RemoveBelowFindsSlot(p, q, f, i, cnt)
       PROVE  StepForm
  <2> DEFINE e == TakenFrom(GetEttyByPid(q), f, i, cnt)
  <2>1. ChangedEntity(GetEttyByPid(q), e)
    BY DEF ChangedEntity
  <2>2. /\ saving = Nobody /\ HasPlayer(p) /\ HasPlayer(q) /\ EntityChanged(p, q, e)
        /\ stale' = IF p = q THEN stale ELSE stale \cup {q}
    BY <1>13 DEF RemoveBelowFindsSlot, Request, Idle
  <2> HIDE DEF e
  <2> QED BY <1>8, <2>1, <2>2
<1>14. ASSUME NEW ok \in BOOLEAN, UpdatePlayerInfo(ok) PROVE StepForm
  BY <1>14 DEF StepForm
<1>15. CASE Crash
  BY <1>15 DEF Crash, ProcessEnds, StepForm
<1>16. CASE Restart
  BY <1>16 DEF Restart, StepForm
<1> QED
  BY <1>1, <1>2, <1>3, <1>4, <1>5, <1>6, <1>7, <1>10, <1>11, <1>12, <1>13, <1>14, <1>15, <1>16
  DEF Next

\* A changed entity is its player's still.
LEMMA ChangedKeepsIds ==
  ASSUME NEW d, NEW e, ChangedEntity(d, e)
  PROVE  e.info = d.info /\ e.restored = d.restored
<1>1. ASSUME NEW c,
             \/ e = [d EXCEPT !.bag = c]
             \/ e = [d EXCEPT !.equip = c]
             \/ e = [d EXCEPT !.cur = c]
      PROVE  e.info = d.info /\ e.restored = d.restored
  <2>1. CASE e = [d EXCEPT !.bag = c]
    BY <2>1
  <2>2. CASE e = [d EXCEPT !.equip = c]
    BY <2>2
  <2>3. CASE e = [d EXCEPT !.cur = c]
    BY <2>3
  <2> QED BY <1>1, <2>1, <2>2, <2>3
<1>2. ASSUME NEW f \in {"bag", "equip", "cur"}, NEW i, NEW cnt, e = TakenFrom(d, f, i, cnt)
      PROVE  e.info = d.info /\ e.restored = d.restored
  <2>1. CASE f = "bag"
    BY <1>1, <1>2, <2>1 DEF TakenFrom
  <2>2. CASE f = "equip"
    BY <1>1, <1>2, <2>2 DEF TakenFrom
  <2>3. CASE f = "cur"
    BY <1>1, <1>2, <2>3 DEF TakenFrom
  <2> QED BY <2>1, <2>2, <2>3
<1> QED BY <1>1, <1>2 DEF ChangedEntity

-----------------------------------------------------------------------------
(* The invariant. *)

\* A server that has just been initialised.
THEOREM InitIInv == Init => IInv
BY ServerAssumption
DEF Init, IInv, MapsAgree, EntityMapsAgree, CounterOK, RestoredOwnInfo, Restored, EmptyMap

\* Every handler, failure, crash and restart keeps the invariant.
THEOREM StepIInv == IInv /\ [Next]_vars => IInv'
<1> SUFFICES ASSUME IInv, [Next]_vars PROVE IInv'
  OBVIOUS
<1>1. CASE UNCHANGED <<memory, db, saving, history>>
  BY <1>1, MemoryUnchanged
<1>2. CASE ProcessEnds
  BY <1>2, DiesKeepsMaps DEF ProcessEnds
<1>3. ASSUME NEW p \in Pids, PlayerLogin(p) PROVE IInv'
  <2>1. RestoredEntity(p, db[p]).info.pid = p
    BY DEF RestoredEntity
  <2> QED BY <1>3, <2>1, AddEntityKeepsMaps DEF PlayerLogin
<1>4. ASSUME NEW p \in Pids, Detaches(p) PROVE IInv'
  <2>1. PICK info \in Infos : ~HasPlayer(p) /\ AddEntity(p, CreatedEntity(info))
    BY <1>4 DEF Detaches
  <2>2. ~CreatedEntity(info).restored
    BY DEF CreatedEntity
  <2> QED BY <2>1, <2>2, AddEntityKeepsMaps
<1>5. ASSUME NEW p \in Pids, NEW q \in Pids, NEW e, Changes(p, q, e) PROVE IInv'
  <2>1. HasPlayer(q) /\ EntityChanged(p, q, e) /\ ChangedEntity(GetEttyByPid(q), e)
    BY <1>5 DEF Changes
  <2>2. e.info = GetEttyByPid(q).info /\ e.restored = GetEttyByPid(q).restored
    BY <2>1, ChangedKeepsIds
  <2> QED BY <2>1, <2>2, EntityChangedKeepsMaps
<1>6. ASSUME NEW ok \in BOOLEAN, UpdatePlayerInfo(ok) PROVE IInv'
  BY <1>6, MemoryUnchanged DEF UpdatePlayerInfo
<1> QED BY <1>1, <1>2, <1>3, <1>4, <1>5, <1>6, StepForms DEF StepForm

\* The invariant holds in every state of the server.
THEOREM SpecIInv == Spec => []IInv
BY InitIInv, StepIInv, PTL DEF Spec

\* The maps of EntityMgr agree in every state: GetEttyByPid finds the one
\* entity of every player HasPlayer knows, and no entity id is used twice.
THEOREM MapsAlwaysAgree == Spec => []EntityMapsAgree
<1>1. IInv => EntityMapsAgree
  BY DEF IInv, MapsAgree
<1> QED BY <1>1, SpecIInv, PTL

-----------------------------------------------------------------------------
(* Action properties. *)

\* A save writes no row but the one its own handler's player has, unless the
\* entity was made by a registration and its id never set.
THEOREM RowsAreOwners == Spec => RowsChangeByOwner
<1> DEFINE ByOwner == \A p \in Pids : db'[p] # db[p] => saving = p \/ saving \notin Restored
<1>1. ASSUME IInv, [Next]_vars, NEW p \in Pids, db'[p] # db[p]
      PROVE  saving = p \/ saving \notin Restored
  <2>1. PICK ok \in BOOLEAN : UpdatePlayerInfo(ok)
    <3>1. db' # db
      BY <1>1
    <3>2. StepForm
      BY <1>1, StepForms
    <3> QED
      BY <3>1, <3>2 DEF StepForm, ProcessEnds, PlayerLogin, Detaches, Changes, EntityChanged
  <2>2. GetEttyByPid(saving).info.pid = p
    BY <1>1, <2>1 DEF UpdatePlayerInfo, Written, TargetRow
  <2> QED BY <1>1, <2>2 DEF IInv, RestoredOwnInfo
<1>2. IInv /\ [Next]_vars => ByOwner
  BY <1>1
<1> HIDE DEF ByOwner
<1> QED BY <1>2, SpecIInv, PTL DEF Spec, RowsChangeByOwner, ByOwner

\* While the process runs, a player keeps its entity and the entity its id.
THEOREM EntitiesStay == Spec => EntitiesAreKept
<1> DEFINE Kept == alive /\ alive' =>
      \A p \in DOMAIN m_PlayerMap :
        /\ p \in DOMAIN m_PlayerMap' /\ m_PlayerMap'[p] = m_PlayerMap[p]
        /\ m_EntityMap'[m_PlayerMap[p]].info = GetEttyByPid(p).info
<1>1. ASSUME UNCHANGED memory PROVE Kept
  BY <1>1 DEF memory, GetEttyByPid
<1>2. ASSUME Dies PROVE Kept
  BY <1>2 DEF Dies
<1>3. ASSUME IInv, NEW p, ~HasPlayer(p), NEW e, AddEntity(p, e) PROVE Kept
  <2>1. \A q \in DOMAIN m_PlayerMap : q \in DOMAIN m_PlayerMap' /\ m_PlayerMap'[q] = m_PlayerMap[q]
    BY <1>3 DEF AddEntity, HasPlayer, Put
  <2>2. m_eidpos \notin DOMAIN m_EntityMap
    BY <1>3 DEF IInv, MapsAgree, CounterOK, EntityMapsAgree
  <2>3. \A x \in DOMAIN m_EntityMap : m_EntityMap'[x] = m_EntityMap[x]
    BY <1>3, <2>2 DEF AddEntity, Put
  <2> QED BY <1>3, <2>1, <2>3 DEF IInv, MapsAgree, EntityMapsAgree, GetEttyByPid
<1>4. ASSUME IInv, NEW p, NEW q, NEW e, Changes(p, q, e) PROVE Kept
  <2>1. HasPlayer(q) /\ EntityChanged(p, q, e) /\ e.info = GetEttyByPid(q).info
    BY <1>4, ChangedKeepsIds DEF Changes
  <2>2. \A x \in DOMAIN m_EntityMap : m_EntityMap'[x].info = m_EntityMap[x].info
    BY <2>1 DEF EntityChanged, GetEttyByPid
  <2> QED BY <1>4, <2>1, <2>2 DEF EntityChanged, IInv, MapsAgree, EntityMapsAgree, GetEttyByPid
<1>5. ASSUME IInv, [Next]_vars PROVE Kept
  <2>1. CASE UNCHANGED memory
    BY <1>1, <2>1
  <2>2. CASE Dies
    BY <1>2, <2>2
  <2>3. ASSUME NEW p, ~HasPlayer(p), NEW e, AddEntity(p, e) PROVE Kept
    BY <1>3, <1>5, <2>3
  <2>4. ASSUME NEW p, NEW q, NEW e, Changes(p, q, e) PROVE Kept
    BY <1>4, <1>5, <2>4
  <2>5. StepForm
    BY <1>5, StepForms
  <2> HIDE DEF Kept
  <2> QED
    BY <2>1, <2>2, <2>3, <2>4, <2>5 DEF StepForm, ProcessEnds, PlayerLogin, Detaches, UpdatePlayerInfo
<1> QED BY <1>5, SpecIInv, PTL DEF Spec, EntitiesAreKept

-----------------------------------------------------------------------------
(* What players own. *)

Entities ==
  [info : Infos, bag : Containers, equip : Pieces, cur : Containers, restored : BOOLEAN]

\* Every player owns some number of every item.
LEMMA OwnedTypes ==
  ASSUME NEW b \in Containers, NEW e \in Pieces, NEW c \in Containers
  PROVE  Owned(b, e, c) \in [ItemIds -> Int]
<1>1. e \in Containers
  BY DEF Pieces
<1>2. \A i \in ItemIds : Total(b, i) + Total(e, i) + Total(c, i) \in Int
  <2> TAKE i \in ItemIds
  <2>1. Total(b, i) \in Int /\ Total(e, i) \in Int /\ Total(c, i) \in Int
    BY <1>1, TotalIsInt
  <2> QED BY <2>1
<1> QED BY <1>2 DEF Owned

\* Who has nothing owns nothing.
LEMMA OwnsNothing == Owned(EmptyContainer, EmptyContainer, EmptyContainer) = NoItems
<1>1. EmptyContainer \in Containers /\ Occupied(EmptyContainer) = {}
  BY EmptyContainerTypes
<1>2. Adds(SumOver(Counts(EmptyContainer)), Counts(EmptyContainer))
  BY <1>1, SlotTypes, SumOverAdds
<1>3. \A i : Total(EmptyContainer, i) = 0
  <2>1. \A i : Holding(EmptyContainer, i) = {}
    BY <1>1 DEF Holding
  <2> QED BY <1>1, <1>2, <2>1, TotalIsSum DEF Adds
<1> QED BY <1>3 DEF Owned, NoItems

\* What is read from a row is an entity of its player.
LEMMA RowTypes ==
  ASSUME NEW row \in Rows
  PROVE  /\ RestoreBag(row.bag) \in Containers
         /\ RestoreEquipment(row.equip) \in Pieces
         /\ RestoreCurrency(row.cur) \in Containers
         /\ row.rank \in Int /\ row.exp \in Int
<1> DEFINE S == [id : ItemIds \cup {NoItem}, count : Int]
<1>1. row.bag \in Seq(S) /\ row.equip \in Seq(S) /\ row.cur \in Seq(S)
      /\ row.rank \in Int /\ row.exp \in Int
  BY DEF Rows
<1>2. ASSUME NEW q \in Seq(S) PROVE Len(q) \in Nat /\ q \in Entries(Len(q))
  BY <1>2, LenProperties, ElementOfSeq DEF Entries, Stacks
<1> QED BY <1>1, <1>2, RestoreTypes

LEMMA RestoredTypes ==
  ASSUME NEW row \in Rows, NEW p \in Pids
  PROVE  RestoredEntity(p, row) \in Entities
BY RowTypes DEF RestoredEntity, Entities, Infos

LEMMA CreatedTypes ==
  ASSUME NEW info \in Infos
  PROVE  CreatedEntity(info) \in Entities
BY EmptyContainerTypes DEF CreatedEntity, Entities

\* The row of a player gives back numbers of items.
LEMMA RowOwnedTypes ==
  ASSUME NEW row \in Rows \cup {NoRow}
  PROVE  OwnedInRow(row) \in [ItemIds -> Int]
<1>1. CASE row = NoRow
  BY <1>1 DEF OwnedInRow, NoItems
<1>2. CASE row # NoRow
  BY <1>2, RowTypes, OwnedTypes DEF OwnedInRow
<1> QED BY <1>1, <1>2

\* A message made of an entity is a row, and gives back all the entity has.
LEMMA MessageGivesBack ==
  ASSUME NEW e \in Entities
  PROVE  /\ PlayerMessage(e) \in Rows
         /\ OwnedInRow(PlayerMessage(e)) = Owned(e.bag, e.equip, e.cur)
<1> DEFINE m == PlayerMessage(e)
<1>1. /\ e.bag \in Containers /\ e.equip \in Pieces /\ e.cur \in Containers
      /\ e.equip \in Containers /\ e.info.exp \in Int
  BY DEF Entities, Infos, Pieces
<1>2. ASSUME NEW c \in Containers
      PROVE  ContainerEntries(c) \in Seq([id : ItemIds \cup {NoItem}, count : Int])
  <2>1. ContainerEntries(c) \in Entries(MAX_BAG_SIZE)
    BY EntriesOfContainer
  <2> QED BY <2>1, ContainerAssumption, SeqDef DEF Entries, Stacks
<1>3. m \in Rows
  <2>1. m = [rank |-> e.info.exp, exp |-> 0, bag |-> ContainerEntries(e.bag),
             equip |-> ContainerEntries(e.equip), cur |-> ContainerEntries(e.cur)]
    BY DEF PlayerMessage
  <2> DEFINE E == Seq([id : ItemIds \cup {NoItem}, count : Int])
  <2>2. Rows = [rank : Int, exp : Int, bag : E, equip : E, cur : E]
    BY DEF Rows
  <2>3. /\ ContainerEntries(e.bag) \in E /\ ContainerEntries(e.equip) \in E
        /\ ContainerEntries(e.cur) \in E
    BY <1>1, <1>2
  <2> HIDE DEF m, E
  <2> QED BY <1>1, <2>1, <2>2, <2>3
<1>4. m # NoRow
  BY <1>3, ServerAssumption
<1>5. /\ m.bag = ContainerEntries(e.bag) /\ m.equip = ContainerEntries(e.equip)
      /\ m.cur = ContainerEntries(e.cur)
  BY DEF PlayerMessage
<1> HIDE DEF m
<1>6. \A i \in ItemIds : /\ Total(RestoreBag(m.bag), i) = Total(e.bag, i)
                         /\ Total(RestoreEquipment(m.equip), i) = Total(e.equip, i)
                         /\ Total(RestoreCurrency(m.cur), i) = Total(e.cur, i)
  <2>1. Reloads(BagClass, RestoreBag(m.bag), e.bag)
    BY <1>1, <1>5, BagReloads
  <2>2. Reloads(EquipClass, RestoreEquipment(m.equip), e.equip)
    BY <1>1, <1>5, EquipmentReloads
  <2>3. Reloads(CurrencyClass, RestoreCurrency(m.cur), e.cur)
    BY <1>1, <1>5, CurrencyReloads
  <2> QED BY <2>1, <2>2, <2>3 DEF Reloads
<1> QED BY <1>3, <1>4, <1>6 DEF m, OwnedInRow, Owned

\* What the table keeps of a row is a row, and all of it when no backslash is
\* in it.
LEMMA StoredTypes ==
  ASSUME NEW m \in Rows
  PROVE  Stored(m) \in Rows /\ (Intact(m) => Stored(m) = m)
<1> DEFINE S == [id : ItemIds \cup {NoItem}, count : Int]
<1>1. ASSUME NEW q \in Seq(S) PROVE Cut(q) \in Seq(S)
  <2>1. CASE ~Has(q, Slashed)
    BY <2>1 DEF Cut
  <2>2. CASE Has(q, Slashed)
    <3> DEFINE K == {k \in DOMAIN q : q[k] \in Slashed}
               n == FirstSlashed(q)
    <3>1. K \in SUBSET Nat /\ K # {} /\ DOMAIN q = 1 .. Len(q) /\ Len(q) \in Nat
      BY <2>2, LenProperties DEF Has
    <3>2. n \in K
      BY <3>1, MinIsLowest DEF FirstSlashed
    <3>3. n \in Nat /\ 1 .. n \subseteq 1 .. Len(q)
      BY <3>1, <3>2
    <3>4. Garbled[q[n]] \in S
      BY <3>2, ServerAssumption DEF Items
    <3>5. \A k \in 1 .. n : q[k] \in S
      BY <3>1, <3>3, ElementOfSeq
    <3> HIDE DEF K, n, S
    <3>6. Cut(q) \in [1 .. n -> S]
      BY <2>2, <3>4, <3>5 DEF Cut, n
    <3> QED BY <3>3, <3>6, SeqDef
  <2> QED BY <2>1, <2>2
<1>2. Rows = [rank : Int, exp : Int, bag : Seq(S), equip : Seq(S), cur : Seq(S)]
  BY DEF Rows
<1>3. <<>> \in Seq(S)
  BY EmptySeq
<1> HIDE DEF S
<1>4. m.bag \in Seq(S) /\ m.equip \in Seq(S) /\ m.cur \in Seq(S)
  BY <1>2
<1>5. Cut(m.bag) \in Seq(S) /\ Cut(m.equip) \in Seq(S) /\ Cut(m.cur) \in Seq(S)
  BY <1>1, <1>4
<1>6. Stored(m) \in Rows
  BY <1>2, <1>3, <1>5 DEF Stored
<1>7. ASSUME Intact(m) PROVE Stored(m) = m
  BY <1>2, <1>7 DEF Stored, Intact, Cut
<1> QED BY <1>6, <1>7

\* What a save leaves of an entity is a row, and gives back all the entity has
\* unless a backslash was in it.
LEMMA SavedGivesBack ==
  ASSUME NEW e \in Entities
  PROVE  LET m == PlayerMessage(e) IN
         /\ Stored(m) \in Rows /\ Stored(m) # NoRow
         /\ Intact(m) => OwnedInRow(Stored(m)) = Owned(e.bag, e.equip, e.cur)
BY MessageGivesBack, StoredTypes, ServerAssumption

\* Only one item, if any, has another total in one of two containers than in the
\* other; or in two entities.
OneDiffers(c, b) == \E o : \A i : i # o => Total(c, i) = Total(b, i)
OneItemDiffers(e, d) ==
  \E o : \A i : i # o =>
    /\ Total(e.bag, i) = Total(d.bag, i)
    /\ Total(e.equip, i) = Total(d.equip, i)
    /\ Total(e.cur, i) = Total(d.cur, i)

\* What a bag holds after an item was added.
LEMMA AddedBag ==
  ASSUME NEW b \in Containers, NEW id \in ItemIds \cup {NoItem}, NEW cnt \in AddCounts
  PROVE  LET c == BagAddItem(b, id, cnt).cont IN c \in Containers /\ OneDiffers(c, b)
<1> DEFINE newSlot == TRUE
           a == AddToStacks(b, id, cnt, MAX_ITEM_BAGOVERLY, newSlot)
<1> HIDE DEF newSlot
<1>1. /\ a.cont \in Containers
      /\ \A o : o # id => Total(a.cont, o) = Total(b, o)
  <2> DEFINE rest == LeftBefore(b, id, cnt, MAX_ITEM_BAGOVERLY)[MAX_BAG_SIZE]
  <2>1. cnt \in Int /\ MAX_ITEM_BAGOVERLY \in Nat \ {0}
    BY ServerAssumption, ContainerAssumption
  <2>2. Gains(a, b, id, cnt, MAX_ITEM_BAGOVERLY, rest)
    BY <2>1, AddKeeps
  <2> HIDE DEF a, rest
  <2> QED BY <2>2 DEF Gains
<1> QED BY <1>1 DEF BagAddItem, newSlot, OneDiffers

\* An item request leaves an entity one, with one item more or less.
LEMMA ChangedTypes ==
  ASSUME NEW d \in Entities, NEW e, ChangedEntity(d, e)
  PROVE  e \in Entities /\ OneItemDiffers(e, d)
<1>0. /\ d.bag \in Containers /\ d.equip \in Pieces /\ d.cur \in Containers
      /\ d.equip \in Containers /\ RemoveCounts \subseteq Int /\ SlotIds \subseteq Nat
  BY ServerAssumption DEF Entities, Pieces, SlotIds
<1>1. ASSUME NEW c \in Containers, OneDiffers(c, d.bag), e = [d EXCEPT !.bag = c]
      PROVE  e \in Entities /\ OneItemDiffers(e, d)
  <2>1. e \in Entities /\ e.bag = c /\ e.equip = d.equip /\ e.cur = d.cur
    BY <1>1 DEF Entities
  <2> QED BY <1>1, <2>1 DEF OneDiffers, OneItemDiffers
<1>2. ASSUME NEW c \in Pieces, OneDiffers(c, d.equip), e = [d EXCEPT !.equip = c]
      PROVE  e \in Entities /\ OneItemDiffers(e, d)
  <2>1. e \in Entities /\ e.bag = d.bag /\ e.equip = c /\ e.cur = d.cur
    BY <1>2 DEF Entities
  <2> QED BY <1>2, <2>1 DEF OneDiffers, OneItemDiffers
<1>3. ASSUME NEW c \in Containers, OneDiffers(c, d.cur), e = [d EXCEPT !.cur = c]
      PROVE  e \in Entities /\ OneItemDiffers(e, d)
  <2>1. e \in Entities /\ e.bag = d.bag /\ e.equip = d.equip /\ e.cur = c
    BY <1>3 DEF Entities
  <2> QED BY <1>3, <2>1 DEF OneDiffers, OneItemDiffers
<1>4. ASSUME NEW c \in Containers, NEW i \in Nat, NEW cnt \in RemoveCounts
      PROVE  RemoveFromSlot(c, i, cnt) \in Containers /\ OneDiffers(RemoveFromSlot(c, i, cnt), c)
  <2>1. OneItemLess(RemoveFromSlot(c, i, cnt), c)
    BY <1>0, <1>4, RemoveKeeps
  <2> QED BY <2>1 DEF OneItemLess, OneDiffers
<1>5. ASSUME NEW id \in ItemIds \cup {NoItem}, NEW cnt \in AddCounts,
             e = [d EXCEPT !.bag = BagAddItem(d.bag, id, cnt).cont]
      PROVE  e \in Entities /\ OneItemDiffers(e, d)
  <2> DEFINE c == BagAddItem(d.bag, id, cnt).cont
  <2>1. c \in Containers /\ OneDiffers(c, d.bag)
    BY <1>0, AddedBag
  <2>2. e = [d EXCEPT !.bag = c]
    BY <1>5
  <2> HIDE DEF c
  <2> QED BY <1>1, <2>1, <2>2
<1>6. ASSUME NEW i \in Nat, NEW cnt \in RemoveCounts,
             e = [d EXCEPT !.bag = RemoveFromSlot(d.bag, i, cnt)]
      PROVE  e \in Entities /\ OneItemDiffers(e, d)
  <2> DEFINE c == RemoveFromSlot(d.bag, i, cnt)
  <2>1. c \in Containers /\ OneDiffers(c, d.bag)
    BY <1>0, <1>4
  <2>2. e = [d EXCEPT !.bag = c]
    BY <1>6
  <2> HIDE DEF c
  <2> QED BY <1>1, <2>1, <2>2
<1>7. CASE e = [d EXCEPT !.bag = d.bag]
  BY <1>0, <1>1, <1>7 DEF OneDiffers
<1>8. ASSUME NEW f \in {"bag", "equip", "cur"}, NEW i \in SlotIds, NEW cnt \in RemoveCounts,
             e = TakenFrom(d, f, i, cnt)
      PROVE  e \in Entities /\ OneItemDiffers(e, d)
  <2>1. CASE f = "bag"
    BY <1>0, <1>6, <1>8, <2>1 DEF TakenFrom
  <2>2. CASE f = "equip"
    <3> DEFINE c == EquipRemoveItem(d.equip, i)
    <3>1. c \in Pieces /\ OneItemLess(c, d.equip)
      BY <1>0, EquipRemoveKeeps, EquipTakesOne
    <3>2. e = [d EXCEPT !.equip = c]
      BY <1>8, <2>2 DEF TakenFrom
    <3> HIDE DEF c
    <3>3. OneDiffers(c, d.equip)
      BY <3>1 DEF OneItemLess, OneDiffers
    <3> QED BY <1>2, <3>1, <3>2, <3>3
  <2>3. CASE f = "cur"
    <3> DEFINE c == RemoveFromSlot(d.cur, i, cnt)
    <3>1. c \in Containers /\ OneDiffers(c, d.cur)
      BY <1>0, <1>4
    <3>2. e = [d EXCEPT !.cur = c]
      BY <1>8, <2>3 DEF TakenFrom
    <3> HIDE DEF c
    <3> QED BY <1>3, <3>1, <3>2
  <2> QED BY <2>1, <2>2, <2>3
<1> QED BY <1>5, <1>6, <1>7, <1>8 DEF ChangedEntity

-----------------------------------------------------------------------------
(* The second invariant. *)

\* Entities and rows are what they should be, and the handler yet to save is
\* that of a player in memory.
TypesOK ==
  /\ \A x \in DOMAIN m_EntityMap : m_EntityMap[x] \in Entities
  /\ db \in [Pids -> Rows \cup {NoRow}]
  /\ saving \in DOMAIN m_PlayerMap \cup {Nobody}

\* A player that was loaded from its row has one.
RowsStay == \A p \in Restored : db[p] # NoRow

\* MemoryIsSaved while a handler runs: of all players but the handler's.
OthersSaved ==
  \A p \in Restored \ (stale \cup garbled) :
    p # saving => OwnedInRow(db[p]) = OwnedInMemory(p)

DataInv == IInv /\ TypesOK /\ RowsStay /\ OthersSaved

\* The entity of a player in memory.
LEMMA EntityTypes ==
  ASSUME DataInv, NEW p, HasPlayer(p)
  PROVE  p \in Pids /\ GetEttyByPid(p) \in Entities /\ OwnedInMemory(p) \in [ItemIds -> Int]
<1>1. p \in Pids /\ GetEttyByPid(p) \in Entities
  BY DEF DataInv, TypesOK, IInv, MapsAgree, EntityMapsAgree, HasPlayer, GetEttyByPid
<1>2. /\ GetEttyByPid(p).bag \in Containers /\ GetEttyByPid(p).equip \in Pieces
      /\ GetEttyByPid(p).cur \in Containers
  BY <1>1 DEF Entities
<1> QED BY <1>1, <1>2, OwnedTypes DEF OwnedInMemory

\* The memory after a new entity for a player that has none.
MemoryAfterAdd(p, e) ==
  /\ DOMAIN m_PlayerMap' = DOMAIN m_PlayerMap \cup {p}
  /\ \A q \in DOMAIN m_PlayerMap : GetEttyByPid(q)' = GetEttyByPid(q)
  /\ GetEttyByPid(p)' = e
  /\ \A x \in DOMAIN m_EntityMap' :
       \/ m_EntityMap'[x] = e
       \/ x \in DOMAIN m_EntityMap /\ m_EntityMap'[x] = m_EntityMap[x]
LEMMA AddEntityMemory ==
  ASSUME IInv, NEW p, ~HasPlayer(p), NEW e, AddEntity(p, e)
  PROVE  MemoryAfterAdd(p, e)
<1>1. m_PlayerMap' = Put(m_PlayerMap, p, m_eidpos) /\ m_EntityMap' = Put(m_EntityMap, m_eidpos, e)
  BY DEF AddEntity
<1>2. m_eidpos \notin DOMAIN m_EntityMap
  BY DEF IInv, MapsAgree, CounterOK, EntityMapsAgree
<1>3. \A q \in DOMAIN m_PlayerMap : m_PlayerMap[q] \in DOMAIN m_EntityMap
  BY DEF IInv, MapsAgree, EntityMapsAgree
<1> QED BY <1>1, <1>2, <1>3 DEF MemoryAfterAdd, Put, HasPlayer, GetEttyByPid

\* The memory after a change of one player's entity.
MemoryAfterChange(p, e) ==
  /\ DOMAIN m_PlayerMap' = DOMAIN m_PlayerMap
  /\ \A q \in DOMAIN m_PlayerMap : q # p => GetEttyByPid(q)' = GetEttyByPid(q)
  /\ GetEttyByPid(p)' = e
  /\ \A x \in DOMAIN m_EntityMap' :
       x \in DOMAIN m_EntityMap /\ (m_EntityMap'[x] = m_EntityMap[x] \/ m_EntityMap'[x] = e)
LEMMA EntityChangedMemory ==
  ASSUME IInv, NEW p, NEW q, HasPlayer(q), NEW e, EntityChanged(p, q, e)
  PROVE  MemoryAfterChange(q, e)
<1>1. /\ m_EntityMap' = [m_EntityMap EXCEPT ![m_PlayerMap[q]] = e]
      /\ m_PlayerMap' = m_PlayerMap
  BY DEF EntityChanged
<1>2. /\ \A r \in DOMAIN m_PlayerMap : m_PlayerMap[r] \in DOMAIN m_EntityMap
      /\ \A r \in DOMAIN m_PlayerMap : m_PlayerMap[r] = m_PlayerMap[q] => r = q
  BY DEF IInv, MapsAgree, EntityMapsAgree, HasPlayer
<1> QED BY <1>1, <1>2 DEF MemoryAfterChange, HasPlayer, GetEttyByPid

-----------------------------------------------------------------------------
(* The second invariant holds. *)

\* The end of the process leaves the rows alone.
LEMMA DiesKeepsData ==
  ASSUME DataInv, Dies, UNCHANGED db
  PROVE  DataInv'
<1>1. DOMAIN m_PlayerMap' = {} /\ DOMAIN m_EntityMap' = {} /\ saving' = Nobody
  BY DEF Dies, EmptyMap
<1>2. TypesOK'
  BY <1>1 DEF DataInv, TypesOK
<1>3. Restored' = {}
  BY <1>1 DEF Restored
<1> QED BY <1>2, <1>3, DiesKeepsMaps DEF DataInv, RowsStay, OthersSaved

\* A new entity: read from the player's row, or not counted as restored.
LEMMA AddEntityKeepsData ==
  ASSUME DataInv, IInv', NEW p \in Pids, ~HasPlayer(p), NEW e \in Entities, AddEntity(p, e),
         UNCHANGED <<db, saving>>, stale \subseteq stale' \cup {p},
         garbled \subseteq garbled' \cup {p},
         e.restored => db[p] # NoRow /\ OwnedInRow(db[p]) = Owned(e.bag, e.equip, e.cur)
  PROVE  DataInv'
<1>1. MemoryAfterAdd(p, e)
  BY AddEntityMemory DEF DataInv
<1>2. Restored' \subseteq Restored \cup {p} /\ (p \in Restored' => e.restored)
  BY <1>1 DEF Restored, MemoryAfterAdd
<1>3. TypesOK'
  BY <1>1 DEF DataInv, TypesOK, MemoryAfterAdd
<1>4. RowsStay'
  BY <1>2 DEF DataInv, RowsStay
<1>5. OthersSaved'
  <2> SUFFICES ASSUME NEW q \in Restored' \ (stale' \cup garbled'), q # saving'
               PROVE  OwnedInRow(db'[q]) = OwnedInMemory(q)'
    BY DEF OthersSaved
  <2>1. CASE q = p
    <3>1. OwnedInMemory(p)' = Owned(e.bag, e.equip, e.cur)
      BY <1>1 DEF MemoryAfterAdd, OwnedInMemory
    <3> QED BY <1>2, <2>1, <3>1
  <2>2. CASE q # p
    <3>1. q \in Restored /\ q \in DOMAIN m_PlayerMap
      BY <1>2, <2>2 DEF Restored
    <3>2. OwnedInMemory(q)' = OwnedInMemory(q)
      BY <1>1, <3>1 DEF MemoryAfterAdd, OwnedInMemory
    <3>3. q \notin stale \cup garbled /\ q # saving /\ db'[q] = db[q]
      BY <2>2
    <3> QED BY <3>1, <3>2, <3>3 DEF DataInv, OthersSaved
  <2> QED BY <2>1, <2>2
<1> QED BY <1>3, <1>4, <1>5 DEF DataInv

\* A change of an entity: its player is the one whose handler has yet to save,
\* or falls behind.
LEMMA ChangeKeepsData ==
  ASSUME DataInv, IInv', NEW p \in Pids, NEW q \in Pids, NEW e, Changes(p, q, e)
  PROVE  DataInv'
<1>0. HasPlayer(p) /\ HasPlayer(q) /\ EntityChanged(p, q, e) /\ ChangedEntity(GetEttyByPid(q), e)
  BY DEF Changes
<1>1. MemoryAfterChange(q, e)
  BY <1>0, EntityChangedMemory DEF DataInv
<1>2. /\ db' = db /\ garbled' = garbled /\ saving = Nobody /\ saving' = p
      /\ stale' = IF p = q THEN stale ELSE stale \cup {q}
  BY DEF Changes, EntityChanged
<1>3. e \in Entities /\ e.restored = GetEttyByPid(q).restored
  <2>1. GetEttyByPid(q) \in Entities
    BY <1>0, EntityTypes
  <2> QED BY <1>0, <2>1, ChangedTypes, ChangedKeepsIds
<1>4. Restored' = Restored
  BY <1>1, <1>3 DEF Restored, MemoryAfterChange
<1>5. TypesOK'
  BY <1>0, <1>1, <1>2, <1>3 DEF DataInv, TypesOK, MemoryAfterChange, HasPlayer
<1>6. OthersSaved'
  <2> SUFFICES ASSUME NEW r \in Restored' \ (stale' \cup garbled'), r # saving'
               PROVE  OwnedInRow(db'[r]) = OwnedInMemory(r)'
    BY DEF OthersSaved
  <2>1. /\ r \in Restored \ (stale \cup garbled) /\ r \in DOMAIN m_PlayerMap
        /\ r # p /\ r # q
    BY <1>2, <1>4 DEF Restored
  <2>2. r # saving
    BY <1>2, <2>1, ServerAssumption DEF DataInv, IInv, MapsAgree, EntityMapsAgree
  <2>3. OwnedInMemory(r)' = OwnedInMemory(r)
    BY <1>1, <2>1 DEF MemoryAfterChange, OwnedInMemory
  <2> QED BY <1>2, <2>1, <2>2, <2>3 DEF DataInv, OthersSaved
<1> QED BY <1>2, <1>4, <1>5, <1>6 DEF DataInv, RowsStay

\* The save at the end of a handler: which row it writes, if any, and what the
\* table keeps of it.
RowWritten(ok) ==
  LET q == TargetRow(GetEttyByPid(saving)) IN ok /\ q \in Pids /\ db[q] # NoRow
SaveWrites(ok) ==
  LET q == TargetRow(GetEttyByPid(saving))
      m == PlayerMessage(GetEttyByPid(saving))
  IN /\ saving \in DOMAIN m_PlayerMap
     /\ saving \in Restored => q = saving
     /\ RowWritten(ok) =>
          /\ db' = [db EXCEPT ![q] = Stored(m)]
          /\ garbled' = IF Intact(m) THEN garbled \ {q} ELSE garbled \cup {q}
     /\ ~RowWritten(ok) => db' = db /\ garbled' = garbled
LEMMA SaveStep ==
  ASSUME DataInv, NEW ok \in BOOLEAN, UpdatePlayerInfo(ok)
  PROVE  SaveWrites(ok)
<1> DEFINE e == GetEttyByPid(saving)
           q == TargetRow(e)
           m == PlayerMessage(e)
           s == Stored(m)
<1>1. saving \in DOMAIN m_PlayerMap
  BY DEF UpdatePlayerInfo, DataInv, TypesOK
<1>2. saving \in Restored => q = saving
  BY DEF DataInv, IInv, RestoredOwnInfo, TargetRow
<1>3. db' = IF ok THEN [p \in Pids |-> IF p = q /\ db[p] # NoRow THEN s ELSE db[p]] ELSE db
  BY DEF UpdatePlayerInfo, Written
<1>4. garbled' = IF ~ok \/ q \notin Pids \/ db[q] = NoRow THEN garbled
                 ELSE IF Intact(m) THEN garbled \ {q} ELSE garbled \cup {q}
  BY DEF UpdatePlayerInfo, GarbledAfter
<1>5. db = [p \in Pids |-> db[p]]
  BY DEF DataInv, TypesOK
<1>6. RowWritten(ok) <=> ok /\ q \in Pids /\ db[q] # NoRow
  BY DEF RowWritten
<1> HIDE DEF e, q, m, s
<1>7. RowWritten(ok) => db' = [db EXCEPT ![q] = s]
  BY <1>3, <1>5, <1>6
<1>8. ~RowWritten(ok) => db' = db
  BY <1>3, <1>5, <1>6
<1> QED BY <1>1, <1>2, <1>4, <1>6, <1>7, <1>8 DEF SaveWrites, e, q, m, s

LEMMA SaveKeepsData ==
  ASSUME DataInv, IInv', NEW ok \in BOOLEAN, UpdatePlayerInfo(ok)
  PROVE  DataInv'
<1> DEFINE e == GetEttyByPid(saving)
           q == TargetRow(e)
           m == PlayerMessage(e)
           s == Stored(m)
<1>1. SaveWrites(ok)
  BY SaveStep
<1>2. /\ saving \in DOMAIN m_PlayerMap /\ (saving \in Restored => q = saving)
      /\ RowWritten(ok) =>
           /\ db' = [db EXCEPT ![q] = s]
           /\ garbled' = IF Intact(m) THEN garbled \ {q} ELSE garbled \cup {q}
      /\ ~RowWritten(ok) => db' = db /\ garbled' = garbled
      /\ RowWritten(ok) <=> ok /\ q \in Pids /\ db[q] # NoRow
  BY <1>1 DEF SaveWrites, RowWritten
<1>3. e \in Entities /\ saving \in Pids
  BY <1>2, EntityTypes DEF HasPlayer
<1>4. s \in Rows /\ s # NoRow /\ (Intact(m) => OwnedInRow(s) = OwnedInMemory(saving))
  BY <1>3, SavedGivesBack DEF OwnedInMemory
<1>5. /\ stale' = StaleAfter(e, ok) /\ saving' = Nobody
      /\ m_PlayerMap' = m_PlayerMap /\ m_EntityMap' = m_EntityMap
  BY DEF UpdatePlayerInfo, memory
<1>6. /\ Restored' = Restored
      /\ \A p : OwnedInMemory(p)' = OwnedInMemory(p)
  BY <1>5 DEF Restored, OwnedInMemory, GetEttyByPid
<1>7. db \in [Pids -> Rows \cup {NoRow}] /\ Restored \subseteq Pids
  BY DEF DataInv, TypesOK, IInv, MapsAgree, EntityMapsAgree, Restored
<1>8. stale' = IF ok THEN (stale \ {saving}) \cup (IF q # saving THEN {q} \cap Pids ELSE {})
                     ELSE stale \cup {saving}
  BY <1>5 DEF StaleAfter
<1> HIDE DEF e, q, m, s
<1>9. TypesOK'
  <2>1. db' \in [Pids -> Rows \cup {NoRow}]
    BY <1>2, <1>4, <1>7
  <2> QED BY <2>1, <1>5 DEF DataInv, TypesOK
<1>10. RowsStay'
  BY <1>2, <1>4, <1>6, <1>7 DEF DataInv, RowsStay
<1>11. OthersSaved'
  <2> SUFFICES ASSUME NEW p \in Restored' \ (stale' \cup garbled')
               PROVE  OwnedInRow(db'[p]) = OwnedInMemory(p)'
    BY DEF OthersSaved
  <2>1. p \in Restored /\ p \in Pids
    BY <1>6, <1>7
  <2>2. CASE p = saving
    <3>1. q = saving /\ RowWritten(ok)
      BY <1>2, <1>8, <2>1, <2>2 DEF DataInv, RowsStay
    <3>2. db'[p] = s /\ Intact(m)
      BY <1>2, <1>7, <2>1, <2>2, <3>1
    <3> QED BY <1>4, <1>6, <2>2, <3>2
  <2>3. CASE p # saving
    <3>1. p \notin stale /\ (ok => p # q)
      BY <1>8, <2>1, <2>3
    <3>2. db'[p] = db[p] /\ p \notin garbled
      BY <1>2, <1>7, <2>1, <3>1
    <3> QED BY <1>6, <2>1, <2>3, <3>1, <3>2 DEF DataInv, OthersSaved
  <2> QED BY <2>2, <2>3
<1> QED BY <1>9, <1>10, <1>11 DEF DataInv

\* Nothing the second invariant speaks of changes.
LEMMA DataUnchanged ==
  ASSUME DataInv, UNCHANGED <<memory, db, saving, history>>
  PROVE  DataInv'
<1>1. /\ m_PlayerMap' = m_PlayerMap /\ m_EntityMap' = m_EntityMap
      /\ db' = db /\ saving' = saving /\ stale' = stale /\ garbled' = garbled
  BY DEF memory, history
<1>2. Restored' = Restored /\ \A p : OwnedInMemory(p)' = OwnedInMemory(p)
  BY <1>1 DEF Restored, OwnedInMemory, GetEttyByPid
<1>3. IInv'
  BY MemoryUnchanged DEF DataInv
<1> QED BY <1>1, <1>2, <1>3 DEF DataInv, TypesOK, RowsStay, OthersSaved

\* A server that has just been initialised.
THEOREM InitDataInv == Init => DataInv
<1> SUFFICES ASSUME Init PROVE DataInv
  OBVIOUS
<1>1. DOMAIN m_PlayerMap = {} /\ DOMAIN m_EntityMap = {} /\ saving = Nobody
  BY DEF Init, EmptyMap
<1>2. TypesOK
  BY <1>1, ServerAssumption DEF Init, TypesOK
<1>3. Restored = {}
  BY <1>1 DEF Restored
<1> QED BY <1>2, <1>3, InitIInv DEF DataInv, RowsStay, OthersSaved

\* Every handler, failure, crash and restart keeps the second invariant.
THEOREM StepDataInv == DataInv /\ [Next]_vars => DataInv'
<1> SUFFICES ASSUME DataInv, [Next]_vars PROVE DataInv'
  OBVIOUS
<1>0. IInv'
  BY StepIInv DEF DataInv
<1>1. CASE UNCHANGED <<memory, db, saving, history>>
  BY <1>1, DataUnchanged
<1>2. CASE ProcessEnds
  BY <1>2, DiesKeepsData DEF ProcessEnds
<1>3. ASSUME NEW p \in Pids, PlayerLogin(p) PROVE DataInv'
  <2> DEFINE e == RestoredEntity(p, db[p])
  <2>1. db[p] \in Rows /\ db[p] # NoRow
    BY <1>3 DEF PlayerLogin, DataInv, TypesOK
  <2>2. e \in Entities
    BY <2>1, RestoredTypes
  <2>3. OwnedInRow(db[p]) = Owned(e.bag, e.equip, e.cur)
    BY <2>1 DEF OwnedInRow, RestoredEntity
  <2> HIDE DEF e
  <2>4. /\ ~HasPlayer(p) /\ AddEntity(p, e) /\ UNCHANGED <<db, saving>>
        /\ stale \subseteq stale' \cup {p} /\ garbled \subseteq garbled' \cup {p}
    BY <1>3 DEF PlayerLogin, e
  <2> QED BY <1>0, <2>1, <2>2, <2>3, <2>4, AddEntityKeepsData
<1>4. ASSUME NEW p \in Pids, Detaches(p) PROVE DataInv'
  <2>1. PICK info \in Infos :
          ~HasPlayer(p) /\ AddEntity(p, CreatedEntity(info)) /\ UNCHANGED <<db, saving, history>>
    BY <1>4 DEF Detaches
  <2>2. ~CreatedEntity(info).restored
    BY DEF CreatedEntity
  <2>3. CreatedEntity(info) \in Entities
    BY CreatedTypes
  <2>4. /\ UNCHANGED <<db, saving>>
        /\ stale \subseteq stale' \cup {p} /\ garbled \subseteq garbled' \cup {p}
    BY <2>1 DEF history
  <2> QED BY <1>0, <2>1, <2>2, <2>3, <2>4, AddEntityKeepsData
<1>5. ASSUME NEW p \in Pids, NEW q \in Pids, NEW e, Changes(p, q, e) PROVE DataInv'
  BY <1>0, <1>5, ChangeKeepsData
<1>6. ASSUME NEW ok \in BOOLEAN, UpdatePlayerInfo(ok) PROVE DataInv'
  BY <1>0, <1>6, SaveKeepsData
<1> QED BY <1>1, <1>2, <1>3, <1>4, <1>5, <1>6, StepForms DEF StepForm

\* The second invariant holds in every state of the server.
THEOREM SpecDataInv == Spec => []DataInv
BY InitDataInv, StepDataInv, PTL DEF Spec

\* Between two handlers the row of a player loaded from it gives back what the
\* player owns, unless a save failed, went astray or held a backslash, or another
\* player's removal took the item.
THEOREM RowsGiveBack == Spec => []MemoryIsSaved
<1>1. DataInv => MemoryIsSaved
  BY ServerAssumption
  DEF DataInv, OthersSaved, MemoryIsSaved, Restored, IInv, MapsAgree, EntityMapsAgree
<1> QED BY <1>1, SpecDataInv, PTL

\* What the process can end at.
LEMMA EndingSteps ==
  ASSUME [Next]_vars, alive, ~alive'
  PROVE  /\ db' = db
         /\ \/ asked'.what \in {"login", "removeBelow", "none"}
            \/ asked'.what \in {"add", "remove"} /\ ~HasPlayer(asked'.by)
<1>1. ASSUME NEW p \in Pids, LoginAnswerEnds(p) \/ LoginWithoutRow(p) \/ LoginQueryFails(p)
      PROVE  db' = db /\ asked'.what = "login"
  <2>1. db' = db /\ Request("login", p)
    BY <1>1 DEF LoginAnswerEnds, LoginWithoutRow, LoginQueryFails
  <2> QED BY <2>1 DEF Request
<1>2. ASSUME NEW p \in Pids, RemoveBelowEnds(p) PROVE db' = db /\ asked'.what = "removeBelow"
  BY <1>2 DEF RemoveBelowEnds, Request
<1>3. ASSUME NEW p \in Pids, NEW what \in {"add", "remove"}, ItemRequestBeforeLogin(p, what)
      PROVE  db' = db /\ asked'.what \in {"add", "remove"} /\ ~HasPlayer(asked'.by)
  BY <1>3 DEF ItemRequestBeforeLogin, Request
<1>4. ASSUME Crash PROVE db' = db /\ asked'.what = "none"
  BY <1>4 DEF Crash, NoRequest
<1>5. ASSUME NEW p \in Pids,
             LoginAgain(p) \/ PlayerLogin(p) \/ PlayerRegister(p) \/ RemoveBelowFindsNull(p)
      PROVE  alive' = alive
  BY <1>5
  DEF LoginAgain, PlayerLogin, PlayerRegister, RemoveBelowFindsNull, BagChanged, EntityChanged
<1>6. ASSUME NEW p, NEW x, NEW y, NEW f, NEW z,
             \/ PlayerAddItem(p, x, y) \/ PlayerRemoveItem(p, x, y)
             \/ RemoveBelowFindsSlot(p, z, f, x, y)
      PROVE  alive' = alive
  BY <1>6
  DEF PlayerAddItem, PlayerRemoveItem, RemoveBelowFindsSlot, BagChanged, EntityChanged
<1>7. ASSUME NEW ok, UpdatePlayerInfo(ok) PROVE alive' = alive
  BY <1>7 DEF UpdatePlayerInfo
<1>8. ~Restart /\ ~UNCHANGED vars
  BY DEF Restart, vars
<1> QED BY <1>1, <1>2, <1>3, <1>4, <1>5, <1>6, <1>7, <1>8 DEF Next

\* Whatever ends the process, the rows then give back what the players in memory
\* owned, but for the one whose handler had yet to save; and of the requests only
\* a login, a removal below the bag, and an item request of a player without an
\* entity end it.
THEOREM EndsStayContained == Spec => EndsAreContained
<1> DEFINE Contained == alive /\ ~alive' =>
       /\ asked'.what \in {"add", "remove"} => ~HasPlayer(asked'.by)
       /\ asked'.what # "register"
       /\ \A p \in Restored \ (stale \cup garbled \cup {saving}) :
            OwnedInRow(db'[p]) = OwnedInMemory(p)
<1>1. ASSUME DataInv, [Next]_vars, alive, ~alive' PROVE Contained
  BY <1>1, EndingSteps DEF DataInv, OthersSaved
<1>2. DataInv /\ [Next]_vars => Contained
  BY <1>1
<1> HIDE DEF Contained
<1> QED BY <1>2, SpecDataInv, PTL DEF Spec, EndsAreContained, Contained

-----------------------------------------------------------------------------
(* The server implements PlayerStore. *)

\* The variables of the store, as the server sees them.
Cur == [p \in Pids |-> IF HasPlayer(p) THEN OwnedInMemory(p) ELSE NoItems]
Dur == [p \in Pids |-> OwnedInRow(db[p])]
Det == DOMAIN m_PlayerMap \ Restored

\* A new entity, a changed bag and the end of the process, as the store sees
\* them.
StoreAfterAdd(p, e) ==
  /\ DOMAIN m_PlayerMap' = DOMAIN m_PlayerMap \cup {p}
  /\ Det' = IF e.restored THEN Det ELSE Det \cup {p}
  /\ Cur' = [Cur EXCEPT ![p] = Owned(e.bag, e.equip, e.cur)]
LEMMA AddSeen ==
  ASSUME DataInv, NEW p \in Pids, ~HasPlayer(p), NEW e \in Entities, AddEntity(p, e)
  PROVE  StoreAfterAdd(p, e)
<1>1. MemoryAfterAdd(p, e)
  BY AddEntityMemory DEF DataInv
<1>2. /\ DOMAIN m_PlayerMap' = DOMAIN m_PlayerMap \cup {p} /\ p \notin DOMAIN m_PlayerMap
      /\ \A q \in DOMAIN m_PlayerMap : GetEttyByPid(q)' = GetEttyByPid(q)
      /\ GetEttyByPid(p)' = e
  BY <1>1 DEF MemoryAfterAdd, HasPlayer
<1>3. Det' = IF e.restored THEN Det ELSE Det \cup {p}
  BY <1>2 DEF Det, Restored
<1>4. \A q \in Pids : q # p => Cur'[q] = Cur[q]
  BY <1>2 DEF Cur, HasPlayer, OwnedInMemory
<1>5. Cur'[p] = Owned(e.bag, e.equip, e.cur)
  BY <1>2 DEF Cur, HasPlayer, OwnedInMemory
<1>6. Cur = [q \in Pids |-> Cur[q]] /\ Cur' = [q \in Pids |-> Cur'[q]]
  BY DEF Cur
<1>7. Cur' = [Cur EXCEPT ![p] = Owned(e.bag, e.equip, e.cur)]
  BY <1>4, <1>5, <1>6
<1> QED BY <1>2, <1>3, <1>7 DEF StoreAfterAdd

StoreAfterChange(p, e) ==
  /\ DOMAIN m_PlayerMap' = DOMAIN m_PlayerMap
  /\ Det' = Det /\ Dur' = Dur /\ garbled' = garbled
  /\ Cur' = [Cur EXCEPT ![p] = Owned(e.bag, e.equip, e.cur)]
LEMMA ChangeSeen ==
  ASSUME DataInv, NEW p \in Pids, NEW q \in Pids, NEW e, Changes(p, q, e)
  PROVE  StoreAfterChange(q, e)
<1>0. HasPlayer(q) /\ EntityChanged(p, q, e) /\ e.restored = GetEttyByPid(q).restored
  BY ChangedKeepsIds DEF Changes
<1>1. MemoryAfterChange(q, e)
  BY <1>0, EntityChangedMemory DEF DataInv
<1>2. /\ DOMAIN m_PlayerMap' = DOMAIN m_PlayerMap /\ q \in DOMAIN m_PlayerMap
      /\ \A r \in DOMAIN m_PlayerMap : r # q => GetEttyByPid(r)' = GetEttyByPid(r)
      /\ GetEttyByPid(q)' = e
  BY <1>0, <1>1 DEF MemoryAfterChange, HasPlayer
<1>3. Det' = Det
  BY <1>0, <1>2 DEF Det, Restored
<1>4. Dur' = Dur /\ garbled' = garbled
  BY <1>0 DEF Dur, EntityChanged
<1>5. \A r \in Pids : r # q => Cur'[r] = Cur[r]
  BY <1>2 DEF Cur, HasPlayer, OwnedInMemory
<1>6. Cur'[q] = Owned(e.bag, e.equip, e.cur)
  BY <1>2 DEF Cur, HasPlayer, OwnedInMemory
<1>7. Cur = [r \in Pids |-> Cur[r]] /\ Cur' = [r \in Pids |-> Cur'[r]]
  BY DEF Cur
<1>8. Cur' = [Cur EXCEPT ![q] = Owned(e.bag, e.equip, e.cur)]
  BY <1>5, <1>6, <1>7
<1> QED BY <1>2, <1>3, <1>4, <1>8 DEF StoreAfterChange

\* Unchanged memory and rows are an unchanged store.
LEMMA NothingSeen ==
  ASSUME UNCHANGED memory
  PROVE  /\ DOMAIN m_PlayerMap' = DOMAIN m_PlayerMap /\ Det' = Det /\ Cur' = Cur
         /\ db' = db => Dur' = Dur
BY DEF memory, Det, Cur, Dur, Restored, GetEttyByPid, OwnedInMemory, HasPlayer

\* A server that has just been initialised is an empty cache.
LEMMA InitStore == Init => Store!Init
<1> SUFFICES ASSUME Init PROVE Store!Init
  OBVIOUS
<1>1. DOMAIN m_PlayerMap = {}
  BY DEF Init, EmptyMap
<1>2. Det = {}
  BY <1>1 DEF Det
<1>3. Cur = [p \in Pids |-> NoItems]
  BY <1>1 DEF Cur, HasPlayer
<1>4. Dur \in [Pids -> [ItemIds -> Int]]
  <2>1. \A p \in Pids : db[p] \in Rows \cup {NoRow}
    BY ServerAssumption DEF Init
  <2>2. \A p \in Pids : OwnedInRow(db[p]) \in [ItemIds -> Int]
    BY <2>1, RowOwnedTypes
  <2> QED BY <2>2 DEF Dur
<1> QED
  BY <1>1, <1>2, <1>3, <1>4 DEF Init, Store!Init, Store!Zero, NoItems, Cur, Dur, Det

\* PlayerLogin loads the row.
LEMMA LoginLoads ==
  ASSUME DataInv, NEW p \in Pids, PlayerLogin(p)
  PROVE  Store!Load(p)
<1> DEFINE e == RestoredEntity(p, db[p])
<1>1. db[p] \in Rows /\ db[p] # NoRow /\ ~HasPlayer(p) /\ db' = db
  BY DEF PlayerLogin, DataInv, TypesOK
<1>2. e \in Entities /\ e.restored /\ Owned(e.bag, e.equip, e.cur) = OwnedInRow(db[p])
  BY <1>1, RestoredTypes DEF RestoredEntity, OwnedInRow
<1>3. StoreAfterAdd(p, e)
  BY <1>1, <1>2, AddSeen DEF PlayerLogin
<1> HIDE DEF e
<1>4. /\ p \notin DOMAIN m_PlayerMap /\ DOMAIN m_PlayerMap' = DOMAIN m_PlayerMap \cup {p}
      /\ Det' = Det /\ Dur' = Dur
      /\ Cur' = [Cur EXCEPT ![p] = Dur[p]]
  BY <1>1, <1>2, <1>3 DEF StoreAfterAdd, HasPlayer, Dur
<1>5. garbled' = garbled \ {p}
  BY DEF PlayerLogin
<1> QED BY <1>4, <1>5 DEF Store!Load, Cur, Dur, Det

\* PlayerRegister of a player not in memory, and a login as the default id whose
\* query failed, make a detached player that owns nothing.
LEMMA DetachRegisters ==
  ASSUME DataInv, NEW p \in Pids, Detaches(p)
  PROVE  Store!Register(p)
<1>1. PICK info \in Infos :
        ~HasPlayer(p) /\ AddEntity(p, CreatedEntity(info)) /\ UNCHANGED <<db, saving, history>>
  BY DEF Detaches
<1> DEFINE e == CreatedEntity(info)
<1>2. /\ e \in Entities /\ ~e.restored /\ Owned(e.bag, e.equip, e.cur) = NoItems
      /\ db' = db /\ garbled' = garbled
  BY <1>1, CreatedTypes, OwnsNothing DEF CreatedEntity, history
<1>3. StoreAfterAdd(p, e)
  BY <1>1, <1>2, AddSeen
<1>4. Cur[p] = NoItems /\ Cur = [q \in Pids |-> Cur[q]]
  BY <1>1 DEF Cur
<1> HIDE DEF e
<1>5. /\ p \notin DOMAIN m_PlayerMap /\ DOMAIN m_PlayerMap' = DOMAIN m_PlayerMap \cup {p}
      /\ Det' = Det \cup {p} /\ Dur' = Dur /\ Cur' = Cur
  BY <1>1, <1>2, <1>3, <1>4 DEF StoreAfterAdd, HasPlayer, Dur
<1> QED BY <1>2, <1>5 DEF Store!Register, Cur, Dur, Det

\* An entity in which one item at most has another total.
LEMMA OneItemChanges ==
  ASSUME DataInv, NEW p \in Pids, NEW q \in Pids, NEW e, Changes(p, q, e)
  PROVE  UNCHANGED Store!vars \/ \E o \in ItemIds : Store!Change(q, o)
<1> DEFINE d == GetEttyByPid(q)
           own == Owned(e.bag, e.equip, e.cur)
<1>0. HasPlayer(q) /\ ChangedEntity(d, e)
  BY DEF Changes
<1>1. StoreAfterChange(q, e)
  BY ChangeSeen
<1>2. d \in Entities
  BY <1>0, EntityTypes
<1>3. e \in Entities /\ OneItemDiffers(e, d)
  BY <1>0, <1>2, ChangedTypes
<1>4. own \in [ItemIds -> Int]
  BY <1>3, OwnedTypes DEF Entities
<1>5. Cur[q] = Owned(d.bag, d.equip, d.cur)
  BY <1>0 DEF Cur, OwnedInMemory
<1>6. Cur = [r \in Pids |-> Cur[r]] /\ Cur[q] = [i \in ItemIds |-> Cur[q][i]]
  <2>1. Cur = [r \in Pids |-> Cur[r]]
    BY DEF Cur
  <2> QED BY <1>5, <2>1 DEF Owned
<1>7. PICK o : \A i \in ItemIds : i # o => own[i] = Cur[q][i]
  BY <1>3, <1>5 DEF OneItemDiffers, Owned
<1>8. Cur' = [Cur EXCEPT ![q] = own]
  BY <1>1 DEF StoreAfterChange
<1>9. /\ DOMAIN m_PlayerMap' = DOMAIN m_PlayerMap /\ Det' = Det /\ Dur' = Dur
      /\ garbled' = garbled /\ q \in DOMAIN m_PlayerMap
  BY <1>0, <1>1 DEF StoreAfterChange, HasPlayer
<1> HIDE DEF d, own
<1>10. own = [i \in ItemIds |-> own[i]]
  BY <1>4
<1>11. CASE o \in ItemIds
  <2>1. own = [Cur[q] EXCEPT ![o] = own[o]]
    BY <1>6, <1>7, <1>10, <1>11
  <2>2. Cur'[q] = own
    BY <1>6, <1>8
  <2>3. Cur' = [Cur EXCEPT ![q][o] = Cur'[q][o]] /\ Cur'[q][o] \in Int
    BY <1>4, <1>6, <1>8, <1>11, <2>1, <2>2
  <2>4. Store!Change(q, o)
    BY <1>9, <2>3 DEF Store!Change, Cur, Dur, Det
  <2> QED BY <1>11, <2>4
<1>12. CASE o \notin ItemIds
  <2>1. own = Cur[q]
    BY <1>6, <1>7, <1>10, <1>12
  <2>2. Cur' = Cur
    BY <1>6, <1>8, <2>1
  <2>3. UNCHANGED Store!vars
    BY <1>9, <2>2 DEF Store!vars, Cur, Dur, Det
  <2> QED BY <2>3
<1> QED BY <1>11, <1>12

\* UpdatePlayerInfo copies the totals to the player's own row, or those of a
\* detached player to the row its id happens to name, leaves something else
\* there, or fails.
LEMMA SaveSaves ==
  ASSUME DataInv, NEW ok \in BOOLEAN, UpdatePlayerInfo(ok)
  PROVE  \/ UNCHANGED Store!vars
         \/ \E q \in Pids : Store!Save(saving, q) \/ Store!SaveSpoils(saving, q)
<1> DEFINE e == GetEttyByPid(saving)
           q == TargetRow(e)
           m == PlayerMessage(e)
           s == Stored(m)
<1>1. SaveWrites(ok)
  BY SaveStep
<1>2. UNCHANGED memory /\ saving \in DOMAIN m_PlayerMap
  BY <1>1 DEF UpdatePlayerInfo, SaveWrites
<1>3. /\ DOMAIN m_PlayerMap' = DOMAIN m_PlayerMap /\ Det' = Det /\ Cur' = Cur
      /\ db' = db => Dur' = Dur
  BY <1>2, NothingSeen
<1>4. CASE ~RowWritten(ok)
  <2>1. db' = db /\ garbled' = garbled
    BY <1>1, <1>4 DEF SaveWrites
  <2>2. UNCHANGED Store!vars
    BY <1>3, <2>1 DEF Store!vars, Cur, Dur, Det
  <2> QED BY <2>2
<1>5. CASE RowWritten(ok)
  <2>1. /\ q \in Pids /\ db' = [db EXCEPT ![q] = s]
        /\ garbled' = IF Intact(m) THEN garbled \ {q} ELSE garbled \cup {q}
        /\ saving \in Restored => q = saving
    BY <1>1, <1>5 DEF SaveWrites, RowWritten
  <2>2. saving \in Pids /\ e \in Entities
    BY <1>2, EntityTypes DEF HasPlayer
  <2>3. s \in Rows /\ (Intact(m) => OwnedInRow(s) = Cur[saving])
    BY <1>2, <2>2, SavedGivesBack DEF Cur, HasPlayer, OwnedInMemory
  <2>4. OwnedInRow(s) \in [ItemIds -> Int]
    BY <2>3, RowOwnedTypes
  <2> HIDE DEF e, q, m, s
  <2>5. db = [p \in Pids |-> db[p]]
    BY DEF DataInv, TypesOK
  <2>6. Dur' = [Dur EXCEPT ![q] = OwnedInRow(s)] /\ Dur'[q] = OwnedInRow(s)
    BY <2>1, <2>5 DEF Dur
  <2>7. saving = q \/ saving \in Det
    BY <1>2, <2>1 DEF Det
  <2>8. Store!Reaches(saving, q)
    BY <1>2, <2>7 DEF Store!Reaches, Det
  <2>9. CASE Intact(m)
    <3>1. Store!Save(saving, q)
      BY <1>3, <2>1, <2>3, <2>6, <2>8, <2>9 DEF Store!Save, Cur, Dur, Det
    <3> QED BY <2>1, <3>1
  <2>10. CASE ~Intact(m)
    <3>1. Dur' = [Dur EXCEPT ![q] = Dur'[q]] /\ Dur'[q] \in [ItemIds -> Int]
      BY <2>4, <2>6
    <3>2. Store!SaveSpoils(saving, q)
      BY <1>3, <2>1, <2>8, <2>10, <3>1 DEF Store!SaveSpoils, Cur, Dur, Det
    <3> QED BY <2>1, <3>2
  <2> QED BY <2>9, <2>10
<1> QED BY <1>4, <1>5

\* The end of the process empties the cache.
LEMMA EndingCrashes ==
  ASSUME ProcessEnds
  PROVE  Store!Crash
<1>1. DOMAIN m_PlayerMap' = {} /\ garbled' = {}
  BY DEF ProcessEnds, Dies, EmptyMap
<1>2. Det' = {}
  BY <1>1 DEF Det
<1>3. Cur' = [p \in Pids |-> NoItems]
  BY <1>1 DEF Cur, HasPlayer
<1>4. Dur' = Dur
  BY DEF Dur, ProcessEnds
<1> QED BY <1>1, <1>2, <1>3, <1>4 DEF Store!Crash, Store!Zero, NoItems, Cur, Dur, Det

\* Every step of the server is a step of the store or leaves it alone.
LEMMA StepStore ==
  ASSUME DataInv, [Next]_vars
  PROVE  [Store!Next]_(Store!vars)
<1>1. CASE UNCHANGED <<memory, db, saving, history>>
  <2>1. UNCHANGED memory /\ db' = db /\ garbled' = garbled
    BY <1>1 DEF history
  <2>2. UNCHANGED Store!vars
    BY <2>1, NothingSeen DEF Store!vars, Cur, Dur, Det
  <2> QED BY <2>2
<1>2. CASE ProcessEnds
  BY <1>2, EndingCrashes DEF Store!Next
<1>3. ASSUME NEW p \in Pids, PlayerLogin(p) PROVE [Store!Next]_(Store!vars)
  BY <1>3, LoginLoads DEF Store!Next
<1>4. ASSUME NEW p \in Pids, Detaches(p) PROVE [Store!Next]_(Store!vars)
  BY <1>4, DetachRegisters DEF Store!Next
<1>5. ASSUME NEW p \in Pids, NEW q \in Pids, NEW e, Changes(p, q, e)
      PROVE  [Store!Next]_(Store!vars)
  <2>1. UNCHANGED Store!vars \/ \E o \in ItemIds : Store!Change(q, o)
    BY <1>5, OneItemChanges
  <2> QED BY <2>1 DEF Store!Next
<1>6. ASSUME NEW ok \in BOOLEAN, UpdatePlayerInfo(ok) PROVE [Store!Next]_(Store!vars)
  <2>1. saving \in Pids
    BY <1>6, EntityTypes DEF UpdatePlayerInfo, DataInv, TypesOK, HasPlayer
  <2>2. \/ UNCHANGED Store!vars
        \/ \E q \in Pids : Store!Save(saving, q) \/ Store!SaveSpoils(saving, q)
    BY <1>6, SaveSaves
  <2> QED BY <2>1, <2>2 DEF Store!Next
<1> QED BY <1>1, <1>2, <1>3, <1>4, <1>5, <1>6, StepForms DEF StepForm

\* Whatever slots, entities and messages the server uses, seen through what
\* players own it is the write-through cache of PlayerStore.
THEOREM ServerIsStore == Spec => ImplementsStore
<1>1. Init => Store!Init
  BY InitStore
<1>2. DataInv /\ [Next]_vars => [Store!Next]_(Store!vars)
  BY StepStore
<1> QED BY <1>1, <1>2, SpecDataInv, PTL DEF Spec, ImplementsStore, Store!Spec
=============================================================================
