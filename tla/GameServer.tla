----------------------------- MODULE GameServer -----------------------------
(***************************************************************************)
(* The players of the server in memory and in the database: the message    *)
(* handlers of EventSystem, the entities of EntityMgr with the containers  *)
(* BagSystem works on, and the statements of MySqlMgr, together with       *)
(* failing statements, crashes and restarts of the process.                *)
(*                                                                         *)
(* Handlers run one at a time in the server's only thread.  A handler that *)
(* changes items is two steps, the change in memory and the save, so that  *)
(* a crash can fall between them.  What a handler sends back is not kept   *)
(* here: replies are broadcast and change nothing in this module, save     *)
(* that the answer to a login is longer than the buffer it is written to   *)
(* (module Replies) and may end the process.                               *)
(***************************************************************************)
EXTENDS ItemContainer

CONSTANTS
  Pids,             \* player ids (the uID of a message header)
  Nobody,           \* no player id
  DefaultId,        \* the id of a GameSpec::Players nothing was read into (0)
  InitialRows,      \* the tables the server may start with: Pids -> row or NoRow
  NoRow,            \* a player without a row in table players
  Uninitialised,    \* what a PlayerInfoComponent may hold before Init
  Quoted,           \* stacks with a quote (39) among their bytes in a message
  Slashed,          \* stacks with a backslash (92) among them
  Garbled,          \* what a Slashed stack is read back as
  AddCounts,        \* counts of AddItem requests
  RemoveCounts,     \* counts of RemoveItem requests
  FirstEid,         \* EntityMgr::Init: m_eidpos = 1000
  MaxRequests       \* bound: requests handled

\* The last byte of an item's id or count may be a quote or a backslash; the
\* bytes of NoItem and of the other fields never are.
Items == [id : ItemIds, count : Int]

\* A row of table players: two columns and the entries that ParseFromString can
\* read out of its bagInfo, for three containers, in any number.
Rows ==
  LET entries == Seq([id : ItemIds \cup {NoItem}, count : Int])
  IN [rank : Int, exp : Int, bag : entries, equip : entries, cur : entries]

\* A PlayerInfoComponent; Nobody stands for every id that is no player's.
Infos == [pid : Pids \cup {Nobody}, rank : Int, exp : Int]

ASSUME ServerAssumption ==
  /\ FirstEid \in Nat
  /\ Nobody \notin Pids
  /\ NoRow \notin Rows
  /\ InitialRows \subseteq [Pids -> Rows \cup {NoRow}]
  /\ Uninitialised \subseteq Infos
  /\ Slashed \subseteq Items
  /\ Garbled \in [Slashed -> Items]
  /\ AddCounts \subseteq Int
  /\ RemoveCounts \subseteq Int

VARIABLES
  alive,            \* the process runs
  m_PlayerMap,      \* player id -> entity id
  m_EntityMap,      \* entity id -> entity
  m_eidpos,         \* the next entity id
  db,               \* table players
  saving,           \* the player whose handler has yet to save, or Nobody
  stale,            \* history: players whose row is behind their memory
  garbled,          \* history: players whose row was altered as it was saved
  asked,            \* history: the request that was handled last
  requests          \* requests handled so far

memory == <<m_PlayerMap, m_EntityMap, m_eidpos>>
history == <<stale, garbled>>
vars == <<alive, memory, db, saving, history, asked, requests>>

-----------------------------------------------------------------------------
(* EntityMgr. *)

Put(f, k, v) == [x \in DOMAIN f \cup {k} |-> IF x = k THEN v ELSE f[x]]
EmptyMap == [x \in {} |-> Null]

HasPlayer(p) == p \in DOMAIN m_PlayerMap
GetEttyByPid(p) == m_EntityMap[m_PlayerMap[p]]

\* Variant: the id counter is not moved on.
AddEntitySameId(p, e) ==
  /\ m_PlayerMap' = Put(m_PlayerMap, p, m_eidpos)
  /\ m_EntityMap' = Put(m_EntityMap, m_eidpos, e)
  /\ m_eidpos' = m_eidpos

\* What CreatePlayer and SetPlayer have in common: a new entity for p.
AddEntity(p, e) ==
  /\ m_PlayerMap' = Put(m_PlayerMap, p, m_eidpos)
  /\ m_EntityMap' = Put(m_EntityMap, m_eidpos, e)
  /\ m_eidpos' = m_eidpos + 1

\* SetPlayer: the entity of a player read from its row.
RestoredEntity(p, row) ==
  [info |-> [pid |-> p, rank |-> row.rank, exp |-> row.exp],
   bag |-> RestoreBag(row.bag),
   equip |-> RestoreEquipment(row.equip),
   cur |-> RestoreCurrency(row.cur),
   restored |-> TRUE]

\* CreatePlayer: PlayerInfoComponent::Init is not called.
CreatedEntity(info) ==
  [info |-> info, bag |-> EmptyContainer, equip |-> EmptyContainer,
   cur |-> EmptyContainer, restored |-> FALSE]

-----------------------------------------------------------------------------
(* The database: BagSystem::GetPlayerInfo fills a message from an entity,  *)
(* MySqlMgr::UpdatePlayerInfo writes it to the row of its id.              *)

\* GetPlayerInfo calls set_rank twice, the second time with exp; the exp of the
\* message keeps its default.
PlayerMessage(e) ==
  [rank |-> e.info.exp, exp |-> 0,
   bag |-> ContainerEntries(e.bag),
   equip |-> ContainerEntries(e.equip),
   cur |-> ContainerEntries(e.cur)]

\* The message goes into the statement between single quotes as it is.  A quote
\* ends the string early, and the statement is none.
Has(entries, bytes) == \E k \in DOMAIN entries : entries[k] \in bytes
StatementBreaks(msg) ==
  Has(msg.bag, Quoted) \/ Has(msg.equip, Quoted) \/ Has(msg.cur, Quoted)

\* A backslash is dropped: the tag behind it takes the place of the last byte of
\* an id or a count, and every length around it is one too many.  The statement
\* succeeds.  GetPlayerInfo does not look at what ParseFromString returns, so
\* that of the row the entries before the first such stack come back, something
\* else in its place, and nothing after it.
FirstSlashed(entries) == Min({k \in DOMAIN entries : entries[k] \in Slashed})
Cut(entries) ==
  IF Has(entries, Slashed)
    THEN [k \in 1 .. FirstSlashed(entries) |->
            IF k = FirstSlashed(entries) THEN Garbled[entries[k]] ELSE entries[k]]
    ELSE entries
Stored(msg) ==
  [msg EXCEPT
     !.bag = Cut(msg.bag),
     !.equip = IF Has(msg.bag, Slashed) THEN <<>> ELSE Cut(msg.equip),
     !.cur = IF Has(msg.bag, Slashed) \/ Has(msg.equip, Slashed) THEN <<>> ELSE Cut(msg.cur)]
Intact(msg) ==
  ~Has(msg.bag, Slashed) /\ ~Has(msg.equip, Slashed) /\ ~Has(msg.cur, Slashed)

\* Variant: the row is picked by the request's player id of another player.
TargetRowAny(e) == CHOOSE p \in Pids : p # e.info.pid

\* The "where id =" of the statement.
TargetRow(e) == e.info.pid

\* UPDATE of a row that does not exist changes nothing and succeeds.
Written(e) ==
  [p \in Pids |->
     IF p = TargetRow(e) /\ db[p] # NoRow THEN Stored(PlayerMessage(e)) ELSE db[p]]

-----------------------------------------------------------------------------
(* The handlers of EventSystem. *)

Idle == alive /\ saving = Nobody
Request(what, p) ==
  /\ Idle /\ requests < MaxRequests
  /\ requests' = requests + 1
  /\ asked' = [what |-> what, by |-> p]
NoRequest == [what |-> "none", by |-> Nobody]

\* The process ends; its memory is gone.
Dies ==
  /\ alive' = FALSE
  /\ m_PlayerMap' = EmptyMap /\ m_EntityMap' = EmptyMap /\ m_eidpos' = FirstEid
  /\ saving' = Nobody
  /\ stale' = {} /\ garbled' = {}

\* PlayerLogin of a player already in memory answers from memory.
LoginAgain(p) ==
  /\ Request("login", p) /\ HasPlayer(p)
  /\ UNCHANGED <<alive, memory, db, saving, history>>

\* Variant: the row is read again for a player already in memory.
PlayerLoginAlways(p) ==
  /\ Request("login", p) /\ db[p] # NoRow
  /\ AddEntity(p, RestoredEntity(p, db[p]))
  /\ stale' = stale \ {p} /\ garbled' = garbled \ {p}
  /\ UNCHANGED <<alive, db, saving>>

\* PlayerLogin of a player with a row: GetPlayerInfo reads it, SetPlayer makes
\* the entity.
PlayerLogin(p) ==
  /\ Request("login", p) /\ ~HasPlayer(p) /\ db[p] # NoRow
  /\ AddEntity(p, RestoredEntity(p, db[p]))
  /\ stale' = stale \ {p} /\ garbled' = garbled \ {p}
  /\ UNCHANGED <<alive, db, saving>>

\* The answer to a login is written past the end of BroadCast's buffer; if that
\* does not go well the process ends, and the entity just made with it.
LoginAnswerEnds(p) ==
  /\ Request("login", p) /\ (HasPlayer(p) \/ db[p] # NoRow)
  /\ Dies
  /\ UNCHANGED db

\* PlayerLogin without a row: the first row of an empty result is read.
LoginWithoutRow(p) ==
  /\ Request("login", p) /\ ~HasPlayer(p) /\ db[p] = NoRow
  /\ Dies
  /\ UNCHANGED db

\* SetPlayer with a message nothing was read into.
EntityOfNothing(p) == CreatedEntity([pid |-> p, rank |-> 0, exp |-> 0])

\* PlayerLogin when the query fails: the result of MySqlMgr::GetPlayerInfo is
\* ignored and SetPlayer makes an entity for the default id.  That is the entity
\* looked up next if it is the player's id; for any other player there is none,
\* and it is dereferenced all the same.
LoginQueryFails(p) ==
  /\ Request("login", p) /\ ~HasPlayer(p)
  /\ IF p = DefaultId
       THEN AddEntity(p, EntityOfNothing(p)) /\ UNCHANGED <<alive, saving, history>>
       ELSE Dies
  /\ UNCHANGED db

\* Variant: the test for a player in memory is the wrong way round.
ItemRequestAfterLogin(p, what) ==
  /\ Request(what, p) /\ HasPlayer(p)
  /\ Dies
  /\ UNCHANGED db

\* PlayerAddItem and PlayerRemoveItem of a player not in memory set the code
\* ERROR_AUH_ERROR and go on to read the player's entity all the same.
ItemRequestBeforeLogin(p, what) ==
  /\ Request(what, p) /\ ~HasPlayer(p)
  /\ Dies
  /\ UNCHANGED db

\* A handler of p has changed the entity of q to e; UpdatePlayerInfo is next.
EntityChanged(p, q, e) ==
  /\ m_EntityMap' = [m_EntityMap EXCEPT ![m_PlayerMap[q]] = e]
  /\ saving' = p
  /\ UNCHANGED <<alive, m_PlayerMap, m_eidpos, db, garbled>>
BagChanged(p, c) ==
  /\ EntityChanged(p, p, [GetEttyByPid(p) EXCEPT !.bag = c])
  /\ UNCHANGED stale

\* Variant: a refused AddItem returns to the client before the save.
PlayerAddItemReturnsEarly(p, id, cnt) ==
  /\ Request("add", p) /\ HasPlayer(p)
  /\ LET added == BagAddItem(GetEttyByPid(p).bag, id, cnt) IN
       /\ m_EntityMap' = [m_EntityMap EXCEPT ![m_PlayerMap[p]].bag = added.cont]
       /\ saving' = IF added.ret THEN p ELSE Nobody
  /\ UNCHANGED <<alive, m_PlayerMap, m_eidpos, db, history>>

\* PlayerAddItem: every item goes to the bag container; what a refused AddItem
\* has added stays, and is saved too.
PlayerAddItem(p, id, cnt) ==
  /\ Request("add", p) /\ HasPlayer(p)
  /\ BagChanged(p, BagAddItem(GetEttyByPid(p).bag, id, cnt).cont)

\* PlayerRemoveItem: the item id of the request is not compared with the slot's.
PlayerRemoveItem(p, pos, cnt) ==
  /\ Request("remove", p) /\ HasPlayer(p)
  /\ BagChanged(p, RemoveFromSlot(GetEttyByPid(p).bag, pos, cnt))

\* A position below 0 passes the test of BagContainer::RemoveItem, which then
\* reads a word of memory below its array.  The word may be null ...
RemoveBelowFindsNull(p) ==
  /\ Request("removeBelow", p) /\ HasPlayer(p)
  /\ BagChanged(p, GetEttyByPid(p).bag)

\* ... or a slot of another container, whose item is then the one removed; what
\* is saved is still p ...
TakenFrom(e, f, i, cnt) ==
  CASE f = "bag"   -> [e EXCEPT !.bag = RemoveFromSlot(e.bag, i, cnt)]
    [] f = "equip" -> [e EXCEPT !.equip = EquipRemoveItem(e.equip, i)]
    [] f = "cur"   -> [e EXCEPT !.cur = RemoveFromSlot(e.cur, i, cnt)]
RemoveBelowFindsSlot(p, q, f, i, cnt) ==
  /\ Request("removeBelow", p) /\ HasPlayer(p) /\ HasPlayer(q)
  /\ p = q => f # "bag"
  /\ EntityChanged(p, q, TakenFrom(GetEttyByPid(q), f, i, cnt))
  /\ stale' = IF p = q THEN stale ELSE stale \cup {q}

\* ... or no item at all, and the call of its RemoveItem ends the process.
RemoveBelowEnds(p) ==
  /\ Request("removeBelow", p) /\ HasPlayer(p)
  /\ Dies
  /\ UNCHANGED db

\* Which players' rows are behind after a save of the entity e.  A save that
\* goes to the row of another player leaves that one's row wrong.
StaleAfter(e, ok) ==
  IF ok
    THEN (stale \ {saving}) \cup (IF TargetRow(e) # saving THEN {TargetRow(e)} \cap Pids ELSE {})
    ELSE stale \cup {saving}

\* And which rows the statement has changed on the way.
GarbledAfter(e, ok) ==
  IF ~ok \/ TargetRow(e) \notin Pids \/ db[TargetRow(e)] = NoRow THEN garbled
  ELSE IF Intact(PlayerMessage(e)) THEN garbled \ {TargetRow(e)}
  ELSE garbled \cup {TargetRow(e)}

\* UpdatePlayerInfo at the end of both handlers.  Its result is not looked at.
UpdatePlayerInfo(ok) ==
  /\ alive /\ saving # Nobody
  /\ LET e == GetEttyByPid(saving) IN
       /\ StatementBreaks(PlayerMessage(e)) => ~ok
       /\ db' = IF ok THEN Written(e) ELSE db
       /\ stale' = StaleAfter(e, ok) /\ garbled' = GarbledAfter(e, ok)
  /\ saving' = Nobody /\ asked' = NoRequest
  /\ UNCHANGED <<alive, memory, requests>>

\* Variant: a registration replaces the entity in memory.
PlayerRegisterReplaces(p) ==
  /\ Request("register", p)
  /\ \E info \in Uninitialised : AddEntity(p, CreatedEntity(info))
  /\ UNCHANGED <<alive, db, saving, history>>

\* PlayerRegister: an entity without a row, unless the player is in memory.
PlayerRegister(p) ==
  /\ Request("register", p)
  /\ IF HasPlayer(p)
       THEN UNCHANGED memory
       ELSE \E info \in Uninitialised : AddEntity(p, CreatedEntity(info))
  /\ UNCHANGED <<alive, db, saving, history>>

-----------------------------------------------------------------------------
(* The process. *)

Crash ==
  /\ alive
  /\ Dies
  /\ asked' = NoRequest
  /\ UNCHANGED <<db, requests>>

\* main: SglCreater makes and initialises the managers.
Restart ==
  /\ ~alive
  /\ alive' = TRUE
  /\ asked' = NoRequest
  /\ UNCHANGED <<memory, db, saving, history, requests>>

Init ==
  /\ alive = TRUE
  /\ m_PlayerMap = EmptyMap /\ m_EntityMap = EmptyMap /\ m_eidpos = FirstEid
  /\ db \in InitialRows
  /\ saving = Nobody
  /\ stale = {} /\ garbled = {}
  /\ asked = NoRequest
  /\ requests = 0

Next ==
  \/ \E p \in Pids :
       \/ LoginAgain(p)
       \/ PlayerLogin(p)
       \/ LoginAnswerEnds(p)
       \/ LoginWithoutRow(p)
       \/ LoginQueryFails(p)
       \/ PlayerRegister(p)
       \/ RemoveBelowFindsNull(p)
       \/ RemoveBelowEnds(p)
  \/ \E p \in Pids, what \in {"add", "remove"} : ItemRequestBeforeLogin(p, what)
  \/ \E p \in Pids, id \in ItemIds \cup {NoItem}, cnt \in AddCounts : PlayerAddItem(p, id, cnt)
  \/ \E p \in Pids, pos \in 0 .. MAX_BAG_SIZE, cnt \in RemoveCounts : PlayerRemoveItem(p, pos, cnt)
  \/ \E p, q \in Pids, f \in {"bag", "equip", "cur"}, i \in SlotIds, cnt \in RemoveCounts :
       RemoveBelowFindsSlot(p, q, f, i, cnt)
  \/ \E ok \in BOOLEAN : UpdatePlayerInfo(ok)
  \/ Crash
  \/ Restart

Spec == Init /\ [][Next]_vars

-----------------------------------------------------------------------------
(* Properties. *)

\* The two maps of EntityMgr agree: every player in memory has an entity,
\* every entity exactly one player, and no id is given out a second time.
\* (GetEttyByPid returns no nullptr for a player HasPlayer knows.)
EntityMapsAgree ==
  /\ DOMAIN m_PlayerMap \subseteq Pids
  /\ \A p \in DOMAIN m_PlayerMap : m_PlayerMap[p] \in DOMAIN m_EntityMap
  /\ \A e \in DOMAIN m_EntityMap : \E p \in DOMAIN m_PlayerMap : m_PlayerMap[p] = e
  /\ \A p, q \in DOMAIN m_PlayerMap : m_PlayerMap[p] = m_PlayerMap[q] => p = q
  /\ DOMAIN m_EntityMap \subseteq FirstEid .. m_eidpos - 1

\* What a player owns, in all three containers.
Owned(bag, equip, cur) ==
  [i \in ItemIds |-> Total(bag, i) + Total(equip, i) + Total(cur, i)]
OwnedInMemory(p) ==
  LET e == GetEttyByPid(p) IN Owned(e.bag, e.equip, e.cur)
NoItems == [i \in ItemIds |-> 0]
OwnedInRow(row) ==
  IF row = NoRow
    THEN NoItems
    ELSE Owned(RestoreBag(row.bag), RestoreEquipment(row.equip), RestoreCurrency(row.cur))

Restored == {p \in DOMAIN m_PlayerMap : GetEttyByPid(p).restored}

\* Between two handlers, the row of a player that was loaded from it would give
\* back, on a login after a crash, exactly what the player owns in memory,
\* unless its last save failed, an unregistered id was saved over it, another
\* player's removal took the item, or its last save held a backslash.
MemoryIsSaved ==
  saving = Nobody =>
    \A p \in Restored \ (stale \cup garbled) : OwnedInRow(db[p]) = OwnedInMemory(p)

\* A row changes only when its own player's handler saves it, or when a player
\* whose PlayerInfoComponent was never initialised is saved.
RowsChangeByOwner ==
  [][\A p \in Pids : db'[p] # db[p] => saving = p \/ saving \notin Restored]_vars

\* As long as the process runs a player keeps the entity it has: no message
\* replaces or drops it, so changes not yet saved are not lost by a login.
EntitiesAreKept ==
  [][alive /\ alive' =>
       \A p \in DOMAIN m_PlayerMap :
         /\ p \in DOMAIN m_PlayerMap' /\ m_PlayerMap'[p] = m_PlayerMap[p]
         /\ m_EntityMap'[m_PlayerMap[p]].info = GetEttyByPid(p).info]_vars

\* Seen through what players own, the server is the write-through cache of
\* PlayerStore: logins, handlers, failing saves and crashes make no other step,
\* and a row is spoilt by no save but one whose message held a backslash.
Store == INSTANCE PlayerStore WITH
  Players <- Pids,
  Items <- ItemIds,
  cached <- DOMAIN m_PlayerMap,
  detached <- DOMAIN m_PlayerMap \ Restored,
  spoilt <- garbled,
  current <- [p \in Pids |-> IF HasPlayer(p) THEN OwnedInMemory(p) ELSE NoItems],
  durable <- [p \in Pids |-> OwnedInRow(db[p])]
ImplementsStore == Store!Spec

\* BagSystem.h says of GetPlayerInfo that it gets all of a user's information:
\* a save leaves the experience that is in memory in the row.
SaveKeepsExp ==
  [][\A p \in Restored : db'[p] # db[p] /\ saving = p =>
       db'[p].exp = GetEttyByPid(p).info.exp]_vars


\* No request of a player in memory ends the process, but a login (its answer
\* is too long) and a removal below the bag; an item request that ends it came
\* from a player without an entity, and a registration never does.  And whatever
\* ends the process, a request or a kill, costs nobody anything but the player
\* whose handler had yet to save: the other rows give back what is owned.
EndsAreContained ==
  [][alive /\ ~alive' =>
       /\ asked'.what \in {"add", "remove"} => ~HasPlayer(asked'.by)
       /\ asked'.what # "register"
       /\ \A p \in Restored \ (stale \cup garbled \cup {saving}) :
            OwnedInRow(db'[p]) = OwnedInMemory(p)]_vars
=============================================================================
