# TLA+ models of the Networkdev game server

This directory specifies the server of `src/Networkdev`: a Linux game server
with one thread, one epoll set, a table of players in MySQL and a rank list in
Redis. The modules are checked with TLC on small instances, and the properties
that matter most are proved with TLAPS for all values of the constants.

    tlc -config MCLinkBuffer.cfg MCLinkBuffer        model-check a run
    tlapm LinkBufferProofs.tla                       check the proofs of a module

`PROJECT.json` lists the runs, which lines of the source each definition
models, the hazards the properties are aimed at, and the disagreements found
between the code and its own comments.

## 1. Inventory

### The program

`main` (Server/main.cpp) creates the singletons in a fixed order, calls
`SocketServer::Dojob`, and destroys the singletons when that returns. There is
one thread. It blocks in `epoll_wait` only; sockets are non-blocking, MySQL and
Redis are called synchronously from the message handlers.

    client --frames--> baselink/buffer --packs--> SocketServer::Dojob
                                                    | MsgHandler table
                                                    v
               EventSystem handlers --> EntityMgr (entities in memory)
                     |    |       \--> BagSystem --> Bag/Equip/CurrencyContainer
                     |    |       \--> TransformSystem
                     |    \--> MySqlMgr (table players) <-- CacheManager::Init
                     |    \--> CacheManager (Redis playerRank)
                     \--> SocketServer::BroadCast --> every link's socket

### Components

| Component | State | Operations | What makes it correct |
|---|---|---|---|
| Receive buffer (`buffer.cpp`, `MesgHead.cpp`, `RecvData`, the pack loop of `Dojob`) | one byte array and two cursors per connection | `CheckAndReset`, `GetHead/GetTail/GetPack`, `RecvData`, `decode` | frames reach handlers whole, in order, once; none is left when the loop goes back to sleep; the end of a connection is noticed |
| Socket server (`SocketServer.cpp`, `baselink.cpp`) | epoll set, `m_linkmap`, the batch of events | accept, read, delete, `BroadCast`, `Uinit` | map, epoll set and descriptors speak of the same sockets; no stale event; every client sees the broadcasts whole and in one order |
| Message handlers (`EventSystem.cpp`, `MsgHandler.h`) | none of their own | `PlayerLogin`, `PlayerRegister`, `PlayerAddItem`, `PlayerRemoveItem`, `PlayerMove`, `GetRankList` | a handler changes its own player only, and what it changed is saved |
| Entities (`EntityMgr.cpp`, `Entity.h`, `ComponentsMgr.cpp`) | player id -> entity id, entity id -> entity, id counter | `CreatePlayer`, `SetPlayer`, `GetEttyByPid`, `SetTrans` | the two maps agree, entities are not replaced |
| Item containers (`BagContainer.h`, `CurrencyContainer.h`, `EquipContainer.h`, `ItemBase.h`) | 48 slots each | `AddItem`, `RemoveItem`, and the way through a message and back | items are neither made nor lost |
| Bag system (`BagSystem.cpp`) | none | `AddItem`, `RemoveItem`, `GetBagInfo`, `GetPlayerInfo` | what is written to a message is what the entity holds |
| Player database (`MySqlMgr.cpp`) | a connection; the table is external | `GetPlayerInfo`, `UpdatePlayerInfo`, `GetAll`, and the statements no handler uses: `CreateNewPlayer`, `UpdateName`, `UpdateRank`, `UpdateExp`, `UpdateBagInfo` | the row is what a later login needs; a statement changes its own row; names are unique |
| Rank cache (`CacheMgr.cpp`) | a Redis connection, a Bloom filter; the sorted set is external | `reinit`, `newPlayer`, `updateRankWithExp`, `getTopNPlayer` | the list shown is the top of the table |
| Singletons, start and stop (`main.cpp`, `Singleton.h`) | the instances | create, destroy | order of creation, orderly stop |
| Protocol messages (`protocal/*.pb.cc`, `*.pb.h`) | the fields of a message and the fields it did not know | accessors, `Clear`, parse, serialize, `ByteSizeLong`, `MergeFrom`, `CopyFrom`, `Swap` | what is written is read back; the size is the number of bytes |
| Bloom filter (`bloom_filter.h`, `CacheMgr.cpp`) | a table of bits, the sizes it has had | `insert`, `contains`, `clear`, `=`, `\|=`, `&=`, `^=`, `compress`; `BloomFilterInit`, `reinit` | no key that was put in is denied |
| Transform system, PlayerMgr, test client | - | - | see sections 5 and 6 |

### What is hard in this code

* **Framing.** TCP delivers a frame in any pieces and the buffer is moved under
  it. A pack left in the buffer is not announced again by epoll.
* **The end of the buffer.** `CheckAndReset` zeroes the head before it computes
  the tail from it. The tail stays at the end of the array, so a connection can
  receive BUFFER_SIZE bytes in all its life, and afterwards not even its end is
  noticed.
* **One batch of events against a changing world.** While a batch is worked
  off, descriptors are closed and reused, clients close and reset, and handlers
  write to every link, twice each, ignoring what `send` returns. A peer that is
  already gone turns the second write into SIGPIPE.
* **Change, then save.** A handler changes the bag and saves the whole player.
  It answers the client whatever the save returned; a crash may fall between.
* **Memory and row.** Login takes what is in memory over the row; registration
  puts an entity in memory that was not read from one and whose id was never
  set; a failing query at login is not looked at.
* **Save and reload are not inverse.** Containers are written slot by slot and
  read back by adding.
* **A reply has any size, its buffer has 1024 bytes.** Containers are sent with
  their empty slots, and those are not small: a negative number takes ten bytes.
* **Names are looked up, then written.** Two processes on one table may give a
  name twice, and a failed look-up counts as "not taken". `UpdateRank`, `UpdateExp` and
  `UpdateBagInfo` lead to a statement without a `where`.
* **A list that outlives its filter.** The Bloom filter is made anew at every
  start and given the ids of the rows read then; the rank list it is asked about
  is in Redis and keeps players from before. That it blocks none of them is
  because it has no hash functions.

## 2. The modules

| Module | Role | About |
|---|---|---|
| `FrameChannel` | abstract | what a connection promises to the handlers |
| `LinkBuffer` | component | buffer, `RecvData` and the pack loop of one connection; implements `FrameChannel` |
| `MCLinkBuffer` | TLC | 9 cells, headers of 2, bodies of 0, 3 and 8 bytes |
| `LinkBufferProofs` | TLAPS | theorems about `LinkBuffer` |
| `BroadcastLog` | abstract | one log of broadcasts for all clients |
| `SocketServer` | component | the loop among several connections, accept, the link map, broadcasts; implements `BroadcastLog` |
| `MCSocketServer` | TLC | 3 (or 2) clients on 2 descriptors |
| `SocketServerProofs` | TLAPS | theorems about `SocketServer` |
| `ItemContainer` | operators | the three containers and their way to a message and back |
| `ContainerOps` | component | one container under any sequence of calls |
| `MCContainerOps` | TLC | 3 slots, stacks of 3 and 4 |
| `ContainerLemmas` | TLAPS | what the operators of `ItemContainer` do, for containers of any size |
| `ContainerOpsProofs` | TLAPS | theorems about `ContainerOps` |
| `PlayerStore` | abstract | a write-through cache of what players own |
| `GameServer` | component | handlers, entities and table, with failing statements, crashes and restarts; composes `ItemContainer`; implements `PlayerStore` |
| `MCGameServer` | TLC | 2 players, 2 slots, 3 requests |
| `GameServerProofs` | TLAPS | theorems about `GameServer` |
| `RankCache` | component | the rank list in Redis, filled at start, through crashes and restarts of both |
| `MCRankCache` | TLC | 2 players, experience 0 and 1 |
| `RankCacheProofs` | TLAPS | theorems about `RankCache` |
| `PlayerTable` | component | table players under the statements of several processes |
| `MCPlayerTable` | TLC | 2 processes, 3 players, 3 names |
| `BloomFilter` | component | filters and their operators, and the server's filter |
| `MCBloomFilter` | TLC | tables of 6 bits in cells of 2 |
| `TableAndFilterProofs` | TLAPS | theorems about `PlayerTable` and about `BloomFilter` |
| `WireFormat` | operators | what the message classes use of the protobuf library (external) |
| `GameSpecMessages`, `PlainMessages` | operators | the message classes |
| `MessageObjects` | component | two objects of a class and every call on them |
| `MCMessageObjects` | TLC | the eighteen classes, 3 calls |
| `Replies` | component | what the handlers answer, and the buffer it is written to; composes the message classes |
| `MCReplies` | TLC | 48 slots, 1024 bytes |
| `RepliesProofs` | TLAPS | theorems about `Replies` and about the sizes of the message classes |

Some definitions are followed or preceded by a *variant*, introduced by a
comment that begins "Variant:". It is the definition as a plausible mistake in
the code would have it. No action uses one; `PROJECT.json` pairs each variant
with a property that fails when it is put in the definition's place.

### LinkBuffer

`m_pbuffer`, `m_phead` and `m_ptail` are the members of `class buffer`. A byte
is known by its offset in the client's stream, so that "the right bytes" can be
said without contents. Bodies have a length only; of a header, `packLen` is
kept. `RecvData` is three actions: no room (`RecvRefused`, `recv` is not
called), some bytes (`RecvBytes(n)`, for every n that fits and has been
written), end or error (`RecvEnd`). Each of them performs `CheckAndReset`
first. After some bytes the loop is in `pc = "parse"`; `HandlePack` is one
round of the pack loop and `PacksDone` its exit. `usable` and `live` remember
what the last `CheckAndReset` returned and how much data there was.

A reset may overtake data not yet read, as TCP allows. `recv` failing with
EAGAIN changes nothing and is a stuttering step.

### SocketServer

`conn` is a client's connection as the server's kernel sees it. Its states
carry what matters to later calls: "up", "fin" (client closed), "poked" (the
server wrote after that), "rst" (a reset no call has reported yet), "dead" (the
next send raises SIGPIPE), "closed". `fdtable` and `watched` are the
kernel's descriptor table and epoll set, `backlog` the accept queue. The thread
is at `pc`: in `epoll_wait`, working off a batch (`ready`), cutting packs
(`packs`), or in a broadcast (`send`, with the links left to serve in `toSend`,
lowest descriptor first, and in `part` what the first of them gets next, header
or body). Every
client step may fall between any two steps of the thread, which includes
between the two sends of one broadcast to one client. The batch is worked off
in any order.

A link counts frames rather than bytes: `taken` of at most `LinkCapacity`
stands for the life-time limit that `LinkBuffer` has in bytes, `packs` for
complete packs in its buffer. A frame split over several reads is LinkBuffer's
subject.

`AcceptFails` is accept at the limit of descriptors, `AcceptClosesListener`
the error path of `AcceptSocket` that closes its own socket instead of the
accepted one. `Interrupted` is `epoll_wait` returning -1, after which `main`
destroys the singletons. `SendKills` is SIGPIPE. `casts`, `joined`, `lost` and
`reported` are history variables, used by properties only.

`BroadcastLog` knows none of this. There a broadcast is two parts that each
member gets once and in order; no other broadcast begins, and no member comes or
goes, before all have it. A send that fails breaks a client's stream: from
then on parts may be missing, but what arrives is still in order. The server
ending is allowed at any time.

### ItemContainer, ContainerOps

A container is a function from slots to `Null` or an item with id and count;
the other fields of an item are constants of its class. The loops over slots
are recursive functions (`LeftBefore`) and folds (`RestoreBag`).
`ContainerEntries` is `GetBagInfo`'s loop for one container, `RestoreBag`,
`RestoreCurrency` and `RestoreEquipment` are `SetPlayer`'s. ContainerOps makes
a state machine of one container of any kind: adds, removes (any slot, one past
the end, count -1) and reloads.

Counts and ids come from messages and nobody looks at them. So counts are
integers of either sign, and the id -1 of an empty slot's entry (`NoItem`) may
be added too. A count of 0 does not stop the loop over the stacks before the
first of them (`Tops`), and splits one that is above its maximum. `sane` is a
history variable: whether every add so far had an id and no negative count. Two
properties need that; totals are exact and survive a reload without it.

### GameServer

`m_PlayerMap`, `m_EntityMap` and `m_eidpos` are EntityMgr's; `db` is table
`players`. A message handler that changes items is two actions, the change and
`UpdatePlayerInfo`, so that a crash can fall between them; `saving` is the
player whose handler is between the two, and no other request is handled then
(there is one thread). `PlayerMessage` is `BagSystem::GetPlayerInfo` with its
two calls of `set_rank`.

A statement fails when the server fails it (`UpdatePlayerInfo(FALSE)`). Its
string is the serialized bag as it is, and two bytes matter there. A quote (39)
ends the string: the statement must fail (`StatementBreaks`, for the stacks
`Quoted`). A backslash (92) is dropped by MySQL and the statement succeeds
(`Stored`, for the stacks `Slashed`). What then comes back of the row are the
entries before that stack, something else in the stack's place (`Garbled`), and
nothing after it, since every length around it is one too many and
`GetPlayerInfo` does not look at what `ParseFromString` returns. The two bytes
are those of a count or an id; the exact bytes a garbled message is read as are
abstracted to one other stack.

Login without a row and an item request of a player not in memory end the
process, which is what dereferencing their null pointer comes to (`Dies`). So
does a login whose query fails, but for one player: `SetPlayer` makes an entity
for the id of a message nothing was read into, `DefaultId` (0), and if that is
the player asking, it goes on with an empty entity (`LoginQueryFails`). Every
answer to a login is longer than the buffer it is written to (see Replies), so
the process may end there or go on (`LoginAnswerEnds`).

The position of a removal is tested from above only. `PlayerRemoveItem` has the
positions from 0 on, and what a negative one reads, a word of memory below the
slots, is undefined; three actions are the outcomes: a null, and nothing is
removed (`RemoveBelowFindsNull`), a slot of another container of anybody, whose
item is then the one removed (`RemoveBelowFindsSlot`), or no item, whose call
ends the process (`RemoveBelowEnds`). In the first two the handler goes on to
save the player of the request. `Uninitialised` is what the fields of a
`PlayerInfoComponent` may hold when `CreatePlayer` leaves them unset.

What a handler sends is left to SocketServer: replies are broadcast and change
no player. `stale` (players whose row is known to be behind, after a failed or
misdirected save, or after another's removal took from them), `garbled` (whose
row was altered as it was saved) and `asked` (the request handled last) are
history variables.

### RankCache

`players` is the table, which others write at any time; `playerRank` and
`infos` are the sorted set and the hashes in Redis, which is another process
and keeps them when the server ends. `snapshot` is what Redis last saved to its
disk, at any moment (`RedisSaves`), also between the two commands of a call;
when it restarts it has all it held, the snapshot, or nothing. `session` is
redis++'s one connection: it
is made with the first command, is stale when Redis has restarted, and a command
on a stale one throws. Nothing between a command and `main` catches that, so
`Terminates` is the error path of every command, and of a signal too.
`newPlayer` and `setPlayerInfo` are two commands: the score, and with `pending`
the hash. `Start` is `CacheManager::Init` with `GetAll`, whose failure looks
like an empty table; `ReinitPlayer` and `SetInfo` are the loop of `reinit`.
`setPlayerInfo` and `updateRankWithExp` have no caller in the server; they may
be called here in any order while it serves. `loaded`, `touched`, `aside` and
`reply` are history variables.

### PlayerTable

`players` is the table; a row is its `playerName` and the rest of its columns
as one value. Each process runs one call at a time. All calls are one statement
and one action but `UpdateName`, which is two, so that another process may come
between them: `UpdateNameLooks` (with `existFun`'s result, and what it leaves
when the query failed) and `UpdateNameWrites`. `updateFun` fails in both ways a
caller cannot tell apart, before and after the server has done its work.
`SameAddress` is the comparison of two `const char*` by which `UpdateOneCol`
refuses every column. `CreateNewPlayer` of an id that is there, or that fails,
changes nothing; that the id is the key of the table is an assumption (the
repository has no schema). `target` and `excused` are history variables.

### BloomFilter

A filter is the set of its 1 bits, the size of its table and `place`, where
`compute_indices` puts each hash. `Parameters` stands for hash count, seed and
size, which are what the set operators compare; `HashesOf` is `hash_ap` with
every salt, any function at all. `compress(n, wanted)` takes any percentage, as
the number of bits it leaves, and rounds down to whole cells. What a loop reads
beyond the shorter table of another filter (`Beyond`) is anything. What such a
loop *writes* when the new table is less than half of the old is left out: the
filter has no keys to keep from then on. A filter that only
`bloom_filter` operators are used on is one that is never compressed.
`BloomFilterInit`, `newPlayer`, `reinit` and `setPlayerInfo` are CacheManager's:
`newPlayer` puts an id on the rank list and into the filter, `reinit` does so
for every row and then inserts the bytes of its vector (`TheVector`), and
`setPlayerInfo` lists a player only. `listed` is the rank list, which Redis
keeps when the server starts anew; `keys` is a history variable.

### WireFormat, GameSpecMessages, PlainMessages, MessageObjects

A message is a record of its fields, with `unknown` for those it did not know.
Bytes are kept as a sequence of fields, with their sizes counted byte by byte.
The library of protobuf 3.5 is external and modelled from the calls the
generated code makes. Each class has six operators, named after it: what `Clear`
leaves (`Default`), what one accessor makes of it (`Set`), what parsing one
field does (`Field`), what it is written as (`Write`), `ByteSizeLong` (`Size`)
and `MergeFrom` (`Merge`). A field with the right number and another wire type
is an unknown one, as in the generated `switch`; a repeated number is taken
packed and one by one. Texts, embedded messages and packed numbers are of one
wire type, and the tag does not tell them apart: each class takes the bytes for
the kind it declares (`TextOf`, `FieldsOf`, `NumbersOf`). What bytes are to each
kind is in the constant `Payloads`, of which TLC checks that the sizes agree.

MessageObjects calls these on two objects of one class. What it parses is what
the other object is written as, such as it is, with a field too many at either
end, or broken off anywhere.

### Replies

Each handler builds its answer with the operators of the message classes, and
`BroadCast` measures it. Which slot an item lands in is ItemContainer's subject;
here any of a few slots may come to hold any of a few items, an item no type
limits the count of among them. What the process does after it has written past
`s_buffer` is undefined: it may go on or end (`up`).

## 3. What the runs check

| Run | Instance | Distinct states | Shows |
|---|---|---|---|
| `LinkBuffer` | 9 cells, header 2, bodies 0/3/8, 4 frames | 41,011 | safety, two liveness properties, refinement of FrameChannel |
| `ContainerOps` | 3 slots, stacks 3 and 4, 2 items (symmetric), adds of -2, 0 and 5 | 316,656 | adds exact, refusals only when full, reload keeps totals |
| `GameServer` | 2 players, 2 items, 2 slots, 3 requests, adds of 2 and -3, positions below 0 | 6,565 | maps, memory against rows, what ends the process, refinement of PlayerStore |
| `SocketServer` | 3 clients, 2 descriptors, 2 frames (symmetric) | 3,245,550 | sockets, events, broadcasts, refinement of BroadcastLog |
| `SocketServerLive` | 2 clients, 2 descriptors, 2 frames, fairness | 472,060 | ends are closed, the queue moves |
| `RankCache` | 2 players, experience 0 and 1, scores up to 1 | 4,631,283 | what Redis holds, and what is answered, after any restarts and from any snapshot |
| `Messages` | 18 classes, 3 calls, numbers 0, -1 and 300, texts of 0, 3, 5 and 130 bytes | 170,923 | written is read back, sizes are exact |
| `Replies` | 2 players, 48 slots, 3 requests | 14,452 | which answers fit 1024 bytes |
| `BloomFilter` | 2 filters and the server's, 3 keys (symmetric) | 683,460 | no key is denied |
| `PlayerTable` | 2 processes, 3 players, 3 names, 2 values (symmetric) | 24,403 | own row only, names are unique |
| `LinkBufferRoom` | as LinkBuffer | stops | no room although the array is not full |
| `SaveKeepsExp` | as GameServer | stops | a save drops experience |

The last two runs each check one sentence of the repository that the code
does not keep; TLC stops at a counterexample. They are the *findings* of
`PROJECT.json`, each with the line quoted. Smaller disagreements between
comments and code, which the models follow the code in:

* `overly` is "the largest stacking count"; what does not fit the stacks opens
  one slot above it (BagContainer.h:44).
* A removal of -1 is "all"; it adds one item (ItemBase.h:53).
* A login gets "all information of a player" back (MySqlMgr.cpp:126); not after
  a save whose message held a backslash (MySqlMgr.cpp:210).
* The list of the first n players has n + 1 (CacheMgr.cpp:315).
* Empty equipment slots are saved with the id -1 and come back as pieces
  (EntityMgr.cpp:137).
* "Insert into Bloom Filter" has no round: the loop divides the size of a
  pointer by that of a string (CacheMgr.cpp:370).

### The properties

LinkBuffer
: `DeliveredInOrder`, every pack is byte for byte the frame written there.
  `BufferHoldsStream`, the cells between the cursors are the bytes received and
  not handed on. `NothingLeftBehind`, no complete pack when the loop sleeps.
  `RefusesOnlyWhenSpent`, no room only after BUFFER_SIZE bytes of life.
  `FramesHandled`, `EndIsNoticed` (liveness), within that life.
  `ImplementsChannel` (refinement).

SocketServer
: `LinksMatchSockets`, link map, epoll set and descriptor table agree.
  `EventsAreFresh`, an event is served for the connection it was reported for.
  `RecipientsStay`, a broadcast never reaches for a link that is gone.
  `StreamsInOrder`, `NothingMissed`, broadcasts arrive in one order for all, and
  whole for everyone to whom no send failed. `ImplementsLog` (refinement), the
  same said of every step, and that a broadcast is with everybody it can reach
  before anything else changes. `EndedConnectionsClose`, `QueueMoves` (liveness).

ContainerOps
: `AddIsExact` (over all the stacks topped up and the slot opened, and no other
  item touched), `RefusedOnlyWhenFull`, `RefusalKeepsItems` (unless a stack is
  above its maximum), `ReloadKeepsTotals`; and, unless a call was out of place
  (`sane`), `NoEmptyStack` and `ReloadSettles` (a second reload moves nothing).

GameServer
: `EntityMapsAgree`, `MemoryIsSaved` (between handlers, a row gives back on
  login what is in memory, unless its last save failed or held a backslash, or
  another's removal took from it), `RowsChangeByOwner`, `EntitiesAreKept`,
  `EndsAreContained` (of the requests of players in memory, only logins and
  removals below the bag may end the process; and whatever ends it, a kill
  between change and save included, costs nobody but the player being saved
  anything), `ImplementsStore` (refinement; a save with a backslash is its
  `SaveSpoils`, and no other is).

RankCache
: `InfoMatchesRank` (score and hash agree unless a call or a crash left the
  score alone), `ListHoldsTable` (after a start Redis holds the table as read,
  whatever it held before), `RepliesCoverTable` (a reply leaves out only players
  below all that are on it, as many as an end counted from the first or from the
  last member says, and no reply comes from a Redis that has forgotten).

PlayerTable
: `NamesAreUnique` (a name is given twice only by an insert, after a failed
  look-up or by an overtaken process: the comment of `UpdateName` promises more,
  this is how much of it holds), `OwnRowOnly` (which holds although
  `UpdateOneCol` has no `where`, because its guard refuses every column).

BloomFilter
: `NoFalseNegatives` (after any operators and any number of foldings by at most
  half), `ListedPlayersPass` (the server's filter passes every player on the
  rank list: give it hashes, and it blocks those Redis has from earlier starts
  and those `setPlayerInfo` listed, whose ids were not put into it).

Messages
: `RoundTrip`, `SizeIsExact`, `ConcatenationMerges` (parsing two objects one
  after the other is merging them).

Replies
: `ShortMessagesFit` (only a login, a rank list of more than 34 players, and a
  request sent on with fields the server does not know can be too large),
  `LoginAnswerOverruns` (a login always is).

### Bounds, and why they are enough

* *LinkBuffer.* The frame sizes are 2, 5 and 10 bytes on 9 cells: a bare
  header, a frame whose second copy straddles the end of the array, and one
  larger than the array. Four frames reach every alignment of head and tail,
  the move of the data, and the state after the last byte. The real sizes
  (1 MiB, 12) are covered by the proofs.
* *ContainerOps.* Three slots hold two stacks of one item and one of another,
  or a full container with a partly filled stack. A count of 5 exceeds the stack
  limits, so that over-full stacks occur; 0 and -2 are the other two ways a
  count can be, and -2 leaves stacks below zero. `MaxCount` stops calls on
  stacks above 5 or below -5, after the interesting cases. The items are
  symmetric: no property or definition tells them apart.
* *GameServer.* Two players so that a save can hit the wrong row, and a removal
  below one bag another's slots; one starts with or without a row, the other is
  the player of the default id. Three requests allow a login of each and a
  change, or a login, two changes, and a crash and restart between any two
  (crashes and restarts are not counted). A stack of 2 breaks the statement, a
  stack of one potion alters the row. An add of -3 makes negative stacks be saved
  and read back. The proofs have no bound on any of this.
* *SocketServer.* Three clients on two descriptors make a descriptor be reused
  and one client wait at the limit; two frames make a client fill its link
  and two broadcasts overlap with closes. With more frames the states grow and
  no new kind of step occurs.

* *RankCache.* Two players, one of them with the id 10, which Redis sorts before
  9, and requests from -2 to 1: lists of none, one and all, counted from either
  end, and ties. Two experiences are enough for a score and a hash, a row and
  what was read of it, and a snapshot and what came after it to differ. Nothing
  counts restarts or snapshots; only increments are bounded (`MaxScore`).
* *PlayerTable.* Three players and three names let two processes rename, be
  overtaken and have one name left; nothing is bounded.
* *BloomFilter.* 6 bits in cells of 2 fold to 4, from 4 to 2 and from 6 to 2:
  by less than half, by half, twice, and by more than half, where no promise is
  left. Nothing is bounded. The real sizes are covered by the proofs.
* *Messages.* Three calls set a field of each object and merge or parse, or
  parse twice. Four calls take over four minutes and found nothing else. The
  numbers take 1, 2 and 10 bytes; of the texts one needs two bytes for its
  length and one is not UTF-8. What arrives in the place of another kind is
  empty, or three bytes that are a text in bad UTF-8, a message of one field and
  two numbers; it arrives in fields 1, 2, 3 and 5, which among the classes are of
  every kind.
* *Replies.* The sizes are those of the program. A row is empty, full, or full
  with empty equipment; requests change the first two slots and the last.
  Rank lists have lengths around the limit, with the shortest and longest ids.

CHECK_DEADLOCK is off where the system may stop: when all requests are made,
the process is gone, or no client has anything left to do.

### Fairness

Liveness uses weak fairness of the server's thread only (`WF_vars(Dojob)`); no
client is assumed to do anything. The code justifies it: the thread never
blocks but in `epoll_wait`, epoll is level-triggered (`EPOLLIN` without
`EPOLLET`), so a readable socket is reported again and again, and
`MAX_LINK_COUNT` (1024) events hold all ready sockets, so none is starved.
Nothing is assumed about *which* outcome the kernel chooses.

## 4. What is proved

### LinkBufferProofs

Assumption: `SizeAssumption` (the array and the header are not empty, body
lengths are naturals). The inductive invariant `IInv` is the type invariant,
that the frames written are laid end to end (`FramesInv`), and
the relation between cursors and stream: until the first refusal, the tail is
the number of bytes received, the head the number handed on, and cell i holds
byte i; after the refusal the cursors do not move. None of the properties is
inductive without it: `HandlePack` looks up the frame whose start is the byte
under the head, which is the right one only when head and stream agree.

`FramesInv`, `MirrorInv` and `StuckInv` name its parts.

Theorems: `TypeCorrect`, `Delivery`, `LoopDrains`, `RefusedOnlyWhenSpent`,
`BufferMirrorsStream`, one for each safety property of the run, and
`LinkImplementsChannel`, the refinement of `FrameChannel`: `ChannelInit` maps
the initial states, `ChannelStep` every step. `PeerSend` is a `Send` there, a
round of the pack loop a `Dispatch`, all else changes nothing.

### SocketServerProofs

Assumption: `ServerAssumption` (there is a descriptor; `Free`, `Listener` and
`Null` are not a client, a descriptor and a link). `IInv` has five parts.

* `TableInv`: the links are those of the watched descriptors, the watched
  descriptors are open, and no connection is at two descriptors.
* `QueueInv`: a client is in the accept queue once, or at a descriptor, or at
  neither. Without it `Accept` could give one connection two descriptors.
* `BatchInv`: every event left is for a watched descriptor and its owner has
  not changed; the recipients left are watched.
* `StreamInv`: clients still to be served have nothing of this broadcast but
  the header, if that is what was just sent; the streams are in order.
* `CountInv`: what a linked client was sent and what it is still owed (`Owed`)
  make two parts for every broadcast since it was accepted, unless a send to it
  failed. Whether its connection is still up does not matter: a part for one
  that has closed counts as sent until a send fails.

Each action is a lemma (`AcceptIInv`, `ReadEndIInv`, ...), with one step per
part; `TableKept`, `QueueKept`, `BatchKept`, `StreamKept` and `CountKept` serve
the parts an action leaves alone. Proved for any clients, descriptors and
frames: `SpecLinksMatchSockets`, `SpecEventsAreFresh`, `SpecRecipientsStay`,
`SpecStreamsInOrder`, `SpecNothingMissed`.

`ServerImplementsLog` is the refinement of `BroadcastLog`. `InitLog` maps the
initial states and `StepLog` every step. Outside a broadcast nobody is owed
anything (`NothingDue`, from `CountInv`), so a broadcast may begin
(`BroadCastBegins`), a client join (`AcceptJoins`, which needs `QueueInv`: it is
new) and leave (`ReadEndLeaves`, which needs `TableInv`: no other link is its).
A send is the next part of the log (`SendReturnsLog`): how many parts are owed
says which one that is (`NextPart`). To a client with a gap, `StreamInv` says
that what is sent now comes after all it has. The end of the process is
`EndEnds`; everything else leaves the log alone (`LogKept`).

### ContainerLemmas

Assumption: `ContainerAssumption` (a slot, stacks of at least one, `NoItem` not
an item, `Null` not a stack). The operators of `ItemContainer` are loops, that
is recursive functions, folds and sums over sets of slots, and the lemmas say
what they do for any number of slots and any counts. They come in five groups.

* *Loops.* A recursive function means its definition only if such a function
  exists, so that comes first (`Recursion`, `FoldExists`, `SumOverAdds`). The
  library's induction theorems take an operator as a parameter and cannot be
  used; induction is done on a set of numbers instead (`UpTo`, from a set of
  numbers having a lowest one, from well-foundedness).
* *Sums.* `SumOver` is a function that adds up the slots of a set one by one.
  `TotalIsSum`: `Total` is it, whatever order the fold takes. `SumsAgree`,
  `TotalsAgree`, `TotalWithSlot`: what one slot more or another does to it.
* *AddItem.* `LeftIsDefined`, what is left of a count before every slot;
  `NothingStaysNothing`, once it is 0 no later stack is touched; `FilledSlots`
  and `FilledTotal`, what the stacks have more is what is left less;
  `AddEnds`, the three ways to return; `AddKeeps`, which puts these together.
  `RestIsNoMore` needs that no stack is above its maximum.
* *Reload keeps totals.* `RefillKeepsTotals`: before entry k + 1 at most the
  first k slots are occupied, so every entry finds a free slot, and an add that
  does is exact.
* *A second reload.* A container is `Settled` when its occupied slots are the
  first ones (`Packed`) and of every item all stacks but the last are full
  (`AllButLastFull`); it is `Proper` when every stack has an item and
  holds some of it. What a reload leaves is settled (`RefillSettles`), and of a
  settled and proper container every entry goes back where it was
  (`SettledComesBack`): the stacks before it can take nothing (`NothingFits`),
  and its slot is the first free one. A stack of less than nothing takes what
  comes later, hence the condition.

### ContainerOpsProofs

Assumptions: `ContainerAssumption`, `CallAssumption` (counts are integers).
`IInv` says that the container is one of its class, with single pieces in the
equipment, and `Proper` while `sane` holds. Proved for any number of slots,
stack sizes, items and counts: `NoStackIsEmpty`, `ReloadLosesNothing`,
`ReloadsSettle`, `AddsAreExact`, `RefusesWhenFull`, `RefusalsKeepItems`, every
property of the run.

### GameServerProofs

Assumption: `ServerAssumption` (`FirstEid` is a natural, `Nobody` is not a
player, `NoRow` not a row, the tables to start with are tables, what an
uninitialised component holds has its types, counts are integers), and
`ContainerAssumption`. `IInv` is `EntityMapsAgree`, that the counter is above
every id given out, and that a restored entity carries the id of the player it
belongs to. The last is what makes `RowsChangeByOwner` provable: a save takes
the row from the entity, not from the request. It gives `MapsAlwaysAgree`,
`RowsAreOwners` and `EntitiesStay`.

What the maps need to know of a step is one of a few forms (`StepForms`): it
ends the process, makes an entity from a row or from nothing, changes the
containers of one entity, saves, or leaves memory alone. Most lemmas are about
one form, and the theorems of steps go by them.

`DataInv` adds what memory and rows hold. `MemoryIsSaved` speaks of the time
between handlers; while one runs, its player's row is behind and only the
others' are not (`OthersSaved`). That a save brings the row up to date needs
that the row exists (`RowsStay`: an UPDATE of no row succeeds too), that what
the table stores of a message without a backslash is the message
(`SavedGivesBack`), and that the message made of an entity gives back all it has
(`MessageGivesBack`, from the reload lemmas of ContainerLemmas), for which
entities and rows must have their types (`TypesOK`); what the table makes of a
message with a backslash is a row too (`StoredTypes`). It gives `RowsGiveBack`.
`EndsStayContained` goes by the steps that can end the process (`EndingSteps`).

`ServerIsStore` is the refinement of `PlayerStore`. `Cur`, `Dur` and `Det` name
the mapped variables. `InitStore` maps the initial states and `StepStore` every
step: a login is a `Load` (`LoginLoads`), a registration, or a failed query of
the default id, a `Register` (`DetachRegisters`), a change of a container a
`Change` of the one item it concerns (`OneItemChanges`) or a stutter if that is
not an item, a save that succeeds a `Save`, to any row for a detached player, or
a `SaveSpoils` if its message holds a backslash (`SaveSaves`), and everything
that ends the process a `Crash` (`EndingCrashes`).

All of it holds for any players, initial tables, container sizes and requests,
any stacks that break a statement or are altered by it, and whatever they are
read back as.

### RankCacheProofs

Assumption: `RankAssumption` (ids are naturals and finitely many, `MemberOrder`
tells any two apart, experience is whole numbers, `Null` is not a call). `IInv`
is the type invariant and `InfoMatchesRank` with `PendingInv` (the hash still to be sent goes with the score that was sent, and
nothing was sent before there was a connection), `ResInv` (what `reinit` has
still to put is part of what was read) and `PutInv` (what it has put is in
Redis). `PutInv` needs `PendingInv` because Redis may forget everything while a
start is under way; then either nothing had been put, or the connection is
stale. `TouchedInv` says the same of what other calls wrote. `SnapshotInv` says
that `InfoMatchesRank` holds of the snapshot as well (`Matches`, of any data),
since it may be all there is after a restart. Proved:
`TypeCorrect`, `ScoresMatchHashes`, `TableIsListed`.

`RepliesCover` is about one reply. `Above` is a strict total order on the
members (`AboveIsOrder`), so the place of a member, which is the number of
those above it, is another for every member and grows downwards
(`PositionFollowsOrder`); a range of places from the top that leaves somebody
out has only members above him, and leaves out no more than there are places
beyond its end, counted from either side (`LeftOutOfTop`). That nobody of the table is
missing from the sorted set while the connection lasts is `PutInv` and
`TouchedInv` (`TableIsRanked`).

### TableAndFilterProofs

*The table.* Assumption: `TableAssumption` (`NoRow` is not a row, `NoCall` not a
call). `IInv` is the type invariant, `NamesAreUnique` and `FreeStaysFree`: the name a
process is about to write is nobody's, unless its look-up had failed or it has
been overtaken. Without it the write of `UpdateName` could not be shown to
leave names unique, because the look-up was a step before. Proved for any
processes, players, names and columns: `NamesStayUnique`,
`StatementsKeepToTheirRow`.

*The filters.* Assumptions: `FilterAssumption` (a cell has bits, ids are keys, the vector
object is a key, hashes are naturals, a table of no bits has no hash functions)
and `UnsetAssumption` (parameters nobody optimized have no table). `FilterIInv`
is the type invariant, that every filter holds its keys (`Holds`), that every hash
has its place within the table (`Sound`), and that the server's filter has the
unset parameters. `Sound` is needed for `compress`: a bit from the new size on
moves to the remainder by the new size only when the table is at most halved
and the place was not beyond its old end (`RemainderFolds`). Proved for any
parameters, sizes and hash functions: `FiltersTypeCorrect`, `NoKeyDenied`,
`NoListedPlayerBlocked`. That `reinit` inserts ids is not what the last rests on:
the list outlives the filter and `setPlayerInfo` lists without inserting, so it
holds because a filter with the unset parameters has no hash function to deny by.

### RepliesProofs

Assumptions: `WireAssumption` (texts have lengths), `RepliesAssumption` (ids,
counts and experience are integers, containers have a slot, the name in a rank
list is no longer than "player:" and a number), `NullAssumption` (the null
pointer is not a message) and `SizesAssumption`, which bounds the program's
sizes: the buffer holds 66 bytes and at most 16384, and less than 22 bytes for
every slot of a container (1024 against 1056). Numbers and texts are any.

A size is a sum over the fields and elements of a message. `Bytes` adds them up
level by level, and each sum is a fold, so what comes first is that a fold over
a sequence adds up its elements (`AddingExists`, `AddingSums`, on `UpTo` and
`MaxIsHighest`), and that n elements of at least, or at most, b bytes make at
least, or at most, n times b (`SumAtLeast`, `SumAtMost`).

* *Logins.* An entry has a minimum whatever is in the slot (`EntrySizes`): 4
  bytes in the bag, 10 in the equipment, 8 for currency. So the bags alone are
  larger than the buffer (`BagInfoTooLarge`), and every login's answer is
  (`LoginTooLarge`).
* *Everything else.* An answer of at most six numbers takes at most 66 bytes
  (`CodesFit`, `RequestsFit`); a rank list takes at most 20 bytes for a name and
  10 for a number of every member (`NamesSum`, `NumbersSum`, `RankFits`).

`IInv` is the type of the entities and the two properties. Proved for any
containers, items, rows, requests and rank lists: `Inductive`, `ShortMessages`,
`LoginAnswers`.

The second half is about the classes alone, and needs no more than
`WireAssumption`: whatever an object holds, `ByteSizeLong` is the number of bytes
it is written to, which is what `SizeIsExact` says of the objects a run reaches.
`Bytes` follows messages within messages four levels down, so the fields an
object may hold are those that go no deeper (`Flat` to `Deep4`); the answer to a
login, with a player, its bags and their items, uses three of the levels and
leaves one to an item's unknown fields. TLC finds every object that
MessageObjects reaches among them.

* *Counting deeper changes nothing* (`FlatCounts`, `Counts1` to `Counts3`): a
  count that goes deeper than the fields do agrees with one that goes as deep,
  so an embedded message takes the same bytes wherever it stands.
* *Bytes add up* (`SumIsOne`, `SumsAdd`, `BytesAdd`): what is written one after
  the other takes the sum.
* *Each kind of field takes its size* (`Parts`, `SubMessage`, `SubMessages`): a
  default is not sent and has no size, a negative number takes ten bytes, a list
  of numbers that is empty takes none, a message is preceded by its length.
* *Each class is its parts* (`BagItemExact` to `CtlMsgSearchRspExact`), the
  enclosing ones from those they enclose.

Proved: `SizesAreExact`, `PlainSizesAreExact`.

### Model-checked only

Liveness (`FramesHandled`, `EndIsNoticed`, `EndedConnectionsClose`,
`QueueMoves`), because ENABLED and fairness are out of the provers' reach; and
the properties of `MessageObjects` (`RoundTrip`, `SizeIsExact`,
`ConcatenationMerges`): its classes are given to it as constants, and what
parsing a nested message gives back is an induction over the bytes, which the
provers do not do. What `SizeIsExact` says of an object is a theorem of its class
(`SizesAreExact`, `PlainSizesAreExact`); that every object reached is one of
those it speaks of needs parsing, and stays with TLC. Every other property of a
run is a theorem.

## 5. Plan

Done, in this order: LinkBuffer with its proofs and its refinement of
FrameChannel; ItemContainer and ContainerOps; GameServer with PlayerStore and
its proofs; SocketServer and its proofs; RankCache and its proofs; the message
classes and MessageObjects; Replies; BloomFilter and PlayerTable with their
proofs; the lemmas about containers, and with them the theorems of ContainerOps
and the refinement of PlayerStore; which replies fit, as theorems; the
refinement of BroadcastLog; the sizes of the message classes, as theorems.

Next, most important first:

1. The test client as the peer of LinkBuffer: its own loop never deletes a link
   whose end it has seen.
2. The life of the singletons: creation and destruction order, and what a handler may
   still touch after `Uinit`.
3. Counts at the width of INT32 in the item classes.

## 6. Not modelled, and why

* `TransformSystem`, `SetTrans`: positions are written and nothing of the
  server reads them. Of `PlayerMove` the answer is modelled.
* `PlayerMgr`: created and never called by a handler. `SendMsg`, `GetBuffer`,
  `GetPlayerId`: no caller.
* Of the protobuf code: descriptors, reflection, arenas, the cached size, and
  moving an object. Of the Bloom filter: `hash_ap`, the choice of optimal
  parameters, and the counters that feed `effective_fpp` only.
* In CacheManager: `addItemToPlayer`, `getItem` (whose type is read before it is
  set), the bag blob (`getBagInfoFromPlayer` assigns to its own parameter) and
  the queries other than `getTopNPlayer`, which have no caller; a constructor of
  `Redis` that throws (it only stores its options, the connection comes later).
* Failure of `epoll_create` and `epoll_ctl`; more than 1024 ready sockets.
* INT32 overflow of counts: counts in the models stay small. Listed as a
  hazard.
* The contents of a header: `MesgHead::Init` refuses a negative id and leaves
  the header of the answer unset. Listed as a hazard.
* A header whose `packLen` is negative (SocketServer.cpp:145). The peer of
  LinkBuffer writes frames whose headers say their length. Listed as a hazard.
* A `send` that takes a piece of a header or body: a part arrives or does not,
  and `StreamsInOrder` says nothing of its bytes.
* Of what a negative position of a removal reads: values that are neither null,
  a slot, nor the end of the process, such as memory that happens to look like
  an item.
* The exact bytes a message with a dropped backslash is read as, and the
  characters that MySQL makes something else of after a backslash (`\n`, `\0`
  and a few more): in the model it is one other stack in each case. A backslash
  before a quote or at the end of the string is not told apart: a row with a
  quote is in the model one whose statement fails, by a stack of `Quoted`.
* Copying a compressed filter as a plain `bloom_filter` (bloom_filter.h:602-621),
  which leaves out the sizes it had.
