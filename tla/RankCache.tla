------------------------------ MODULE RankCache ------------------------------
(***************************************************************************)
(* The rank list: CacheManager copies experience from table players into   *)
(* Redis once, when the server starts, and answers GetRankList from there. *)
(* Redis is another process.  It outlives the server, and what it holds    *)
(* then; it may restart while the server runs, and forget everything or    *)
(* what it was told since it last saved to its disk.                       *)
(*                                                                         *)
(* Names go into Redis with the experience they came with and nothing      *)
(* reads them back; they are left out.  So are the Bloom filter, whose     *)
(* answer containsPlayerId ignores, and the items no one stores here.      *)
(***************************************************************************)
EXTENDS Integers, FiniteSets, FiniteSetsExt

CONSTANTS
  Pids,
  MemberOrder,      \* where "player:<id>" stands among the members' names
  Exps,             \* experience a row or a call may bring
  MaxScore,         \* bound: no increment goes above it
  Ends,             \* RankReq.end of the requests
  Null

\* Ids are what an INT32 can be, so there are finitely many.
ASSUME RankAssumption ==
  /\ Pids \subseteq Nat /\ IsFiniteSet(Pids)
  /\ MemberOrder \in [Pids -> Nat]
  /\ \A p, q \in Pids : MemberOrder[p] = MemberOrder[q] => p = q
  /\ Exps \subseteq Int
  /\ MaxScore \in Int
  /\ Ends \subseteq Int
  /\ Null \notin [pid : Pids, exp : Exps]

VARIABLES
  players,          \* table players: id -> exp
  \* Redis
  playerRank,       \* the sorted set: member -> score
  infos,            \* the hashes "player:<id>": id -> exp
  session,          \* the connection: "none" so far, "live", or "stale" since Redis restarted
  snapshot,         \* what is on Redis' disk, with the aside of its time
  \* the server
  pc,
  res,              \* what reinit has still to put, of what GetAll returned
  pending,          \* the hash that goes out after the score, else Null
  \* history
  loaded,           \* what GetAll returned at the last start
  touched,          \* players written by a call since then
  aside,            \* players whose score was written without the hash
  reply             \* the list just answered with, else Null

redis == <<playerRank, infos, session, snapshot>>
vars == <<players, redis, pc, res, pending, loaded, touched, aside, reply>>

Nobody == [p \in {} |-> 0]
Put(f, p, v) == [q \in DOMAIN f \cup {p} |-> IF q = p THEN v ELSE f[q]]
Drop(f, p) == [q \in DOMAIN f \ {p} |-> f[q]]

-----------------------------------------------------------------------------
(* The table and Redis, which others change and restart. *)

\* A save of a handler, a registration by another server, an administrator.
RowsBecome(rows) ==
  /\ players' = rows
  /\ reply' = Null
  /\ UNCHANGED <<redis, pc, res, pending, loaded, touched, aside>>

RowWritten(p, exp) == RowsBecome(Put(players, p, exp))
RowDeleted(p) == p \in DOMAIN players /\ RowsBecome(Drop(players, p))

Data == [rank |-> playerRank, infos |-> infos, aside |-> aside]
NoData == [rank |-> Nobody, infos |-> Nobody, aside |-> {}]

\* A background save, which may fall between the two commands of a call.
RedisSaves ==
  /\ snapshot' = Data
  /\ reply' = Null
  /\ UNCHANGED <<players, playerRank, infos, session, pc, res, pending, loaded, touched, aside>>

\* Redis comes back with all it held, with what it had saved, or with nothing;
\* connections to it are gone.
RedisRestarts ==
  /\ session' = IF session = "none" THEN "none" ELSE "stale"
  /\ snapshot' \in {Data, snapshot, NoData}
  /\ playerRank' = snapshot'.rank /\ infos' = snapshot'.infos /\ aside' = snapshot'.aside
  /\ reply' = Null
  /\ UNCHANGED <<players, pc, res, pending, loaded, touched>>

-----------------------------------------------------------------------------
(* Commands.  redis++ connects with the first one.  A command on a stale    *)
(* connection throws, and any command may (a timeout, Redis out of reach).  *)
(* No caller catches what it throws.                                        *)

Command == session # "stale" /\ session' = "live"

ScoreOf(p) == IF p \in DOMAIN playerRank THEN playerRank[p] ELSE 0

\* Variants: every score is added to the one there is; ZADD with NX, which
\* leaves the score of a member alone.
ScoredByAdding(p, exp, op) == ScoreOf(p) + exp
ScoredOnce(p, exp, op) ==
  IF op = "INCRBY" THEN ScoreOf(p) + exp
  ELSE IF p \in DOMAIN playerRank THEN ScoreOf(p) ELSE exp

\* ZADD sets the score, ZINCRBY adds to it, or to 0 for a new member.
Scored(p, exp, op) == IF op = "UPDATE" THEN exp ELSE ScoreOf(p) + exp

updateRankWithExp(p, exp, op) ==
  /\ Command
  /\ Scored(p, exp, op) <= MaxScore
  /\ playerRank' = Put(playerRank, p, Scored(p, exp, op))
  /\ aside' = aside \cup {p}
  /\ UNCHANGED <<infos, snapshot>>

\* newPlayer, and setPlayerInfo, up to the score; the hash is what remains.
newPlayer(p, exp) ==
  /\ updateRankWithExp(p, exp, "UPDATE")
  /\ pending' = [pid |-> p, exp |-> exp]

\* hmset, the rest of newPlayer and setPlayerInfo.
SetInfo ==
  /\ pending # Null
  /\ Command
  /\ infos' = Put(infos, pending.pid, pending.exp)
  /\ pending' = Null
  /\ aside' = aside \ {pending.pid}
  /\ UNCHANGED <<players, playerRank, snapshot, pc, res, loaded, touched>>
  /\ reply' = Null

-----------------------------------------------------------------------------
(* Start. *)

\* CacheManager::Init.  A failed query leaves the map empty and is not noticed.
Start ==
  /\ pc = "off"
  /\ loaded' \in {players, Nobody}
  /\ res' = loaded'
  /\ touched' = {}
  /\ pc' = "reinit"
  /\ reply' = Null
  /\ UNCHANGED <<players, redis, pending, aside>>

\* One round of reinit's loop, in the order of the ids.
ReinitPlayer ==
  /\ pc = "reinit" /\ pending = Null /\ res # Nobody
  /\ LET p == Min(DOMAIN res) IN
       /\ newPlayer(p, res[p])
       /\ res' = Drop(res, p)
  /\ UNCHANGED <<players, pc, loaded, touched>>
  /\ reply' = Null

Walked == res = Nobody

\* Init returns and Dojob begins.
ReinitDone ==
  /\ pc = "reinit" /\ pending = Null /\ Walked
  /\ pc' = "serving"
  /\ reply' = Null
  /\ UNCHANGED <<players, redis, res, pending, loaded, touched, aside>>

-----------------------------------------------------------------------------
(* Calls of a running server. *)

Idle == pc = "serving" /\ pending = Null

\* setPlayerInfo or newPlayer.
SetPlayerInfo(p, exp) ==
  /\ Idle
  /\ newPlayer(p, exp)
  /\ touched' = touched \cup {p}
  /\ reply' = Null
  /\ UNCHANGED <<players, pc, res, loaded>>

UpdateRank(p, exp, op) ==
  /\ Idle
  /\ updateRankWithExp(p, exp, op)
  /\ touched' = touched \cup {p}
  /\ reply' = Null
  /\ UNCHANGED <<players, pc, res, pending, loaded>>

\* The order of the sorted set, from the top.
Above(p, q) ==
  \/ playerRank[p] > playerRank[q]
  \/ playerRank[p] = playerRank[q] /\ MemberOrder[p] > MemberOrder[q]
Position(p) == Cardinality({q \in DOMAIN playerRank : Above(q, p)})

\* ZREVRANGE playerRank 0 top: both ends count, and -1 is the last member.
Last(top) == IF top < 0 THEN Cardinality(DOMAIN playerRank) + top ELSE top
getTopNPlayer(top) == {p \in DOMAIN playerRank : Position(p) <= Last(top)}

\* Variant: what the command throws is caught, and the command repeated on a
\* new connection.
GetRankListReconnects(end) ==
  /\ Idle
  /\ session' = "live"
  /\ reply' = [end |-> end, names |-> getTopNPlayer(end)]
  /\ UNCHANGED <<players, playerRank, infos, snapshot, pc, res, pending, loaded, touched, aside>>

\* EventSystem::GetRankList.  The list goes out in the order of a hash map.
GetRankList(end) ==
  /\ Idle
  /\ Command
  /\ reply' = [end |-> end, names |-> getTopNPlayer(end)]
  /\ UNCHANGED <<players, playerRank, infos, snapshot, pc, res, pending, loaded, touched, aside>>

\* What a command throws, or a signal or a crash, ends the process.  A command
\* whose answer was lost did what it does first.
Terminates ==
  /\ pc # "off"
  /\ pc' = "off"
  /\ session' = "none" /\ res' = Nobody /\ pending' = Null
  /\ reply' = Null
  /\ UNCHANGED <<players, playerRank, infos, snapshot, loaded, touched, aside>>

-----------------------------------------------------------------------------
Init ==
  /\ \E registered \in SUBSET Pids : players \in [registered -> Exps]
  /\ playerRank = Nobody /\ infos = Nobody /\ session = "none" /\ snapshot = NoData
  /\ pc = "off" /\ res = Nobody /\ pending = Null
  /\ loaded = Nobody /\ touched = {} /\ aside = {} /\ reply = Null

Environment ==
  \/ \E p \in Pids, exp \in Exps : RowWritten(p, exp)
  \/ \E p \in Pids : RowDeleted(p)
  \/ RedisSaves
  \/ RedisRestarts

Server ==
  \/ Start
  \/ ReinitPlayer
  \/ SetInfo
  \/ ReinitDone
  \/ \E p \in Pids, exp \in Exps : SetPlayerInfo(p, exp)
  \/ \E p \in Pids, exp \in Exps, op \in {"UPDATE", "INCRBY"} : UpdateRank(p, exp, op)
  \/ \E end \in Ends : GetRankList(end)
  \/ Terminates

Next == Environment \/ Server

Spec == Init /\ [][Next]_vars

-----------------------------------------------------------------------------
(* Properties. *)

IsPart(f, range) == DOMAIN f \subseteq Pids /\ f \in [DOMAIN f -> range]

\* The types of the variables.  The map of Init lives as long as reinit runs,
\* and a call's hash as long as the process.
TypeOK ==
  /\ IsPart(players, Exps) /\ IsPart(res, Exps) /\ IsPart(loaded, Exps)
  /\ IsPart(playerRank, Int) /\ IsPart(infos, Exps)
  /\ session \in {"none", "live", "stale"}
  /\ IsPart(snapshot.rank, Int) /\ IsPart(snapshot.infos, Exps) /\ snapshot.aside \subseteq Pids
  /\ pc \in {"off", "reinit", "serving"}
  /\ pending \in {Null} \cup [pid : Pids, exp : Exps]
  /\ pc # "reinit" => res = Nobody
  /\ pc = "off" => session = "none" /\ pending = Null
  /\ touched \subseteq Pids /\ aside \subseteq Pids
  /\ reply \in {Null} \cup [end : Ends, names : SUBSET Pids]

\* Redis has a player in the rank and in a hash, with the same experience,
\* unless the score was written on its own, by a call that does no more or by
\* one that a crash cut off; however often the server or Redis restarted, and
\* whatever of that Redis had saved when it did.
InfoMatchesRank ==
  /\ DOMAIN infos \subseteq DOMAIN playerRank
  /\ \A p \in DOMAIN playerRank \ aside : p \in DOMAIN infos /\ infos[p] = playerRank[p]

\* A running server that still has its connection finds every player of the
\* table it read at the start in Redis, as the table had it then, or as a call
\* since then left it: whatever Redis had kept or lost before.
ListHoldsTable ==
  pc = "serving" /\ session # "stale" =>
    \A p \in DOMAIN loaded \ touched :
      /\ p \in DOMAIN playerRank /\ playerRank[p] = loaded[p]
      /\ p \in DOMAIN infos /\ infos[p] = loaded[p]

\* A rank list that is sent leaves out no player of the table the server read,
\* but for those who stand below all on it when it is as long as was asked: one
\* more than the end, or, for an end below 0, all but so many less one.
RepliesCoverTable ==
  reply # Null =>
    \A p \in DOMAIN loaded \ reply.names :
      /\ p \in DOMAIN playerRank
      /\ IF reply.end >= 0
           THEN Cardinality(reply.names) > reply.end
           ELSE Cardinality(DOMAIN playerRank \ reply.names) < - reply.end
      /\ \A q \in reply.names : Above(q, p)
=============================================================================
