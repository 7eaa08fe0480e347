--------------------------- MODULE RankCacheProofs ---------------------------
(***************************************************************************)
(* Proofs about RankCache, for any players, experience and requests.  The  *)
(* properties speak of finished calls; the invariant says what holds       *)
(* between the two commands of a call, in the midst of reinit, and on a    *)
(* connection that Redis has dropped.                                      *)
(***************************************************************************)
EXTENDS RankCache, FunctionTheorems, FiniteSetTheorems, WellFoundedInduction, TLAPS

\* A nonempty set of naturals has a lowest element, which Min chooses.
LEMMA MinIsIn ==
  ASSUME NEW S \in SUBSET Nat, S # {}
  PROVE  Min(S) \in S
  <1> DEFINE R == OpToRel(<, Nat)
  <1>1. PICK x \in S : \A y \in S : ~(<<y, x>> \in R)
    <2>1. IsWellFoundedOn(R, Nat)
      BY NatLessThanWellFounded
    <2> HIDE DEF R
    <2> QED
      BY <2>1, WFMin
  <1>2. \A y \in S : ~(y < x)
    BY <1>1 DEF OpToRel
  <1>3. \A y \in S : x <= y
    BY <1>2
  <1> QED
    BY <1>3 DEF Min

\* The hash still to be sent goes with a score that was.  Nothing was sent
\* before there was a connection.
PendingInv ==
  /\ session = "none" => pending = Null
  /\ pending # Null /\ session # "stale" =>
       pending.pid \in DOMAIN playerRank /\ playerRank[pending.pid] = pending.exp
  /\ pc = "serving" /\ pending # Null => pending.pid \in touched

\* What reinit has still to put is part of what was read, and all of it before
\* the first command.
ResInv ==
  /\ \A p \in DOMAIN res : p \in DOMAIN loaded /\ res[p] = loaded[p]
  /\ pc # "off" /\ session = "none" => DOMAIN loaded \subseteq DOMAIN res

\* What reinit has put is in Redis, except for the hash still to be sent.
PutInv ==
  pc # "off" /\ session # "stale" =>
    \A p \in DOMAIN loaded \ (touched \cup DOMAIN res) :
      /\ p \in DOMAIN playerRank /\ playerRank[p] = loaded[p]
      /\ pending = Null \/ pending.pid # p => p \in DOMAIN infos /\ infos[p] = loaded[p]

\* A player a call wrote is in the sorted set for as long as the connection
\* lasts.  Nothing was written before there was one.
TouchedInv ==
  /\ pc # "off" /\ session = "none" => touched = {}
  /\ pc # "off" /\ session # "stale" => touched \subseteq DOMAIN playerRank

\* InfoMatchesRank of what Redis has saved.
Matches(data) ==
  /\ DOMAIN data.infos \subseteq DOMAIN data.rank
  /\ \A p \in DOMAIN data.rank \ data.aside :
       p \in DOMAIN data.infos /\ data.infos[p] = data.rank[p]
SnapshotInv == Matches(snapshot)

\* The inductive invariant.
IInv ==
  TypeOK /\ InfoMatchesRank /\ SnapshotInv /\ PendingInv /\ ResInv /\ PutInv /\ TouchedInv

-----------------------------------------------------------------------------
\* A partial function with a value more.
LEMMA PutIsPart ==
  ASSUME NEW range, NEW f, IsPart(f, range), NEW p \in Pids, NEW v \in range
  PROVE  /\ IsPart(Put(f, p, v), range)
         /\ DOMAIN Put(f, p, v) = DOMAIN f \cup {p}
         /\ Put(f, p, v)[p] = v
         /\ \A q \in DOMAIN f \ {p} : Put(f, p, v)[q] = f[q]
  BY DEF IsPart, Put

\* And with one less.
LEMMA DropIsPart ==
  ASSUME NEW range, NEW f, IsPart(f, range), NEW p
  PROVE  /\ IsPart(Drop(f, p), range)
         /\ DOMAIN Drop(f, p) = DOMAIN f \ {p}
         /\ \A q \in DOMAIN f \ {p} : Drop(f, p)[q] = f[q]
  BY DEF IsPart, Drop

\* The function without arguments is part of every one.
LEMMA NobodyIsPart ==
  ASSUME NEW range
  PROVE  IsPart(Nobody, range) /\ DOMAIN Nobody = {}
  BY DEF IsPart, Nobody

\* A table nobody is in is empty.
LEMMA EmptyIsNobody ==
  ASSUME NEW range, NEW f, IsPart(f, range), DOMAIN f = {}
  PROVE  f = Nobody
  BY DEF IsPart, Nobody

-----------------------------------------------------------------------------
\* The empty Redis and the server that is not started satisfy the invariant.
THEOREM InitIInv == Init => IInv
  <1> SUFFICES ASSUME Init PROVE IInv
    OBVIOUS
  <1>1. TypeOK
    BY NobodyIsPart DEF Init, TypeOK, IsPart, NoData
  <1>2. InfoMatchesRank /\ SnapshotInv /\ PendingInv /\ ResInv /\ PutInv
    BY NobodyIsPart 
    DEF Init, InfoMatchesRank, SnapshotInv, Matches, NoData, PendingInv, ResInv, PutInv
  <1>3. TouchedInv
    BY DEF Init, TouchedInv
  <1> QED
    BY <1>1, <1>2, <1>3 DEF IInv

\* Whatever becomes of the table, the server has read it.
LEMMA RowsIInv ==
  ASSUME IInv, NEW rows, IsPart(rows, Exps), RowsBecome(rows)
  PROVE  IInv'
  <1>1. /\ players' = rows /\ reply' = Null
        /\ UNCHANGED <<playerRank, infos, session, snapshot, pc, res, pending, loaded, touched,
                       aside>>
    BY DEF RowsBecome, redis
  <1>2. TypeOK'
    BY <1>1 DEF IInv, TypeOK, IsPart
  <1>3. InfoMatchesRank' /\ SnapshotInv' /\ PendingInv' /\ ResInv' /\ PutInv'
    BY <1>1 DEF IInv, InfoMatchesRank, SnapshotInv, PendingInv, ResInv, PutInv
  <1>4. TouchedInv'
    BY <1>1 DEF IInv, TouchedInv
  <1> QED
    BY <1>2, <1>3, <1>4 DEF IInv

\* What Redis holds, has saved or starts with can be what it holds.
LEMMA DataMatches ==
  ASSUME IInv, NEW data \in {Data, snapshot, NoData}
  PROVE  /\ IsPart(data.rank, Int) /\ IsPart(data.infos, Exps) /\ data.aside \subseteq Pids
         /\ Matches(data)
  <1>1. CASE data = Data
    BY <1>1 DEF Data, IInv, TypeOK, InfoMatchesRank, Matches
  <1>2. CASE data = snapshot
    BY <1>2 DEF IInv, TypeOK, SnapshotInv
  <1>3. CASE data = NoData
    BY <1>3, NobodyIsPart DEF NoData, Matches
  <1> QED
    BY <1>1, <1>2, <1>3

\* A background save.
LEMMA RedisSavesIInv ==
  ASSUME IInv, RedisSaves
  PROVE  IInv'
  <1>1. /\ snapshot' = Data /\ reply' = Null
        /\ UNCHANGED <<players, playerRank, infos, session, pc, res, pending, loaded, touched,
                       aside>>
    BY DEF RedisSaves
  <1>2. IsPart(snapshot'.rank, Int) /\ IsPart(snapshot'.infos, Exps)
        /\ snapshot'.aside \subseteq Pids /\ SnapshotInv'
    BY <1>1, DataMatches DEF SnapshotInv, Matches
  <1>3. TypeOK'
    BY <1>1, <1>2 DEF IInv, TypeOK, IsPart
  <1>4. InfoMatchesRank' /\ PendingInv' /\ ResInv' /\ PutInv'
    BY <1>1 DEF IInv, InfoMatchesRank, PendingInv, ResInv, PutInv
  <1>5. TouchedInv'
    BY <1>1 DEF IInv, TouchedInv
  <1> QED
    BY <1>2, <1>3, <1>4, <1>5 DEF IInv

\* A connection over which something was sent is stale after Redis restarts.
LEMMA RedisRestartsIInv ==
  ASSUME IInv, RedisRestarts
  PROVE  IInv'
  <1>1. /\ session' = IF session = "none" THEN "none" ELSE "stale"
        /\ snapshot' \in {Data, snapshot, NoData}
        /\ playerRank' = snapshot'.rank /\ infos' = snapshot'.infos /\ aside' = snapshot'.aside
        /\ reply' = Null
        /\ UNCHANGED <<players, pc, res, pending, loaded, touched>>
    BY DEF RedisRestarts
  <1>2. /\ IsPart(snapshot'.rank, Int) /\ IsPart(snapshot'.infos, Exps)
        /\ snapshot'.aside \subseteq Pids /\ Matches(snapshot')
    BY <1>1, DataMatches
  <1>3. TypeOK'
    BY <1>1, <1>2 DEF IInv, TypeOK, IsPart
  <1>4. InfoMatchesRank' /\ SnapshotInv'
    BY <1>1, <1>2 DEF InfoMatchesRank, SnapshotInv, Matches
  <1>5. PendingInv' /\ ResInv'
    BY <1>1 DEF IInv, TypeOK, PendingInv, ResInv
  <1>6. PutInv'
    BY <1>1 DEF IInv, TypeOK, ResInv, PutInv
  <1>7. TouchedInv'
    BY <1>1 DEF IInv, TypeOK, TouchedInv
  <1> QED
    BY <1>3, <1>4, <1>5, <1>6, <1>7 DEF IInv

-----------------------------------------------------------------------------
\* What updateRankWithExp does to the sorted set.
LEMMA ScoreWritten ==
  ASSUME IInv, NEW p \in Pids, NEW exp \in Exps, NEW op, updateRankWithExp(p, exp, op)
  PROVE  /\ session # "stale" /\ session' = "live"
         /\ IsPart(playerRank', Int) /\ DOMAIN playerRank' = DOMAIN playerRank \cup {p}
         /\ playerRank'[p] = Scored(p, exp, op)
         /\ \A q \in DOMAIN playerRank \ {p} : playerRank'[q] = playerRank[q]
         /\ aside' = aside \cup {p} /\ UNCHANGED <<infos, snapshot>>
         /\ InfoMatchesRank' /\ SnapshotInv'
  <1>1. /\ session # "stale" /\ session' = "live"
        /\ playerRank' = Put(playerRank, p, Scored(p, exp, op))
        /\ aside' = aside \cup {p} /\ UNCHANGED <<infos, snapshot>>
    BY DEF updateRankWithExp, Command
  <1>2. Scored(p, exp, op) \in Int
    BY RankAssumption DEF Scored, ScoreOf, IInv, TypeOK, IsPart
  <1> HIDE DEF Scored
  <1>3. /\ IsPart(playerRank', Int) /\ DOMAIN playerRank' = DOMAIN playerRank \cup {p}
        /\ playerRank'[p] = Scored(p, exp, op)
        /\ \A q \in DOMAIN playerRank \ {p} : playerRank'[q] = playerRank[q]
    <2>1. IsPart(playerRank, Int)
      BY DEF IInv, TypeOK
    <2>2. playerRank \in [DOMAIN playerRank -> Int] /\ DOMAIN playerRank \subseteq Pids
      BY <2>1 DEF IsPart
    <2>3. playerRank' = [q \in DOMAIN playerRank \cup {p} |->
                          IF q = p THEN Scored(p, exp, op) ELSE playerRank[q]]
      BY <1>1 DEF Put
    <2>4. playerRank' \in [DOMAIN playerRank \cup {p} -> Int]
      BY <1>2, <2>2, <2>3
    <2> QED
      BY <2>2, <2>3, <2>4 DEF IsPart
  <1>4. InfoMatchesRank' /\ SnapshotInv'
    BY <1>1, <1>3 DEF IInv, InfoMatchesRank, SnapshotInv
  <1> QED
    BY <1>1, <1>3, <1>4

\* The score of the next player is put, its hash is to follow.
LEMMA ReinitPlayerIInv ==
  ASSUME IInv, ReinitPlayer
  PROVE  IInv'
  <1> DEFINE p == Min(DOMAIN res)
  <1>1. /\ pc = "reinit" /\ pending = Null /\ res # Nobody
        /\ updateRankWithExp(p, res[p], "UPDATE")
        /\ pending' = [pid |-> p, exp |-> res[p]] /\ res' = Drop(res, p)
        /\ UNCHANGED <<players, pc, loaded, touched>> /\ reply' = Null
    BY DEF ReinitPlayer, newPlayer
  <1>2. p \in DOMAIN res
    <2>1. DOMAIN res # {} /\ DOMAIN res \in SUBSET Nat
      BY <1>1, EmptyIsNobody, RankAssumption DEF IInv, TypeOK, IsPart
    <2> QED
      BY <2>1, MinIsIn
  <1> HIDE DEF p
  <1>3. p \in Pids /\ res[p] \in Exps /\ p \in DOMAIN loaded /\ res[p] = loaded[p]
    BY <1>2 DEF IInv, TypeOK, IsPart, ResInv
  <1>4. /\ session # "stale" /\ session' = "live"
        /\ IsPart(playerRank', Int) /\ DOMAIN playerRank' = DOMAIN playerRank \cup {p}
        /\ playerRank'[p] = Scored(p, res[p], "UPDATE")
        /\ \A q \in DOMAIN playerRank \ {p} : playerRank'[q] = playerRank[q]
        /\ aside' = aside \cup {p} /\ UNCHANGED <<infos, snapshot>>
        /\ InfoMatchesRank' /\ SnapshotInv'
    BY <1>1, <1>3, ScoreWritten
  <1>5. playerRank'[p] = res[p]
    BY <1>4 DEF Scored
  <1>6. /\ IsPart(res', Exps) /\ DOMAIN res' = DOMAIN res \ {p}
        /\ \A q \in DOMAIN res' : res'[q] = res[q]
    <2>1. IsPart(res, Exps)
      BY DEF IInv, TypeOK
    <2>2. /\ IsPart(Drop(res, p), Exps) /\ DOMAIN Drop(res, p) = DOMAIN res \ {p}
          /\ \A q \in DOMAIN res \ {p} : Drop(res, p)[q] = res[q]
      BY <2>1, DropIsPart
    <2> QED
      BY <1>1, <2>2
  <1>7. pending' # Null /\ pending'.pid = p /\ pending'.exp = res[p]
    BY <1>1, <1>3, RankAssumption
  <1>8. TypeOK'
    BY <1>1, <1>3, <1>4, <1>6 DEF IInv, TypeOK, IsPart
  <1>9. PendingInv'
    BY <1>1, <1>4, <1>5, <1>7 DEF PendingInv
  <1>10. ResInv'
    BY <1>1, <1>4, <1>6 DEF IInv, ResInv
  <1>11. PutInv'
    BY <1>1, <1>3, <1>4, <1>5, <1>6, <1>7 DEF IInv, PutInv
  <1>12. TouchedInv'
    BY <1>1, <1>4 DEF IInv, TouchedInv
  <1> QED
    BY <1>4, <1>8, <1>9, <1>10, <1>11, <1>12 DEF IInv

\* The hash of the player whose score was just put.
LEMMA SetInfoIInv ==
  ASSUME IInv, SetInfo
  PROVE  IInv'
  <1> DEFINE p == pending.pid
  <1>1. /\ pending # Null /\ pending' = Null /\ session # "stale" /\ session' = "live"
        /\ infos' = Put(infos, p, pending.exp) /\ aside' = aside \ {p}
        /\ UNCHANGED <<players, playerRank, snapshot, pc, res, loaded, touched>> /\ reply' = Null
    BY DEF SetInfo, Command
  <1>2. p \in Pids /\ pending.exp \in Exps
    BY <1>1 DEF IInv, TypeOK
  <1>3. p \in DOMAIN playerRank /\ playerRank[p] = pending.exp
    BY <1>1 DEF IInv, PendingInv
  <1>4. /\ IsPart(infos', Exps) /\ DOMAIN infos' = DOMAIN infos \cup {p}
        /\ infos'[p] = pending.exp
        /\ \A q \in DOMAIN infos \ {p} : infos'[q] = infos[q]
    <2> HIDE DEF p
    <2>1. IsPart(infos, Exps)
      BY DEF IInv, TypeOK
    <2>2. /\ IsPart(Put(infos, p, pending.exp), Exps)
          /\ DOMAIN Put(infos, p, pending.exp) = DOMAIN infos \cup {p}
          /\ Put(infos, p, pending.exp)[p] = pending.exp
          /\ \A q \in DOMAIN infos \ {p} : Put(infos, p, pending.exp)[q] = infos[q]
      BY <1>2, <2>1, PutIsPart
    <2> QED
      BY <1>1, <2>2
  <1> HIDE DEF p
  <1>5. TypeOK'
    BY <1>1, <1>4 DEF IInv, TypeOK, IsPart
  <1>6. InfoMatchesRank'
    BY <1>1, <1>3, <1>4 DEF IInv, InfoMatchesRank
  <1>7. SnapshotInv' /\ PendingInv' /\ ResInv'
    BY <1>1 DEF IInv, SnapshotInv, PendingInv, ResInv
  <1>8. PutInv'
    BY <1>1, <1>3, <1>4 DEF IInv, PutInv, p
  <1>9. TouchedInv'
    BY <1>1 DEF IInv, TouchedInv
  <1> QED
    BY <1>5, <1>6, <1>7, <1>8, <1>9 DEF IInv

-----------------------------------------------------------------------------
\* A start has everything before it.
LEMMA StartIInv ==
  ASSUME IInv, Start
  PROVE  IInv'
  <1>1. /\ pc = "off" /\ pc' = "reinit" /\ loaded' \in {players, Nobody} /\ res' = loaded'
        /\ touched' = {} /\ reply' = Null
        /\ UNCHANGED <<players, playerRank, infos, session, snapshot, pending, aside>>
    BY DEF Start, redis
  <1>2. IsPart(loaded', Exps)
    BY <1>1, NobodyIsPart DEF IInv, TypeOK
  <1>3. TypeOK'
    BY <1>1, <1>2 DEF IInv, TypeOK, IsPart
  <1>4. InfoMatchesRank' /\ SnapshotInv' /\ PendingInv' /\ ResInv' /\ PutInv'
    BY <1>1 DEF IInv, TypeOK, InfoMatchesRank, SnapshotInv, PendingInv, ResInv, PutInv
  <1>5. TouchedInv'
    BY <1>1 DEF TouchedInv
  <1> QED
    BY <1>3, <1>4, <1>5 DEF IInv

\* The loop of reinit has put everything when it ends.
LEMMA ReinitDoneIInv ==
  ASSUME IInv, ReinitDone
  PROVE  IInv'
  <1>1. /\ pc = "reinit" /\ pc' = "serving" /\ pending = Null /\ res = Nobody /\ reply' = Null
        /\ UNCHANGED <<players, playerRank, infos, session, snapshot, res, pending, loaded,
                       touched, aside>>
    BY DEF ReinitDone, Walked, redis
  <1>2. TypeOK'
    BY <1>1 DEF IInv, TypeOK, IsPart
  <1>3. InfoMatchesRank' /\ SnapshotInv' /\ PendingInv' /\ ResInv' /\ PutInv'
    BY <1>1 DEF IInv, InfoMatchesRank, SnapshotInv, PendingInv, ResInv, PutInv
  <1>4. TouchedInv'
    BY <1>1 DEF IInv, TouchedInv
  <1> QED
    BY <1>2, <1>3, <1>4 DEF IInv

\* A call of setPlayerInfo or newPlayer makes a player one that was touched.
LEMMA SetPlayerInfoIInv ==
  ASSUME IInv, NEW p \in Pids, NEW exp \in Exps, SetPlayerInfo(p, exp)
  PROVE  IInv'
  <1>1. /\ pc = "serving" /\ pending = Null /\ updateRankWithExp(p, exp, "UPDATE")
        /\ pending' = [pid |-> p, exp |-> exp] /\ touched' = touched \cup {p}
        /\ reply' = Null /\ UNCHANGED <<players, pc, res, loaded>>
    BY DEF SetPlayerInfo, newPlayer, Idle
  <1>2. /\ session # "stale" /\ session' = "live"
        /\ IsPart(playerRank', Int) /\ DOMAIN playerRank' = DOMAIN playerRank \cup {p}
        /\ playerRank'[p] = Scored(p, exp, "UPDATE")
        /\ \A q \in DOMAIN playerRank \ {p} : playerRank'[q] = playerRank[q]
        /\ aside' = aside \cup {p} /\ UNCHANGED <<infos, snapshot>>
        /\ InfoMatchesRank' /\ SnapshotInv'
    BY <1>1, ScoreWritten
  <1>3. playerRank'[p] = exp
    BY <1>2 DEF Scored
  <1>4. pending' # Null /\ pending'.pid = p /\ pending'.exp = exp
    BY <1>1, RankAssumption
  <1>5. TypeOK'
    BY <1>1, <1>2 DEF IInv, TypeOK, IsPart
  <1>6. PendingInv'
    BY <1>1, <1>2, <1>3, <1>4 DEF PendingInv
  <1>7. ResInv'
    BY <1>1, <1>2 DEF IInv, ResInv
  <1>8. PutInv'
    BY <1>1, <1>2, <1>4 DEF IInv, PutInv
  <1>9. TouchedInv'
    BY <1>1, <1>2 DEF IInv, TouchedInv
  <1> QED
    BY <1>2, <1>5, <1>6, <1>7, <1>8, <1>9 DEF IInv

\* So does a call of updateRankWithExp.
LEMMA UpdateRankIInv ==
  ASSUME IInv, NEW p \in Pids, NEW exp \in Exps, NEW op, UpdateRank(p, exp, op)
  PROVE  IInv'
  <1>1. /\ pc = "serving" /\ pending = Null /\ updateRankWithExp(p, exp, op)
        /\ touched' = touched \cup {p}
        /\ reply' = Null /\ UNCHANGED <<players, pc, res, pending, loaded>>
    BY DEF UpdateRank, Idle
  <1>2. /\ session # "stale" /\ session' = "live"
        /\ IsPart(playerRank', Int) /\ DOMAIN playerRank' = DOMAIN playerRank \cup {p}
        /\ \A q \in DOMAIN playerRank \ {p} : playerRank'[q] = playerRank[q]
        /\ aside' = aside \cup {p} /\ UNCHANGED <<infos, snapshot>>
        /\ InfoMatchesRank' /\ SnapshotInv'
    BY <1>1, ScoreWritten
  <1>3. TypeOK'
    BY <1>1, <1>2 DEF IInv, TypeOK, IsPart
  <1>4. PendingInv' /\ ResInv'
    BY <1>1, <1>2 DEF IInv, PendingInv, ResInv
  <1>5. PutInv'
    BY <1>1, <1>2 DEF IInv, PutInv
  <1>6. TouchedInv'
    BY <1>1, <1>2 DEF IInv, TouchedInv
  <1> QED
    BY <1>2, <1>3, <1>4, <1>5, <1>6 DEF IInv

\* A list that is sent changes nothing but the connection.
LEMMA GetRankListIInv ==
  ASSUME IInv, NEW end \in Ends, GetRankList(end)
  PROVE  IInv'
  <1>1. /\ pc = "serving" /\ pending = Null /\ session # "stale" /\ session' = "live"
        /\ reply' = [end |-> end, names |-> getTopNPlayer(end)]
        /\ UNCHANGED <<players, playerRank, infos, snapshot, pc, res, pending, loaded, touched,
                       aside>>
    BY DEF GetRankList, Idle, Command
  <1>2. getTopNPlayer(end) \in SUBSET Pids
    BY DEF getTopNPlayer, IInv, TypeOK, IsPart
  <1>3. TypeOK'
    BY <1>1, <1>2 DEF IInv, TypeOK, IsPart
  <1>4. InfoMatchesRank' /\ SnapshotInv' /\ PendingInv' /\ ResInv' /\ PutInv'
    BY <1>1 DEF IInv, InfoMatchesRank, SnapshotInv, PendingInv, ResInv, PutInv
  <1>5. TouchedInv'
    BY <1>1 DEF IInv, TouchedInv
  <1> QED
    BY <1>3, <1>4, <1>5 DEF IInv

\* A process that ends takes its call and its connection along.
LEMMA TerminatesIInv ==
  ASSUME IInv, Terminates
  PROVE  IInv'
  <1>1. /\ pc' = "off" /\ session' = "none" /\ res' = Nobody /\ pending' = Null /\ reply' = Null
        /\ UNCHANGED <<players, playerRank, infos, snapshot, loaded, touched, aside>>
    BY DEF Terminates
  <1>2. TypeOK'
    BY <1>1, NobodyIsPart DEF IInv, TypeOK, IsPart
  <1>3. InfoMatchesRank' /\ SnapshotInv' /\ PendingInv' /\ ResInv' /\ PutInv'
    BY <1>1, NobodyIsPart DEF IInv, InfoMatchesRank, SnapshotInv, PendingInv, ResInv, PutInv
  <1>4. TouchedInv'
    BY <1>1 DEF TouchedInv
  <1> QED
    BY <1>2, <1>3, <1>4 DEF IInv

-----------------------------------------------------------------------------
\* Every step of the server, of Redis and of the table keeps the invariant.
THEOREM StepIInv == IInv /\ [Next]_vars => IInv'
  <1> SUFFICES ASSUME IInv, [Next]_vars PROVE IInv'
    OBVIOUS
  <1>1. CASE \E p \in Pids, exp \in Exps : RowWritten(p, exp)
    <2>1. PICK p \in Pids, exp \in Exps : RowsBecome(Put(players, p, exp))
      BY <1>1 DEF RowWritten
    <2>2. IsPart(Put(players, p, exp), Exps)
      BY PutIsPart DEF IInv, TypeOK
    <2> QED
      BY <2>1, <2>2, RowsIInv
  <1>2. CASE \E p \in Pids : RowDeleted(p)
    <2>1. PICK p \in Pids : RowsBecome(Drop(players, p))
      BY <1>2 DEF RowDeleted
    <2>2. IsPart(Drop(players, p), Exps)
      BY DropIsPart DEF IInv, TypeOK
    <2> QED
      BY <2>1, <2>2, RowsIInv
  <1>3. CASE RedisSaves \/ RedisRestarts
    BY <1>3, RedisSavesIInv, RedisRestartsIInv
  <1>4. CASE Start \/ ReinitPlayer \/ SetInfo \/ ReinitDone \/ Terminates
    BY <1>4, StartIInv, ReinitPlayerIInv, SetInfoIInv, ReinitDoneIInv, TerminatesIInv
  <1>5. CASE \E p \in Pids, exp \in Exps : SetPlayerInfo(p, exp)
    BY <1>5, SetPlayerInfoIInv
  <1>6. CASE \E p \in Pids, exp \in Exps, op \in {"UPDATE", "INCRBY"} : UpdateRank(p, exp, op)
    BY <1>6, UpdateRankIInv
  <1>7. CASE \E end \in Ends : GetRankList(end)
    BY <1>7, GetRankListIInv
  <1>8. CASE UNCHANGED vars
    <2>1. UNCHANGED <<players, playerRank, infos, session, snapshot, pc, res, pending, loaded,
                      touched, aside, reply>>
      BY <1>8 DEF vars, redis
    <2> QED
      BY <2>1
      DEF IInv, TypeOK, IsPart, InfoMatchesRank, SnapshotInv, PendingInv, ResInv, PutInv, TouchedInv
  <1> QED
    BY <1>1, <1>2, <1>3, <1>4, <1>5, <1>6, <1>7, <1>8 DEF Next, Environment, Server

\* The invariant holds in every state of every run.
THEOREM SpecIInv == Spec => []IInv
  BY InitIInv, StepIInv, PTL DEF Spec

\* The types of the variables, whatever the players and their experience.
THEOREM TypeCorrect == Spec => []TypeOK
  <1>1. IInv => TypeOK
    BY DEF IInv
  <1> QED
    BY <1>1, SpecIInv, PTL

\* Score and hash agree through restarts of the server and of Redis.
THEOREM ScoresMatchHashes == Spec => []InfoMatchesRank
  <1>1. IInv => InfoMatchesRank
    BY DEF IInv
  <1> QED
    BY <1>1, SpecIInv, PTL

\* A running server that has its connection finds the table as it read it.
THEOREM TableIsListed == Spec => []ListHoldsTable
  <1>1. IInv => ListHoldsTable
    <2> SUFFICES ASSUME IInv, pc = "serving", session # "stale", NEW p \in DOMAIN loaded \ touched
                 PROVE  /\ p \in DOMAIN playerRank /\ playerRank[p] = loaded[p]
                        /\ p \in DOMAIN infos /\ infos[p] = loaded[p]
      BY DEF ListHoldsTable
    <2>1. p \notin DOMAIN res
      BY NobodyIsPart DEF IInv, TypeOK
    <2>2. pending = Null \/ pending.pid # p
      BY DEF IInv, PendingInv
    <2> QED
      BY <2>1, <2>2 DEF IInv, PutInv
  <1> QED
    BY <1>1, SpecIInv, PTL

-----------------------------------------------------------------------------
(* The list that is sent. *)

\* Who stands above a member.
Superiors(p) == {q \in DOMAIN playerRank : Above(q, p)}

\* The sorted set is finite, and its scores are numbers.
LEMMA RankIsFinite ==
  ASSUME IInv
  PROVE  /\ IsFiniteSet(DOMAIN playerRank) /\ Cardinality(DOMAIN playerRank) \in Nat
         /\ \A p \in DOMAIN playerRank : playerRank[p] \in Int /\ MemberOrder[p] \in Nat
         /\ \A p, q \in DOMAIN playerRank : MemberOrder[p] = MemberOrder[q] => p = q
  <1>1. DOMAIN playerRank \in SUBSET Pids /\ playerRank \in [DOMAIN playerRank -> Int]
    BY DEF IInv, TypeOK, IsPart
  <1>2. IsFiniteSet(DOMAIN playerRank)
    BY <1>1, RankAssumption, FS_Subset
  <1> QED
    BY <1>1, <1>2, RankAssumption, FS_CardinalityType

\* Of two members one stands above the other; who stands above that one
\* stands above both, and nobody above itself.
LEMMA AboveIsOrder ==
  ASSUME IInv
  PROVE  /\ \A p \in DOMAIN playerRank : ~Above(p, p)
         /\ \A p, q \in DOMAIN playerRank : p # q => Above(p, q) \/ Above(q, p)
         /\ \A p, q, r \in DOMAIN playerRank : Above(p, q) /\ Above(q, r) => Above(p, r)
  BY RankIsFinite DEF Above

\* Who stands higher has the lower position.
LEMMA PositionFollowsOrder ==
  ASSUME IInv, NEW p \in DOMAIN playerRank, NEW q \in DOMAIN playerRank, Above(p, q)
  PROVE  Position(p) \in Nat /\ Position(q) \in Nat /\ Position(p) < Position(q)
  <1>1. Superiors(p) \subseteq Superiors(q) /\ p \in Superiors(q) /\ p \notin Superiors(p)
    BY AboveIsOrder DEF Superiors
  <1>2. IsFiniteSet(Superiors(p)) /\ IsFiniteSet(Superiors(q))
    BY RankIsFinite, FS_Subset DEF Superiors
  <1>3. /\ Cardinality(Superiors(p)) <= Cardinality(Superiors(q))
        /\ Cardinality(Superiors(p)) # Cardinality(Superiors(q))
    BY <1>1, <1>2, FS_Subset
  <1>4. Cardinality(Superiors(p)) \in Nat /\ Cardinality(Superiors(q)) \in Nat
    BY <1>2, FS_CardinalityType
  <1>5. Position(p) = Cardinality(Superiors(p)) /\ Position(q) = Cardinality(Superiors(q))
    BY DEF Position, Superiors
  <1> QED
    BY <1>3, <1>4, <1>5

\* Positions count from 0 and end below the number of members.
LEMMA PositionIsBounded ==
  ASSUME IInv, NEW p \in DOMAIN playerRank
  PROVE  Position(p) \in 0 .. Cardinality(DOMAIN playerRank) - 1
  <1> DEFINE D == DOMAIN playerRank
             n == Cardinality(D)
  <1>1. IsFiniteSet(D) /\ n \in Nat
    BY RankIsFinite
  <1>2. Superiors(p) \in SUBSET D /\ p \notin Superiors(p)
    BY AboveIsOrder DEF Superiors
  <1>3. /\ IsFiniteSet(Superiors(p)) /\ Cardinality(Superiors(p)) <= n
        /\ Cardinality(Superiors(p)) # n
    BY <1>1, <1>2, FS_Subset
  <1>4. Cardinality(Superiors(p)) \in Nat
    BY <1>3, FS_CardinalityType
  <1>5. Position(p) = Cardinality(Superiors(p))
    BY DEF Position, Superiors
  <1> HIDE DEF n
  <1>6. Position(p) \in 0 .. n - 1
    BY <1>1, <1>3, <1>4, <1>5
  <1> QED
    BY <1>6 DEF n

\* A member that is not on a list asked for from 0 to end stands below all
\* that are, and they are more than end.
LEMMA LeftOutOfTop ==
  ASSUME IInv, NEW end \in Int, NEW p \in DOMAIN playerRank \ getTopNPlayer(end)
  PROVE  /\ IF end >= 0
              THEN Cardinality(getTopNPlayer(end)) > end
              ELSE Cardinality(DOMAIN playerRank \ getTopNPlayer(end)) < - end
         /\ \A q \in getTopNPlayer(end) : Above(q, p)
  <1> DEFINE D == DOMAIN playerRank
             n == Cardinality(D)
             last == Last(end)
             names == getTopNPlayer(end)
             rest == D \ names
             place == [q \in rest |-> Position(q)]
  <1>1. names = {q \in D : Position(q) <= last}
    BY DEF getTopNPlayer
  <1>2. IsFiniteSet(D) /\ n \in Nat
    BY RankIsFinite
  <1>3. \A q \in D : Position(q) \in 0 .. n - 1
    BY PositionIsBounded
  <1>10. last \in Int /\ last = IF end < 0 THEN n + end ELSE end
    BY <1>2 DEF Last
  <1> HIDE DEF n, names, last
  <1>4. \A q \in rest : Position(q) \in last + 1 .. n - 1
    BY <1>1, <1>2, <1>3, <1>10
  <1>5. \A q \in names : Above(q, p)
    <2> SUFFICES ASSUME NEW q \in names PROVE Above(q, p)
      OBVIOUS
    <2>1. q \in D /\ p \in D /\ Position(q) <= last /\ q # p
      BY <1>1 DEF names
    <2>2. Position(p) \in last + 1 .. n - 1 /\ Position(q) \in 0 .. n - 1
      BY <1>3, <1>4, <2>1 DEF names
    <2>3. ~Above(p, q)
      <3> SUFFICES ASSUME Above(p, q) PROVE FALSE
        OBVIOUS
      <3>1. Position(p) < Position(q)
        BY <2>1, PositionFollowsOrder
      <3> QED
        BY <1>2, <1>10, <2>1, <2>2, <3>1
    <2> QED
      BY <2>1, <2>3, AboveIsOrder
  <1>6. Cardinality(rest) \in Nat /\ Cardinality(rest) <= n - 1 - last
    <2> DEFINE places == last + 1 .. n - 1
    <2>0. last + 1 \in Int /\ n - 1 \in Int
      BY <1>2, <1>10
    <2>1. IsFiniteSet(places)
          /\ Cardinality(places) = IF last + 1 > n - 1 THEN 0 ELSE n - 1 - (last + 1) + 1
      BY <2>0, FS_Interval
    <2>2. place \in Injection(rest, places)
      <3>1. place \in [rest -> places]
        BY <1>4
      <3>2. ASSUME NEW q \in rest, NEW r \in rest, place[q] = place[r] PROVE q = r
        <4>1. Position(q) = Position(r) /\ Position(q) \in Nat
          BY <1>2, <1>3, <3>2
        <4>2. ~Above(q, r) /\ ~Above(r, q)
          BY <4>1, PositionFollowsOrder
        <4> QED
          BY <4>2, AboveIsOrder
      <3> QED
        BY <3>1, <3>2, Fun_IsInj
    <2>3. Cardinality(rest) <= Cardinality(places)
      BY <2>1, <2>2, FS_Injection
    <2>4. last <= n - 2
      BY <1>2, <1>4, <1>10 DEF names
    <2>5. IsFiniteSet(rest)
      BY <1>2, FS_Subset
    <2>6. Cardinality(rest) \in Nat
      BY <2>5, FS_CardinalityType
    <2> HIDE DEF places, rest
    <2> QED
      BY <1>2, <1>10, <2>1, <2>3, <2>4, <2>6
  <1>7. Cardinality(rest) = n - Cardinality(names)
    <2>1. Cardinality(D \ names) = Cardinality(D) - Cardinality(D \cap names)
      BY <1>2, FS_Difference
    <2>2. D \cap names = names
      BY <1>1
    <2> QED
      BY <2>1, <2>2 DEF n
  <1>8. Cardinality(names) \in Nat
    <2>1. names \in SUBSET D
      BY <1>1
    <2> QED
      BY <1>2, <2>1, FS_Subset, FS_CardinalityType
  <1> HIDE DEF rest
  <1>9. IF end >= 0 THEN Cardinality(names) > end ELSE Cardinality(rest) < - end
    BY <1>2, <1>6, <1>7, <1>8, <1>10
  <1> QED
    BY <1>5, <1>9 DEF names, rest

\* While the server serves and has its connection, every player of the table
\* it read is in the sorted set.
LEMMA TableIsRanked ==
  ASSUME IInv, pc = "serving", session # "stale"
  PROVE  DOMAIN loaded \subseteq DOMAIN playerRank
  <1>1. DOMAIN res = {}
    BY NobodyIsPart DEF IInv, TypeOK
  <1> QED
    BY <1>1 DEF IInv, PutInv, TouchedInv

\* Only GetRankList answers, and what it answers with covers the table.
LEMMA StepReplies ==
  ASSUME IInv, RepliesCoverTable, [Next]_vars
  PROVE  RepliesCoverTable'
  <1>1. CASE \E end \in Ends : GetRankList(end)
    <2>1. PICK end \in Ends : GetRankList(end)
      BY <1>1
    <2>2. /\ pc = "serving" /\ session # "stale"
          /\ reply' = [end |-> end, names |-> getTopNPlayer(end)]
          /\ UNCHANGED <<playerRank, loaded>>
      BY <2>1 DEF GetRankList, Idle, Command
    <2> SUFFICES ASSUME NEW p \in DOMAIN loaded \ getTopNPlayer(end)
                 PROVE  /\ p \in DOMAIN playerRank
                        /\ IF end >= 0
                             THEN Cardinality(getTopNPlayer(end)) > end
                             ELSE Cardinality(DOMAIN playerRank \ getTopNPlayer(end)) < - end
                        /\ \A q \in getTopNPlayer(end) : Above(q, p)
      BY <2>2 DEF RepliesCoverTable, Above
    <2>3. end \in Int
      BY RankAssumption
    <2>4. p \in DOMAIN playerRank
      BY <2>2, TableIsRanked
    <2> QED
      BY <2>3, <2>4, LeftOutOfTop
  <1>2. CASE UNCHANGED vars
    BY <1>2 DEF vars, redis, RepliesCoverTable, Above
  <1>3. CASE reply' = Null
    BY <1>3 DEF RepliesCoverTable
  <1> QED
    BY <1>1, <1>2, <1>3
    DEF Next, Environment, Server, RowWritten, RowDeleted, RowsBecome, RedisSaves, RedisRestarts, Start,
        ReinitPlayer, SetInfo, ReinitDone, SetPlayerInfo, UpdateRank, Terminates

\* A rank list that is sent leaves out nobody of the table the server read but
\* those below all on it, and only when it is as long as was asked.
THEOREM RepliesCover == Spec => []RepliesCoverTable
  <1>1. Init => RepliesCoverTable
    BY DEF Init, RepliesCoverTable
  <1>2. IInv /\ RepliesCoverTable /\ [Next]_vars => RepliesCoverTable'
    BY StepReplies
  <1> QED
    BY <1>1, <1>2, SpecIInv, PTL DEF Spec
=============================================================================
