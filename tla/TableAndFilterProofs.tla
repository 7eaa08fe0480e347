----------------------- MODULE TableAndFilterProofs ------------------------
(***************************************************************************)
(* The two stores that answer for a player: table players, where names are *)
(* unique but for the three excuses and a statement changes its own row    *)
(* only, for any number of players, names and processes; and the Bloom     *)
(* filters, which deny no key they were given, for any hash functions, any *)
(* table sizes and any number of filters.                                  *)
(***************************************************************************)
EXTENDS PlayerTable, BloomFilter, TLAPS

-----------------------------------------------------------------------------
(* The table. *)

Row == [playerName : Names, rest : Values]
Call == [id : Ids, newName : Names, failed : BOOLEAN, overtaken : BOOLEAN]

TypeOK ==
  /\ players \in [Ids -> Row \cup {NoRow}]
  /\ renaming \in [Servers -> Call \cup {NoCall}]
  /\ excused \subseteq Ids

\* A name that was looked for and not found stays free until it is written,
\* unless the process is overtaken.
FreeStaysFree ==
  \A s \in Servers :
    renaming[s] # NoCall /\ ~renaming[s].failed /\ ~renaming[s].overtaken
      => ~NameTaken(renaming[s].newName)

IInv == TypeOK /\ NamesAreUnique /\ FreeStaysFree

\* The rest of a row changes, or nothing does: the names are as they were.
LEMMA NamesKept ==
  ASSUME IInv, players' \in [Ids -> Row \cup {NoRow}],
         \A i \in Ids : /\ players'[i] = NoRow <=> players[i] = NoRow
                        /\ players[i] # NoRow => players'[i].playerName = players[i].playerName,
         renaming' \in [Servers -> Call \cup {NoCall}],
         \A s \in Servers : renaming'[s] = renaming[s]
                              \/ renaming'[s] = NoCall
                              \/ renaming'[s].failed \/ renaming'[s].overtaken
                              \/ ~NameTaken(renaming'[s].newName),
         excused' = excused
  PROVE  IInv'
<1>1. Rows' = Rows
  BY DEF Rows
<1>2. \A name : NameTaken(name)' <=> NameTaken(name)
  BY <1>1 DEF NameTaken, Rows
<1>3. NamesAreUnique'
  BY <1>1 DEF IInv, NamesAreUnique, Rows
<1>4. FreeStaysFree'
  BY <1>2 DEF IInv, FreeStaysFree
<1> QED BY <1>3, <1>4 DEF IInv, TypeOK

\* UpdatePlayerInfo and UpdateOneCol write a value of another column.
LEMMA RestChanges ==
  ASSUME IInv, NEW i \in Ids, NEW selected \in SUBSET Rows, NEW value \in Values,
         updateFun(i, selected, LAMBDA row : [row EXCEPT !.rest = value]),
         UNCHANGED <<renaming, excused>>
  PROVE  IInv'
<1>1. PICK lands \in BOOLEAN :
        players' = [j \in Ids |-> IF lands /\ j \in selected
                                    THEN [players[j] EXCEPT !.rest = value]
                                    ELSE players[j]]
  BY DEF updateFun
<1>2. ASSUME NEW j \in Ids
      PROVE  /\ players'[j] \in Row \cup {NoRow}
             /\ players'[j] = NoRow <=> players[j] = NoRow
             /\ players[j] # NoRow => players'[j].playerName = players[j].playerName
  <2>1. CASE lands /\ j \in selected
    <3>1. players[j] # NoRow /\ players[j] \in Row
      BY <2>1 DEF Rows, IInv, TypeOK
    <3>2. players'[j] = [players[j] EXCEPT !.rest = value]
      BY <1>1, <2>1
    <3>3. players'[j] \in Row /\ players'[j].playerName = players[j].playerName
      BY <3>1, <3>2 DEF Row
    <3>4. players'[j] # NoRow
      BY <3>3, TableAssumption DEF Row
    <3> QED BY <3>1, <3>3, <3>4
  <2>2. CASE ~(lands /\ j \in selected)
    <3>1. players'[j] = players[j]
      BY <1>1, <2>2
    <3> QED BY <3>1 DEF IInv, TypeOK
  <2> QED BY <2>1, <2>2
<1>3. players' \in [Ids -> Row \cup {NoRow}]
  BY <1>1, <1>2
<1>4. renaming' \in [Servers -> Call \cup {NoCall}] /\ renaming' = renaming /\ excused' = excused
  BY DEF IInv, TypeOK
<1> QED BY <1>2, <1>3, <1>4, NamesKept

\* What Overtake makes of the calls.
LEMMA Overtaken ==
  ASSUME TypeOK, NEW s \in Servers, NEW name \in Names
  PROVE  /\ Overtake(s, name) \in [Servers -> Call \cup {NoCall}]
         /\ Overtake(s, name)[s] = renaming[s]
         /\ \A t \in Servers :
              \/ Overtake(s, name)[t] = renaming[t]
                   /\ (t = s \/ renaming[t] = NoCall \/ renaming[t].newName # name)
              \/ Overtake(s, name)[t] # NoCall /\ Overtake(s, name)[t].overtaken
<1> DEFINE R == Overtake(s, name)
<1>1. ASSUME NEW t \in Servers, t # s /\ renaming[t] # NoCall /\ renaming[t].newName = name
      PROVE  R[t] \in Call /\ R[t].overtaken /\ R[t] # NoCall
  <2>1. renaming[t] \in Call
    BY <1>1 DEF TypeOK
  <2>2. R[t] = [renaming[t] EXCEPT !.overtaken = TRUE]
    BY <1>1 DEF Overtake
  <2>3. R[t] \in Call
    BY <2>1, <2>2 DEF Call
  <2>4. R[t].overtaken
    BY <2>1, <2>2 DEF Call
  <2> QED BY <2>3, <2>4, TableAssumption DEF Call
<1>2. ASSUME NEW t \in Servers, ~(t # s /\ renaming[t] # NoCall /\ renaming[t].newName = name)
      PROVE  R[t] = renaming[t] /\ R[t] \in Call \cup {NoCall}
  BY <1>2 DEF Overtake, TypeOK
<1>3. R = [t \in Servers |-> R[t]]
  BY DEF Overtake
<1>4. \A t \in Servers : R[t] \in Call \cup {NoCall}
  BY <1>1, <1>2
<1> HIDE DEF R
<1>5. R \in [Servers -> Call \cup {NoCall}]
  BY <1>3, <1>4
<1> QED BY <1>1, <1>2, <1>5 DEF R

\* A row gets a name: either the row is excused, or nobody had the name.
LEMMA NameWritten ==
  ASSUME IInv, NEW i \in Ids, NEW name \in Names, NEW s \in Servers, NEW row \in Row,
         row.playerName = name,
         players' = [players EXCEPT ![i] = row],
         renaming' \in [Servers -> Call \cup {NoCall}],
         \A t \in Servers : renaming'[t] = NoCall \/ renaming'[t] = Overtake(s, name)[t],
         renaming'[s] = NoCall,
         \/ excused' = excused \cup {i}
         \/ excused' = excused \ {i} /\ ~NameTaken(name)
  PROVE  IInv'
<1>1. TypeOK /\ players \in [Ids -> Row \cup {NoRow}] /\ row # NoRow
  BY TableAssumption DEF IInv, TypeOK, Row
<1>2. \A j \in Ids : players'[j] = IF j = i THEN row ELSE players[j]
  BY <1>1
<1>3. Rows' = Rows \cup {i}
  BY <1>1, <1>2 DEF Rows
<1>4. TypeOK'
  BY <1>1 DEF IInv, TypeOK
<1>5. NamesAreUnique'
  <2> SUFFICES ASSUME NEW j \in Rows', NEW k \in Rows',
                      players'[j].playerName = players'[k].playerName, j # k
               PROVE  {j, k} \cap excused' # {}
    BY DEF NamesAreUnique
  <2>1. CASE j # i /\ k # i
    <3>1. j \in Rows /\ k \in Rows /\ players[j].playerName = players[k].playerName
      BY <1>2, <1>3, <2>1 DEF Rows
    <3>2. {j, k} \cap excused # {}
      BY <3>1 DEF IInv, NamesAreUnique
    <3> QED BY <2>1, <3>2
  <2>2. CASE excused' = excused \cup {i}
    BY <2>1, <2>2
  <2>3. CASE ~NameTaken(name) /\ (j = i \/ k = i)
    <3>1. \A m \in Rows : players[m].playerName # name
      BY <2>3 DEF NameTaken
    <3>2. j \in Ids /\ k \in Ids
      BY DEF Rows
    <3> QED BY <1>2, <1>3, <2>3, <3>1, <3>2
  <2> QED BY <2>1, <2>2, <2>3
<1>6. FreeStaysFree'
  <2> SUFFICES ASSUME NEW t \in Servers, renaming'[t] # NoCall,
                      ~renaming'[t].failed, ~renaming'[t].overtaken
               PROVE  \A m \in Rows' : players'[m].playerName # renaming'[t].newName
    BY DEF FreeStaysFree, NameTaken
  <2>1. t # s /\ renaming'[t] = Overtake(s, name)[t]
    OBVIOUS
  <2>2. renaming'[t] = renaming[t] /\ renaming[t].newName # name
    BY <1>1, <2>1, Overtaken
  <2>3. ~NameTaken(renaming[t].newName)
    BY <2>2 DEF IInv, FreeStaysFree
  <2>4. ASSUME NEW m \in Rows'
        PROVE  players'[m].playerName # renaming[t].newName
    <3>1. CASE m = i
      BY <1>2, <2>2, <3>1
    <3>2. CASE m # i
      <4>1. m \in Rows /\ m \in Ids
        BY <1>3, <3>2 DEF Rows
      <4> QED BY <1>2, <2>3, <3>2, <4>1 DEF NameTaken
    <3> QED BY <3>1, <3>2
  <2> QED BY <2>2, <2>4
<1> QED BY <1>4, <1>5, <1>6 DEF IInv

-----------------------------------------------------------------------------
(* The steps. *)

LEMMA InitIInv == Init => IInv
<1> SUFFICES ASSUME Init PROVE IInv
  OBVIOUS
<1>1. TypeOK
  BY DEF Init, TypeOK, Row
<1>2. NamesAreUnique
  BY DEF Init, NamesAreUnique
<1>3. FreeStaysFree
  BY DEF Init, FreeStaysFree
<1> QED BY <1>1, <1>2, <1>3 DEF IInv

LEMMA CreateStep ==
  ASSUME IInv, NEW s \in Servers, NEW i \in Ids, NEW name \in Names, NEW value \in Values,
         CreateNewPlayer(s, i, name, value)
  PROVE  IInv'
<1> DEFINE row == [playerName |-> name, rest |-> value]
<1>1. row \in Row /\ row.playerName = name
  BY DEF Row
<1>2. players' = [players EXCEPT ![i] = row]
  BY DEF CreateNewPlayer
<1>3. renaming' = Overtake(s, name) /\ renaming[s] = NoCall /\ excused' = excused \cup {i}
  BY DEF CreateNewPlayer, Idle
<1>4. renaming' \in [Servers -> Call \cup {NoCall}] /\ renaming'[s] = NoCall
  BY <1>3, Overtaken DEF IInv
<1> HIDE DEF row
<1> QED BY <1>1, <1>2, <1>3, <1>4, NameWritten

LEMMA SaveStep ==
  ASSUME IInv, NEW s \in Servers, NEW i \in Ids, NEW value \in Values,
         UpdatePlayerInfo(s, i, value)
  PROVE  IInv'
<1>1. WhereId(i) \subseteq Rows
  BY DEF WhereId
<1> QED BY <1>1, RestChanges DEF UpdatePlayerInfo

LEMMA OneColStep ==
  ASSUME IInv, NEW s \in Servers, NEW i \in Ids, NEW col \in Columns, NEW value \in Values,
         UpdateOneCol(s, i, col, value)
  PROVE  IInv' /\ UNCHANGED players
<1>1. UNCHANGED <<players, renaming, excused>>
  BY DEF UpdateOneCol, SameAddress
<1>2. IInv'
  BY <1>1 DEF IInv, TypeOK, NamesAreUnique, FreeStaysFree, Rows, NameTaken
<1> QED BY <1>1, <1>2

LEMMA LookStep ==
  ASSUME IInv, NEW s \in Servers, NEW i \in Ids, NEW name \in Names,
         UpdateNameLooks(s, i, name)
  PROVE  IInv'
<1>1. PICK failed \in BOOLEAN :
        renaming' =
         [renaming EXCEPT ![s] =
            IF Found(name, failed)
              THEN NoCall
              ELSE [id |-> i, newName |-> name, failed |-> failed, overtaken |-> FALSE]]
  BY DEF UpdateNameLooks
<1> DEFINE call == [id |-> i, newName |-> name, failed |-> failed, overtaken |-> FALSE]
<1>2. call \in Call /\ call.newName = name /\ call.failed = failed
  BY DEF Call
<1>3. renaming'[s] = (IF Found(name, failed) THEN NoCall ELSE call)
      /\ \A t \in Servers \ {s} : renaming'[t] = renaming[t]
  BY <1>1 DEF IInv, TypeOK
<1>4. renaming' \in [Servers -> Call \cup {NoCall}]
  BY <1>1, <1>2 DEF IInv, TypeOK
<1>5. renaming'[s] = NoCall \/ renaming'[s].failed \/ ~NameTaken(renaming'[s].newName)
  BY <1>2, <1>3 DEF Found
<1>6. players' = players /\ excused' = excused /\ players \in [Ids -> Row \cup {NoRow}]
  BY DEF UpdateNameLooks, IInv, TypeOK
<1> HIDE DEF call
<1> QED BY <1>3, <1>4, <1>5, <1>6, NamesKept

LEMMA WriteStep ==
  ASSUME IInv, NEW s \in Servers, UpdateNameWrites(s)
  PROVE  IInv' /\ target' = renaming[s].id
               /\ \A j \in Ids : players'[j] # players[j] => j = renaming[s].id
<1> DEFINE call == renaming[s]
           name == call.newName
           i == call.id
           R == Overtake(s, name)
<1>1. call \in Call /\ name \in Names /\ i \in Ids /\ TypeOK
  BY DEF UpdateNameWrites, Idle, IInv, TypeOK, Call
<1>2. PICK lands \in BOOLEAN :
        players' = [j \in Ids |-> IF lands /\ j \in WhereId(i)
                                    THEN [players[j] EXCEPT !.playerName = name]
                                    ELSE players[j]]
  BY DEF UpdateNameWrites, updateFun
<1>3. target' = i
  BY DEF UpdateNameWrites, updateFun
<1>4. \A j \in Ids : players'[j] # players[j] => j = i
  BY <1>2 DEF WhereId
<1>5. renaming' = [R EXCEPT ![s] = NoCall]
  BY DEF UpdateNameWrites
<1>6. /\ R \in [Servers -> Call \cup {NoCall}]
      /\ \A t \in Servers : R[t] = renaming[t] \/ R[t].overtaken
  BY <1>1, Overtaken
<1> HIDE DEF R
<1>7. /\ renaming' \in [Servers -> Call \cup {NoCall}]
      /\ renaming'[s] = NoCall
      /\ \A t \in Servers : renaming'[t] = NoCall \/ renaming'[t] = R[t]
  BY <1>5, <1>6
<1>8. CASE players' = players
  <2>1. excused' = excused
    BY <1>8 DEF UpdateNameWrites
  <2>2. players' \in [Ids -> Row \cup {NoRow}]
    BY <1>1, <1>8 DEF TypeOK
  <2>3. \A t \in Servers : renaming'[t] = renaming[t] \/ renaming'[t] = NoCall
                             \/ renaming'[t].overtaken
    BY <1>6, <1>7
  <2>4. IInv'
    BY <1>7, <1>8, <2>1, <2>2, <2>3, NamesKept
  <2> QED BY <2>4, <1>3, <1>4
<1>9. CASE players' # players
  <2> DEFINE row == [players[i] EXCEPT !.playerName = name]
  <2>1. lands /\ WhereId(i) = {i}
    <3>1. players = [j \in Ids |-> players[j]]
      BY <1>1 DEF TypeOK
    <3> QED BY <1>2, <1>9, <3>1 DEF WhereId
  <2>2. players[i] \in Row
    BY <1>1, <2>1 DEF WhereId, Rows, TypeOK
  <2>3. row \in Row /\ row.playerName = name
    BY <1>1, <2>2 DEF Row
  <2>4. players' = [players EXCEPT ![i] = row]
    BY <1>1, <1>2, <2>1 DEF TypeOK
  <2>5. \/ excused' = excused \cup {i}
        \/ excused' = excused \ {i} /\ ~call.failed /\ ~call.overtaken
    BY <1>9 DEF UpdateNameWrites
  <2>6. call # NoCall
    BY DEF UpdateNameWrites, Idle
  <2>7. excused' = excused \cup {i} \/ (excused' = excused \ {i} /\ ~NameTaken(name))
    BY <2>5, <2>6 DEF IInv, FreeStaysFree
  <2> HIDE DEF row, call, name, i
  <2>8. IInv'
    BY <1>1, <1>7, <2>3, <2>4, <2>7, NameWritten DEF R
  <2> QED BY <2>8, <1>3, <1>4 DEF i, call
<1> QED BY <1>8, <1>9

LEMMA NextIInv == IInv /\ [Next]_vars => IInv'
<1> SUFFICES ASSUME IInv, [Next]_vars PROVE IInv'
  OBVIOUS
<1>1. CASE Next
  <2> PICK s \in Servers :
        \/ \E i \in Ids, name \in Names, value \in Values : CreateNewPlayer(s, i, name, value)
        \/ \E i \in Ids, value \in Values : UpdatePlayerInfo(s, i, value)
        \/ \E i \in Ids, col \in Columns, value \in Values : UpdateOneCol(s, i, col, value)
        \/ \E i \in Ids, name \in Names : UpdateNameLooks(s, i, name)
        \/ UpdateNameWrites(s)
    BY <1>1 DEF Next
  <2> QED BY CreateStep, SaveStep, OneColStep, LookStep, WriteStep
<1>2. CASE UNCHANGED vars
  BY <1>2 DEF vars, IInv, TypeOK, NamesAreUnique, FreeStaysFree, Rows, NameTaken
<1> QED BY <1>1, <1>2

-----------------------------------------------------------------------------
(* The theorems. *)

LEMMA Inductive == Spec => []IInv
  BY InitIInv, NextIInv, PTL DEF Spec

\* Two players share a name only if CreateNewPlayer, a failed look-up or an
\* overtaking process gave one of them the name.
THEOREM NamesStayUnique == Spec => []NamesAreUnique
<1>1. IInv => NamesAreUnique
  BY DEF IInv
<1> QED BY <1>1, Inductive, PTL

\* A call changes the row of its own player only.
THEOREM StatementsKeepToTheirRow == Spec => OwnRowOnly
<1> DEFINE Own == \A i \in Ids : players'[i] # players[i] => target' = i
<1>1. ASSUME IInv, [Next]_vars
      PROVE  [Own]_vars
  <2>1. ASSUME NEW s \in Servers, NEW i \in Ids, NEW name \in Names, NEW value \in Values,
               CreateNewPlayer(s, i, name, value)
        PROVE  Own
    BY <1>1, <2>1 DEF CreateNewPlayer, IInv, TypeOK
  <2>2. ASSUME NEW s \in Servers, NEW i \in Ids, NEW value \in Values,
               UpdatePlayerInfo(s, i, value)
        PROVE  Own
    BY <1>1, <2>2 DEF UpdatePlayerInfo, updateFun, WhereId, IInv, TypeOK
  <2>3. ASSUME NEW s \in Servers, NEW i \in Ids, NEW col \in Columns, NEW value \in Values,
               UpdateOneCol(s, i, col, value)
        PROVE  Own
    BY <1>1, <2>3, OneColStep
  <2>4. ASSUME NEW s \in Servers, NEW i \in Ids, NEW name \in Names,
               UpdateNameLooks(s, i, name)
        PROVE  Own
    BY <2>4 DEF UpdateNameLooks
  <2>5. ASSUME NEW s \in Servers, UpdateNameWrites(s)
        PROVE  Own
    BY <1>1, <2>5, WriteStep
  <2> QED BY <1>1, <2>1, <2>2, <2>3, <2>4, <2>5 DEF Next
<1>2. IInv /\ [Next]_vars => [Own]_vars
  BY <1>1
<1> QED BY <1>2, Inductive, PTL DEF Spec, OwnRowOnly

-----------------------------------------------------------------------------
(* The filters: what folding does to a position. *)

\* compress: the remainder by the new size is the position itself or the one
\* half-way down, when the table is at most halved.
LEMMA RemainderFolds ==
  ASSUME NEW p \in Nat, NEW new \in Nat \ {0}, p < 2 * new
  PROVE  p % new = IF p < new THEN p ELSE p - new
  BY SMT

\* compress: whatever its size, the new table has a place for every hash.
LEMMA RemainderFits ==
  ASSUME NEW p \in Nat, NEW new \in Nat \ {0}
  PROVE  p % new \in 0 .. new - 1
  BY SMT

\* compress: a bit that was set is set at its folded position.
LEMMA FoldedKeeps ==
  ASSUME NEW f, f.bits \subseteq Nat, NEW new \in Nat \ {0},
         NEW p \in f.bits, p < 2 * new
  PROVE  p % new \in Folded(f, new)
<1>1. p \in Nat
  OBVIOUS
<1>2. CASE p < new
  <2>1. p % new = p
    BY <1>1, <1>2, RemainderFolds
  <2> QED BY <2>1, <1>2 DEF Folded
<1>3. CASE ~ p < new
  <2>1. p % new = p - new
    BY <1>1, <1>3, RemainderFolds
  <2>2. p >= new
    BY <1>1, <1>3, SMT
  <2> QED BY <2>1, <2>2 DEF Folded
<1> QED BY <1>2, <1>3

-----------------------------------------------------------------------------
(* The invariant. *)

\* A filter whose hashes all have a place in its table; without a table it has
\* no hashes.
Sound(f) ==
  /\ f \in FilterType
  /\ f.size = 0 => \A k \in Keys : HashesOf[f.par][k] = {}
  /\ f.size # 0 => \A h \in Hashes : f.place[h] < f.size

\* The keys are in it.
Holds(f, ks) == \A k \in ks : Contains(f, k)

FilterIInv ==
  /\ FiltersTypeOK
  /\ \A n \in Filters : Sound(filter[n]) /\ Holds(filter[n], keys[n])
  /\ filter[Server].par = Unset

\* The places of a key are numbers.
LEMMA PositionsType ==
  ASSUME NEW f \in FilterType, NEW k \in Keys
  PROVE  /\ HashesOf[f.par][k] \subseteq Hashes
         /\ Positions(f, k) \subseteq Nat
<1>1. f.par \in Parameters /\ f.place \in [Hashes -> Nat]
  BY DEF FilterType
<1>2. HashesOf[f.par][k] \subseteq Hashes
  BY <1>1, FilterAssumption
<1> QED BY <1>1, <1>2 DEF Positions

\* The constructor makes a filter.
LEMMA ConstructSound ==
  ASSUME NEW par \in Parameters
  PROVE  Sound(Construct(par)) /\ Holds(Construct(par), {}) /\ Construct(par).par = par
<1>1. /\ TableSize[par] \in Nat
      /\ Hashes \subseteq Nat
      /\ TableSize[par] = 0 => \A k \in Keys : HashesOf[par][k] = {}
  BY FilterAssumption
<1> DEFINE size == TableSize[par]
           place == [h \in Hashes |-> IF size = 0 THEN 0 ELSE h % size]
<1>2. ASSUME NEW h \in Hashes, size # 0
      PROVE  h % size \in 0 .. size - 1
  BY <1>1, <1>2, RemainderFits
<1>3. place \in [Hashes -> Nat]
  BY <1>1, <1>2
<1>4. size # 0 => \A h \in Hashes : place[h] < size
  BY <1>1, <1>2
<1>5. Construct(par) = [par |-> par, size |-> size, place |-> place, bits |-> {}]
  BY DEF Construct
<1> HIDE DEF place, size
<1>6. Construct(par) \in FilterType
  BY <1>1, <1>3, <1>5 DEF FilterType, size
<1> QED BY <1>1, <1>4, <1>5, <1>6 DEF Sound, Holds, size

\* A filter with other bits, but with those of the keys.
LEMMA OtherBits ==
  ASSUME NEW f, Sound(f), NEW bits \in SUBSET Nat, NEW ks \in SUBSET Keys,
         \A k \in ks : Positions(f, k) \subseteq bits
  PROVE  /\ Sound([f EXCEPT !.bits = bits])
         /\ Holds([f EXCEPT !.bits = bits], ks)
         /\ [f EXCEPT !.bits = bits].par = f.par
<1> DEFINE g == [f EXCEPT !.bits = bits]
<1>1. /\ g.bits = bits /\ g.par = f.par /\ g.size = f.size /\ g.place = f.place
      /\ g \in FilterType
  BY DEF FilterType, Sound
<1> HIDE DEF g
<1>2. Sound(g)
  BY <1>1 DEF Sound
<1>3. Holds(g, ks)
  BY <1>1 DEF Holds, Contains, Positions
<1> QED BY <1>1, <1>2, <1>3 DEF g

\* insert: the filter stays one, holds the keys and what it held.
LEMMA InsertHolds ==
  ASSUME NEW f, Sound(f), NEW new \in SUBSET Keys, NEW ks \in SUBSET Keys, Holds(f, ks)
  PROVE  /\ Sound(Insert(f, new)) /\ Holds(Insert(f, new), ks \cup new)
         /\ Insert(f, new).par = f.par
<1> DEFINE bits == f.bits \cup UNION {Positions(f, k) : k \in new}
<1>1. bits \in SUBSET Nat
  <2>1. \A k \in new : Positions(f, k) \subseteq Nat
    BY PositionsType DEF Sound
  <2> QED BY <2>1 DEF Sound, FilterType
<1>2. \A j \in ks \cup new : Positions(f, j) \subseteq bits
  BY DEF Holds, Contains
<1>3. Insert(f, new) = [f EXCEPT !.bits = bits]
  BY DEF Insert
<1>4. ks \cup new \in SUBSET Keys
  OBVIOUS
<1> HIDE DEF bits
<1>5. /\ Sound([f EXCEPT !.bits = bits])
      /\ Holds([f EXCEPT !.bits = bits], ks \cup new)
      /\ [f EXCEPT !.bits = bits].par = f.par
  BY <1>1, <1>2, <1>4, OtherBits
<1> QED BY <1>3, <1>5

\* compress: the folded table holds what the table held, if it is at least half
\* as long.
LEMMA CompressHolds ==
  ASSUME NEW f, Sound(f), NEW ks \in SUBSET Keys, Holds(f, ks),
         NEW new \in Nat \ {0}, f.size # 0, new < f.size
  PROVE  /\ Sound(Compressed(f, new)) /\ Compressed(f, new).par = f.par
         /\ f.size <= 2 * new => Holds(Compressed(f, new), ks)
<1> DEFINE g == Compressed(f, new)
           place == [h \in Hashes |-> f.place[h] % new]
<1>1. /\ f.size \in Nat /\ f.place \in [Hashes -> Nat] /\ f.bits \subseteq Nat
      /\ \A h \in Hashes : f.place[h] < f.size
  BY DEF Sound, FilterType
<1>2. \A h \in Hashes : place[h] \in 0 .. new - 1
  BY <1>1, RemainderFits
<1>3. place \in [Hashes -> Nat] /\ \A h \in Hashes : place[h] < new
  BY <1>2
<1>4. Folded(f, new) \subseteq Nat
  BY <1>1 DEF Folded
<1>5. /\ g.size = new /\ g.par = f.par /\ g.place = place /\ g.bits = Folded(f, new)
      /\ g \in FilterType
  BY <1>3, <1>4 DEF Sound, FilterType, Compressed
<1> HIDE DEF g
<1>6. Sound(g)
  BY <1>3, <1>5 DEF Sound
<1>7. ASSUME f.size <= 2 * new, NEW k \in ks
      PROVE  Contains(g, k)
  <2>1. ASSUME NEW h \in HashesOf[f.par][k]
        PROVE  g.place[h] \in g.bits
    <3>1. h \in Hashes
      BY PositionsType DEF Sound
    <3>2. f.place[h] \in f.bits
      BY DEF Holds, Contains, Positions
    <3>3. f.place[h] < 2 * new
      BY <1>1, <1>7, <3>1
    <3>4. f.place[h] % new \in Folded(f, new)
      BY <1>1, <3>2, <3>3, FoldedKeeps
    <3> QED BY <1>5, <3>1, <3>4
  <2> HIDE DEF place
  <2> QED BY <1>5, <2>1 DEF Contains, Positions
<1> QED BY <1>5, <1>6, <1>7 DEF Holds, g

-----------------------------------------------------------------------------
(* The steps. *)

\* A step that gives one filter, and its keys, other values.
LEMMA OneFilterChanges ==
  ASSUME FilterIInv, NEW n \in Filters, NEW g, NEW ks \in SUBSET Keys,
         filter' = [filter EXCEPT ![n] = g],
         keys' = [keys EXCEPT ![n] = ks],
         listed' \subseteq Pids,
         Sound(g), Holds(g, ks), g.par = filter[n].par \/ (n = Server => g.par = Unset)
  PROVE  FilterIInv'
<1>1. g \in FilterType
  BY DEF Sound
<1>2. FiltersTypeOK'
  BY <1>1 DEF FilterIInv, FiltersTypeOK
<1>3. \A m \in Filters : /\ filter'[m] = IF m = n THEN g ELSE filter[m]
                         /\ keys'[m] = IF m = n THEN ks ELSE keys[m]
  BY DEF FilterIInv, FiltersTypeOK
<1>4. \A m \in Filters : Sound(filter'[m]) /\ Holds(filter'[m], keys'[m])
  BY <1>3 DEF FilterIInv
<1>5. filter'[Server].par = Unset
  BY <1>3, FilterAssumption DEF FilterIInv
<1> QED BY <1>2, <1>4, <1>5 DEF FilterIInv

\* A step that gives one filter other bits.
LEMMA BitsChange ==
  ASSUME FilterIInv, NEW n \in Filters, NEW bits \in SUBSET Nat, NEW ks \in SUBSET Keys,
         filter' = [filter EXCEPT ![n].bits = bits],
         keys' = [keys EXCEPT ![n] = ks],
         UNCHANGED listed,
         \A k \in ks : Positions(filter[n], k) \subseteq bits
  PROVE  FilterIInv'
<1> DEFINE g == [filter[n] EXCEPT !.bits = bits]
<1>1. Sound(filter[n]) /\ listed' \subseteq Pids
  BY DEF FilterIInv, FiltersTypeOK
<1>2. Sound(g) /\ Holds(g, ks) /\ g.par = filter[n].par
  BY <1>1, OtherBits
<1>3. filter' = [filter EXCEPT ![n] = g]
  BY DEF FilterIInv, FiltersTypeOK
<1> HIDE DEF g
<1> QED BY <1>1, <1>2, <1>3, OneFilterChanges

\* What a filter may not deny is in it.
LEMMA KeysIn ==
  ASSUME FilterIInv, NEW n \in Filters, NEW k \in keys[n]
  PROVE  /\ k \in Keys
         /\ Positions(filter[n], k) \subseteq filter[n].bits
         /\ Sound(filter[n])
  BY DEF FilterIInv, FiltersTypeOK, Holds, Contains

\* The places of a key are in the table.
LEMMA PositionsInTable ==
  ASSUME NEW f, Sound(f), NEW k \in Keys
  PROVE  \A p \in Positions(f, k) : p < f.size
<1>1. CASE f.size = 0
  BY <1>1 DEF Sound, Positions
<1>2. CASE f.size # 0
  <2>1. HashesOf[f.par][k] \subseteq Hashes
    BY PositionsType DEF Sound
  <2> QED BY <1>2, <2>1 DEF Sound, Positions
<1> QED BY <1>1, <1>2

LEMMA InitFilterIInv == FilterInit => FilterIInv
<1> SUFFICES ASSUME FilterInit PROVE FilterIInv
  OBVIOUS
<1>1. PICK par \in [Filters -> Parameters] :
        par[Server] = Unset /\ filter = [n \in Filters |-> Construct(par[n])]
  BY DEF FilterInit
<1>2. \A n \in Filters : /\ filter[n] = Construct(par[n]) /\ keys[n] = {}
                         /\ Sound(filter[n]) /\ Holds(filter[n], keys[n])
  BY <1>1, ConstructSound DEF FilterInit
<1>3. filter \in [Filters -> FilterType]
  BY <1>1, <1>2 DEF Sound
<1>4. filter[Server].par = Unset
  BY <1>1, FilterAssumption, ConstructSound
<1> QED BY <1>2, <1>3, <1>4 DEF FilterIInv, FiltersTypeOK, FilterInit

LEMMA InsertStep ==
  ASSUME FilterIInv, NEW n \in Others, NEW k \in Keys, insert(n, k)
  PROVE  FilterIInv'
<1> DEFINE g == Insert(filter[n], {k})
           ks == keys[n] \cup {k}
<1>1. n \in Filters /\ keys[n] \in SUBSET Keys /\ ks \in SUBSET Keys
  BY DEF Others, FilterIInv, FiltersTypeOK
<1>2. Sound(g) /\ Holds(g, ks) /\ g.par = filter[n].par
  BY <1>1, InsertHolds DEF FilterIInv
<1>3. filter' = [filter EXCEPT ![n] = g] /\ keys' = [keys EXCEPT ![n] = ks]
      /\ listed' \subseteq Pids
  BY DEF insert, FilterIInv, FiltersTypeOK
<1> HIDE DEF g, ks
<1> QED BY <1>1, <1>2, <1>3, OneFilterChanges

LEMMA ClearStep ==
  ASSUME FilterIInv, NEW n \in Others, clear(n)
  PROVE  FilterIInv'
<1>1. n \in Filters /\ {} \in SUBSET Nat /\ {} \in SUBSET Keys
  BY DEF Others
<1> QED BY <1>1, BitsChange DEF clear

LEMMA AssignStep ==
  ASSUME FilterIInv, NEW n \in Others, NEW m \in Others, assign(n, m)
  PROVE  FilterIInv'
<1>1. n \in Filters /\ m \in Filters /\ n # Server /\ keys[m] \in SUBSET Keys
  BY DEF Others, FilterIInv, FiltersTypeOK
<1>2. Sound(filter[m]) /\ Holds(filter[m], keys[m]) /\ listed' \subseteq Pids
  BY <1>1 DEF FilterIInv, FiltersTypeOK, assign
<1> QED BY <1>1, <1>2, OneFilterChanges DEF assign

LEMMA UniteStep ==
  ASSUME FilterIInv, NEW n \in Others, NEW m \in Others, unite(n, m)
  PROVE  FilterIInv'
<1>1. n \in Filters /\ m \in Filters
  BY DEF Others
<1>2. PICK beyond \in Beyond(filter[m], filter[n]) :
        filter' = [filter EXCEPT ![n].bits =
                     @ \cup SeenIn(filter[m], filter[n], beyond)]
  BY DEF unite
<1> DEFINE seen == SeenIn(filter[m], filter[n], beyond)
           ks == keys[n] \cup IF filter[n].place = filter[m].place THEN keys[m] ELSE {}
<1>3. /\ filter[n] \in FilterType /\ filter[m] \in FilterType
      /\ keys[n] \in SUBSET Keys /\ keys[m] \in SUBSET Keys
  BY <1>1 DEF FilterIInv, FiltersTypeOK
<1>4. filter[n].bits \in SUBSET Nat /\ filter[m].bits \in SUBSET Nat
      /\ filter[n].size \in Nat /\ filter[m].size \in Nat
  BY <1>3 DEF FilterType
<1>5. beyond \in SUBSET Nat
  BY <1>4 DEF Beyond
<1>6. filter[n].bits \cup seen \in SUBSET Nat
  BY <1>4, <1>5 DEF SeenIn
<1>7. ASSUME NEW k \in ks
      PROVE  Positions(filter[n], k) \subseteq filter[n].bits \cup seen
  <2>1. CASE k \in keys[n]
    BY <1>1, <2>1, KeysIn
  <2>2. CASE k \in keys[m] /\ filter[n].place = filter[m].place
    <3>1. Positions(filter[m], k) \subseteq filter[m].bits /\ k \in Keys
      BY <1>1, <2>2, KeysIn
    <3>2. Positions(filter[n], k) = Positions(filter[m], k)
      BY <2>2 DEF Positions, unite, Comparable
    <3>3. \A p \in Positions(filter[n], k) : p < filter[n].size
      BY <1>1, <3>1, PositionsInTable DEF FilterIInv
    <3> QED BY <3>1, <3>2, <3>3 DEF SeenIn
  <2> QED BY <1>7, <2>1, <2>2
<1>8. filter' = [filter EXCEPT ![n].bits = filter[n].bits \cup seen]
  BY <1>1, <1>2 DEF FilterIInv, FiltersTypeOK
<1>9. keys' = [keys EXCEPT ![n] = ks] /\ UNCHANGED listed /\ ks \in SUBSET Keys
  BY <1>3 DEF unite
<1> HIDE DEF seen, ks
<1> QED BY <1>1, <1>6, <1>7, <1>8, <1>9, BitsChange

LEMMA IntersectStep ==
  ASSUME FilterIInv, NEW n \in Others, NEW m \in Others, intersect(n, m)
  PROVE  FilterIInv'
<1>1. n \in Filters /\ m \in Filters
  BY DEF Others
<1>2. PICK beyond \in Beyond(filter[m], filter[n]) :
        filter' = [filter EXCEPT ![n].bits =
                     @ \cap SeenIn(filter[m], filter[n], beyond)]
  BY DEF intersect
<1> DEFINE seen == SeenIn(filter[m], filter[n], beyond)
           ks == IF filter[n].place = filter[m].place THEN keys[n] \cap keys[m] ELSE {}
<1>3. /\ filter[n] \in FilterType
      /\ keys[n] \in SUBSET Keys /\ keys[m] \in SUBSET Keys
  BY <1>1 DEF FilterIInv, FiltersTypeOK
<1>4. filter[n].bits \cap seen \in SUBSET Nat
  BY <1>3 DEF FilterType
<1>5. ASSUME NEW k \in ks
      PROVE  Positions(filter[n], k) \subseteq filter[n].bits \cap seen
  <2>1. k \in keys[n] /\ k \in keys[m] /\ filter[n].place = filter[m].place
    BY <1>5
  <2>2. /\ Positions(filter[n], k) \subseteq filter[n].bits /\ k \in Keys
        /\ Positions(filter[m], k) \subseteq filter[m].bits
    BY <1>1, <2>1, KeysIn
  <2>3. Positions(filter[n], k) = Positions(filter[m], k)
    BY <2>1 DEF Positions, intersect, Comparable
  <2>4. \A p \in Positions(filter[n], k) : p < filter[n].size
    BY <1>1, <2>2, PositionsInTable DEF FilterIInv
  <2> QED BY <2>2, <2>3, <2>4 DEF SeenIn
<1>6. filter' = [filter EXCEPT ![n].bits = filter[n].bits \cap seen]
  BY <1>1, <1>2 DEF FilterIInv, FiltersTypeOK
<1>7. keys' = [keys EXCEPT ![n] = ks] /\ UNCHANGED listed /\ ks \in SUBSET Keys
  BY <1>3 DEF intersect
<1> HIDE DEF seen, ks
<1> QED BY <1>1, <1>4, <1>5, <1>6, <1>7, BitsChange

LEMMA DifferStep ==
  ASSUME FilterIInv, NEW n \in Others, NEW m \in Others, differ(n, m)
  PROVE  FilterIInv'
<1>1. n \in Filters /\ m \in Filters
  BY DEF Others
<1>2. PICK beyond \in Beyond(filter[m], filter[n]) :
        LET seen == SeenIn(filter[m], filter[n], beyond)
        IN  filter' = [filter EXCEPT ![n].bits = (@ \ seen) \cup (seen \ @)]
  BY DEF differ
<1> DEFINE seen == SeenIn(filter[m], filter[n], beyond)
           bits == (filter[n].bits \ seen) \cup (seen \ filter[n].bits)
<1>3. filter[n] \in FilterType /\ filter[m] \in FilterType
  BY <1>1 DEF FilterIInv, FiltersTypeOK
<1>4. filter[n].bits \in SUBSET Nat /\ filter[m].bits \in SUBSET Nat
      /\ filter[n].size \in Nat /\ filter[m].size \in Nat
  BY <1>3 DEF FilterType
<1>5. beyond \in SUBSET Nat
  BY <1>4 DEF Beyond
<1>6. bits \in SUBSET Nat
  BY <1>4, <1>5 DEF SeenIn
<1>7. filter' = [filter EXCEPT ![n].bits = bits]
  BY <1>1, <1>2 DEF FilterIInv, FiltersTypeOK
<1> DEFINE ks == {}
<1>8. /\ keys' = [keys EXCEPT ![n] = ks] /\ UNCHANGED listed /\ ks \in SUBSET Keys
      /\ \A k \in ks : Positions(filter[n], k) \subseteq bits
  BY DEF differ
<1> HIDE DEF bits, ks
<1> QED BY <1>1, <1>6, <1>7, <1>8, BitsChange

LEMMA CompressStep ==
  ASSUME FilterIInv, NEW n \in Others, NEW wanted \in 0 .. filter[n].size - 1,
         compress(n, wanted)
  PROVE  FilterIInv'
<1> DEFINE f == filter[n]
           new == wanted - (wanted % BitsPerChar)
           g == Compressed(f, new)
           ks == IF f.size <= 2 * new THEN keys[n] ELSE {}
<1>1. n \in Filters
  BY DEF Others
<1>2. Sound(f) /\ Holds(f, keys[n]) /\ keys[n] \in SUBSET Keys /\ f.size \in Nat
  BY <1>1 DEF FilterIInv, FiltersTypeOK, Sound, FilterType
<1>3. BitsPerChar <= new /\ new < f.size
  BY DEF compress
<1>4. wanted \in Nat /\ BitsPerChar \in Nat \ {0}
  BY <1>2, FilterAssumption
<1>5. wanted % BitsPerChar \in 0 .. BitsPerChar - 1
  BY <1>4, RemainderFits
<1>6. new \in Nat \ {0} /\ f.size # 0
  BY <1>2, <1>3, <1>4, <1>5
<1>7. filter' = [filter EXCEPT ![n] = g] /\ keys' = [keys EXCEPT ![n] = ks]
      /\ UNCHANGED listed
  BY <1>1 DEF compress
<1> HIDE DEF f, new, g, ks
<1>8. Sound(g) /\ (f.size <= 2 * new => Holds(g, keys[n])) /\ g.par = f.par
  BY <1>2, <1>3, <1>6, CompressHolds DEF g
<1>9. Holds(g, ks) /\ ks \in SUBSET Keys
  BY <1>2, <1>8 DEF ks, Holds
<1> QED BY <1>1, <1>7, <1>8, <1>9, OneFilterChanges DEF f, FilterIInv, FiltersTypeOK

LEMMA BloomFilterInitStep ==
  ASSUME FilterIInv, BloomFilterInit
  PROVE  FilterIInv'
<1>1. Server \in Filters /\ Unset \in Parameters /\ {} \in SUBSET Keys
  BY FilterAssumption
<1>2. Sound(Construct(Unset)) /\ Holds(Construct(Unset), {}) /\ Construct(Unset).par = Unset
  BY <1>1, ConstructSound
<1>3. listed' \subseteq Pids
  BY DEF BloomFilterInit, FilterIInv, FiltersTypeOK
<1> QED BY <1>1, <1>2, <1>3, OneFilterChanges DEF BloomFilterInit, ServerParameters

\* newPlayer, reinit and setPlayerInfo
LEMMA TakesStep ==
  ASSUME FilterIInv, NEW new \in SUBSET Keys, NEW ids \in SUBSET Pids, Takes(new, ids)
  PROVE  FilterIInv'
<1> DEFINE g == Insert(filter[Server], new)
           ks == keys[Server] \cup new
<1>1. Server \in Filters
  BY FilterAssumption
<1>2. keys[Server] \in SUBSET Keys /\ ks \in SUBSET Keys
  BY <1>1 DEF FilterIInv, FiltersTypeOK
<1>3. Sound(g) /\ Holds(g, ks) /\ g.par = filter[Server].par
  BY <1>1, <1>2, InsertHolds DEF FilterIInv
<1>4. filter' = [filter EXCEPT ![Server] = g] /\ keys' = [keys EXCEPT ![Server] = ks]
      /\ listed' \subseteq Pids
  BY DEF Takes, FilterIInv, FiltersTypeOK
<1> HIDE DEF g, ks
<1> QED BY <1>1, <1>2, <1>3, <1>4, OneFilterChanges

LEMMA NextFilterIInv == FilterIInv /\ [FilterNext]_filterVars => FilterIInv'
<1> SUFFICES ASSUME FilterIInv, [FilterNext]_filterVars PROVE FilterIInv'
  OBVIOUS
<1>1. CASE \E n \in Others : \E k \in Keys : insert(n, k)
  BY <1>1, InsertStep
<1>2. CASE \E n \in Others : clear(n)
  BY <1>2, ClearStep
<1>3. CASE \E n \in Others, m \in Others : assign(n, m)
  BY <1>3, AssignStep
<1>4. CASE \E n \in Others, m \in Others : unite(n, m)
  BY <1>4, UniteStep
<1>5. CASE \E n \in Others, m \in Others : intersect(n, m)
  BY <1>5, IntersectStep
<1>6. CASE \E n \in Others, m \in Others : differ(n, m)
  BY <1>6, DifferStep
<1>7. CASE \E n \in Others : \E wanted \in 0 .. filter[n].size - 1 : compress(n, wanted)
  BY <1>7, CompressStep
<1>8. CASE BloomFilterInit
  BY <1>8, BloomFilterInitStep
<1>9. ASSUME NEW ids \in SUBSET Pids, reinit(ids) PROVE FilterIInv'
  <2>1. ids \cup {TheVector} \in SUBSET Keys
    BY FilterAssumption
  <2> QED BY <1>9, <2>1, TakesStep DEF reinit
<1>10. ASSUME NEW p \in Pids, newPlayer(p) \/ setPlayerInfo(p) PROVE FilterIInv'
  <2>1. {p} \in SUBSET Pids /\ {p} \in SUBSET Keys /\ {} \in SUBSET Keys
    BY FilterAssumption
  <2> QED BY <1>10, <2>1, TakesStep DEF newPlayer, setPlayerInfo
<1>11. CASE UNCHANGED filterVars
  BY <1>11 DEF filterVars, FilterIInv, FiltersTypeOK
<1> QED
  BY <1>1, <1>2, <1>3, <1>4, <1>5, <1>6, <1>7, <1>8, <1>9, <1>10, <1>11 DEF FilterNext

-----------------------------------------------------------------------------
(* The theorems. *)

LEMMA FilterInductive == FilterSpec => []FilterIInv
  BY InitFilterIInv, NextFilterIInv, PTL DEF FilterSpec

\* Every filter has its parameters, its size, a place for each hash and a set
\* of bits, whatever is done with it.
THEOREM FiltersTypeCorrect == FilterSpec => []FiltersTypeOK
<1>1. FilterIInv => FiltersTypeOK
  BY DEF FilterIInv
<1> QED BY <1>1, FilterInductive, PTL

\* contains() denies no key that insert, |=, &=, operator= and foldings down to
\* half the size have left in a filter, for any hash functions and table sizes.
THEOREM NoKeyDenied == FilterSpec => []NoFalseNegatives
<1>1. FilterIInv => NoFalseNegatives
  BY DEF FilterIInv, Holds, NoFalseNegatives
<1> QED BY <1>1, FilterInductive, PTL

\* The server's filter, without hash functions, lets every player of the rank
\* list pass: those it was given, those listed before it was made and those that
\* setPlayerInfo lists.
THEOREM NoListedPlayerBlocked == FilterSpec => []ListedPlayersPass
<1>1. ASSUME FilterIInv, NEW p \in listed
      PROVE  Contains(filter[Server], p)
  <2>1. p \in Keys /\ Unset \in Parameters
    BY FilterAssumption, <1>1 DEF FilterIInv, FiltersTypeOK
  <2>2. HashesOf[Unset][p] = {}
    BY <2>1, FilterAssumption, UnsetAssumption
  <2> QED BY <1>1, <2>2 DEF FilterIInv, Contains, Positions
<1>2. FilterIInv => ListedPlayersPass
  BY <1>1 DEF ListedPlayersPass
<1> QED BY <1>2, FilterInductive, PTL
=============================================================================
