---------------------------- MODULE PlayerTable -----------------------------
(***************************************************************************)
(* Table players as the statements of MySqlMgr change it.  Every process   *)
(* with a connection (a server, a second server on the same database) runs *)
(* one call at a time; the statements of different processes come in any   *)
(* order, and a statement may fail.                                        *)
(*                                                                         *)
(* A row is the player's name and the rest of its columns (rank, exp,      *)
(* bagInfo) as one value: a save writes them together.  The look-ups that  *)
(* only fill a message or a map are in GameServer and RankCache.           *)
(***************************************************************************)
EXTENDS FiniteSets

CONSTANTS
  Servers,    \* the processes
  Ids,        \* player ids, the key of the table
  Names,      \* playerName
  Columns,    \* the names of the other columns
  Values,     \* what they hold
  NoRow,      \* no row for an id
  NoCall      \* a process that is not within UpdateName

ASSUME TableAssumption ==
  /\ NoRow \notin [playerName : Names, rest : Values]
  /\ NoCall \notin [id : Ids, newName : Names, failed : BOOLEAN, overtaken : BOOLEAN]

VARIABLES
  players,    \* Ids -> row or NoRow
  renaming,   \* Servers -> the call of UpdateName between its two statements
  target,     \* the id the last statement was made for
  excused     \* history: ids whose name was written without a good look-up
vars == <<players, renaming, target, excused>>

-----------------------------------------------------------------------------
(* Statements. *)

Rows == {i \in Ids : players[i] # NoRow}
NameTaken(name) == \E i \in Rows : players[i].playerName = name

\* updateFun: the statement changes the rows it selects.  If it fails nothing
\* has changed, or the connection broke after it had.
updateFun(i, selected, Change(_)) ==
  /\ target' = i
  /\ \E lands \in BOOLEAN :
       players' = [j \in Ids |-> IF lands /\ j \in selected THEN Change(players[j])
                                                            ELSE players[j]]

\* "where id =" of a row that is there or not
WhereId(i) == Rows \cap {i}

\* A process that is about to write the same name has been overtaken.
Overtake(s, name) ==
  [t \in Servers |-> IF t # s /\ renaming[t] # NoCall /\ renaming[t].newName = name
                       THEN [renaming[t] EXCEPT !.overtaken = TRUE]
                       ELSE renaming[t]]

-----------------------------------------------------------------------------
(* The calls. *)

Idle(s) == renaming[s] = NoCall

\* CreateNewPlayer inserts the name it is given without looking for it.
CreateNewPlayer(s, i, name, value) ==
  /\ Idle(s) /\ players[i] = NoRow
  /\ players' = [players EXCEPT ![i] = [playerName |-> name, rest |-> value]]
  /\ excused' = excused \cup {i}
  /\ target' = i
  /\ renaming' = Overtake(s, name)

\* UpdatePlayerInfo
UpdatePlayerInfo(s, i, value) ==
  /\ Idle(s)
  /\ updateFun(i, WhereId(i), LAMBDA row : [row EXCEPT !.rest = value])
  /\ UNCHANGED <<renaming, excused>>

\* Variant: the column's name is compared with the literals, not its address.
SameText(col) == col \in {"rank", "exp", "bagInfo"}

\* UpdateOneCol compares the address of the text of its argument with those of
\* two literals, which are never the same.
SameAddress(col) == FALSE

\* UpdateOneCol, which UpdateRank, UpdateExp and UpdateBagInfo call with the
\* name of their column.  Its statement selects every row.
UpdateOneCol(s, i, col, value) ==
  /\ Idle(s)
  /\ IF SameAddress(col)
       THEN updateFun(i, Rows, LAMBDA row : [row EXCEPT !.rest = value])
       ELSE target' = i /\ UNCHANGED players
  /\ UNCHANGED <<renaming, excused>>

\* Variant: what existFun found is not looked at.
FoundIgnored(name, failed) == FALSE

\* What existFun leaves in bo: a failed look-up leaves it false.
Found(name, failed) == ~failed /\ NameTaken(name)

\* UpdateName looks for the name ...
UpdateNameLooks(s, i, name) ==
  /\ Idle(s)
  /\ \E failed \in BOOLEAN :
       renaming' =
         [renaming EXCEPT ![s] =
            IF Found(name, failed)
              THEN NoCall
              ELSE [id |-> i, newName |-> name, failed |-> failed, overtaken |-> FALSE]]
  /\ UNCHANGED <<players, target, excused>>

\* ... and writes it if it was not found.
UpdateNameWrites(s) ==
  LET call == renaming[s] IN
  /\ ~Idle(s)
  /\ updateFun(call.id, WhereId(call.id), LAMBDA row : [row EXCEPT !.playerName = call.newName])
  /\ renaming' = [Overtake(s, call.newName) EXCEPT ![s] = NoCall]
  /\ excused' = IF players' = players THEN excused
                ELSE IF call.failed \/ call.overtaken THEN excused \cup {call.id}
                ELSE excused \ {call.id}

Init ==
  /\ players \in [Ids -> [playerName : Names, rest : Values] \cup {NoRow}]
  /\ \A i, j \in Rows : players[i].playerName = players[j].playerName => i = j
  /\ renaming = [s \in Servers |-> NoCall]
  /\ target \in Ids
  /\ excused = {}

Next ==
  \E s \in Servers :
    \/ \E i \in Ids, name \in Names, value \in Values : CreateNewPlayer(s, i, name, value)
    \/ \E i \in Ids, value \in Values : UpdatePlayerInfo(s, i, value)
    \/ \E i \in Ids, col \in Columns, value \in Values : UpdateOneCol(s, i, col, value)
    \/ \E i \in Ids, name \in Names : UpdateNameLooks(s, i, name)
    \/ UpdateNameWrites(s)

Spec == Init /\ [][Next]_vars

-----------------------------------------------------------------------------
(* Properties. *)

(* MySqlMgr.cpp:111.  No call changes the row of another player than the   *)
(* one it is made for.  Three calls have a statement that would set the    *)
(* column of every player; what keeps them from it is that they compare    *)
(* addresses and so refuse every column.                                   *)
OwnRowOnly ==
  [][\A i \in Ids : players'[i] # players[i] => target' = i]_vars

(* MySqlMgr.cpp:248, "names may not repeat".  Two players have the same    *)
(* name only if one of the names was written by CreateNewPlayer, by an     *)
(* UpdateName whose look-up had failed, or by one that was overtaken by    *)
(* another process between its look-up and its update.                     *)
NamesAreUnique ==
  \A i, j \in Rows :
    players[i].playerName = players[j].playerName => i = j \/ {i, j} \cap excused # {}
=============================================================================
