---------------------------- MODULE PlayerStore -----------------------------
(***************************************************************************)
(* What the game server promises about items, whatever slots, entities and *)
(* messages it uses: a write-through cache of the rows of a table, seen    *)
(* through the number of every item a player owns.                         *)
(*                                                                         *)
(* A player is cached on login with what its row holds.  A request changes *)
(* one item of one cached player; a save copies the player's totals to its *)
(* row; a crash empties the cache.  A player that no row was read for is   *)
(* detached: its totals start at zero and its saves, if they reach a row   *)
(* at all, reach one that is not known.  The table takes some totals for   *)
(* others: a row saved with them is spoilt until the next save of it that  *)
(* is not, or until it is loaded as it is.                                 *)
(***************************************************************************)
EXTENDS Integers

CONSTANTS Players, Items

VARIABLES
  cached,         \* the players in the cache
  detached,       \* those of them that were not loaded
  current,        \* the totals of a cached player, Zero for any other
  durable,        \* the totals of a player's row
  spoilt          \* the players whose row was altered as it was saved

vars == <<cached, detached, current, durable, spoilt>>

Zero == [i \in Items |-> 0]

Init ==
  /\ cached = {} /\ detached = {} /\ spoilt = {}
  /\ current = [p \in Players |-> Zero]
  /\ durable \in [Players -> [Items -> Int]]

Load(p) ==
  /\ p \notin cached
  /\ cached' = cached \cup {p}
  /\ current' = [current EXCEPT ![p] = durable[p]]
  /\ spoilt' = spoilt \ {p}
  /\ UNCHANGED <<detached, durable>>

Register(p) ==
  /\ p \notin cached
  /\ cached' = cached \cup {p} /\ detached' = detached \cup {p}
  /\ UNCHANGED <<current, durable, spoilt>>

\* One item of one cached player changes; the rows do not.
Change(p, i) ==
  /\ p \in cached
  /\ UNCHANGED <<cached, detached>>
  /\ current'[p][i] \in Int
  /\ current' = [current EXCEPT ![p][i] = current'[p][i]]
  /\ UNCHANGED <<durable, spoilt>>

\* The totals of p reach the row of q: their own, unless p is detached.
Reaches(p, q) == p \in cached /\ (p = q \/ p \in detached)

Save(p, q) ==
  /\ Reaches(p, q)
  /\ durable' = [durable EXCEPT ![q] = current[p]]
  /\ spoilt' = spoilt \ {q}
  /\ UNCHANGED <<cached, detached, current>>

SaveSpoils(p, q) ==
  /\ Reaches(p, q)
  /\ durable'[q] \in [Items -> Int]
  /\ durable' = [durable EXCEPT ![q] = durable'[q]]
  /\ spoilt' = spoilt \cup {q}
  /\ UNCHANGED <<cached, detached, current>>

Crash ==
  /\ cached' = {} /\ detached' = {} /\ spoilt' = {}
  /\ current' = [p \in Players |-> Zero]
  /\ UNCHANGED durable

Next ==
  \/ \E p \in Players : Load(p) \/ Register(p)
  \/ \E p \in Players, i \in Items : Change(p, i)
  \/ \E p, q \in Players : Save(p, q) \/ SaveSpoils(p, q)
  \/ Crash

Spec == Init /\ [][Next]_vars
=============================================================================
