---------------------------- MODULE BloomFilter -----------------------------
(***************************************************************************)
(* The Bloom filter of include/bloom_filter.h and what CacheManager makes  *)
(* of it.  A filter is a table of bits, kept as the set of the positions   *)
(* that are 1; a key has a hash for each hash function (hash_ap with each  *)
(* salt), and compute_indices places a hash in the table.                  *)
(*                                                                         *)
(* compressible_bloom_filter folds its table: place is then the remainder  *)
(* by every size the table has had, one after the other.                   *)
(***************************************************************************)
EXTENDS Integers, FiniteSets

CONSTANTS
  Filters,      \* the filter objects
  Server,       \* CacheManager::bloomFilter, one of them
  Parameters,   \* the parameters (hash count, seed, size) filters are made with
  Unset,        \* parameters of which compute_optimal_parameters was not called
  Optimal,      \* the same, called
  TableSize,    \* Parameters -> bits of the table
  BitsPerChar,  \* bits of a cell (8)
  Keys,         \* what is inserted: values by their bytes
  Pids,         \* player ids, some of the keys
  TheVector,    \* the bytes of a std::vector object, a key that is no id
  Hashes,       \* the hash values
  HashesOf      \* Parameters -> Keys -> the hashes of the key

ASSUME FilterAssumption ==
  /\ Server \in Filters
  /\ {Unset, Optimal} \subseteq Parameters
  /\ BitsPerChar \in Nat \ {0}
  /\ TableSize \in [Parameters -> Nat]
  /\ Pids \subseteq Keys /\ TheVector \in Keys
  /\ Hashes \subseteq Nat
  /\ HashesOf \in [Parameters -> [Keys -> SUBSET Hashes]]
  /\ \A par \in Parameters : TableSize[par] = 0 => \A k \in Keys : HashesOf[par][k] = {}

\* optimal_parameters_t starts with no hash functions and an empty table.
ASSUME UnsetAssumption == TableSize[Unset] = 0

VARIABLES
  filter,   \* Filters -> a filter
  keys,     \* Filters -> the keys it may not deny (history)
  listed    \* the players of the rank list, which Redis keeps over restarts
filterVars == <<filter, keys, listed>>

-----------------------------------------------------------------------------
(* Filters. *)

\* The members of a bloom_filter: its parameters, the bits of its table, where
\* it places each hash, and the bits that are 1.
FilterType == [par : Parameters, size : Nat, place : [Hashes -> Nat], bits : SUBSET Nat]

\* bloom_filter(parameters)
Construct(par) ==
  [par   |-> par,
   size  |-> TableSize[par],
   place |-> [h \in Hashes |-> IF TableSize[par] = 0 THEN 0 ELSE h % TableSize[par]],
   bits  |-> {}]

\* compute_indices for every hash of the key
Positions(f, k) == {f.place[h] : h \in HashesOf[f.par][k]}

\* contains
Contains(f, k) == Positions(f, k) \subseteq f.bits

\* insert, of some keys
Insert(f, new) == [f EXCEPT !.bits = @ \cup UNION {Positions(f, k) : k \in new}]

\* The test of the three assignment operators.  It compares the size the table
\* was made with, not the one a compressed table has.
Comparable(f, g) == f.par = g.par

\* What a loop over the cells of f finds in g: beyond the end of g, anything.
SeenIn(g, f, beyond) == {p \in g.bits : p < f.size} \cup beyond
Beyond(g, f) == SUBSET (g.size .. f.size - 1)

\* Variant: the folded half takes the place of the kept one.
FoldedReplaces(f, new) == {p - new : p \in {q \in f.bits : q >= new /\ q < 2 * new}}

\* compress: the cells from new on are or-ed into those from 0 on.  (If there are
\* more of them than of those, the rest goes beyond the end of the new table.)
Folded(f, new) ==
  {p \in f.bits : p < new} \cup {p - new : p \in {q \in f.bits : q >= new /\ q < 2 * new}}

\* size_list grows: a hash is placed by the remainder of each size in turn.
Compressed(f, new) ==
  [f EXCEPT !.size = new,
            !.place = [h \in Hashes |-> f.place[h] % new],
            !.bits = Folded(f, new)]

-----------------------------------------------------------------------------
(* Calls on any filter. *)

FilterInit ==
  /\ \E par \in [Filters -> Parameters] :
       /\ par[Server] = Unset
       /\ filter = [n \in Filters |-> Construct(par[n])]
  /\ keys = [n \in Filters |-> {}]
  /\ listed = {}

insert(n, k) ==
  /\ filter' = [filter EXCEPT ![n] = Insert(@, {k})]
  /\ keys' = [keys EXCEPT ![n] = @ \cup {k}]
  /\ UNCHANGED listed

clear(n) ==
  /\ filter' = [filter EXCEPT ![n].bits = {}]
  /\ keys' = [keys EXCEPT ![n] = {}]
  /\ UNCHANGED listed

\* operator=
assign(n, m) ==
  /\ filter' = [filter EXCEPT ![n] = filter[m]]
  /\ keys' = [keys EXCEPT ![n] = keys[m]]
  /\ UNCHANGED listed

\* operator|=
unite(n, m) ==
  /\ Comparable(filter[n], filter[m])
  /\ \E beyond \in Beyond(filter[m], filter[n]) :
       filter' = [filter EXCEPT ![n].bits = @ \cup SeenIn(filter[m], filter[n], beyond)]
  /\ keys' = [keys EXCEPT ![n] =
                @ \cup IF filter[n].place = filter[m].place THEN keys[m] ELSE {}]
  /\ UNCHANGED listed

\* operator&=
intersect(n, m) ==
  /\ Comparable(filter[n], filter[m])
  /\ \E beyond \in Beyond(filter[m], filter[n]) :
       filter' = [filter EXCEPT ![n].bits = @ \cap SeenIn(filter[m], filter[n], beyond)]
  /\ keys' = [keys EXCEPT ![n] =
                IF filter[n].place = filter[m].place THEN @ \cap keys[m] ELSE {}]
  /\ UNCHANGED listed

\* operator^=, with which every promise ends
differ(n, m) ==
  /\ Comparable(filter[n], filter[m])
  /\ \E beyond \in Beyond(filter[m], filter[n]) :
       LET seen == SeenIn(filter[m], filter[n], beyond)
       IN filter' = [filter EXCEPT ![n].bits = (@ \ seen) \cup (seen \ @)]
  /\ keys' = [keys EXCEPT ![n] = {}]
  /\ UNCHANGED listed

\* compress, by a percentage that leaves `wanted' bits; whole cells are kept.
\* Above half of the table it writes past the new one and keeps no promise.
compress(n, wanted) ==
  LET f == filter[n]
      new == wanted - (wanted % BitsPerChar)
  IN /\ BitsPerChar <= new /\ new < f.size
     /\ filter' = [filter EXCEPT ![n] = Compressed(f, new)]
     /\ keys' = [keys EXCEPT ![n] = IF f.size <= 2 * new THEN @ ELSE {}]
     /\ UNCHANGED listed

-----------------------------------------------------------------------------
(* CacheManager. *)

\* Variant: compute_optimal_parameters is called.
ParametersComputed == Optimal

\* The parameters of BloomFilterInit.
ServerParameters == Unset

\* BloomFilterInit, at every start of the server: the new filter is copied to the
\* member.  The loop that would insert ids into the original has no round.  Redis
\* has its rank list from before.
BloomFilterInit ==
  /\ filter' = [filter EXCEPT ![Server] = Construct(ServerParameters)]
  /\ keys' = [keys EXCEPT ![Server] = {}]
  /\ UNCHANGED listed

\* The server's filter takes some keys, the rank list some ids.
Takes(new, ids) ==
  /\ filter' = [filter EXCEPT ![Server] = Insert(@, new)]
  /\ keys' = [keys EXCEPT ![Server] = @ \cup new]
  /\ listed' = listed \cup ids

\* newPlayer; by themselves, the first rows of a reinit that an exception ends.
newPlayer(p) == Takes({p}, {p})

\* reinit: newPlayer for every row, then the bytes of the vector object that holds
\* the ids go into the filter, not the ids it holds.
reinit(ids) == Takes(ids \cup {TheVector}, ids)

\* setPlayerInfo, and updateRankWithExp by itself: on the list, not in the filter.
setPlayerInfo(p) == Takes({}, {p})

\* The server's filter takes part in nothing else.
Others == Filters \ {Server}

FilterNext ==
  \/ \E n \in Others :
       \/ \E k \in Keys : insert(n, k)
       \/ clear(n)
       \/ \E m \in Others : assign(n, m) \/ unite(n, m) \/ intersect(n, m) \/ differ(n, m)
       \/ \E wanted \in 0 .. filter[n].size - 1 : compress(n, wanted)
  \/ BloomFilterInit
  \/ \E ids \in SUBSET Pids : reinit(ids)
  \/ \E p \in Pids : newPlayer(p) \/ setPlayerInfo(p)

FilterSpec == FilterInit /\ [][FilterNext]_filterVars

-----------------------------------------------------------------------------
(* Properties. *)

FiltersTypeOK ==
  /\ filter \in [Filters -> FilterType]
  /\ keys \in [Filters -> SUBSET Keys]
  /\ listed \subseteq Pids

(* contains() never denies a key: not after unions, intersections and      *)
(* copies with other filters, and not after the table was folded up to     *)
(* half its size, and again.                                               *)
NoFalseNegatives ==
  \A n \in Filters : \A k \in keys[n] : Contains(filter[n], k)

(* containsPlayerId, by the filter's own answer: it lets every player of   *)
(* the rank list pass.  newPlayer and reinit put the ids they list into    *)
(* it, but the list outlives the filter, which every start makes anew and  *)
(* gives only the ids of the rows it reads, and setPlayerInfo lists a      *)
(* player without putting the id into the filter at all.  That none of     *)
(* them is turned away is because the filter has no hash functions:        *)
(* compute_optimal_parameters is not called.                               *)
ListedPlayersPass ==
  \A p \in listed : Contains(filter[Server], p)
=============================================================================
