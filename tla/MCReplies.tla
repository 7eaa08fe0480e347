----------------------------- MODULE MCReplies ------------------------------
(* Replies with the sizes of the program. *)
EXTENDS Replies

MCInts == {0, -1, 300}
MCStrLen == [s \in Strings |-> CASE s = "" -> 0 [] s = "player:1" -> 8
                                 [] s = "player:-2147483648" -> 18 [] OTHER -> 2000]
MCPids == {1, -1}

\* A red potion, and an item of no registered type with a count nothing limits.
MCItems == {[id |-> 100, type |-> 1, count |-> 1], [id |-> 2000000000, type |-> 0, count |-> -1]}
Piece == [id |-> -1, type |-> 0, count |-> 1]
MCRows ==
  LET Filled(item) == [i \in SlotIds |-> item]
      Coins == Filled([id |-> 1, type |-> 0, count |-> 1])
  IN {[bag |-> Empty, equipment |-> Empty, currency |-> Empty],
      [bag |-> Filled([id |-> 1, type |-> 0, count |-> 1]), equipment |-> Filled(Piece),
       currency |-> Coins],
      [bag |-> Filled([id |-> 1, type |-> 0, count |-> 1]), equipment |-> Empty,
       currency |-> Coins]}
MCTouched == {1, 2, 48}
MCInfos == {[name |-> "", exp |-> 0], [name |-> "player:1", exp |-> -1]}
MCUnknowns == {<<>>, <<Text(15, "long")>>}
MCRankLists ==
  [members : {0, 1, 34, 35, 60}, name : {"player:1", "player:-2147483648"}, exp : {-1, 300}]
=============================================================================
