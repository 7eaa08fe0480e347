---------------------------- MODULE BroadcastLog ----------------------------
(***************************************************************************)
(* What the clients of SocketServer are promised, whatever links, events   *)
(* and descriptors it keeps: one sequence of messages for all.             *)
(*                                                                         *)
(* A message is a header and a body.  A client that has joined gets every  *)
(* message begun from then on, part by part and in the order they were     *)
(* begun, until a part fails; after that it may miss parts, but none is    *)
(* repeated or overtaken.  A message is with every client before another   *)
(* is begun, and before any client comes or goes; or else the server ends. *)
(***************************************************************************)
EXTENDS Integers, Sequences

CONSTANT Clients

VARIABLES
  begun,    \* messages begun
  members,  \* the clients messages go to
  from,     \* messages begun before a client joined
  got,      \* the parts a client was sent
  broken    \* clients to which a part failed

vars == <<begun, members, from, got, broken>>

Halves == {"head", "body"}
Before(a, b) == a.cast < b.cast \/ (a.cast = b.cast /\ a.part = "head" /\ b.part = "body")

\* The k-th part of all that was begun after the first n messages.
Nth(n, k) == [cast |-> n + (k + 1) \div 2, part |-> IF k % 2 = 1 THEN "head" ELSE "body"]

\* The parts a client has yet to get.
Due(c) == 2 * (begun - from[c]) - Len(got[c])

\* The last message is with everybody it can reach.
Everywhere == \A c \in members \ broken : Due(c) = 0

-----------------------------------------------------------------------------
Init ==
  /\ begun = 0
  /\ members = {} /\ broken = {}
  /\ from = [c \in Clients |-> 0]
  /\ got = [c \in Clients |-> <<>>]

Join(c) ==
  /\ Everywhere
  /\ c \notin members /\ got[c] = <<>>
  /\ members' = members \cup {c}
  /\ from' = [from EXCEPT ![c] = begun]
  /\ UNCHANGED <<begun, got, broken>>

Leave(c) ==
  /\ Everywhere
  /\ members' = members \ {c}
  /\ UNCHANGED <<begun, from, got, broken>>

Begin ==
  /\ Everywhere
  /\ begun' = begun + 1
  /\ UNCHANGED <<members, from, got, broken>>

\* The next part of the message goes out to a client.
Put(c) ==
  /\ c \in members \ broken
  /\ Due(c) > 0
  /\ got' = [got EXCEPT ![c] = Append(@, Nth(from[c], Len(@) + 1))]
  /\ UNCHANGED <<begun, members, from, broken>>

\* A client to which a part failed may still be sent what comes after.
PutBehindGap(c) ==
  /\ c \in members \cap broken
  /\ \E half \in Halves :
       LET part == [cast |-> begun, part |-> half] IN
         /\ \A k \in DOMAIN got[c] : Before(got[c][k], part)
         /\ got' = [got EXCEPT ![c] = Append(@, part)]
  /\ UNCHANGED <<begun, members, from, broken>>

Break(c) ==
  /\ c \in members
  /\ broken' = broken \cup {c}
  /\ UNCHANGED <<begun, members, from, got>>

\* The server ends.
End ==
  /\ members' = {}
  /\ UNCHANGED <<begun, from, got, broken>>

Next ==
  \/ \E c \in Clients : Join(c) \/ Leave(c) \/ Put(c) \/ PutBehindGap(c) \/ Break(c)
  \/ Begin
  \/ End

Spec == Init /\ [][Next]_vars
=============================================================================
