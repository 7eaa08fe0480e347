------------------------- MODULE SocketServerProofs -------------------------
(***************************************************************************)
(* Proofs about SocketServer for any number of clients, descriptors and    *)
(* frames.  The inductive invariant joins what the kernel's tables, the    *)
(* map of links, the batch of events and the broadcast under way know of   *)
(* each other; a step of a client or of the thread usually disturbs one    *)
(* part of it only.                                                        *)
(***************************************************************************)
EXTENDS SocketServer, WellFoundedInduction, SequenceTheorems, TLAPS

\* A nonempty set of naturals has a lowest element, which Min chooses.
LEMMA MinIsIn ==
  ASSUME NEW S \in SUBSET Nat, S # {}
  PROVE  Min(S) \in S
  <1> DEFINE R == OpToRel(<, Nat)
  <1>1. PICK x \in S : \A y \in S : ~(<<y, x>> \in R)
    <2>1. IsWellFoundedOn(R, Nat)
      BY NatLessThanWellFounded
    <2> HIDE DEF R
    <2> QED
      BY <2>1, WFMin
  <1>2. \A y \in S : ~(y < x)
    BY <1>1 DEF OpToRel
  <1>3. \A y \in S : x <= y
    BY <1>2
  <1> QED
    BY <1>3 DEF Min

\* A sequence and the sequence with an element more.
LEMMA Appended ==
  ASSUME NEW S, NEW s \in Seq(S), NEW e \in S
  PROVE  /\ Append(s, e) \in Seq(S) /\ Len(Append(s, e)) = Len(s) + 1
         /\ Len(s) \in Nat /\ DOMAIN s = 1 .. Len(s)
         /\ DOMAIN Append(s, e) = 1 .. Len(s) + 1
         /\ \A k \in 1 .. Len(s) : Append(s, e)[k] = s[k]
         /\ Append(s, e)[Len(s) + 1] = e
  <1>1. /\ Append(s, e) \in Seq(S) /\ Len(Append(s, e)) = Len(s) + 1
        /\ \A k \in 1 .. Len(s) : Append(s, e)[k] = s[k]
        /\ Append(s, e)[Len(s) + 1] = e
    BY AppendProperties
  <1>2. Len(s) \in Nat /\ DOMAIN s = 1 .. Len(s)
    OBVIOUS
  <1>3. DOMAIN Append(s, e) = 1 .. Len(Append(s, e))
    BY <1>1
  <1> QED
    BY <1>1, <1>2, <1>3

Links == [taken : Nat, packs : Nat]
Conns == {"idle", "up", "closed"} \cup Gone
Parts == [cast : Nat, part : {"head", "body"}]

\* The map of links, the epoll set and the descriptor table.
TableInv ==
  /\ fdtable \in [Fds -> Clients \cup {Free}]
  /\ watched \subseteq Fds
  /\ m_linkmap \in [watched -> Links]
  /\ \A fd \in watched : fdtable[fd] # Free
  /\ listening => \A fd \in Fds \ watched : fdtable[fd] = Free
  /\ \A fd, other \in Fds : fdtable[fd] # Free /\ fdtable[fd] = fdtable[other] => fd = other

\* A client is in the accept queue once, or at one descriptor, or at neither;
\* and at neither before it connects.
QueueInv ==
  /\ backlog \in Seq(Clients)
  /\ \A j, k \in DOMAIN backlog : backlog[j] = backlog[k] => j = k
  /\ \A k \in DOMAIN backlog, fd \in Fds : fdtable[fd] # backlog[k]
  /\ conn \in [Clients -> Conns]
  /\ \A k \in DOMAIN backlog : conn[backlog[k]] # "idle"
  /\ \A fd \in Fds : fdtable[fd] # Free => conn[fdtable[fd]] # "idle"

\* The events of the batch, and the sends of the broadcast, are for links.
BatchInv ==
  /\ ready \subseteq Fds \cup {Listener}
  /\ Listener \in ready => listening /\ backlog # <<>>
  /\ \A fd \in ready \cap Fds : fd \in watched /\ reported[fd] = fdtable[fd]
  /\ pc \in {"packs", "send"} => current \in watched
  /\ toSend \subseteq Fds
  /\ part \in {"head", "body"}
  /\ pc = "send" => toSend # {} /\ toSend \subseteq watched
  /\ pc # "send" => part = "head"

\* A client still to be served has nothing of the broadcast but the header, if
\* that has just been sent; no client has anything of a broadcast not begun.
StreamInv ==
  /\ casts \in Nat
  /\ outbox \in [Clients -> Seq(Parts)]
  /\ \A c \in Clients : \A k \in DOMAIN outbox[c] : outbox[c][k].cast <= casts
  /\ pc = "send" =>
       \A fd \in toSend : \A k \in DOMAIN outbox[fdtable[fd]] :
         LET e == outbox[fdtable[fd]][k] IN
           e.cast < casts \/ (fd = Target /\ part = "body" /\ e.part = "head")
  /\ StreamsInOrder

\* The parts of the broadcast that the link at fd has yet to be sent.
Owed(fd) ==
  IF pc = "send" /\ fd \in toSend
    THEN IF fd = Target /\ part = "body" THEN 1 ELSE 2
    ELSE 0

\* Unless a part was lost, what a client has been sent and what it is owed make up
\* every broadcast since it was accepted.
CountInv ==
  /\ joined \in [Clients -> Nat]
  /\ \A c \in Clients :
       conn[c] = "idle" \/ (\E k \in DOMAIN backlog : backlog[k] = c) => outbox[c] = <<>>
  /\ \A fd \in watched :
       fdtable[fd] \notin lost =>
         Len(outbox[fdtable[fd]]) + Owed(fd) = 2 * (casts - joined[fdtable[fd]])

IInv == TableInv /\ QueueInv /\ BatchInv /\ StreamInv /\ CountInv

-----------------------------------------------------------------------------
(* What a step leaves alone. *)

\* The tables keep their invariant as long as nothing is opened or closed.
LEMMA TableKept ==
  ASSUME TableInv, UNCHANGED <<listening, descriptors, m_linkmap>>
  PROVE  TableInv'
  BY DEF TableInv, descriptors

\* So does the queue while no client and no descriptor changes.
LEMMA QueueKept ==
  ASSUME QueueInv, UNCHANGED <<conn, backlog, fdtable>>
  PROVE  QueueInv'
  BY DEF QueueInv

\* So does the batch, and the broadcast, while the thread does nothing.
LEMMA BatchKept ==
  ASSUME BatchInv, UNCHANGED <<listening, descriptors, loop>>,
         backlog # <<>> => backlog' # <<>>
  PROVE  BatchInv'
  BY DEF BatchInv, descriptors, loop, broadcast

\* So do the streams while nothing is sent and no broadcast is begun.
LEMMA StreamKept ==
  ASSUME StreamInv, UNCHANGED <<outbox, casts>>,
         \/ pc' # "send"
         \/ UNCHANGED <<pc, broadcast, fdtable>>
  PROVE  StreamInv'
  <1>1. StreamsInOrder'
    BY DEF StreamInv, StreamsInOrder, Before
  <1>2. CASE pc' # "send"
    BY <1>1, <1>2 DEF StreamInv
  <1>3. CASE UNCHANGED <<pc, broadcast, fdtable>>
    BY <1>1, <1>3 DEF StreamInv, broadcast, Target
  <1> QED
    BY <1>2, <1>3

\* So do the counts while, besides, no client connects or is accepted.
LEMMA CountKept ==
  ASSUME CountInv, UNCHANGED <<delivery, backlog, conn, fdtable, watched>>,
         \/ pc # "send" /\ pc' # "send"
         \/ UNCHANGED <<pc, broadcast>>
  PROVE  CountInv'
  <1>1. \A fd \in watched : Owed(fd)' = Owed(fd)
    BY DEF Owed, broadcast, Target
  <1> QED
    BY <1>1 DEF CountInv, delivery

-----------------------------------------------------------------------------
(* The initial state. *)

\* SocketServer::Init establishes the invariant.
THEOREM InitIInv == Init => IInv
  <1> SUFFICES ASSUME Init PROVE IInv
    OBVIOUS
  <1>1. TableInv
    BY DEF Init, TableInv, NoneOpen
  <1>2. QueueInv
    BY ServerAssumption DEF Init, QueueInv, NoneOpen, Conns
  <1>3. BatchInv
    BY DEF Init, BatchInv
  <1>4. StreamInv
    BY DEF Init, StreamInv, StreamsInOrder
  <1>5. CountInv
    BY DEF Init, CountInv
  <1> QED
    BY <1>1, <1>2, <1>3, <1>4, <1>5 DEF IInv

-----------------------------------------------------------------------------
(* The clients. *)

\* A client that connects is new to the queue and to the tables.
LEMMA ConnectIInv ==
  ASSUME IInv, NEW c \in Clients, Connect(c)
  PROVE  IInv'
  <1>1. /\ UNCHANGED <<inbox, written, listening, descriptors, delivery, m_linkmap, loop>>
        /\ conn[c] = "idle" /\ conn' = [conn EXCEPT ![c] = "up"]
        /\ backlog' = Append(backlog, c)
    BY DEF Connect
  <1>2. /\ backlog \in Seq(Clients) /\ backlog' \in Seq(Clients)
        /\ Len(backlog) \in Nat /\ DOMAIN backlog = 1 .. Len(backlog)
        /\ DOMAIN backlog' = 1 .. Len(backlog) + 1
        /\ \A k \in 1 .. Len(backlog) : backlog'[k] = backlog[k]
        /\ backlog'[Len(backlog) + 1] = c
    BY <1>1, Appended DEF IInv, QueueInv
  <1>3. \A k \in DOMAIN backlog : backlog[k] # c
    BY <1>1 DEF IInv, QueueInv
  <1>4. \A fd \in Fds : fdtable[fd] # c
    BY <1>1, ServerAssumption DEF IInv, QueueInv
  <1>5. conn' \in [Clients -> Conns]
    BY <1>1 DEF IInv, QueueInv, Conns
  <1>6. QueueInv'
    <2>1. \A j, k \in DOMAIN backlog' : backlog'[j] = backlog'[k] => j = k
      BY <1>2, <1>3 DEF IInv, QueueInv
    <2>2. \A k \in DOMAIN backlog', fd \in Fds : fdtable'[fd] # backlog'[k]
      BY <1>1, <1>2, <1>4 DEF IInv, QueueInv, descriptors
    <2>3. \A k \in DOMAIN backlog' : conn'[backlog'[k]] # "idle"
      BY <1>1, <1>2, <1>3 DEF IInv, QueueInv
    <2>4. \A fd \in Fds : fdtable'[fd] # Free => conn'[fdtable'[fd]] # "idle"
      BY <1>1, <1>4 DEF IInv, QueueInv, TableInv, descriptors
    <2> QED
      BY <1>2, <1>5, <2>1, <2>2, <2>3, <2>4 DEF QueueInv
  <1>7. TableInv' /\ StreamInv'
    BY <1>1, TableKept, StreamKept DEF IInv, delivery, loop, descriptors
  <1>8. BatchInv'
    <2>1. backlog' # <<>>
      BY <1>2
    <2> QED
      BY <1>1, <2>1, BatchKept DEF IInv
  <1>9. CountInv'
    <2>1. \A d \in Clients :
            conn'[d] = "idle" \/ (\E k \in DOMAIN backlog' : backlog'[k] = d) => outbox'[d] = <<>>
      BY <1>1, <1>2 DEF IInv, CountInv, QueueInv, delivery
    <2>2. \A fd \in watched : fdtable[fd] # c /\ fdtable[fd] \in Clients
      BY <1>4 DEF IInv, TableInv
    <2>3. \A fd \in watched : conn'[fdtable[fd]] = conn[fdtable[fd]] /\ Owed(fd)' = Owed(fd)
      BY <1>1, <2>2 DEF Owed, Target, loop, broadcast, IInv, QueueInv
    <2> QED
      BY <1>1, <2>1, <2>3 DEF IInv, CountInv, delivery, descriptors
  <1> QED
    BY <1>6, <1>7, <1>8, <1>9 DEF IInv

\* A frame a client writes touches nothing of the invariant.
LEMMA WriteIInv ==
  ASSUME IInv, NEW c \in Clients, Write(c)
  PROVE  IInv'
  <1>1. UNCHANGED <<conn, backlog, listening, descriptors, delivery, m_linkmap, loop>>
    BY DEF Write
  <1>2. UNCHANGED <<fdtable, watched, outbox, casts, pc, broadcast>>
    BY <1>1 DEF descriptors, delivery, loop
  <1> QED
    BY <1>1, <1>2, TableKept, QueueKept, BatchKept, StreamKept, CountKept DEF IInv

\* Nor does the end of a connection, since it was not idle.
LEMMA ConnChangesIInv ==
  ASSUME IInv, NEW c \in Clients, NEW from \in Conns, NEW to \in Gone,
         from # "idle", ConnChanges(c, from, to)
  PROVE  IInv'
  <1>1. /\ UNCHANGED <<backlog, listening, descriptors, delivery, m_linkmap, loop>>
        /\ conn[c] = from /\ conn' = [conn EXCEPT ![c] = to]
    BY DEF ConnChanges
  <1>2. UNCHANGED <<fdtable, watched, outbox, casts, pc, broadcast>>
    BY <1>1 DEF descriptors, delivery, loop
  <1>3. TableInv' /\ BatchInv' /\ StreamInv'
    BY <1>1, <1>2, TableKept, BatchKept, StreamKept DEF IInv
  <1>4. /\ conn' \in [Clients -> Conns]
        /\ \A d \in Clients : (conn'[d] = "idle") = (conn[d] = "idle")
    BY <1>1 DEF IInv, QueueInv, Conns, Gone
  <1>5. QueueInv'
    <2>1. \A k \in DOMAIN backlog : backlog[k] \in Clients
      BY DEF IInv, QueueInv
    <2>2. \A fd \in Fds : fdtable[fd] # Free => fdtable[fd] \in Clients
      BY DEF IInv, TableInv
    <2> QED
      BY <1>1, <1>2, <1>4, <2>1, <2>2 DEF IInv, QueueInv
  <1>6. CountInv'
    <2>1. \A fd \in watched : fdtable[fd] \in Clients /\ Owed(fd)' = Owed(fd)
      BY <1>2 DEF IInv, TableInv, Owed, Target, broadcast
    <2> QED
      BY <1>1, <1>2, <1>4, <2>1 DEF IInv, CountInv, delivery
  <1> QED
    BY <1>3, <1>5, <1>6 DEF IInv

-----------------------------------------------------------------------------
(* The batch of events. *)

\* The events of a new batch are for sockets that are open then.
LEMMA EpollWaitIInv ==
  ASSUME IInv, EpollWait
  PROVE  IInv'
  <1>1. /\ UNCHANGED <<kernel, descriptors, delivery, m_linkmap, current, broadcast>>
        /\ pc = "wait" /\ pc' = "events" /\ ready' = Ready /\ reported' = fdtable
    BY DEF EpollWait
  <1>2. UNCHANGED <<conn, backlog, listening, fdtable, watched, outbox, casts>>
    BY <1>1 DEF kernel, descriptors, delivery
  <1>3. BatchInv'
    <2>1. /\ Ready \subseteq Fds \cup {Listener}
          /\ Listener \in Ready => listening /\ backlog # <<>>
          /\ \A fd \in Ready \cap Fds : fd \in watched
      BY ServerAssumption DEF IInv, TableInv, Ready, Fds
    <2> QED
      BY <1>1, <1>2, <2>1 DEF IInv, BatchInv, broadcast
  <1> QED
    BY <1>1, <1>2, <1>3, TableKept, QueueKept, StreamKept, CountKept DEF IInv

\* A batch that is worked off is forgotten.
LEMMA EventsDoneIInv ==
  ASSUME IInv, EventsDone
  PROVE  IInv'
  <1>1. /\ UNCHANGED <<kernel, descriptors, delivery, m_linkmap, ready, current, broadcast>>
        /\ pc = "events" /\ ready = {} /\ pc' = "wait"
    BY DEF EventsDone
  <1>2. UNCHANGED <<conn, backlog, listening, fdtable, watched, outbox, casts>>
    BY <1>1 DEF kernel, descriptors, delivery
  <1>3. BatchInv'
    BY <1>1 DEF IInv, BatchInv, broadcast
  <1> QED
    BY <1>1, <1>2, <1>3, TableKept, QueueKept, StreamKept, CountKept DEF IInv

\* When the server stops or is killed nothing is left to disagree.
LEMMA AllClosedIInv ==
  ASSUME IInv, AllClosed, pc' \in {"stopped", "killed"}, UNCHANGED delivery
  PROVE  IInv'
  <1>1. /\ \A c \in Clients : conn'[c] = IF conn[c] = "idle" THEN "idle" ELSE "closed"
        /\ conn' \in [Clients -> Conns]
        /\ backlog' = <<>> /\ listening' = FALSE /\ fdtable' = NoneOpen /\ watched' = {}
        /\ m_linkmap' = [fd \in {} |-> Null]
        /\ ready' = {} /\ toSend' = {} /\ part' = "head"
    BY DEF AllClosed, Conns
  <1>2. \A fd \in Fds : fdtable'[fd] = Free
    BY <1>1 DEF NoneOpen
  <1>3. TableInv'
    BY <1>1, <1>2 DEF TableInv, NoneOpen
  <1>4. QueueInv'
    BY <1>1, <1>2 DEF QueueInv
  <1>5. BatchInv'
    BY <1>1 DEF BatchInv
  <1>6. StreamInv'
    BY StreamKept DEF IInv, delivery
  <1>7. CountInv'
    BY <1>1 DEF IInv, CountInv, delivery
  <1> QED
    BY <1>3, <1>4, <1>5, <1>6, <1>7 DEF IInv

-----------------------------------------------------------------------------
(* accept. *)

\* The head of the queue and what is behind it.
LEMMA QueueFacts ==
  ASSUME IInv, AcceptEvent
  PROVE  /\ listening /\ backlog \in Seq(Clients) /\ backlog # <<>> /\ 1 \in DOMAIN backlog
         /\ Head(backlog) = backlog[1] /\ Head(backlog) \in Clients
         /\ Tail(backlog) \in Seq(Clients)
         /\ DOMAIN Tail(backlog) = 1 .. Len(backlog) - 1
         /\ \A k \in DOMAIN Tail(backlog) :
              k + 1 \in DOMAIN backlog /\ Tail(backlog)[k] = backlog[k + 1]
         /\ \A k \in DOMAIN Tail(backlog) : Tail(backlog)[k] # Head(backlog)
         /\ \A fd \in Fds : fdtable[fd] # Head(backlog)
         /\ conn[Head(backlog)] # "idle"
         /\ FreeFds # {} => Min(FreeFds) \in Fds /\ fdtable[Min(FreeFds)] = Free
  <1>1. listening /\ backlog \in Seq(Clients) /\ backlog # <<>>
    BY DEF IInv, BatchInv, QueueInv, AcceptEvent
  <1>2. /\ 1 \in DOMAIN backlog /\ Head(backlog) = backlog[1] /\ Head(backlog) \in Clients
        /\ Tail(backlog) \in Seq(Clients)
        /\ DOMAIN Tail(backlog) = 1 .. Len(backlog) - 1
        /\ \A k \in DOMAIN Tail(backlog) :
              k + 1 \in DOMAIN backlog /\ Tail(backlog)[k] = backlog[k + 1]
    BY <1>1
  <1>3. \A k \in DOMAIN Tail(backlog) : Tail(backlog)[k] # Head(backlog)
    <2> SUFFICES ASSUME NEW k \in DOMAIN Tail(backlog), backlog[k + 1] = backlog[1]
                 PROVE  FALSE
      BY <1>2
    <2>1. k \in Nat /\ k >= 1
      BY <1>1, <1>2
    <2> QED
      BY <1>2, <2>1 DEF IInv, QueueInv
  <1>4. (\A fd \in Fds : fdtable[fd] # Head(backlog)) /\ conn[Head(backlog)] # "idle"
    BY <1>2 DEF IInv, QueueInv
  <1>5. FreeFds # {} => Min(FreeFds) \in FreeFds
    <2>1. FreeFds \in SUBSET Nat
      BY ServerAssumption DEF FreeFds, Fds
    <2> QED
      BY <2>1, MinIsIn
  <1>6. FreeFds # {} => Min(FreeFds) \in Fds /\ fdtable[Min(FreeFds)] = Free
    BY <1>5 DEF FreeFds
  <1> QED
    BY <1>1, <1>2, <1>3, <1>4, <1>6

\* The descriptor an accepted client gets has no link, no epoll entry and no
\* event of the batch.
LEMMA AcceptIInv ==
  ASSUME IInv, Accept
  PROVE  IInv'
  <1>0. PICK fd, c : fd = Min(FreeFds) /\ c = Head(backlog)
    OBVIOUS
  <1>1. /\ AcceptEvent /\ FreeFds # {} /\ pc = "events" /\ ready' = ready \ {Listener}
        /\ fdtable' = [fdtable EXCEPT ![fd] = c]
        /\ watched' = watched \cup {fd}
        /\ m_linkmap' = Put(m_linkmap, fd, [taken |-> 0, packs |-> 0])
        /\ joined' = [joined EXCEPT ![c] = casts]
        /\ backlog' = Tail(backlog)
        /\ UNCHANGED <<conn, inbox, written, listening, outbox, casts, lost, pc, current,
                       broadcast, reported>>
    BY <1>0 DEF Accept, AcceptEvent, WatchedAfterAccept
  <1>2. /\ listening /\ backlog \in Seq(Clients) /\ c = backlog[1] /\ 1 \in DOMAIN backlog
        /\ c \in Clients /\ backlog' \in Seq(Clients)
        /\ DOMAIN backlog' = 1 .. Len(backlog) - 1
        /\ \A k \in DOMAIN backlog' : k + 1 \in DOMAIN backlog /\ backlog'[k] = backlog[k + 1]
        /\ \A k \in DOMAIN backlog' : backlog'[k] # c
        /\ \A g \in Fds : fdtable[g] # c
        /\ conn[c] # "idle"
        /\ fd \in Fds /\ fdtable[fd] = Free
    BY <1>0, <1>1, QueueFacts
  <1>3. fd \notin watched /\ c # Free
    BY <1>2, ServerAssumption DEF IInv, TableInv
  <1>4. /\ fdtable' \in [Fds -> Clients \cup {Free}]
        /\ fdtable'[fd] = c
        /\ \A g \in Fds \ {fd} : fdtable'[g] = fdtable[g]
    BY <1>1, <1>2 DEF IInv, TableInv
  <1>5. TableInv'
    <2>1. m_linkmap' \in [watched' -> Links]
      BY <1>1 DEF IInv, TableInv, Put, Links
    <2>2. watched' \subseteq Fds /\ \A g \in watched' : fdtable'[g] # Free
      BY <1>1, <1>2, <1>3, <1>4 DEF IInv, TableInv
    <2>3. \A g \in Fds \ watched' : fdtable'[g] = Free
      BY <1>1, <1>2, <1>4 DEF IInv, TableInv
    <2>4. \A g, other \in Fds : fdtable'[g] # Free /\ fdtable'[g] = fdtable'[other] => g = other
      BY <1>2, <1>4 DEF IInv, TableInv
    <2> QED
      BY <1>4, <2>1, <2>2, <2>3, <2>4 DEF TableInv
  <1>6. QueueInv'
    <2>1. \A j, k \in DOMAIN backlog' : backlog'[j] = backlog'[k] => j = k
      <3> SUFFICES ASSUME NEW j \in DOMAIN backlog', NEW k \in DOMAIN backlog',
                          backlog'[j] = backlog'[k]
                   PROVE  j = k
        OBVIOUS
      <3>1. j + 1 = k + 1
        BY <1>2 DEF IInv, QueueInv
      <3>2. j \in Int /\ k \in Int
        BY <1>2
      <3> QED
        BY <3>1, <3>2
    <2>2. \A k \in DOMAIN backlog', g \in Fds : fdtable'[g] # backlog'[k]
      BY <1>2, <1>4 DEF IInv, QueueInv
    <2>3. \A k \in DOMAIN backlog' : conn'[backlog'[k]] # "idle"
      BY <1>1, <1>2 DEF IInv, QueueInv
    <2>4. \A g \in Fds : fdtable'[g] # Free => conn'[fdtable'[g]] # "idle"
      BY <1>1, <1>2, <1>4 DEF IInv, QueueInv
    <2> QED
      BY <1>1, <1>2, <2>1, <2>2, <2>3, <2>4 DEF IInv, QueueInv
  <1>7. BatchInv'
    <2>1. \A g \in ready' \cap Fds : g \in watched' /\ reported'[g] = fdtable'[g]
      BY <1>1, <1>3, <1>4 DEF IInv, BatchInv
    <2> QED
      BY <1>1, <2>1 DEF IInv, BatchInv, broadcast
  <1>8. StreamInv'
    BY <1>1, StreamKept DEF IInv
  <1>9. CountInv'
    <2>1. outbox[c] = <<>>
      BY <1>2 DEF IInv, CountInv
    <2>2. /\ joined' \in [Clients -> Nat] /\ joined'[c] = casts /\ casts \in Nat
          /\ \A d \in Clients \ {c} : joined'[d] = joined[d]
      BY <1>1, <1>2 DEF IInv, CountInv, StreamInv
    <2>3. \A d \in Clients :
            conn'[d] = "idle" \/ (\E k \in DOMAIN backlog' : backlog'[k] = d) => outbox'[d] = <<>>
      BY <1>1, <1>2 DEF IInv, CountInv
    <2>4. \A g \in watched' : Owed(g)' = 0 /\ (g \in watched => Owed(g) = 0)
      BY <1>1 DEF Owed
    <2>5. Len(outbox'[c]) + Owed(fd)' = 2 * (casts' - joined'[c])
      <3>1. Owed(fd)' = 0
        BY <1>1 DEF Owed
      <3>2. outbox'[c] = <<>> /\ casts' = casts
        BY <1>1, <2>1
      <3> QED
        BY <2>2, <3>1, <3>2
    <2>6. \A g \in watched : g # fd /\ fdtable'[g] = fdtable[g] /\ fdtable[g] \in Clients \ {c}
      BY <1>2, <1>3, <1>4 DEF IInv, TableInv
    <2>7. \A g \in watched :
            fdtable'[g] \notin lost' =>
              Len(outbox'[fdtable'[g]]) + Owed(g)' = 2 * (casts' - joined'[fdtable'[g]])
      BY <1>1, <2>2, <2>4, <2>6 DEF IInv, CountInv
    <2>8. \A g \in watched' : g = fd \/ g \in watched
      BY <1>1
    <2>9. \A g \in watched' :
            fdtable'[g] \notin lost' =>
              Len(outbox'[fdtable'[g]]) + Owed(g)' = 2 * (casts' - joined'[fdtable'[g]])
      <3> SUFFICES ASSUME NEW g \in watched', fdtable'[g] \notin lost'
                   PROVE  Len(outbox'[fdtable'[g]]) + Owed(g)' = 2 * (casts' - joined'[fdtable'[g]])
        OBVIOUS
      <3>1. CASE g = fd
        BY <3>1, <1>4, <2>5
      <3>2. CASE g \in watched
        BY <3>2, <2>7
      <3> QED
        BY <3>1, <3>2, <2>8
    <2> QED
      BY <2>2, <2>3, <2>9 DEF CountInv
  <1> QED
    BY <1>5, <1>6, <1>7, <1>8, <1>9 DEF IInv

\* accept() that fails uses up its event only.
LEMMA AcceptFailsIInv ==
  ASSUME IInv, AcceptFails
  PROVE  IInv'
  <1>1. /\ UNCHANGED <<kernel, descriptors, delivery, m_linkmap, pc, current, broadcast, reported>>
        /\ ready' = ready \ {Listener} /\ pc = "events"
    BY DEF AcceptFails, AcceptEvent
  <1>2. UNCHANGED <<conn, backlog, listening, fdtable, watched, outbox, casts>>
    BY <1>1 DEF kernel, descriptors, delivery
  <1>3. BatchInv'
    BY <1>1, <1>2 DEF IInv, BatchInv, broadcast
  <1> QED
    BY <1>1, <1>2, <1>3, TableKept, QueueKept, StreamKept, CountKept DEF IInv

\* The leaked descriptor has no link; the others keep theirs.
LEMMA AcceptClosesListenerIInv ==
  ASSUME IInv, AcceptClosesListener
  PROVE  IInv'
  <1> DEFINE fd == Min(FreeFds)
             c == Head(backlog)
             waiting == ToSet(Tail(backlog))
  <1>1. /\ AcceptEvent /\ FreeFds # {} /\ pc = "events" /\ ready' = ready \ {Listener}
        /\ fdtable' = [fdtable EXCEPT ![fd] = c]
        /\ listening' = FALSE /\ backlog' = <<>>
        /\ conn' = [d \in Clients |-> IF d \in waiting THEN "closed" ELSE conn[d]]
        /\ UNCHANGED <<written, watched, delivery, m_linkmap, pc, current, broadcast, reported>>
    BY DEF AcceptClosesListener, AcceptEvent
  <1>2. /\ c \in Clients /\ fd \in Fds /\ fdtable[fd] = Free
        /\ \A g \in Fds : fdtable[g] # c
        /\ conn[c] # "idle"
        /\ \A k \in DOMAIN Tail(backlog) : Tail(backlog)[k] # c
        /\ \A k \in DOMAIN Tail(backlog) :
              k + 1 \in DOMAIN backlog /\ Tail(backlog)[k] = backlog[k + 1]
    BY <1>1, QueueFacts
  <1>3. \A d \in waiting : conn[d] # "idle" /\ \A g \in Fds : fdtable[g] # d
    BY <1>2 DEF ToSet, IInv, QueueInv
  <1> HIDE DEF fd, c, waiting
  <1>4. fd \notin watched /\ c # Free
    BY <1>2, ServerAssumption DEF IInv, TableInv
  <1>5. /\ fdtable' \in [Fds -> Clients \cup {Free}] /\ fdtable'[fd] = c
        /\ \A g \in Fds \ {fd} : fdtable'[g] = fdtable[g]
    BY <1>1, <1>2 DEF IInv, TableInv
  <1>6. /\ conn' \in [Clients -> Conns]
        /\ \A d \in Clients : conn'[d] = "idle" <=> conn[d] = "idle"
    BY <1>1, <1>3 DEF IInv, QueueInv, Conns
  <1>7. TableInv'
    <2>1. \A g, other \in Fds : fdtable'[g] # Free /\ fdtable'[g] = fdtable'[other] => g = other
      BY <1>2, <1>5 DEF IInv, TableInv
    <2>2. \A g \in watched : fdtable'[g] # Free
      BY <1>4, <1>5 DEF IInv, TableInv
    <2> QED
      BY <1>1, <1>5, <2>1, <2>2 DEF IInv, TableInv
  <1>8. QueueInv'
    <2>1. \A g \in Fds : fdtable'[g] # Free => fdtable'[g] \in Clients /\ conn[fdtable'[g]] # "idle"
      BY <1>2, <1>5 DEF IInv, QueueInv, TableInv
    <2> QED
      BY <1>1, <1>6, <2>1 DEF QueueInv
  <1>9. BatchInv'
    BY <1>1, <1>4, <1>5, ServerAssumption DEF IInv, BatchInv, broadcast, TableInv
  <1>10. StreamInv'
    BY <1>1, StreamKept DEF IInv, delivery
  <1>11. CountInv'
    <2>1. \A g \in watched : /\ fdtable'[g] = fdtable[g] /\ fdtable[g] \in Clients
                             /\ Owed(g)' = 0 /\ Owed(g) = 0
      BY <1>1, <1>4, <1>5 DEF IInv, TableInv, Owed
    <2> QED
      BY <1>1, <1>6, <2>1 DEF IInv, CountInv, delivery
  <1> QED
    BY <1>7, <1>8, <1>9, <1>10, <1>11 DEF IInv

-----------------------------------------------------------------------------
(* A readable link. *)

\* A link that is not read keeps its entry, and none is added for it.
LEMMA ReadNothingIInv ==
  ASSUME IInv, NEW fd \in Fds, ReadNothing(fd)
  PROVE  IInv'
  <1>1. /\ UNCHANGED <<kernel, descriptors, delivery, pc, current, broadcast, reported>>
        /\ ready' = ready \ {fd} /\ pc = "events" /\ fd \in ready \cap Fds
        /\ m_linkmap' = Looked(fd)
    BY DEF ReadNothing, ReadEvent
  <1>2. UNCHANGED <<conn, backlog, listening, fdtable, watched, outbox, casts>>
    BY <1>1 DEF kernel, descriptors, delivery
  <1>3. m_linkmap' = m_linkmap
    BY <1>1 DEF IInv, BatchInv, TableInv, Looked
  <1>4. BatchInv'
    BY <1>1, <1>2 DEF IInv, BatchInv, broadcast
  <1> QED
    BY <1>1, <1>2, <1>3, <1>4, TableKept, QueueKept, StreamKept, CountKept DEF IInv

\* The link that is read becomes the one whose packs are handled.
LEMMA ReadIInv ==
  ASSUME IInv, NEW fd \in Fds, NEW n \in 1 .. MaxFrames, Read(fd, n)
  PROVE  IInv'
  <1>1. /\ UNCHANGED <<conn, written, backlog, listening, descriptors, delivery, broadcast, reported>>
        /\ ready' = ready \ {fd} /\ pc = "events" /\ fd \in ready \cap Fds
        /\ m_linkmap' = [m_linkmap EXCEPT ![fd].taken = @ + n, ![fd].packs = n]
        /\ current' = fd /\ pc' = "packs"
    BY DEF Read, ReadEvent
  <1>2. UNCHANGED <<fdtable, watched, outbox, casts>>
    BY <1>1 DEF descriptors, delivery
  <1>3. fd \in watched
    BY <1>1 DEF IInv, BatchInv
  <1>4. m_linkmap' \in [watched -> Links]
    <2>1. n \in Nat
      BY ServerAssumption
    <2>2. m_linkmap \in [watched -> Links] /\ m_linkmap[fd] \in Links
      BY <1>3 DEF IInv, TableInv
    <2> DEFINE taken == [m_linkmap EXCEPT ![fd].taken = @ + n]
    <2>3. taken \in [watched -> Links] /\ taken[fd] \in Links
      <3>1. [m_linkmap[fd] EXCEPT !.taken = @ + n] \in Links
        BY <2>1, <2>2 DEF Links
      <3> QED
        BY <1>3, <2>2, <3>1 DEF Links
    <2>4. m_linkmap' = [taken EXCEPT ![fd].packs = n]
      BY <1>1, <1>3, <2>2
    <2> HIDE DEF taken
    <2>5. [taken[fd] EXCEPT !.packs = n] \in Links
      BY <2>1, <2>3 DEF Links
    <2> QED
      BY <2>3, <2>4, <2>5 DEF Links
  <1>5. TableInv'
    BY <1>1, <1>2, <1>4 DEF IInv, TableInv
  <1>6. BatchInv'
    BY <1>1, <1>2, <1>3 DEF IInv, BatchInv, broadcast
  <1> QED
    BY <1>1, <1>2, <1>5, <1>6, QueueKept, StreamKept, CountKept DEF IInv

\* The descriptor that is closed loses its link, its epoll entry and its event.
LEMMA ReadEndIInv ==
  ASSUME IInv, NEW fd \in Fds, ReadEnd(fd)
  PROVE  IInv'
  <1> DEFINE c == fdtable[fd]
  <1>1. /\ ready' = ready \ {fd} /\ pc = "events" /\ fd \in ready \cap Fds
        /\ conn' = [conn EXCEPT ![c] = "closed"]
        /\ fdtable' = [fdtable EXCEPT ![fd] = Free]
        /\ watched' = watched \ {fd}
        /\ m_linkmap' = Drop(m_linkmap, fd)
        /\ UNCHANGED <<written, backlog, listening, delivery, pc, current, broadcast, reported>>
    BY DEF ReadEnd, ReadEvent, WithoutLink
  <1>2. fd \in watched /\ c # Free /\ c \in Clients
    BY <1>1 DEF IInv, BatchInv, TableInv
  <1>3. /\ fdtable' \in [Fds -> Clients \cup {Free}] /\ fdtable'[fd] = Free
        /\ \A g \in Fds \ {fd} : fdtable'[g] = fdtable[g] /\ fdtable[g] # c
    BY <1>1, <1>2 DEF IInv, TableInv
  <1>4. /\ conn' \in [Clients -> Conns] /\ conn'[c] = "closed"
        /\ \A d \in Clients \ {c} : conn'[d] = conn[d]
    BY <1>1, <1>2 DEF IInv, QueueInv, Conns
  <1> HIDE DEF c
  <1>5. TableInv'
    <2>1. m_linkmap' \in [watched' -> Links]
      BY <1>1 DEF IInv, TableInv, Drop
    <2>2. \A g, other \in Fds : fdtable'[g] # Free /\ fdtable'[g] = fdtable'[other] => g = other
      BY <1>3 DEF IInv, TableInv
    <2>3. \A g \in watched' : fdtable'[g] # Free
      BY <1>1, <1>3 DEF IInv, TableInv
    <2>4. listening' => \A g \in Fds \ watched' : fdtable'[g] = Free
      BY <1>1, <1>3 DEF IInv, TableInv
    <2>5. watched' \subseteq Fds
      BY <1>1 DEF IInv, TableInv
    <2> QED
      BY <1>3, <2>1, <2>2, <2>3, <2>4, <2>5 DEF TableInv
  <1>6. QueueInv'
    <2>1. \A k \in DOMAIN backlog : backlog[k] \in Clients
      BY DEF IInv, QueueInv
    <2>2. \A k \in DOMAIN backlog' : conn'[backlog'[k]] # "idle"
      BY <1>1, <1>4, <2>1 DEF IInv, QueueInv
    <2>3. \A g \in Fds : fdtable'[g] # Free => conn'[fdtable'[g]] # "idle"
      BY <1>3, <1>4 DEF IInv, QueueInv, TableInv
    <2>4. \A k \in DOMAIN backlog', g \in Fds : fdtable'[g] # backlog'[k]
      <3>1. \A k \in DOMAIN backlog : backlog[k] # Free
        BY <2>1, ServerAssumption
      <3> QED
        BY <1>1, <1>3, <3>1 DEF IInv, QueueInv
    <2> QED
      BY <1>1, <1>4, <2>2, <2>3, <2>4 DEF IInv, QueueInv
  <1>7. BatchInv'
    <2>1. \A g \in ready' \cap Fds : g \in watched' /\ reported'[g] = fdtable'[g]
      BY <1>1, <1>3 DEF IInv, BatchInv
    <2> QED
      BY <1>1, <2>1 DEF IInv, BatchInv, broadcast
  <1>8. StreamInv'
    BY <1>1, StreamKept DEF IInv, delivery
  <1>9. CountInv'
    <2>1. \A d \in Clients : conn'[d] = "idle" => conn[d] = "idle"
      BY <1>4
    <2>2. \A g \in watched' : /\ g \in watched /\ fdtable'[g] = fdtable[g]
                              /\ fdtable[g] \in Clients \ {c}
                              /\ Owed(g)' = 0 /\ Owed(g) = 0
      BY <1>1, <1>3 DEF IInv, TableInv, Owed
    <2> QED
      BY <1>1, <1>4, <2>1, <2>2 DEF IInv, CountInv, delivery
  <1> QED
    BY <1>5, <1>6, <1>7, <1>8, <1>9 DEF IInv

-----------------------------------------------------------------------------
(* Packs and broadcasts. *)

\* A pack taken off a link leaves it a link.
LEMMA PackTaken ==
  ASSUME IInv, TakePack
  PROVE  current \in watched /\ m_linkmap' \in [watched -> Links]
  <1>1. /\ current \in watched /\ m_linkmap \in [watched -> Links]
        /\ m_linkmap[current] \in Links /\ m_linkmap[current].packs > 0
        /\ m_linkmap' = [m_linkmap EXCEPT ![current].packs = @ - 1]
    BY DEF TakePack, IInv, BatchInv, TableInv
  <1>2. [m_linkmap[current] EXCEPT !.packs = @ - 1] \in Links
    BY <1>1 DEF Links
  <1> QED
    BY <1>1, <1>2 DEF Links

\* A pack whose handler sends nothing.
LEMMA HandleSilentlyIInv ==
  ASSUME IInv, HandleSilently
  PROVE  IInv'
  <1>1. TakePack /\ UNCHANGED <<kernel, descriptors, delivery, loop>>
    BY DEF HandleSilently
  <1>2. UNCHANGED <<conn, backlog, listening, fdtable, watched, outbox, casts, pc, broadcast>>
    BY <1>1 DEF kernel, descriptors, delivery, loop
  <1>3. TableInv'
    BY <1>1, <1>2, PackTaken DEF IInv, TableInv
  <1>4. BatchInv'
    BY <1>1, <1>2, BatchKept DEF IInv
  <1> QED
    BY <1>1, <1>2, <1>3, <1>4, QueueKept, StreamKept, CountKept DEF IInv

\* At the beginning of a broadcast every link is owed both parts of it.
LEMMA HandleAndBroadCastIInv ==
  ASSUME IInv, HandleAndBroadCast
  PROVE  IInv'
  <1>1. /\ TakePack /\ pc = "packs" /\ pc' = "send"
        /\ casts' = casts + 1 /\ toSend' = watched /\ part' = "head"
        /\ UNCHANGED <<kernel, descriptors, outbox, joined, lost, ready, current, reported>>
    BY DEF HandleAndBroadCast, TakePack, Recipients, IInv, TableInv
  <1>2. UNCHANGED <<conn, backlog, listening, fdtable, watched>>
    BY <1>1 DEF kernel, descriptors
  <1>3. TableInv' /\ QueueInv'
    BY <1>1, <1>2, PackTaken, QueueKept DEF IInv, TableInv
  <1>4. BatchInv'
    BY <1>1, <1>2, PackTaken DEF IInv, BatchInv, TableInv
  <1>5. casts \in Nat /\ outbox \in [Clients -> Seq(Parts)]
    BY DEF IInv, StreamInv
  <1>6. \A c \in Clients : \A k \in DOMAIN outbox[c] :
          outbox[c][k].cast <= casts /\ outbox[c][k].cast \in Nat
    <2> SUFFICES ASSUME NEW c \in Clients, NEW k \in DOMAIN outbox[c]
                 PROVE  outbox[c][k].cast <= casts /\ outbox[c][k].cast \in Nat
      OBVIOUS
    <2>1. outbox[c] \in Seq(Parts)
      BY <1>5
    <2>2. outbox[c][k] \in Parts
      BY <2>1
    <2> QED
      BY <2>2 DEF IInv, StreamInv, Parts
  <1>7. StreamInv'
    <2>1. \A c \in Clients : \A k \in DOMAIN outbox[c] :
            outbox[c][k].cast <= casts' /\ outbox[c][k].cast < casts'
      BY <1>1, <1>5, <1>6
    <2>2. \A fd \in watched : fdtable[fd] \in Clients
      BY DEF IInv, TableInv
    <2>3. StreamsInOrder'
      BY <1>1 DEF IInv, StreamInv, StreamsInOrder, Before
    <2> QED
      BY <1>1, <1>2, <1>5, <2>1, <2>2, <2>3 DEF StreamInv
  <1>8. CountInv'
    <2>1. \A fd \in watched : Owed(fd) = 0 /\ Owed(fd)' = 2
      BY <1>1 DEF Owed
    <2>2. \A fd \in watched : fdtable[fd] \in Clients
      BY DEF IInv, TableInv
    <2>3. \A fd \in watched :
            fdtable'[fd] \notin lost' =>
              Len(outbox'[fdtable'[fd]]) + Owed(fd)' = 2 * (casts' - joined'[fdtable'[fd]])
      <3> SUFFICES ASSUME NEW fd \in watched, fdtable'[fd] \notin lost'
                   PROVE  Len(outbox'[fdtable'[fd]]) + Owed(fd)' = 2 * (casts' - joined'[fdtable'[fd]])
        OBVIOUS
      <3> DEFINE len == Len(outbox[fdtable[fd]])
                 since == joined[fdtable[fd]]
      <3>1. len + Owed(fd) = 2 * (casts - since)
        BY <1>1, <1>2 DEF IInv, CountInv
      <3>2. since \in Nat
        BY <2>2 DEF IInv, CountInv
      <3>3. len \in Nat
        <4>1. outbox[fdtable[fd]] \in Seq(Parts)
          BY <1>5, <2>2
        <4> QED
          BY <4>1
      <3>4. Owed(fd) = 0 /\ Owed(fd)' = 2
        BY <2>1
      <3>5. len + 2 = 2 * (casts + 1 - since)
        <4> HIDE DEF len, since
        <4> QED
          BY <1>5, <3>1, <3>2, <3>3, <3>4
      <3>6. casts \in Nat /\ casts' = casts + 1
        BY <1>1 DEF IInv, StreamInv
      <3> QED
        BY <1>1, <1>2, <3>2, <3>3, <3>4, <3>5, <3>6
    <2>4. /\ joined' \in [Clients -> Nat]
          /\ \A c \in Clients :
               conn'[c] = "idle" \/ (\E k \in DOMAIN backlog' : backlog'[k] = c) => outbox'[c] = <<>>
      BY <1>1, <1>2 DEF IInv, CountInv
    <2> QED
      BY <1>2, <2>3, <2>4 DEF CountInv
  <1> QED
    BY <1>3, <1>4, <1>7, <1>8 DEF IInv

\* After the last pack the thread goes back to the batch.
LEMMA PacksDoneIInv ==
  ASSUME IInv, PacksDone
  PROVE  IInv'
  <1>1. /\ UNCHANGED <<kernel, descriptors, delivery, m_linkmap, ready, broadcast, reported>>
        /\ pc = "packs" /\ pc' = "events"
    BY DEF PacksDone
  <1>2. UNCHANGED <<conn, backlog, listening, fdtable, watched, outbox, casts>>
    BY <1>1 DEF kernel, descriptors, delivery
  <1>3. BatchInv'
    BY <1>1, <1>2 DEF IInv, BatchInv, broadcast
  <1> QED
    BY <1>1, <1>2, <1>3, TableKept, QueueKept, StreamKept, CountKept DEF IInv

\* A part that is sent, or lost, brings one client one part nearer to the whole
\* of the broadcast.
LEMMA SendReturnsIInv ==
  ASSUME IInv, NEW c \in Clients, NEW to \in Conns \ {"idle"}, NEW out \in BOOLEAN,
         Sending(c), SendReturns(c, to, out)
  PROVE  IInv'
  <1>1. PICK t \in watched : /\ t = Target /\ t \in toSend /\ t \in Fds
                             /\ c = fdtable[t] /\ pc = "send"
    <2>1. pc = "send" /\ toSend \subseteq watched /\ toSend # {} /\ toSend \in SUBSET Nat
      BY ServerAssumption DEF Sending, IInv, BatchInv, Fds
    <2>2. Target \in toSend
      BY <2>1, MinIsIn DEF Target
    <2> QED
      BY <2>1, <2>2 DEF Sending, IInv, BatchInv
  <1>2. /\ conn' = [conn EXCEPT ![c] = to]
        /\ outbox' = IF out THEN [outbox EXCEPT ![c] = Append(@, Sent)] ELSE outbox
        /\ lost' = IF out THEN lost ELSE lost \cup {c}
        /\ UNCHANGED <<inbox, written, backlog, listening, descriptors, casts, joined, m_linkmap,
                       ready, current, reported>>
    BY DEF SendReturns
  <1>3. UNCHANGED <<fdtable, watched>>
    BY <1>2 DEF descriptors
  <1>4. \/ part = "head" /\ part' = "body" /\ toSend' = toSend /\ pc' = "send"
        \/ /\ part = "body" /\ part' = "head" /\ toSend' = toSend \ {t}
           /\ pc' = IF toSend' = {} THEN "packs" ELSE "send"
    BY <1>1 DEF SendReturns, NextSend
  <1>5. /\ conn' \in [Clients -> Conns] /\ conn'[c] # "idle" /\ conn[c] # "idle"
        /\ \A d \in Clients : (conn'[d] = "idle") <=> (conn[d] = "idle")
    <2>1. conn \in [Clients -> Conns] /\ conn[c] # "idle"
      BY <1>1, ServerAssumption DEF IInv, QueueInv
    <2> QED
      BY <1>2, <2>1
  <1>6. TableInv'
    BY <1>2, TableKept DEF IInv
  <1>7. QueueInv'
    <2>1. \A k \in DOMAIN backlog : backlog[k] \in Clients
      BY DEF IInv, QueueInv
    <2>2. \A fd \in Fds : fdtable[fd] # Free => fdtable[fd] \in Clients
      BY DEF IInv, TableInv
    <2> QED
      BY <1>2, <1>3, <1>5, <2>1, <2>2 DEF IInv, QueueInv
  <1>8. BatchInv'
    BY <1>1, <1>2, <1>3, <1>4 DEF IInv, BatchInv
  <1>9. /\ casts \in Nat /\ outbox \in [Clients -> Seq(Parts)] /\ outbox[c] \in Seq(Parts)
        /\ Sent \in Parts /\ Sent.cast = casts /\ Sent.part = part
    BY DEF IInv, StreamInv, BatchInv, Sent, Parts
  <1>10. /\ Len(outbox[c]) \in Nat /\ DOMAIN outbox[c] = 1 .. Len(outbox[c])
         /\ outbox' \in [Clients -> Seq(Parts)]
         /\ \A d \in Clients \ {c} : outbox'[d] = outbox[d]
         /\ out => Len(outbox'[c]) = Len(outbox[c]) + 1
         /\ \A k \in DOMAIN outbox'[c] :
              \/ k \in DOMAIN outbox[c] /\ outbox'[c][k] = outbox[c][k]
              \/ k = Len(outbox[c]) + 1 /\ outbox'[c][k] = Sent
    <2>1. /\ Append(outbox[c], Sent) \in Seq(Parts)
          /\ Len(Append(outbox[c], Sent)) = Len(outbox[c]) + 1
          /\ Len(outbox[c]) \in Nat /\ DOMAIN outbox[c] = 1 .. Len(outbox[c])
          /\ DOMAIN Append(outbox[c], Sent) = 1 .. Len(outbox[c]) + 1
          /\ \A k \in 1 .. Len(outbox[c]) : Append(outbox[c], Sent)[k] = outbox[c][k]
          /\ Append(outbox[c], Sent)[Len(outbox[c]) + 1] = Sent
      BY <1>9, Appended
    <2>2. CASE out
      <3>1. /\ outbox' = [outbox EXCEPT ![c] = Append(outbox[c], Sent)]
            /\ outbox'[c] = Append(outbox[c], Sent)
        BY <1>2, <1>9, <2>2
      <3>2. \A k \in 1 .. Len(outbox[c]) + 1 : k \in 1 .. Len(outbox[c]) \/ k = Len(outbox[c]) + 1
        BY <2>1
      <3>3. /\ outbox' \in [Clients -> Seq(Parts)]
            /\ \A d \in Clients \ {c} : outbox'[d] = outbox[d]
        BY <1>9, <2>1, <3>1
      <3> QED
        BY <2>1, <3>1, <3>2, <3>3
    <2>3. CASE ~out
      <3>1. outbox' = outbox
        BY <1>2, <2>3
      <3> QED
        BY <1>9, <2>1, <2>3, <3>1
    <2> QED
      BY <2>2, <2>3
  <1> HIDE DEF Sent
  <1>11. \A fd \in Fds \ {t} : fdtable[fd] # c
    BY <1>1, ServerAssumption DEF IInv, TableInv
  <1>12. StreamInv'
    <2>1. \A k \in DOMAIN outbox[c] :
            /\ outbox[c][k].cast \in Nat /\ outbox[c][k].cast <= casts
            /\ outbox[c][k].cast < casts \/ (part = "body" /\ outbox[c][k].part = "head")
      <3> SUFFICES ASSUME NEW k \in DOMAIN outbox[c]
                   PROVE  /\ outbox[c][k].cast \in Nat /\ outbox[c][k].cast <= casts
                          /\ \/ outbox[c][k].cast < casts
                             \/ part = "body" /\ outbox[c][k].part = "head"
        OBVIOUS
      <3>1. outbox[c][k] \in Parts
        BY <1>9
      <3>2. outbox[c][k].cast < casts \/ (part = "body" /\ outbox[c][k].part = "head")
        BY <1>1 DEF IInv, StreamInv
      <3>3. outbox[c][k].cast <= casts
        BY DEF IInv, StreamInv
      <3> QED
        BY <3>1, <3>2, <3>3 DEF Parts
    <2>2. \A k \in DOMAIN outbox[c] : Before(outbox[c][k], Sent)
      BY <1>9, <2>1 DEF Before
    <2>3. \A d \in Clients : \A k \in DOMAIN outbox'[d] : outbox'[d][k].cast <= casts'
      <3> SUFFICES ASSUME NEW d \in Clients, NEW k \in DOMAIN outbox'[d]
                   PROVE  outbox'[d][k].cast <= casts
        BY <1>2
      <3>1. CASE d # c
        BY <1>10, <3>1 DEF IInv, StreamInv
      <3>2. CASE d = c
        BY <1>9, <1>10, <2>1, <3>2
      <3> QED
        BY <3>1, <3>2
    <2>4. StreamsInOrder'
      <3> SUFFICES ASSUME NEW d \in Clients, NEW j \in DOMAIN outbox'[d],
                          NEW k \in DOMAIN outbox'[d], j < k
                   PROVE  Before(outbox'[d][j], outbox'[d][k])
        BY DEF StreamsInOrder, Before
      <3>1. CASE d # c
        BY <1>10, <3>1 DEF IInv, StreamInv, StreamsInOrder
      <3>2. CASE d = c
        <4>1. CASE j \in DOMAIN outbox[c] /\ outbox'[c][j] = outbox[c][j]
          <5>1. CASE k \in DOMAIN outbox[c] /\ outbox'[c][k] = outbox[c][k]
            BY <3>2, <4>1, <5>1 DEF IInv, StreamInv, StreamsInOrder
          <5>2. CASE outbox'[c][k] = Sent
            BY <2>2, <3>2, <4>1, <5>2
          <5> QED
            BY <1>10, <3>2, <5>1, <5>2
        <4>2. CASE j = Len(outbox[c]) + 1
          BY <1>10, <3>2, <4>2
        <4> QED
          BY <1>10, <3>2, <4>1, <4>2
      <3> QED
        BY <3>1, <3>2
    <2>5. \A fd \in toSend \ {t} :
            /\ fdtable[fd] \in Clients \ {c}
            /\ \A k \in DOMAIN outbox[fdtable[fd]] : outbox[fdtable[fd]][k].cast < casts
      <3>1. toSend \subseteq watched /\ watched \subseteq Fds
        BY <1>1 DEF IInv, BatchInv, TableInv
      <3>2. \A fd \in toSend : fdtable[fd] \in Clients
        BY <3>1 DEF IInv, TableInv
      <3> QED
        BY <1>1, <1>11, <3>1, <3>2 DEF IInv, StreamInv
    <2>6. pc' = "send" =>
            \A fd \in toSend' : \A k \in DOMAIN outbox'[fdtable'[fd]] :
              LET e == outbox'[fdtable'[fd]][k] IN
                e.cast < casts' \/ (fd = Target' /\ part' = "body" /\ e.part = "head")
      <3> SUFFICES ASSUME pc' = "send", NEW fd \in toSend', NEW k \in DOMAIN outbox'[fdtable[fd]]
                   PROVE  LET e == outbox'[fdtable[fd]][k] IN
                            e.cast < casts \/ (fd = Target' /\ part' = "body" /\ e.part = "head")
        BY <1>2, <1>3
      <3>1. CASE fd # t
        <4>1. fd \in toSend \ {t}
          BY <1>4, <3>1
        <4>2. outbox'[fdtable[fd]] = outbox[fdtable[fd]]
          BY <1>10, <2>5, <4>1
        <4> QED
          BY <2>5, <4>1, <4>2
      <3>2. CASE fd = t
        <4>1. part = "head" /\ part' = "body" /\ toSend' = toSend
          BY <1>4, <3>2
        <4>2. Target' = t
          BY <1>1, <4>1 DEF Target
        <4>3. k \in DOMAIN outbox'[c] /\ fdtable[fd] = c
          BY <1>1, <3>2
        <4>4. CASE k \in DOMAIN outbox[c] /\ outbox'[c][k] = outbox[c][k]
          BY <2>1, <4>1, <4>3, <4>4
        <4>5. CASE outbox'[c][k] = Sent
          BY <1>9, <3>2, <4>1, <4>2, <4>3, <4>5
        <4> QED
          BY <1>10, <4>3, <4>4, <4>5
      <3> QED
        BY <3>1, <3>2
    <2> QED
      BY <1>2, <1>9, <1>10, <2>3, <2>4, <2>6 DEF StreamInv
  <1>13. CountInv'
    <2>1. /\ Owed(t) \in {1, 2} /\ Owed(t)' = Owed(t) - 1
          /\ \A g \in watched \ {t} : Owed(g)' = Owed(g) /\ Owed(g) \in {0, 2}
      <3>1. CASE part = "head"
        <4>1. part' = "body" /\ toSend' = toSend /\ pc' = "send" /\ Target' = t
          BY <1>1, <1>4, <3>1 DEF Target
        <4>2. /\ Owed(t) = 2 /\ Owed(t)' = 1
              /\ \A g \in watched \ {t} : Owed(g)' = Owed(g) /\ Owed(g) \in {0, 2}
          BY <1>1, <3>1, <4>1 DEF Owed
        <4> QED
          BY <4>2
      <3>2. CASE part = "body"
        <4>1. /\ part' = "head" /\ toSend' = toSend \ {t}
              /\ pc' = IF toSend' = {} THEN "packs" ELSE "send"
          BY <1>4, <3>2
        <4>2. Owed(t) = 1 /\ Owed(t)' = 0
          BY <1>1, <3>2, <4>1 DEF Owed
        <4>3. \A g \in watched \ {t} : Owed(g)' = Owed(g) /\ Owed(g) \in {0, 2}
          BY <1>1, <3>2, <4>1 DEF Owed
        <4> QED
          BY <4>2, <4>3
      <3> QED
        BY <1>4, <3>1, <3>2
    <2>2. \A d \in Clients :
            conn'[d] = "idle" \/ (\E k \in DOMAIN backlog' : backlog'[k] = d) => outbox'[d] = <<>>
      <3> SUFFICES ASSUME NEW d \in Clients,
                          conn'[d] = "idle" \/ (\E k \in DOMAIN backlog' : backlog'[k] = d)
                   PROVE  outbox'[d] = <<>>
        OBVIOUS
      <3>1. d # c
        BY <1>1, <1>2, <1>5 DEF IInv, QueueInv
      <3> QED
        BY <1>2, <1>5, <1>10, <3>1 DEF IInv, CountInv
    <2>3. \A g \in watched' :
            fdtable'[g] \notin lost' =>
              Len(outbox'[fdtable'[g]]) + Owed(g)' = 2 * (casts' - joined'[fdtable'[g]])
      <3> SUFFICES ASSUME NEW g \in watched', fdtable'[g] \notin lost'
                   PROVE  Len(outbox'[fdtable'[g]]) + Owed(g)' = 2 * (casts' - joined'[fdtable'[g]])
        OBVIOUS
      <3>1. /\ g \in watched /\ fdtable' = fdtable /\ casts' = casts /\ joined' = joined
            /\ fdtable[g] \in Clients
        BY <1>2, <1>3 DEF IInv, TableInv
      <3>2. fdtable[g] \notin lost
        BY <1>2, <3>1
      <3>3. Len(outbox[fdtable[g]]) + Owed(g) = 2 * (casts - joined[fdtable[g]])
        BY <3>1, <3>2 DEF IInv, CountInv
      <3>4. CASE g = t
        <4>1. out /\ Len(outbox'[c]) = Len(outbox[c]) + 1 /\ fdtable[g] = c
          BY <1>1, <1>2, <1>10, <3>1, <3>4
        <4>2. /\ Len(outbox[c]) \in Nat /\ Owed(t) \in {1, 2} /\ Owed(t)' = Owed(t) - 1
              /\ Len(outbox[c]) + Owed(t) = 2 * (casts - joined[c])
          BY <1>10, <2>1, <3>3, <3>4, <4>1
        <4>3. Len(outbox'[c]) + Owed(t)' = Len(outbox[c]) + Owed(t)
          BY <4>1, <4>2
        <4> QED
          BY <3>1, <3>4, <4>1, <4>2, <4>3
      <3>5. CASE g # t
        <4>1. fdtable[g] # c
          BY <1>11, <3>1, <3>5 DEF IInv, TableInv
        <4> QED
          BY <1>10, <2>1, <3>1, <3>3, <3>5, <4>1
      <3> QED
        BY <3>4, <3>5
    <2> QED
      BY <1>2, <2>2, <2>3 DEF IInv, CountInv
  <1> QED
    BY <1>6, <1>7, <1>8, <1>12, <1>13 DEF IInv

\* What the kernel does with a part it takes or refuses.
LEMMA SendIInv ==
  ASSUME IInv, NEW c \in Clients, SendAccepted(c) \/ SendFails(c)
  PROVE  IInv'
  <1>1. PICK to \in Conns \ {"idle"}, out \in BOOLEAN :
          Sending(c) /\ SendReturns(c, to, out)
    <2>1. /\ "up" \in Conns \ {"idle"} /\ "poked" \in Conns \ {"idle"}
          /\ "dead" \in Conns \ {"idle"}
      BY DEF Conns, Gone
    <2>2. CASE SendAccepted(c)
      BY <2>1, <2>2 DEF SendAccepted
    <2>3. CASE SendFails(c)
      BY <2>1, <2>3 DEF SendFails
    <2> QED
      BY <2>2, <2>3
  <1> QED
    BY <1>1, SendReturnsIInv

\* The end of the server, from inside or outside.
LEMMA EndIInv ==
  ASSUME IInv, SendKills \/ Interrupted
  PROVE  IInv'
  <1>1. AllClosed /\ pc' \in {"stopped", "killed"} /\ UNCHANGED delivery
    BY DEF SendKills, Killed, Interrupted
  <1> QED
    BY <1>1, AllClosedIInv

-----------------------------------------------------------------------------
(* The theorems. *)

\* Every step of a client and of the thread keeps the invariant.
THEOREM StepIInv == IInv /\ [Next]_vars => IInv'
  <1> SUFFICES ASSUME IInv, [Next]_vars PROVE IInv'
    OBVIOUS
  <1>1. CASE Environment
    <2>1. PICK c \in Clients : Connect(c) \/ Write(c) \/ Close(c) \/ Reset(c) \/ ResetArrives(c)
      BY <1>1 DEF Environment
    <2>2. \A s \in Gone : s \in Conns /\ s # "idle"
      BY DEF Conns, Gone
    <2>3. "up" \in Conns /\ {"fin", "poked", "rst", "dead"} = Gone
      BY DEF Conns, Gone
    <2>4. CASE Connect(c)
      BY <2>4, ConnectIInv
    <2>5. CASE Write(c)
      BY <2>5, WriteIInv
    <2>6. CASE Close(c)
      BY <2>3, <2>6, ConnChangesIInv DEF Close
    <2>7. CASE Reset(c)
      BY <2>3, <2>7, ConnChangesIInv DEF Reset
    <2>8. CASE ResetArrives(c)
      BY <2>2, <2>3, <2>8, ConnChangesIInv DEF ResetArrives
    <2> QED
      BY <2>1, <2>4, <2>5, <2>6, <2>7, <2>8
  <1>2. CASE Dojob
    <2>1. CASE EpollWait \/ EventsDone
      BY <2>1, EpollWaitIInv, EventsDoneIInv
    <2>2. CASE Accept \/ AcceptFails \/ AcceptClosesListener
      BY <2>2, AcceptIInv, AcceptFailsIInv, AcceptClosesListenerIInv
    <2>3. CASE \E fd \in Fds : ReadNothing(fd) \/ ReadEnd(fd)
      BY <2>3, ReadNothingIInv, ReadEndIInv
    <2>4. CASE \E fd \in Fds, n \in 1 .. MaxFrames : Read(fd, n)
      BY <2>4, ReadIInv
    <2>5. CASE HandleSilently \/ HandleAndBroadCast \/ PacksDone
      BY <2>5, HandleSilentlyIInv, HandleAndBroadCastIInv, PacksDoneIInv
    <2>6. CASE \E c \in Clients : SendAccepted(c) \/ SendFails(c)
      BY <2>6, SendIInv
    <2>7. CASE SendKills
      BY <2>7, EndIInv
    <2> QED
      BY <1>2, <2>1, <2>2, <2>3, <2>4, <2>5, <2>6, <2>7 DEF Dojob
  <1>3. CASE Interrupted
    BY <1>3, EndIInv
  <1>4. CASE UNCHANGED vars
    <2>1. UNCHANGED <<conn, backlog, listening, descriptors, delivery, m_linkmap, loop,
                      fdtable, watched, outbox, casts, pc, broadcast>>
      BY <1>4 DEF vars, kernel, descriptors, delivery, loop
    <2> QED
      BY <2>1, TableKept, QueueKept, BatchKept, StreamKept, CountKept DEF IInv
  <1> QED
    BY <1>1, <1>2, <1>3, <1>4 DEF Next

\* The invariant holds in every state of every run.
THEOREM SpecIInv == Spec => []IInv
  BY InitIInv, StepIInv, PTL DEF Spec

\* At every moment the map of links, the epoll set and the open descriptors
\* speak of the same connections.
THEOREM SpecLinksMatchSockets == Spec => []LinksMatchSockets
  <1>1. IInv => LinksMatchSockets
    BY ServerAssumption DEF IInv, TableInv, LinksMatchSockets, Links
  <1> QED
    BY <1>1, SpecIInv, PTL

\* No event of a batch is served for another connection than the one it was
\* reported for, however descriptors are closed and reused within the batch.
THEOREM SpecEventsAreFresh == Spec => []EventsAreFresh
  <1>1. IInv => EventsAreFresh
    BY ServerAssumption DEF IInv, TableInv, BatchInv, EventsAreFresh, Linked, Links
  <1> QED
    BY <1>1, SpecIInv, PTL

\* While a broadcast walks the map no recipient of it comes or goes.
THEOREM SpecRecipientsStay == Spec => []RecipientsStay
  <1>1. IInv => RecipientsStay
    BY DEF IInv, TableInv, BatchInv, RecipientsStay
  <1> QED
    BY <1>1, SpecIInv, PTL

\* Every client gets every broadcast's header and body once, in the order the
\* broadcasts were made.
THEOREM SpecStreamsInOrder == Spec => []StreamsInOrder
  <1>1. IInv => StreamsInOrder
    BY DEF IInv, StreamInv
  <1> QED
    BY <1>1, SpecIInv, PTL

\* Between broadcasts no linked client whose sends all went out has missed any
\* part of one made since it was accepted.
THEOREM SpecNothingMissed == Spec => []NothingMissed
  <1>1. IInv => NothingMissed
    <2> SUFFICES ASSUME IInv, pc \in {"wait", "events", "packs"}, NEW fd \in DOMAIN m_linkmap,
                        conn[fdtable[fd]] = "up", fdtable[fd] \notin lost
                 PROVE  Len(outbox[fdtable[fd]]) = 2 * (casts - joined[fdtable[fd]])
      BY DEF NothingMissed
    <2>1. fd \in watched /\ fdtable[fd] \in Clients
      BY DEF IInv, TableInv
    <2>2. Owed(fd) = 0
      BY DEF Owed
    <2>3. Len(outbox[fdtable[fd]]) + Owed(fd) = 2 * (casts - joined[fdtable[fd]])
      BY <2>1 DEF IInv, CountInv
    <2>4. Len(outbox[fdtable[fd]]) \in Nat
      <3>1. outbox[fdtable[fd]] \in Seq(Parts)
        BY <2>1 DEF IInv, StreamInv
      <3> QED
        BY <3>1
    <2> QED
      BY <2>2, <2>3, <2>4
  <1> QED
    BY <1>1, SpecIInv, PTL

-----------------------------------------------------------------------------
(* SocketServer implements BroadcastLog. *)

Served == {fdtable[fd] : fd \in watched}

\* Between broadcasts no link is owed anything.
LEMMA NothingDue ==
  ASSUME IInv, pc # "send"
  PROVE  Log!Everywhere
  <1> SUFFICES ASSUME NEW c \in Served \ lost PROVE Log!Due(c) = 0
    BY DEF Log!Everywhere, Served
  <1>1. PICK fd \in watched : c = fdtable[fd]
    BY DEF Served
  <1>2. c \in Clients
    BY <1>1 DEF IInv, TableInv
  <1>3. Owed(fd) = 0
    BY DEF Owed
  <1>4. Len(outbox[c]) + Owed(fd) = 2 * (casts - joined[c])
    BY <1>1 DEF IInv, CountInv
  <1>5. Len(outbox[c]) \in Nat /\ casts \in Nat /\ joined[c] \in Nat
    <2>1. outbox[c] \in Seq(Parts)
      BY <1>2 DEF IInv, StreamInv
    <2> QED
      BY <1>2, <2>1 DEF IInv, StreamInv, CountInv
  <1> QED
    BY <1>3, <1>4, <1>5 DEF Log!Due

\* A step that sends nothing, and neither adds nor removes a link.
LEMMA LogKept ==
  ASSUME UNCHANGED <<delivery, descriptors>>
  PROVE  UNCHANGED Log!vars
  BY DEF Log!vars, delivery, descriptors

LEMMA InitLog == Init => Log!Init
  <1> SUFFICES ASSUME Init PROVE Log!Init
    OBVIOUS
  <1>1. Served = {}
    BY DEF Init, Served
  <1> QED
    BY <1>1 DEF Init, Log!Init, Served

\* A client that is accepted joins; it was at no descriptor and got nothing yet.
LEMMA AcceptJoins ==
  ASSUME IInv, Accept
  PROVE  \E c \in Clients : Log!Join(c)
  <1> DEFINE fd == Min(FreeFds)
             c == Head(backlog)
  <1>1. /\ AcceptEvent /\ FreeFds # {} /\ pc = "events"
        /\ fdtable' = [fdtable EXCEPT ![fd] = c]
        /\ watched' = watched \cup {fd}
        /\ joined' = [joined EXCEPT ![c] = casts]
        /\ UNCHANGED <<outbox, casts, lost>>
    BY DEF Accept, AcceptEvent, WatchedAfterAccept
  <1>2. /\ c \in Clients /\ c = backlog[1] /\ 1 \in DOMAIN backlog
        /\ \A g \in Fds : fdtable[g] # c
        /\ fd \in Fds /\ fdtable[fd] = Free
    BY <1>1, QueueFacts
  <1> HIDE DEF fd, c
  <1>3. fd \notin watched /\ watched \subseteq Fds
    BY <1>2 DEF IInv, TableInv
  <1>4. Served' = Served \cup {c} /\ c \notin Served
    <2>1. fdtable'[fd] = c /\ \A g \in watched : fdtable'[g] = fdtable[g]
      BY <1>1, <1>2, <1>3 DEF IInv, TableInv
    <2> QED
      BY <1>1, <1>2, <1>3, <2>1 DEF Served
  <1>5. outbox[c] = <<>>
    BY <1>2 DEF IInv, CountInv
  <1>6. Log!Everywhere
    BY <1>1, NothingDue
  <1>7. PICK client \in Clients : client = c
    BY <1>2
  <1>8. Log!Join(client)
    BY <1>1, <1>4, <1>5, <1>6, <1>7 DEF Log!Join, Served
  <1> QED
    BY <1>8

\* The accepted socket that is kept open in place of the listening one has no link.
LEMMA ClosedListenerKeepsLog ==
  ASSUME IInv, AcceptClosesListener
  PROVE  UNCHANGED Log!vars
  <1> DEFINE fd == Min(FreeFds)
  <1>1. /\ AcceptEvent /\ FreeFds # {}
        /\ fdtable' = [fdtable EXCEPT ![fd] = Head(backlog)]
        /\ UNCHANGED <<watched, delivery>>
    BY DEF AcceptClosesListener, AcceptEvent
  <1>2. fd \in Fds /\ fdtable[fd] = Free
    BY <1>1, QueueFacts
  <1> HIDE DEF fd
  <1>3. \A g \in watched : fdtable'[g] = fdtable[g]
    BY <1>1, <1>2 DEF IInv, TableInv
  <1>4. Served' = Served
    BY <1>1, <1>3 DEF Served
  <1> QED
    BY <1>1, <1>4 DEF Log!vars, delivery, Served

\* A link that is deleted leaves, and no other does.
LEMMA ReadEndLeaves ==
  ASSUME IInv, NEW fd \in Fds, ReadEnd(fd)
  PROVE  \E c \in Clients : Log!Leave(c)
  <1> DEFINE c == fdtable[fd]
  <1>1. /\ pc = "events" /\ fd \in ready \cap Fds
        /\ fdtable' = [fdtable EXCEPT ![fd] = Free]
        /\ watched' = watched \ {fd}
        /\ UNCHANGED delivery
    BY DEF ReadEnd, ReadEvent
  <1>2. fd \in watched /\ c \in Clients
    BY <1>1 DEF IInv, BatchInv, TableInv
  <1>3. Served' = Served \ {c}
    <2>1. \A g \in watched \ {fd} : fdtable'[g] = fdtable[g] /\ fdtable[g] # c
      BY <1>1, <1>2 DEF IInv, TableInv
    <2> HIDE DEF c
    <2>2. c = fdtable[fd]
      BY DEF c
    <2> QED
      BY <1>1, <1>2, <2>1, <2>2 DEF Served
  <1>4. Log!Everywhere
    BY <1>1, NothingDue
  <1> HIDE DEF c
  <1>5. PICK client \in Clients : client = c
    BY <1>2
  <1>6. Log!Leave(client)
    BY <1>1, <1>3, <1>4, <1>5 DEF Log!Leave, delivery, Served
  <1> QED
    BY <1>6

\* A broadcast begins when the one before is with everybody.
LEMMA BroadCastBegins ==
  ASSUME IInv, HandleAndBroadCast
  PROVE  Log!Begin
  <1>1. pc = "packs" /\ casts' = casts + 1 /\ UNCHANGED <<descriptors, outbox, joined, lost>>
    BY DEF HandleAndBroadCast, TakePack
  <1>2. Log!Everywhere
    BY <1>1, NothingDue
  <1> QED
    BY <1>1, <1>2 DEF Log!Begin, descriptors

\* Which part is the next, by how many are missing of d broadcasts.
LEMMA NextPart ==
  ASSUME NEW d \in Int, NEW n \in Int, NEW len \in Nat
  PROVE  /\ len + 2 = 2 * d => Log!Nth(n, len + 1) = [cast |-> n + d, part |-> "head"]
         /\ len + 1 = 2 * d => Log!Nth(n, len + 1) = [cast |-> n + d, part |-> "body"]
  <1>1. len + 2 = 2 * d => (len + 1 + 1) \div 2 = d /\ (len + 1) % 2 = 1
    BY SMT
  <1>2. len + 1 = 2 * d => (len + 1 + 1) \div 2 = d /\ (len + 1) % 2 # 1
    BY SMT
  <1> QED
    BY <1>1, <1>2 DEF Log!Nth

\* A part that goes out is the next one of the client; one that fails breaks its
\* stream, and what it is sent after that is still of the last broadcast.
LEMMA SendReturnsLog ==
  ASSUME IInv, NEW c \in Clients, NEW to, NEW out \in BOOLEAN, Sending(c), SendReturns(c, to, out)
  PROVE  Log!Put(c) \/ Log!PutBehindGap(c) \/ Log!Break(c)
  <1>1. PICK t \in watched : /\ t = Target /\ t \in toSend
                             /\ c = fdtable[t] /\ pc = "send"
    <2>1. pc = "send" /\ toSend \subseteq watched /\ toSend # {} /\ toSend \in SUBSET Nat
      BY ServerAssumption DEF Sending, IInv, BatchInv, Fds
    <2>2. Target \in toSend
      BY <2>1, MinIsIn DEF Target
    <2> QED
      BY <2>1, <2>2 DEF Sending, IInv, BatchInv
  <1>2. /\ outbox' = IF out THEN [outbox EXCEPT ![c] = Append(@, Sent)] ELSE outbox
        /\ lost' = IF out THEN lost ELSE lost \cup {c}
        /\ UNCHANGED <<fdtable, watched, casts, joined>>
    BY DEF SendReturns, descriptors
  <1>3. Served' = Served /\ c \in Served
    BY <1>1, <1>2 DEF Served
  <1>4. CASE ~out
    BY <1>2, <1>3, <1>4 DEF Log!Break, Served
  <1>5. CASE out /\ c \notin lost
    <2>1. Len(outbox[c]) + Owed(t) = 2 * (casts - joined[c])
      BY <1>1, <1>5 DEF IInv, CountInv
    <2>2. Owed(t) = IF part = "body" THEN 1 ELSE 2
      BY <1>1 DEF Owed
    <2>3. part \in {"head", "body"} /\ casts \in Nat /\ joined[c] \in Nat
      BY DEF IInv, BatchInv, StreamInv, CountInv
    <2>4. Len(outbox[c]) \in Nat
      <3>1. outbox[c] \in Seq(Parts)
        BY DEF IInv, StreamInv
      <3> QED
        BY <3>1
    <2> DEFINE len == Len(outbox[c])
               n == joined[c]
               d == casts - joined[c]
    <2>5. Sent = Log!Nth(n, len + 1) /\ Log!Due(c) > 0
      <3>1. len \in Nat /\ n \in Int /\ d \in Int /\ n + d = casts
        BY <2>3, <2>4
      <3>2. len + Owed(t) = 2 * d
        BY <2>1
      <3>3. Log!Due(c) = 2 * d - len
        BY DEF Log!Due
      <3> HIDE DEF len, n, d
      <3>4. CASE part = "head"
        <4>1. len + 2 = 2 * d
          BY <2>2, <3>2, <3>4
        <4>2. Log!Nth(n, len + 1) = [cast |-> n + d, part |-> "head"]
          BY <3>1, <4>1, NextPart
        <4>3. Sent = [cast |-> n + d, part |-> "head"]
          BY <3>1, <3>4 DEF Sent
        <4>4. Log!Due(c) > 0
          BY <3>1, <3>3, <4>1
        <4> QED
          BY <4>2, <4>3, <4>4
      <3>5. CASE part = "body"
        <4>1. len + 1 = 2 * d
          BY <2>2, <3>2, <3>5
        <4>2. Log!Nth(n, len + 1) = [cast |-> n + d, part |-> "body"]
          BY <3>1, <4>1, NextPart
        <4>3. Sent = [cast |-> n + d, part |-> "body"]
          BY <3>1, <3>5 DEF Sent
        <4>4. Log!Due(c) > 0
          BY <3>1, <3>3, <4>1
        <4> QED
          BY <4>2, <4>3, <4>4
      <3> QED
        BY <2>3, <3>4, <3>5
    <2>6. outbox' = [outbox EXCEPT ![c] = Append(@, Log!Nth(joined[c], Len(@) + 1))]
      <3>1. outbox' = [outbox EXCEPT ![c] = Append(outbox[c], Sent)]
        BY <1>2, <1>5 DEF IInv, StreamInv
      <3> QED
        BY <2>5, <3>1 DEF IInv, StreamInv
    <2> QED
      BY <1>2, <1>3, <1>5, <2>5, <2>6 DEF Log!Put, Served
  <1>6. CASE out /\ c \in lost
    <2>1. part \in Log!Halves
      BY DEF IInv, BatchInv, Log!Halves
    <2>2. \A k \in DOMAIN outbox[c] : Log!Before(outbox[c][k], [cast |-> casts, part |-> part])
      <3> SUFFICES ASSUME NEW k \in DOMAIN outbox[c]
                   PROVE  Log!Before(outbox[c][k], [cast |-> casts, part |-> part])
        OBVIOUS
      <3>1. outbox[c][k].cast < casts \/ (part = "body" /\ outbox[c][k].part = "head")
        BY <1>1 DEF IInv, StreamInv
      <3>2. outbox[c][k].cast <= casts /\ outbox[c][k].cast \in Nat /\ casts \in Nat
        <4>1. outbox[c] \in Seq(Parts)
          BY DEF IInv, StreamInv
        <4>2. outbox[c][k] \in Parts
          BY <4>1
        <4> QED
          BY <4>2 DEF IInv, StreamInv, Parts
      <3> QED
        BY <3>1, <3>2 DEF Log!Before
    <2> QED
      BY <1>2, <1>3, <1>6, <2>1, <2>2 DEF Log!PutBehindGap, Sent, Served
  <1> QED
    BY <1>4, <1>5, <1>6

LEMMA SendPuts ==
  ASSUME IInv, NEW c \in Clients, SendAccepted(c) \/ SendFails(c)
  PROVE  Log!Put(c) \/ Log!PutBehindGap(c) \/ Log!Break(c)
  BY SendReturnsLog DEF SendAccepted, SendFails

LEMMA EndEnds == ASSUME AllClosed, UNCHANGED delivery PROVE Log!End
  <1>1. Served' = {}
    BY DEF AllClosed, Served
  <1> QED
    BY <1>1 DEF Log!End, delivery, Served

\* Every step of a client and of the thread is one of the log, or none.
LEMMA StepLog == IInv /\ [Next]_vars => [Log!Next]_(Log!vars)
  <1> SUFFICES ASSUME IInv, [Next]_vars PROVE Log!Next \/ UNCHANGED Log!vars
    OBVIOUS
  <1>1. CASE Environment
    <2>1. UNCHANGED <<delivery, descriptors>>
      BY <1>1 DEF Environment, Connect, Write, Close, Reset, ResetArrives, ConnChanges
    <2> QED
      BY <2>1, LogKept
  <1>2. CASE Accept
    BY <1>2, AcceptJoins DEF Log!Next
  <1>3. CASE AcceptClosesListener
    BY <1>3, ClosedListenerKeepsLog
  <1>4. CASE \E fd \in Fds : ReadEnd(fd)
    BY <1>4, ReadEndLeaves DEF Log!Next
  <1>5. CASE HandleAndBroadCast
    BY <1>5, BroadCastBegins DEF Log!Next
  <1>6. CASE \E c \in Clients : SendAccepted(c) \/ SendFails(c)
    BY <1>6, SendPuts DEF Log!Next
  <1>7. CASE SendKills \/ Interrupted
    BY <1>7, EndEnds DEF Log!Next, SendKills, Killed, Interrupted
  <1>8. CASE \/ EpollWait \/ EventsDone \/ AcceptFails \/ HandleSilently \/ PacksDone
             \/ \E fd \in Fds : ReadNothing(fd)
             \/ \E fd \in Fds, n \in 1 .. MaxFrames : Read(fd, n)
    <2>1. UNCHANGED <<delivery, descriptors>>
      BY <1>8 DEF EpollWait, EventsDone, AcceptFails, HandleSilently, PacksDone, ReadNothing, Read
    <2> QED
      BY <2>1, LogKept
  <1>9. CASE UNCHANGED vars
    BY <1>9, LogKept DEF vars
  <1> QED
    BY <1>1, <1>2, <1>3, <1>4, <1>5, <1>6, <1>7, <1>8, <1>9 DEF Next, Dojob

\* The loop, accept and BroadCast keep the promise of BroadcastLog: a broadcast is
\* with every link it can reach before another begins and before a link comes or
\* goes, and every client is sent one and the same log from where it joined.
THEOREM ServerImplementsLog == Spec => ImplementsLog
  BY InitLog, StepLog, SpecIInv, PTL DEF Spec, ImplementsLog, Log!Spec
=============================================================================
