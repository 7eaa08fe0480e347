---------------------------- MODULE SocketServer ----------------------------
(***************************************************************************)
(* The one thread of the server among its connections: the epoll loop of   *)
(* SocketServer::Dojob, accept, the map of links, and BroadCast, which     *)
(* every message handler ends in.  Clients connect, write frames, close    *)
(* and reset while the thread works through a batch of events and through  *)
(* the links of a broadcast.                                               *)
(*                                                                         *)
(* LinkBuffer has the bytes of one connection; here a link takes in whole  *)
(* frames, and as many as its buffer lets through in its lifetime.  What a *)
(* handler does to players is in GameServer; here it broadcasts or not.    *)
(***************************************************************************)
EXTENDS Integers, Sequences, SequencesExt, FiniteSets, FiniteSetsExt

CONSTANTS
  Clients,
  MaxFd,            \* the limit on open connection descriptors
  LinkCapacity,     \* frames a link's buffer lets through before it refuses
  MaxFrames,        \* bound: frames all clients write
  Listener,         \* stands for m_basefd in the events of a batch
  Free,             \* a descriptor that is not open
  Null              \* nullptr

ASSUME ServerAssumption ==
  /\ MaxFd \in Nat \ {0}
  /\ LinkCapacity \in Nat \ {0}
  /\ MaxFrames \in Nat
  /\ Listener \notin 1 .. MaxFd
  /\ Free \notin Clients
  /\ Null \notin [taken : Nat, packs : Nat]

VARIABLES
  \* the clients and the kernel
  conn,             \* a client's connection as the server's kernel sees it
  inbox,            \* frames that arrived and were not read
  written,          \* frames the client wrote
  backlog,          \* the accept queue
  listening,        \* the listening socket is open
  fdtable,          \* open descriptors
  watched,          \* descriptors in the epoll set
  outbox,           \* the parts of broadcasts put into a client's stream
  \* SocketServer
  m_linkmap,        \* descriptor -> link, a null link being Null
  ready,            \* the events of the batch still to be looked at
  pc,               \* where the thread is
  current,          \* connfd, the descriptor being served
  toSend,           \* the links a broadcast has yet to serve
  part,             \* what the first of them is sent next: "head" or "body"
  \* history
  casts,            \* broadcasts begun
  joined,           \* casts when the client was accepted
  lost,             \* clients to which a send failed or was cut short
  reported          \* whose descriptor each event was reported for

kernel == <<conn, inbox, written, backlog, listening>>
descriptors == <<fdtable, watched>>
delivery == <<outbox, casts, joined, lost>>
broadcast == <<toSend, part>>
loop == <<ready, pc, current, broadcast, reported>>
vars == <<kernel, descriptors, delivery, m_linkmap, loop>>

Fds == 1 .. MaxFd
NoneOpen == [fd \in Fds |-> Free]
Put(f, k, v) == [x \in DOMAIN f \cup {k} |-> IF x = k THEN v ELSE f[x]]
Drop(f, k) == [x \in DOMAIN f \ {k} |-> f[x]]

-----------------------------------------------------------------------------
(* The clients.  A connection is "up"; "fin" after the client closed, and   *)
(* "poked" once the server wrote to it all the same, which the client's     *)
(* kernel answers with a reset; "rst" after a reset that no call has        *)
(* reported yet; "dead" when the next send raises SIGPIPE; and "closed"     *)
(* when the server has closed its end.                                      *)

Gone == {"fin", "poked", "rst", "dead"}
FramesWritten == FoldFunction(+, 0, written)

Connect(c) ==
  /\ listening
  /\ conn[c] = "idle"
  /\ conn' = [conn EXCEPT ![c] = "up"]
  /\ backlog' = Append(backlog, c)
  /\ UNCHANGED <<inbox, written, listening, descriptors, delivery, m_linkmap, loop>>

Write(c) ==
  /\ conn[c] = "up"
  /\ FramesWritten < MaxFrames
  /\ inbox' = [inbox EXCEPT ![c] = @ + 1]
  /\ written' = [written EXCEPT ![c] = @ + 1]
  /\ UNCHANGED <<conn, backlog, listening, descriptors, delivery, m_linkmap, loop>>

ConnChanges(c, from, to) ==
  /\ conn[c] = from
  /\ conn' = [conn EXCEPT ![c] = to]
  /\ UNCHANGED <<inbox, written, backlog, listening, descriptors, delivery, m_linkmap, loop>>

Close(c) == ConnChanges(c, "up", "fin")
Reset(c) == ConnChanges(c, "up", "rst")
ResetArrives(c) == ConnChanges(c, "fin", "dead") \/ ConnChanges(c, "poked", "dead")

-----------------------------------------------------------------------------
(* epoll_wait and the events of a batch. *)

Readable(c) == inbox[c] > 0 \/ conn[c] \in Gone

\* Variant: the listening socket waits until no link is readable.
ReadyLinksFirst ==
  LET links == {fd \in watched : Readable(fdtable[fd])}
  IN IF links = {} /\ listening /\ backlog # <<>> THEN {Listener} ELSE links

Ready ==
  (IF listening /\ backlog # <<>> THEN {Listener} ELSE {})
    \cup {fd \in watched : Readable(fdtable[fd])}

\* epoll_wait: fewer descriptors are open than a batch has room for
\* (MAX_LINK_COUNT), so it holds every one that is ready, in any order.
EpollWait ==
  /\ pc = "wait" /\ Ready # {}
  /\ ready' = Ready
  /\ reported' = fdtable
  /\ pc' = "events"
  /\ UNCHANGED <<kernel, descriptors, delivery, m_linkmap, current, broadcast>>

\* Every link is deleted and closed, and the listening socket is.
AllClosed ==
  /\ conn' = [c \in Clients |-> IF conn[c] = "idle" THEN "idle" ELSE "closed"]
  /\ inbox' = [c \in Clients |-> 0]
  /\ backlog' = <<>>
  /\ listening' = FALSE
  /\ fdtable' = NoneOpen
  /\ watched' = {}
  /\ m_linkmap' = [fd \in {} |-> Null]
  /\ ready' = {} /\ toSend' = {} /\ part' = "head" /\ current' = 0 /\ reported' = NoneOpen

\* epoll_wait returns -1 (EINTR): Dojob ends, main destroys the singletons.
Interrupted ==
  /\ pc = "wait"
  /\ AllClosed
  /\ pc' = "stopped"
  /\ UNCHANGED <<written, delivery>>

\* A signal or a null pointer ends the process where it is; the kernel closes
\* what it had open.
Killed ==
  /\ AllClosed
  /\ pc' = "killed"
  /\ UNCHANGED <<written, delivery>>

EventsDone ==
  /\ pc = "events" /\ ready = {}
  /\ pc' = "wait"
  /\ reported' = NoneOpen
  /\ UNCHANGED <<kernel, descriptors, delivery, m_linkmap, ready, current, broadcast>>

-----------------------------------------------------------------------------
(* accept. *)

FreeFds == {fd \in Fds : fdtable[fd] = Free}
AcceptEvent == pc = "events" /\ Listener \in ready /\ ready' = ready \ {Listener}

\* epoll_ctl(EPOLL_CTL_ADD) for the accepted socket.
WatchedAfterAccept(fd) == watched \cup {fd}

\* AcceptSocket succeeds: the lowest free descriptor, a new link, an epoll entry.
Accept ==
  /\ AcceptEvent /\ FreeFds # {}
  /\ LET fd == Min(FreeFds)  c == Head(backlog) IN
       /\ fdtable' = [fdtable EXCEPT ![fd] = c]
       /\ watched' = WatchedAfterAccept(fd)
       /\ m_linkmap' = Put(m_linkmap, fd, [taken |-> 0, packs |-> 0])
       /\ joined' = [joined EXCEPT ![c] = casts]
  /\ backlog' = Tail(backlog)
  /\ UNCHANGED <<conn, inbox, written, listening, outbox, casts, lost, pc, current, broadcast, reported>>

\* accept() fails, the process having no descriptor left.
AcceptFails ==
  /\ AcceptEvent /\ FreeFds = {}
  /\ UNCHANGED <<kernel, descriptors, delivery, m_linkmap, pc, current, broadcast, reported>>

\* set_non_block fails: AcceptSocket closes its own socket, the listening one,
\* and keeps the accepted one open; the kernel resets what is in the queue.
AcceptClosesListener ==
  /\ AcceptEvent /\ FreeFds # {}
  /\ fdtable' = [fdtable EXCEPT ![Min(FreeFds)] = Head(backlog)]
  /\ listening' = FALSE
  /\ conn' = [c \in Clients |-> IF c \in ToSet(Tail(backlog)) THEN "closed" ELSE conn[c]]
  /\ inbox' = [c \in Clients |-> IF c \in ToSet(Tail(backlog)) THEN 0 ELSE inbox[c]]
  /\ backlog' = <<>>
  /\ UNCHANGED <<written, watched, delivery, m_linkmap, pc, current, broadcast, reported>>

-----------------------------------------------------------------------------
(* A readable link. *)

Linked(fd) == fd \in DOMAIN m_linkmap /\ m_linkmap[fd] # Null
ReadEvent(fd) == pc = "events" /\ fd \in ready \cap Fds /\ ready' = ready \ {fd}

\* operator[] of the map makes a null entry for a descriptor it does not know.
Looked(fd) == IF fd \in DOMAIN m_linkmap THEN m_linkmap ELSE Put(m_linkmap, fd, Null)

\* RecvData returns 0: there is no link, or its buffer has no room any more.
ReadNothing(fd) ==
  /\ ReadEvent(fd)
  /\ Linked(fd) => m_linkmap[fd].taken = LinkCapacity
  /\ m_linkmap' = Looked(fd)
  /\ UNCHANGED <<kernel, descriptors, delivery, pc, current, broadcast, reported>>

\* RecvData returns the bytes of n frames; Dojob goes on to cut the packs off.
Read(fd, n) ==
  /\ ReadEvent(fd)
  /\ Linked(fd)
  /\ LET c == fdtable[fd] IN
       /\ n <= inbox[c] /\ m_linkmap[fd].taken + n <= LinkCapacity
       /\ inbox' = [inbox EXCEPT ![c] = @ - n]
  /\ m_linkmap' = [m_linkmap EXCEPT ![fd].taken = @ + n, ![fd].packs = n]
  /\ current' = fd
  /\ pc' = "packs"
  /\ UNCHANGED <<conn, written, backlog, listening, descriptors, delivery, broadcast, reported>>

\* Variant: the link is deleted but its entry stays.
WithoutLinkNulled(fd) == [m_linkmap EXCEPT ![fd] = Null]

\* "delete t_it->second" and "m_linkmap.erase(t_it)".
WithoutLink(fd) == Drop(m_linkmap, fd)

\* Variant: only an error ends a link, a return of 0 is taken for "no data".
EndReadOnErrorOnly(c) == conn[c] \in {"rst", "dead"}

\* recv() returns 0 or an error: nothing is left to read, or a reset came.
EndRead(c) == conn[c] \in Gone /\ (inbox[c] = 0 \/ conn[c] \in {"rst", "dead"})

\* RecvData returns -1: the link is deleted, ~baselink closes the socket.
ReadEnd(fd) ==
  /\ ReadEvent(fd)
  /\ Linked(fd) /\ m_linkmap[fd].taken < LinkCapacity
  /\ EndRead(fdtable[fd])
  /\ conn' = [conn EXCEPT ![fdtable[fd]] = "closed"]
  /\ inbox' = [inbox EXCEPT ![fdtable[fd]] = 0]
  /\ fdtable' = [fdtable EXCEPT ![fd] = Free]
  /\ watched' = watched \ {fd}
  /\ m_linkmap' = WithoutLink(fd)
  /\ UNCHANGED <<written, backlog, listening, delivery, pc, current, broadcast, reported>>

-----------------------------------------------------------------------------
(* Packs and broadcasts. *)

TakePack ==
  /\ pc = "packs"
  /\ m_linkmap[current].packs > 0
  /\ m_linkmap' = [m_linkmap EXCEPT ![current].packs = @ - 1]

\* A pack whose handler sends nothing, or that has none.
HandleSilently ==
  /\ TakePack
  /\ UNCHANGED <<kernel, descriptors, delivery, loop>>

\* Variant: the links from the sender on are served.
RecipientsFromSender == {fd \in DOMAIN m_linkmap : fd >= current}

\* BroadCast serves every link of the map.
Recipients == DOMAIN m_linkmap

\* A pack whose handler calls BroadCast.
HandleAndBroadCast ==
  /\ TakePack
  /\ casts' = casts + 1
  /\ toSend' = Recipients /\ part' = "head"
  /\ pc' = "send"
  /\ UNCHANGED <<kernel, descriptors, outbox, joined, lost, ready, current, reported>>

PacksDone ==
  /\ pc = "packs"
  /\ m_linkmap[current].packs = 0
  /\ pc' = "events" /\ current' = 0
  /\ UNCHANGED <<kernel, descriptors, delivery, m_linkmap, ready, broadcast, reported>>

\* The map is walked in the order of the descriptors.
Target == Min(toSend)
Sending(c) == pc = "send" /\ m_linkmap[Target] # Null /\ c = fdtable[Target]
Sent == [cast |-> casts, part |-> part]

\* Variant: the iterator stays where it is.
NextSendSameLink ==
  /\ part' = IF part = "head" THEN "body" ELSE "head"
  /\ UNCHANGED <<toSend, pc>>

\* Variant: a return in the loop, after the first link.
NextSendFirstLink ==
  \/ /\ part = "head" /\ part' = "body"
     /\ UNCHANGED <<toSend, pc>>
  \/ /\ part = "body" /\ part' = "head"
     /\ toSend' = {}
     /\ pc' = "packs"

\* After the header the body, after the body the next link.
NextSend ==
  \/ /\ part = "head" /\ part' = "body"
     /\ UNCHANGED <<toSend, pc>>
  \/ /\ part = "body" /\ part' = "head"
     /\ toSend' = toSend \ {Target}
     /\ pc' = IF toSend' = {} THEN "packs" ELSE "send"

\* SendData ignores what send() returns.  What happened to the part is the
\* kernel's choice: the connection's new state and whether it went out.
SendReturns(c, to, out) ==
  /\ conn' = [conn EXCEPT ![c] = to]
  /\ outbox' = IF out THEN [outbox EXCEPT ![c] = Append(@, Sent)] ELSE outbox
  /\ lost' = IF out THEN lost ELSE lost \cup {c}
  /\ NextSend
  /\ UNCHANGED <<inbox, written, backlog, listening, descriptors, casts, joined, m_linkmap,
                 ready, current, reported>>

\* Variants: a link whose send fails is closed and erased at once, and the
\* broadcast goes on with its next send, or is given up.
Erase(c) ==
  /\ Sending(c)
  /\ conn[c] \in {"up", "rst"}
  /\ conn' = [conn EXCEPT ![c] = "closed"]
  /\ inbox' = [inbox EXCEPT ![c] = 0]
  /\ fdtable' = [fdtable EXCEPT ![Target] = Free]
  /\ watched' = watched \ {Target}
  /\ m_linkmap' = Drop(m_linkmap, Target)
  /\ lost' = lost \cup {c}
  /\ UNCHANGED <<written, backlog, listening, outbox, casts, joined, ready, current, reported>>
SendFailsAndErases(c) == Erase(c) /\ NextSend
SendFailsAndGivesUp(c) ==
  /\ Erase(c)
  /\ toSend' = {} /\ part' = "head"
  /\ pc' = IF Target = current THEN "events" ELSE "packs"

\* The part is taken by the kernel.
SendAccepted(c) ==
  /\ Sending(c)
  /\ \/ conn[c] = "up" /\ SendReturns(c, "up", TRUE)
     \/ conn[c] \in {"fin", "poked"} /\ SendReturns(c, "poked", TRUE)

\* The client does not read and the part does not fit (EAGAIN, or a short
\* count), or a reset is reported (ECONNRESET).
SendFails(c) ==
  /\ Sending(c)
  /\ \/ conn[c] = "up" /\ SendReturns(c, "up", FALSE)
     \/ conn[c] = "rst" /\ SendReturns(c, "dead", FALSE)

\* The connection is known to be broken: send() raises SIGPIPE, which nothing
\* catches.  (So does a null link's SendData.)
SendKills ==
  /\ pc = "send"
  /\ m_linkmap[Target] # Null => conn[fdtable[Target]] = "dead"
  /\ Killed

-----------------------------------------------------------------------------
\* SocketServer::Init
Init ==
  /\ conn = [c \in Clients |-> "idle"]
  /\ inbox = [c \in Clients |-> 0]
  /\ written = [c \in Clients |-> 0]
  /\ backlog = <<>>
  /\ listening = TRUE
  /\ fdtable = NoneOpen
  /\ watched = {}
  /\ outbox = [c \in Clients |-> <<>>]
  /\ m_linkmap = [fd \in {} |-> Null]
  /\ ready = {}
  /\ pc = "wait"
  /\ current = 0
  /\ toSend = {} /\ part = "head"
  /\ casts = 0
  /\ joined = [c \in Clients |-> 0]
  /\ lost = {}
  /\ reported = NoneOpen

Environment == \E c \in Clients : Connect(c) \/ Write(c) \/ Close(c) \/ Reset(c) \/ ResetArrives(c)

Dojob ==
  \/ EpollWait
  \/ EventsDone
  \/ Accept
  \/ AcceptFails
  \/ AcceptClosesListener
  \/ \E fd \in Fds : ReadNothing(fd) \/ ReadEnd(fd)
  \/ \E fd \in Fds, n \in 1 .. MaxFrames : Read(fd, n)
  \/ HandleSilently
  \/ HandleAndBroadCast
  \/ PacksDone
  \/ \E c \in Clients : SendAccepted(c) \/ SendFails(c)
  \/ SendKills

Next == Environment \/ Dojob \/ Interrupted

Spec == Init /\ [][Next]_vars

\* The thread goes on whenever it can: no call of the loop but epoll_wait
\* blocks, and epoll_wait returns when a descriptor is ready.
FairSpec == Spec /\ WF_vars(Dojob)

-----------------------------------------------------------------------------
(* Properties. *)

Ended == pc \in {"stopped", "killed"}
\* The map of links, the epoll set and the open descriptors speak of the same
\* connections: no link is null, none outlives its socket, no descriptor is
\* watched without a link, and none is open without one unless AcceptSocket
\* closed the listening socket in its place.
LinksMatchSockets ==
  /\ DOMAIN m_linkmap = watched
  /\ \A fd \in watched : m_linkmap[fd] # Null /\ fdtable[fd] # Free
  /\ listening => \A fd \in Fds \ watched : fdtable[fd] = Free
  /\ \A fd, other \in Fds : fdtable[fd] # Free /\ fdtable[fd] = fdtable[other] => fd = other

\* An event of the batch is served for the connection it was reported for,
\* though descriptors are closed, and the lowest one reused, within the batch.
EventsAreFresh ==
  \A fd \in ready \cap Fds : Linked(fd) /\ fdtable[fd] = reported[fd]

\* The sends a broadcast has left go to links that exist, and no recipient
\* comes or goes while it is walking the map.
RecipientsStay ==
  pc = "send" => toSend # {} /\ toSend \subseteq DOMAIN m_linkmap

Before(a, b) == a.cast < b.cast \/ (a.cast = b.cast /\ a.part = "head" /\ b.part = "body")

\* Every client gets the broadcasts in the order they were made, each part
\* once and the header before the body; so no two clients disagree on order.
StreamsInOrder ==
  \A c \in Clients : \A j, k \in DOMAIN outbox[c] :
    j < k => Before(outbox[c][j], outbox[c][k])

\* Between broadcasts, a client that is linked, whose connection is up and to
\* which no send failed has got every broadcast since it was accepted, whole.
NothingMissed ==
  pc \in {"wait", "events", "packs"} =>
    \A fd \in DOMAIN m_linkmap :
      LET c == fdtable[fd] IN
        conn[c] = "up" /\ c \notin lost =>
          Len(outbox[c]) = 2 * (casts - joined[c])

\* The clients get one log of broadcasts as BroadcastLog promises it: a broadcast
\* is with every link, header and body, before the next is begun and before a
\* link comes or goes, and a send that fails leaves a gap and no disorder.
Log == INSTANCE BroadcastLog WITH
  begun <- casts,
  members <- {fdtable[fd] : fd \in watched},
  from <- joined,
  got <- outbox,
  broken <- lost
ImplementsLog == Log!Spec

\* A connection that its client has ended is closed by the server, if it has
\* not carried all its buffer lets through, or else the server is gone.
EndedConnectionsClose ==
  \A c \in Clients :
    ((\E fd \in watched : fdtable[fd] = c) /\ conn[c] \in Gone /\ written[c] < LinkCapacity)
      ~> (conn[c] = "closed" \/ Ended)

\* A client in the accept queue is accepted, or closed with the listening
\* socket, unless the descriptors run out.
QueueMoves ==
  \A c \in Clients : (c \in ToSet(backlog)) ~> (c \notin ToSet(backlog) \/ FreeFds = {})
=============================================================================
