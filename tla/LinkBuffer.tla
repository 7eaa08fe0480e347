----------------------------- MODULE LinkBuffer -----------------------------
(***************************************************************************)
(* The receive path of one accepted connection: the buffer of a baselink   *)
(* (Network/buffer.cpp), its RecvData, and the loop of                     *)
(* SocketServer::Dojob that cuts complete packs off the buffer and hands   *)
(* each to its handler.  The other end is a client that writes frames, may *)
(* close, and may reset the connection; TCP delivers what it wrote in      *)
(* pieces of any size.                                                     *)
(*                                                                         *)
(* A byte is known by its offset in the client's stream, so "the buffer    *)
(* holds the right bytes" and "a handler got the right bytes" can be said. *)
(* The content of a body is left out; of a header, the packLen field that  *)
(* MesgHead::encode writes and MesgHead::decode reads is kept.             *)
(***************************************************************************)
EXTENDS Integers, Sequences

CONSTANTS
  BUFFER_SIZE,            \* bytes in m_pbuffer (util.h: 1024*1024)
  HEAD_SIZE,              \* MesgHead::GetMsgHeadSize() (12)
  BodyLens,               \* the body lengths the client uses
  MaxFrames               \* bound: frames the client writes

ASSUME SizeAssumption ==
  /\ BUFFER_SIZE \in Nat \ {0}
  /\ HEAD_SIZE \in Nat \ {0}
  /\ BodyLens \subseteq Nat
  /\ MaxFrames \in Nat

VARIABLES
  frames,                 \* what the client wrote: <<[start, body], ...>>
  client,                 \* "open", "closed" (FIN) or "reset" (RST)
  received,               \* bytes of the stream that recv() has returned
  m_pbuffer,              \* stream offset held by each cell, or NoByte
  m_phead, m_ptail,       \* the cursors of class buffer
  usable,                 \* what CheckAndReset last returned
  live,                   \* GetSize() when CheckAndReset was last called
  pc,                     \* "wait" in epoll_wait, "parse" in the pack loop,
                          \* "deleted" once the baselink is gone
  handled                 \* the packs handed on, each a sequence of offsets

stream == <<frames, client>>
cursors == <<m_pbuffer, m_phead, m_ptail>>
vars == <<frames, client, received, cursors, usable, live, pc, handled>>

-----------------------------------------------------------------------------
(* The client's stream. *)

Cells == 0 .. BUFFER_SIZE - 1
NoByte == -1              \* the zero byte memset leaves, standing for no data

FrameEnd(f) == f.start + HEAD_SIZE + f.body
Written == IF frames = <<>> THEN 0 ELSE FrameEnd(frames[Len(frames)])

\* A client writes a header (MesgHead::encode with the body's length) and a body.
PeerSend(b) ==
  /\ client = "open"
  /\ Len(frames) < MaxFrames
  /\ frames' = Append(frames, [start |-> Written, body |-> b])
  /\ UNCHANGED <<client, received, cursors, usable, live, pc, handled>>

PeerClose(how) ==
  /\ client = "open"
  /\ client' = how
  /\ UNCHANGED <<frames, received, cursors, usable, live, pc, handled>>

-----------------------------------------------------------------------------
(* class buffer. *)

GetSize == m_ptail - m_phead

\* Variant: the data is moved whenever the head has moved.
CheckAndResetEager ==
  IF m_phead # 0
    THEN [cells |-> [i \in Cells |-> IF i < GetSize THEN m_pbuffer[m_phead + i]
                                                    ELSE m_pbuffer[i]],
          head |-> 0,
          tail |-> m_ptail - 0]
    ELSE [cells |-> m_pbuffer, head |-> m_phead, tail |-> m_ptail]

\* CheckAndReset: the data is moved to the front when the tail has reached
\* the end of the array.  The head is zeroed before the new tail is computed
\* from it, so the tail stays where it was.
CheckAndReset ==
  IF m_ptail = BUFFER_SIZE /\ m_phead # 0
    THEN [cells |-> [i \in Cells |-> IF i < GetSize THEN m_pbuffer[m_phead + i]
                                                    ELSE m_pbuffer[i]],
          head |-> 0,
          tail |-> m_ptail - 0]
    ELSE [cells |-> m_pbuffer, head |-> m_phead, tail |-> m_ptail]

\* Variants: the extra cell of m_pbuffer is counted; a cell is kept for a NUL.
RoomWithSpare == BUFFER_SIZE + 1 - CheckAndReset.tail
RoomForNul == BUFFER_SIZE - 1 - CheckAndReset.tail

\* What CheckAndReset returns: the bytes recv() may write.
Room == BUFFER_SIZE - CheckAndReset.tail

\* epoll (level triggered) reports the socket.
Readable == received < Written \/ client # "open"

\* The cursors after CheckAndReset, when recv() adds nothing.
Checked ==
  /\ m_pbuffer' = CheckAndReset.cells
  /\ m_phead' = CheckAndReset.head
  /\ m_ptail' = CheckAndReset.tail

\* RecvData finds no room: recv() is not called, Dojob continues with the next
\* socket and the pack loop is not entered.
RecvRefused ==
  /\ pc = "wait" /\ Readable
  /\ Room = 0
  /\ Checked
  /\ usable' = Room
  /\ live' = GetSize
  /\ UNCHANGED <<stream, received, pc, handled>>

\* recv() returns n > 0 bytes, written at the tail; Dojob enters the pack loop.
\* (recv() failing with EAGAIN or EINTR changes nothing: a stuttering step.)
RecvBytes(n) ==
  /\ pc = "wait"
  /\ n <= Room /\ received + n <= Written
  /\ LET b == CheckAndReset IN
       /\ m_pbuffer' = [i \in Cells |-> IF i \in b.tail .. b.tail + n - 1
                                          THEN received + (i - b.tail)
                                          ELSE b.cells[i]]
       /\ m_ptail' = b.tail + n
       /\ m_phead' = b.head
  /\ received' = received + n
  /\ usable' = Room
  /\ live' = GetSize
  /\ pc' = "parse"
  /\ UNCHANGED <<stream, handled>>

\* Variant: only errors end the link, a return of 0 is taken for "no data".
RecvEndOnErrorOnly ==
  /\ pc = "wait"
  /\ Room > 0
  /\ client = "reset"
  /\ Checked
  /\ usable' = Room
  /\ live' = GetSize
  /\ pc' = "deleted"
  /\ UNCHANGED <<stream, received, handled>>

\* recv() returns 0 after the FIN, or an error after the RST (which may
\* overtake data): RecvData returns -1 and Dojob deletes the baselink.
RecvEnd ==
  /\ pc = "wait"
  /\ Room > 0
  /\ \/ client = "closed" /\ received = Written
     \/ client = "reset"
  /\ Checked
  /\ usable' = Room
  /\ live' = GetSize
  /\ pc' = "deleted"
  /\ UNCHANGED <<stream, received, handled>>

-----------------------------------------------------------------------------
(* The pack loop of Dojob. *)

\* MesgHead::decode at the head of the buffer: the frame whose header is there.
HeadFrame == frames[CHOOSE k \in DOMAIN frames : frames[k].start = m_pbuffer[m_phead]]

\* Variant: packLen is taken to include the header.
PackSizeIsPackLen == HeadFrame.body

\* t_pack_len: packLen and the header.
PackSize == HEAD_SIZE + HeadFrame.body

\* Variants: a pack that fills the data exactly is left for later.
HeadStrictlyInside == HEAD_SIZE < GetSize /\ PackSize <= GetSize
PackStrictlyInside == HEAD_SIZE <= GetSize /\ PackSize < GetSize

PackComplete == HEAD_SIZE <= GetSize /\ PackSize <= GetSize

\* Variant: the pack is read without being taken off the buffer.
HandlePackAgain ==
  /\ pc = "parse"
  /\ PackComplete
  /\ handled' = Append(handled, [i \in 1 .. PackSize |-> m_pbuffer[m_phead + i - 1]])
  /\ UNCHANGED <<stream, received, cursors, usable, live, pc>>

\* One round: GetPack moves the head past the pack, the handler gets its bytes.
HandlePack ==
  /\ pc = "parse"
  /\ PackComplete
  /\ handled' = Append(handled, [i \in 1 .. PackSize |-> m_pbuffer[m_phead + i - 1]])
  /\ m_phead' = m_phead + PackSize
  /\ UNCHANGED <<stream, received, m_pbuffer, m_ptail, usable, live, pc>>

\* Less than a header, or less than the pack it announces: wait for more.
PacksDone ==
  /\ pc = "parse"
  /\ ~PackComplete
  /\ pc' = "wait"
  /\ UNCHANGED <<stream, received, cursors, usable, live, handled>>

-----------------------------------------------------------------------------
\* buffer::Init
Init ==
  /\ frames = <<>>
  /\ client = "open"
  /\ received = 0
  /\ m_pbuffer = [i \in Cells |-> NoByte]
  /\ m_phead = 0 /\ m_ptail = 0
  /\ usable = BUFFER_SIZE
  /\ live = 0
  /\ pc = "wait"
  /\ handled = <<>>

RecvData == RecvRefused \/ RecvEnd \/ \E n \in 1 .. BUFFER_SIZE : RecvBytes(n)
Dojob == RecvData \/ HandlePack \/ PacksDone

Next ==
  \/ \E b \in BodyLens : PeerSend(b)
  \/ \E how \in {"closed", "reset"} : PeerClose(how)
  \/ RecvRefused
  \/ RecvEnd
  \/ \E n \in 1 .. BUFFER_SIZE : RecvBytes(n)
  \/ HandlePack
  \/ PacksDone

Spec == Init /\ [][Next]_vars

\* The server's one thread never blocks outside epoll_wait, and epoll keeps
\* reporting a socket that is readable.
FairSpec == Spec /\ WF_vars(Dojob)

-----------------------------------------------------------------------------
(* Properties. *)

Frame == [start : Nat, body : BodyLens]
FrameBytes(f) == [i \in 1 .. HEAD_SIZE + f.body |-> f.start + i - 1]
HandledBytes == IF handled = <<>> THEN 0 ELSE FrameEnd(frames[Len(handled)])

\* The types of the variables, and the cursors of class buffer in their bounds.
TypeOK ==
  /\ frames \in Seq(Frame)
  /\ client \in {"open", "closed", "reset"}
  /\ received \in Nat
  /\ m_pbuffer \in [Cells -> Nat \cup {NoByte}]
  /\ m_phead \in 0 .. BUFFER_SIZE /\ m_ptail \in m_phead .. BUFFER_SIZE
  /\ usable \in 0 .. BUFFER_SIZE
  /\ live \in 0 .. BUFFER_SIZE
  /\ pc \in {"wait", "parse", "deleted"}
  /\ handled \in Seq(Seq(Nat \cup {NoByte}))

\* Every pack a handler of Dojob gets is, byte for byte, the frame the client
\* wrote at that place: none is skipped, repeated, cut short or misaligned,
\* however TCP splits the stream and wherever the cursors stand.
DeliveredInOrder ==
  /\ Len(handled) <= Len(frames)
  /\ \A k \in DOMAIN handled : handled[k] = FrameBytes(frames[k])

\* Until RecvData refuses to read, the cells between the cursors hold exactly
\* the bytes that were received and not yet handed on, in stream order.
BufferHoldsStream ==
  usable > 0 =>
    /\ GetSize = received - HandledBytes
    /\ \A i \in 0 .. GetSize - 1 : m_pbuffer[m_phead + i] = HandledBytes + i

\* When Dojob goes back to epoll_wait no complete pack is left in the buffer:
\* nothing would wake the server for it, since its bytes have all been read.
NothingLeftBehind ==
  (pc # "parse" /\ Len(handled) < Len(frames)) =>
    received < FrameEnd(frames[Len(handled) + 1])

\* RecvData refuses to read a readable socket in one case only: the connection
\* has received BUFFER_SIZE bytes over its lifetime.
RefusesOnlyWhenSpent == usable = 0 => received = BUFFER_SIZE

\* A frame that ends within the first BUFFER_SIZE bytes of a connection is
\* handed to its handler, unless a reset overtakes it.
FramesHandled ==
  \A k \in 1 .. MaxFrames :
    (k <= Len(frames) /\ FrameEnd(frames[k]) <= BUFFER_SIZE)
      ~> (k <= Len(handled) \/ client = "reset")

\* The end of a connection that carried less than BUFFER_SIZE bytes is noticed:
\* Dojob deletes its baselink.
EndIsNoticed == (client # "open" /\ Written < BUFFER_SIZE) ~> pc = "deleted"

\* A frame written and a pack handled, as FrameChannel knows them.
BodiesWritten == [k \in DOMAIN frames |-> frames[k].body]
BodiesHandled == [k \in DOMAIN handled |-> Len(handled[k]) - HEAD_SIZE]

\* A connection behaves as FrameChannel promises: RecvData and the pack loop
\* dispatch the frames written, in order and once.
Channel == INSTANCE FrameChannel WITH
  Bodies <- BodyLens,
  sent <- BodiesWritten,
  dispatched <- BodiesHandled,
  ended <- pc = "deleted"
ImplementsChannel == Channel!Spec

\* buffer.h says of CheckAndReset that it gets the length "which can be used":
\* it is 0 only when the whole array holds data not yet handed on.
NoRoomOnlyWhenFull == usable = 0 => live = BUFFER_SIZE
=============================================================================
