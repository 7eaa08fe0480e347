-------------------------- MODULE LinkBufferProofs --------------------------
(***************************************************************************)
(* Proofs about LinkBuffer for every array size, header size and set of    *)
(* body lengths.  The inductive invariant says where the cursors stand:    *)
(* until RecvData first refuses, the tail is the number of bytes received, *)
(* the head is the end of the last frame handled, and the cell i holds the *)
(* byte i of the stream, since nothing has been moved yet; afterwards the  *)
(* tail stays at the end of the array and no pack is cut off any more.     *)
(***************************************************************************)
EXTENDS LinkBuffer, SequenceTheorems, TLAPS

\* The frames of the stream follow each other without gap or overlap.
FramesInv ==
  /\ frames # <<>> => frames[1].start = 0
  /\ \A k \in DOMAIN frames :
       k + 1 \in DOMAIN frames => frames[k + 1].start = FrameEnd(frames[k])
  /\ \A j, k \in DOMAIN frames : j < k => FrameEnd(frames[j]) <= frames[k].start

\* Before the first refusal, the cursors and the cells mirror the stream.
MirrorInv ==
  usable > 0 =>
    /\ m_ptail = received
    /\ m_phead = HandledBytes
    /\ \A i \in 0 .. m_ptail - 1 : m_pbuffer[i] = i

\* After it, the cursors do not move.
StuckInv ==
  usable = 0 =>
    /\ received = BUFFER_SIZE
    /\ m_ptail = BUFFER_SIZE
    /\ m_phead = 0
    /\ pc = "wait"

IInv ==
  /\ TypeOK
  /\ FramesInv
  /\ received <= Written
  /\ MirrorInv
  /\ StuckInv
  /\ DeliveredInOrder
  /\ NothingLeftBehind

-----------------------------------------------------------------------------
(* Facts about sequences and the stream. *)

\* A function over 1 .. n with values in S is a sequence over S.
LEMMA FunctionIsSeq ==
  ASSUME NEW S, NEW n \in Nat, NEW f \in [1 .. n -> S]
  PROVE  f \in Seq(S) /\ Len(f) = n
  <1>1. f \in Seq(S)
    BY SeqDef
  <1>2. DOMAIN f = 1 .. n
    OBVIOUS
  <1> QED
    BY <1>1, <1>2, LenProperties

\* The end of the stream is a natural number, and it is the end of a frame.
LEMMA WrittenType ==
  ASSUME TypeOK
  PROVE  /\ Written \in Nat
         /\ \A k \in DOMAIN frames : FrameEnd(frames[k]) \in Nat
         /\ \A k \in DOMAIN frames : frames[k] \in Frame
  <1>1. frames \in Seq(Frame)
    BY DEF TypeOK
  <1>2. \A f \in Frame : FrameEnd(f) \in Nat
    <2> SUFFICES ASSUME NEW f \in Frame PROVE FrameEnd(f) \in Nat
      OBVIOUS
    <2>1. f.start \in Nat /\ f.body \in Nat
      BY SizeAssumption DEF Frame
    <2> QED
      BY <2>1, SizeAssumption DEF FrameEnd
  <1>3. \A k \in DOMAIN frames : frames[k] \in Frame
    BY <1>1
  <1>4. frames # <<>> => Len(frames) \in DOMAIN frames
    BY <1>1
  <1>5. Written \in Nat
    BY <1>2, <1>3, <1>4 DEF Written
  <1> QED
    BY <1>2, <1>3, <1>5

\* A new link satisfies the invariant (buffer::Init).
THEOREM InitIInv == Init => IInv
  <1> SUFFICES ASSUME Init PROVE IInv
    OBVIOUS
  <1>1. TypeOK
    BY SizeAssumption DEF Init, TypeOK, Cells, NoByte
  <1>2. Written = 0 /\ HandledBytes = 0
    BY DEF Init, Written, HandledBytes
  <1>3. FramesInv
    BY DEF Init, FramesInv
  <1>4. MirrorInv /\ StuckInv
    BY <1>2, SizeAssumption DEF Init, MirrorInv, StuckInv
  <1>5. DeliveredInOrder /\ NothingLeftBehind
    BY DEF Init, DeliveredInOrder, NothingLeftBehind
  <1> QED
    BY <1>1, <1>2, <1>3, <1>4, <1>5 DEF IInv, Init

-----------------------------------------------------------------------------
(* The client's steps: the stream grows at its end. *)

\* A frame the client writes starts where the stream ended.
LEMMA PeerSendIInv ==
  ASSUME IInv, NEW b \in BodyLens, PeerSend(b)
  PROVE  IInv'
  <1> DEFINE new == [start |-> Written, body |-> b]
             n == Len(frames)
  <1> USE SizeAssumption
  <1>1. TypeOK /\ FramesInv
    BY DEF IInv
  <1>2. /\ Written \in Nat /\ n \in Nat
        /\ \A k \in DOMAIN frames : FrameEnd(frames[k]) \in Nat /\ frames[k] \in Frame
    BY <1>1, WrittenType DEF TypeOK
  <1>3. new \in Frame /\ new.start = Written
    BY <1>2 DEF Frame
  <1>4. FrameEnd(new) \in Nat /\ FrameEnd(new) > Written
    BY <1>2, b \in Nat DEF FrameEnd
  <1>5. /\ frames' \in Seq(Frame) /\ Len(frames') = n + 1
        /\ \A k \in 1 .. n : frames'[k] = frames[k]
        /\ frames'[n + 1] = new
    BY <1>1, <1>3 DEF PeerSend, TypeOK
  <1>6. DOMAIN frames = 1 .. n /\ DOMAIN frames' = 1 .. n + 1
    BY <1>1, <1>5 DEF TypeOK
  <1>7. frames' # <<>> /\ Written' = FrameEnd(new)
    BY <1>5, <1>2 DEF Written, FrameEnd
  <1>8. FramesInv'
    <2>1. frames'[1].start = 0
      <3>1. CASE n = 0
        BY <3>1, <1>1, <1>5, <1>3 DEF Written, TypeOK
      <3>2. CASE n > 0
        BY <3>2, <1>1, <1>2, <1>5 DEF FramesInv, TypeOK
      <3> QED
        BY <3>1, <3>2, <1>2
    <2>2. n > 0 => Written = FrameEnd(frames[n])
      BY <1>1 DEF Written, TypeOK
    <2>3. ASSUME NEW k \in 1 .. n
          PROVE  frames'[k + 1].start = FrameEnd(frames'[k])
      <3>1. CASE k = n
        BY <3>1, <2>2, <1>2, <1>3, <1>5 DEF FrameEnd
      <3>2. CASE k < n
        <4>1. k + 1 \in 1 .. n /\ k \in DOMAIN frames /\ k + 1 \in DOMAIN frames
          BY <3>2, <1>2, <1>6
        <4>2. frames[k + 1].start = FrameEnd(frames[k])
          BY <4>1, <1>1 DEF FramesInv
        <4> QED
          BY <4>1, <4>2, <1>5 DEF FrameEnd
      <3> QED
        BY <3>1, <3>2, <1>2
    <2>4. ASSUME NEW j \in 1 .. n + 1, NEW k \in 1 .. n + 1, j < k
          PROVE  FrameEnd(frames'[j]) <= frames'[k].start
      <3>1. j \in 1 .. n /\ frames'[j] = frames[j]
        BY <2>4, <1>2, <1>5
      <3>2. CASE k = n + 1
        <4>1. FrameEnd(frames[j]) <= Written
          <5>1. CASE j = n
            BY <5>1, <2>2, <3>1, <1>2, <1>6
          <5>2. CASE j < n
            <6>1. n \in DOMAIN frames /\ j \in DOMAIN frames
              BY <5>2, <3>1, <1>2, <1>6
            <6>2. FrameEnd(frames[j]) <= frames[n].start
              BY <6>1, <5>2, <1>1 DEF FramesInv
            <6>3. frames[n].start <= FrameEnd(frames[n])
              <7>1. frames[n].start \in Nat /\ frames[n].body \in Nat
                BY <6>1, <1>2 DEF Frame
              <7> QED
                BY <7>1 DEF FrameEnd
            <6>4. frames[n].start \in Nat
              BY <6>1, <1>2 DEF Frame
            <6> QED
              BY <6>1, <6>2, <6>3, <6>4, <2>2, <1>2, n > 0
          <5> QED
            BY <5>1, <5>2, <3>1, <1>2
        <4> QED
          BY <4>1, <3>1, <3>2, <1>3, <1>5
      <3>3. CASE k \in 1 .. n
        BY <3>1, <3>3, <2>4, <1>1, <1>5, <1>6 DEF FramesInv
      <3> QED
        BY <3>2, <3>3, <1>2
    <2> QED
      BY <2>1, <2>3, <2>4, <1>2, <1>6 DEF FramesInv
  <1>9. UNCHANGED <<client, received, cursors, usable, live, pc, handled>>
    BY DEF PeerSend
  <1>10. TypeOK'
    BY <1>1, <1>5, <1>9 DEF TypeOK, cursors
  <1>11. Len(handled) <= n /\ Len(handled) \in Nat /\ DOMAIN handled = 1 .. Len(handled)
    BY <1>1 DEF IInv, DeliveredInOrder, TypeOK
  <1>12. HandledBytes' = HandledBytes
    <2>1. CASE handled = <<>>
      BY <2>1, <1>9 DEF HandledBytes
    <2>2. CASE handled # <<>>
      <3>1. Len(handled) \in 1 .. n
        BY <2>2, <1>1, <1>2, <1>11 DEF TypeOK
      <3> QED
        BY <3>1, <2>2, <1>5, <1>9 DEF HandledBytes, FrameEnd
    <2> QED
      BY <2>1, <2>2
  <1>13. MirrorInv' /\ StuckInv'
    BY <1>9, <1>12 DEF IInv, MirrorInv, StuckInv, cursors
  <1>14. DeliveredInOrder'
    <2>1. \A k \in DOMAIN handled : handled'[k] = FrameBytes(frames[k]) /\ frames'[k] = frames[k]
      BY <1>2, <1>5, <1>9, <1>11 DEF IInv, DeliveredInOrder
    <2> QED
      BY <2>1, <1>2, <1>5, <1>9, <1>11 DEF DeliveredInOrder, FrameBytes
  <1>15. received \in Nat /\ received <= Written /\ received' = received
    BY <1>1, <1>9 DEF IInv, TypeOK
  <1>16. NothingLeftBehind'
    <2> SUFFICES ASSUME pc # "parse", Len(handled) < n + 1
                 PROVE  received < FrameEnd(frames'[Len(handled) + 1])
      BY <1>5, <1>9 DEF NothingLeftBehind, FrameEnd
    <2>1. CASE Len(handled) = n
      BY <2>1, <1>2, <1>4, <1>5, <1>15
    <2>2. CASE Len(handled) < n
      <3>1. received < FrameEnd(frames[Len(handled) + 1])
        BY <2>2 DEF IInv, NothingLeftBehind
      <3>2. Len(handled) + 1 \in 1 .. n
        BY <2>2, <1>2, <1>11
      <3> QED
        BY <3>1, <3>2, <1>5
    <2> QED
      BY <2>1, <2>2, <1>2, <1>11
  <1>17. received' <= Written'
    BY <1>2, <1>4, <1>7, <1>15
  <1> QED
    BY <1>8, <1>10, <1>13, <1>14, <1>16, <1>17 DEF IInv

\* A close or a reset moves nothing.
LEMMA PeerCloseIInv ==
  ASSUME IInv, NEW how \in {"closed", "reset"}, PeerClose(how)
  PROVE  IInv'
  <1>1. UNCHANGED <<frames, received, cursors, usable, live, pc, handled>>
        /\ client' \in {"open", "closed", "reset"}
    BY DEF PeerClose
  <1>2. TypeOK' /\ FramesInv'
    BY <1>1 DEF IInv, TypeOK, FramesInv, FrameEnd, cursors
  <1>3. Written' = Written /\ HandledBytes' = HandledBytes
    BY <1>1 DEF Written, HandledBytes, FrameEnd
  <1>4. MirrorInv' /\ StuckInv'
    BY <1>1, <1>3 DEF IInv, MirrorInv, StuckInv, cursors
  <1>5. DeliveredInOrder' /\ NothingLeftBehind'
    BY <1>1 DEF IInv, DeliveredInOrder, NothingLeftBehind, FrameBytes, FrameEnd
  <1> QED
    BY <1>1, <1>2, <1>3, <1>4, <1>5 DEF IInv

-----------------------------------------------------------------------------
(* RecvData. *)

\* CheckAndReset moves something only when it then reports no room.
LEMMA RoomFacts ==
  ASSUME TypeOK
  PROVE  /\ Room = BUFFER_SIZE - m_ptail
         /\ Room \in 0 .. BUFFER_SIZE
         /\ CheckAndReset.tail = m_ptail
         /\ CheckAndReset.head \in {0, m_phead}
         /\ CheckAndReset.cells \in [Cells -> Nat \cup {NoByte}]
         /\ Room > 0 => CheckAndReset.cells = m_pbuffer /\ CheckAndReset.head = m_phead
         /\ Room = 0 => m_ptail = BUFFER_SIZE /\ CheckAndReset.head = 0
         /\ GetSize \in 0 .. BUFFER_SIZE
  <1> USE SizeAssumption
  <1>1. /\ m_ptail \in 0 .. BUFFER_SIZE /\ m_phead \in 0 .. BUFFER_SIZE
        /\ m_phead <= m_ptail
        /\ m_pbuffer \in [Cells -> Nat \cup {NoByte}]
    BY DEF TypeOK
  <1>2. GetSize \in 0 .. BUFFER_SIZE
    BY <1>1 DEF GetSize
  <1>3. CASE m_ptail = BUFFER_SIZE /\ m_phead # 0
    <2> DEFINE moved == [i \in Cells |-> IF i < GetSize THEN m_pbuffer[m_phead + i]
                                                        ELSE m_pbuffer[i]]
    <2>1. /\ CheckAndReset.cells = moved
          /\ CheckAndReset.head = 0
          /\ CheckAndReset.tail = m_ptail - 0
      BY <1>3 DEF CheckAndReset
    <2>2. \A i \in Cells : i < GetSize => m_phead + i \in Cells
      BY <1>1 DEF Cells, GetSize
    <2>3. moved \in [Cells -> Nat \cup {NoByte}]
      BY <1>1, <2>2
    <2>4. CheckAndReset.tail = m_ptail
      BY <1>1, <2>1
    <2> HIDE DEF moved
    <2>5. Room = 0
      BY <1>3, <2>4 DEF Room
    <2> QED
      BY <1>1, <1>2, <1>3, <2>1, <2>3, <2>4, <2>5
  <1>4. CASE ~(m_ptail = BUFFER_SIZE /\ m_phead # 0)
    <2>1. /\ CheckAndReset.cells = m_pbuffer
          /\ CheckAndReset.head = m_phead
          /\ CheckAndReset.tail = m_ptail
      BY <1>4 DEF CheckAndReset
    <2>2. Room = BUFFER_SIZE - m_ptail
      BY <2>1 DEF Room
    <2> QED
      BY <1>1, <1>2, <1>4, <2>1, <2>2
  <1> QED
    BY <1>3, <1>4

\* A step that leaves the stream and the packs handled alone keeps the parts
\* of the invariant that speak of them only.
LEMMA StreamUnchanged ==
  ASSUME IInv, UNCHANGED <<stream, handled>>
  PROVE  /\ FramesInv'
         /\ DeliveredInOrder'
         /\ Written' = Written
         /\ HandledBytes' = HandledBytes
  BY DEF IInv, stream, FramesInv, FrameEnd, DeliveredInOrder, FrameBytes, Written, HandledBytes

\* A read that finds no room moves the data at most once, and then the link is stuck.
LEMMA RecvRefusedIInv ==
  ASSUME IInv, RecvRefused
  PROVE  IInv'
  <1>1. TypeOK
    BY DEF IInv
  <1>2. UNCHANGED <<frames, client, received, pc, handled>> /\ usable' = 0 /\ pc = "wait"
    BY DEF RecvRefused, stream
  <1>3. /\ m_ptail = BUFFER_SIZE /\ m_ptail' = m_ptail
        /\ m_phead' = 0 /\ m_pbuffer' \in [Cells -> Nat \cup {NoByte}]
        /\ live' \in 0 .. BUFFER_SIZE
    BY <1>1, RoomFacts DEF RecvRefused, Checked
  <1>4. TypeOK'
    BY <1>1, <1>2, <1>3, SizeAssumption DEF TypeOK
  <1>5. FramesInv' /\ DeliveredInOrder' /\ Written' = Written
    BY <1>2, StreamUnchanged DEF stream
  <1>6. received = BUFFER_SIZE
    BY <1>1, <1>3 DEF IInv, MirrorInv, StuckInv, TypeOK
  <1>7. MirrorInv' /\ StuckInv'
    BY <1>2, <1>3, <1>6 DEF MirrorInv, StuckInv
  <1>8. NothingLeftBehind'
    BY <1>2 DEF IInv, NothingLeftBehind, FrameEnd
  <1> QED
    BY <1>2, <1>4, <1>5, <1>7, <1>8 DEF IInv

\* When there is room, nothing has been refused so far.
LEMMA RoomMeansMirror ==
  ASSUME IInv, Room > 0
  PROVE  usable > 0
  BY RoomFacts, SizeAssumption DEF IInv, StuckInv, TypeOK

\* Bytes received extend the mirrored part of the stream.
LEMMA RecvBytesIInv ==
  ASSUME IInv, NEW n \in 1 .. BUFFER_SIZE, RecvBytes(n)
  PROVE  IInv'
  <1> USE SizeAssumption
  <1>1. TypeOK
    BY DEF IInv
  <1>2. /\ UNCHANGED <<frames, client, handled>> /\ usable' = Room /\ live' = GetSize
        /\ pc' = "parse" /\ received' = received + n
        /\ n <= Room /\ received + n <= Written
    BY DEF RecvBytes, stream
  <1>3. Room > 0 /\ Room = BUFFER_SIZE - m_ptail
    BY <1>1, <1>2, RoomFacts
  <1>4. /\ m_ptail' = m_ptail + n /\ m_phead' = m_phead
        /\ m_pbuffer' = [i \in Cells |-> IF i \in m_ptail .. m_ptail + n - 1
                                           THEN received + (i - m_ptail) ELSE m_pbuffer[i]]
    BY <1>1, <1>3, RoomFacts DEF RecvBytes
  <1>5. usable > 0 /\ m_ptail = received /\ m_phead = HandledBytes
        /\ \A i \in 0 .. m_ptail - 1 : m_pbuffer[i] = i
    BY <1>3, RoomMeansMirror DEF IInv, MirrorInv
  <1>6. /\ m_ptail \in Nat /\ m_phead \in Nat /\ m_phead <= m_ptail
        /\ m_pbuffer \in [Cells -> Nat \cup {NoByte}] /\ received \in Nat
    BY <1>1 DEF TypeOK
  <1>7. m_ptail' \in m_phead' .. BUFFER_SIZE /\ m_phead' \in 0 .. BUFFER_SIZE
    BY <1>2, <1>3, <1>4, <1>6
  <1>8. m_pbuffer' \in [Cells -> Nat \cup {NoByte}]
    BY <1>4, <1>6 DEF Cells
  <1>9. usable' \in 0 .. BUFFER_SIZE /\ live' \in 0 .. BUFFER_SIZE
    BY <1>1, <1>2, RoomFacts
  <1>10. TypeOK'
    BY <1>1, <1>2, <1>6, <1>7, <1>8, <1>9 DEF TypeOK
  <1>11. FramesInv' /\ DeliveredInOrder' /\ Written' = Written /\ HandledBytes' = HandledBytes
    BY <1>2, StreamUnchanged DEF stream
  <1>12. \A i \in 0 .. m_ptail' - 1 : m_pbuffer'[i] = i
    <2> SUFFICES ASSUME NEW i \in 0 .. m_ptail' - 1 PROVE m_pbuffer'[i] = i
      OBVIOUS
    <2>0. i \in 0 .. m_ptail + n - 1
      <3>1. m_ptail' = m_ptail + n
        BY <1>4
      <3> QED
        BY <3>1, <1>6
    <2>1. i \in Cells
      BY <2>0, <1>2, <1>3, <1>6 DEF Cells
    <2>2. CASE i < m_ptail
      BY <2>0, <2>1, <2>2, <1>4, <1>5, <1>6
    <2>3. CASE i >= m_ptail
      BY <2>0, <2>1, <2>3, <1>4, <1>5, <1>6
    <2> QED
      BY <2>0, <2>2, <2>3, <1>6
  <1>13. MirrorInv'
    BY <1>2, <1>4, <1>5, <1>11, <1>12 DEF MirrorInv
  <1>14. StuckInv'
    BY <1>2, <1>3 DEF StuckInv
  <1>15. NothingLeftBehind'
    BY <1>2 DEF NothingLeftBehind
  <1> QED
    BY <1>2, <1>10, <1>11, <1>13, <1>14, <1>15 DEF IInv

\* The end of the link leaves nothing complete behind.
LEMMA RecvEndIInv ==
  ASSUME IInv, RecvEnd
  PROVE  IInv'
  <1>1. TypeOK
    BY DEF IInv
  <1>2. /\ UNCHANGED <<frames, client, handled, received>> /\ usable' = Room
        /\ pc' = "deleted" /\ pc = "wait" /\ Room > 0 /\ live' = GetSize
    BY DEF RecvEnd, stream
  <1>3. UNCHANGED <<m_pbuffer, m_phead, m_ptail>>
    BY <1>1, <1>2, RoomFacts DEF RecvEnd, Checked
  <1>4. usable' \in 0 .. BUFFER_SIZE /\ live' \in 0 .. BUFFER_SIZE
    BY <1>1, <1>2, RoomFacts
  <1>5. TypeOK'
    BY <1>1, <1>2, <1>3, <1>4 DEF TypeOK
  <1>6. FramesInv' /\ DeliveredInOrder' /\ Written' = Written /\ HandledBytes' = HandledBytes
    BY <1>2, StreamUnchanged DEF stream
  <1>7. usable > 0
    BY <1>2, RoomMeansMirror
  <1>8. MirrorInv'
    BY <1>2, <1>3, <1>6, <1>7 DEF IInv, MirrorInv
  <1>9. StuckInv'
    BY <1>2 DEF StuckInv
  <1>10. NothingLeftBehind'
    BY <1>2 DEF IInv, NothingLeftBehind, FrameEnd
  <1> QED
    BY <1>2, <1>5, <1>6, <1>8, <1>9, <1>10 DEF IInv

-----------------------------------------------------------------------------
(* The pack loop. *)

\* With data in the buffer, the head stands at the next frame to handle.
LEMMA HeadOfPack ==
  ASSUME IInv, pc = "parse", GetSize >= HEAD_SIZE
  PROVE  /\ Len(handled) + 1 \in DOMAIN frames
         /\ HeadFrame = frames[Len(handled) + 1]
         /\ HeadFrame \in Frame
         /\ HeadFrame.start = m_phead
         /\ m_phead = HandledBytes
         /\ m_ptail = received
         /\ \A i \in 0 .. m_ptail - 1 : m_pbuffer[i] = i
  <1> USE SizeAssumption
  <1> DEFINE h == Len(handled)
             n == Len(frames)
  <1>1. TypeOK /\ FramesInv
    BY DEF IInv
  <1>2. usable > 0
    BY <1>1 DEF IInv, StuckInv, TypeOK
  <1>3. /\ m_ptail = received /\ m_phead = HandledBytes
        /\ \A i \in 0 .. m_ptail - 1 : m_pbuffer[i] = i
    BY <1>2 DEF IInv, MirrorInv
  <1>4. /\ m_phead \in Nat /\ m_ptail \in Nat /\ m_phead < m_ptail /\ received <= Written
        /\ h \in Nat /\ n \in Nat /\ h <= n
        /\ DOMAIN frames = 1 .. n
    BY <1>1 DEF IInv, TypeOK, GetSize, DeliveredInOrder
  <1>5. \A k \in 1 .. n : frames[k] \in Frame /\ frames[k].start \in Nat /\ frames[k].body \in Nat
    BY <1>1, <1>4, WrittenType DEF Frame
  <1>6. h + 1 \in 1 .. n
    <2> SUFFICES ASSUME h = n PROVE FALSE
      BY <1>4
    <2>1. Written = HandledBytes
      BY <1>1 DEF Written, HandledBytes, TypeOK
    <2> QED
      BY <2>1, <1>3, <1>4
  <1>7. frames[h + 1].start = m_phead
    <2>1. CASE h = 0
      BY <2>1, <1>1, <1>3, <1>6 DEF FramesInv, HandledBytes, TypeOK
    <2>2. CASE h > 0
      <3>1. h \in DOMAIN frames /\ h + 1 \in DOMAIN frames
        BY <2>2, <1>4, <1>6
      <3>2. frames[h + 1].start = FrameEnd(frames[h])
        BY <3>1, <1>1 DEF FramesInv
      <3>3. handled # <<>>
        BY <2>2
      <3> QED
        BY <3>2, <3>3, <1>3 DEF HandledBytes
    <2> QED
      BY <2>1, <2>2, <1>4
  <1>8. m_pbuffer[m_phead] = m_phead
    BY <1>3, <1>4
  <1>9. \A k \in 1 .. n : frames[k].start = m_phead => k = h + 1
    <2> SUFFICES ASSUME NEW k \in 1 .. n, frames[k].start = m_phead, k # h + 1
                 PROVE  FALSE
      OBVIOUS
    <2>1. \A i \in 1 .. n : FrameEnd(frames[i]) > frames[i].start
      BY <1>5 DEF FrameEnd
    <2>2. FrameEnd(frames[k]) \in Nat /\ FrameEnd(frames[h + 1]) \in Nat
      BY <1>1, <1>4, <1>6, WrittenType
    <2>3. CASE k < h + 1
      <3>1. FrameEnd(frames[k]) <= frames[h + 1].start
        BY <2>3, <1>1, <1>4, <1>6 DEF FramesInv
      <3> QED
        BY <3>1, <2>1, <2>2, <1>4, <1>7
    <2>4. CASE h + 1 < k
      <3>1. FrameEnd(frames[h + 1]) <= frames[k].start
        BY <2>4, <1>1, <1>4, <1>6 DEF FramesInv
      <3>2. FrameEnd(frames[h + 1]) > frames[h + 1].start
        BY <2>1, <1>6
      <3> QED
        BY <3>1, <3>2, <2>2, <1>4, <1>7
    <2> QED
      BY <2>3, <2>4, <1>4
  <1>10. (CHOOSE k \in DOMAIN frames : frames[k].start = m_pbuffer[m_phead]) = h + 1
    BY <1>4, <1>6, <1>7, <1>8, <1>9
  <1>11. HeadFrame = frames[h + 1]
    BY <1>10 DEF HeadFrame
  <1> QED
    BY <1>3, <1>4, <1>5, <1>6, <1>7, <1>11

\* A round of the pack loop hands on the frame under the head.
LEMMA HandlePackIInv ==
  ASSUME IInv, HandlePack
  PROVE  IInv'
  <1> USE SizeAssumption
  <1> DEFINE h == Len(handled)
             pack == [i \in 1 .. PackSize |-> m_pbuffer[m_phead + i - 1]]
  <1>1. TypeOK /\ FramesInv
    BY DEF IInv
  <1>2. /\ UNCHANGED <<frames, client, received, m_pbuffer, m_ptail, usable, live, pc>>
        /\ pc = "parse" /\ GetSize >= HEAD_SIZE /\ PackSize <= GetSize
        /\ handled' = Append(handled, pack) /\ m_phead' = m_phead + PackSize
    BY <1>1 DEF HandlePack, PackComplete, stream, TypeOK, GetSize
  <1>3. /\ h + 1 \in DOMAIN frames /\ HeadFrame = frames[h + 1] /\ HeadFrame \in Frame
        /\ HeadFrame.start = m_phead /\ m_phead = HandledBytes
        /\ m_ptail = received /\ \A i \in 0 .. m_ptail - 1 : m_pbuffer[i] = i
    BY <1>2, HeadOfPack
  <1>4. HeadFrame.body \in Nat /\ PackSize = HEAD_SIZE + HeadFrame.body /\ PackSize \in Nat
    <2>1. HeadFrame.body \in Nat
      BY <1>3 DEF Frame
    <2> QED
      BY <2>1 DEF PackSize
  <1>5. /\ m_phead \in Nat /\ m_ptail \in Nat /\ m_phead + PackSize <= m_ptail
        /\ m_ptail <= BUFFER_SIZE /\ h \in Nat
    BY <1>1, <1>2, <1>4 DEF TypeOK, GetSize
  <1>6. pack = FrameBytes(HeadFrame)
    <2>1. \A i \in 1 .. PackSize : m_pbuffer[m_phead + i - 1] = HeadFrame.start + i - 1
      BY <1>3, <1>4, <1>5
    <2> QED
      BY <2>1, <1>4 DEF FrameBytes
  <1>7. pack \in Seq(Nat \cup {NoByte})
    <2>1. \A i \in 1 .. PackSize : m_phead + i - 1 \in 0 .. BUFFER_SIZE - 1
      BY <1>4, <1>5
    <2>2. pack \in [1 .. PackSize -> Nat \cup {NoByte}]
      BY <2>1, <1>1 DEF TypeOK, Cells
    <2> QED
      BY <2>2, <1>4, FunctionIsSeq
  <1> HIDE DEF pack
  <1>8. /\ handled' \in Seq(Seq(Nat \cup {NoByte})) /\ Len(handled') = h + 1
        /\ \A k \in 1 .. h : handled'[k] = handled[k]
        /\ handled'[h + 1] = pack
        /\ DOMAIN handled = 1 .. h /\ DOMAIN handled' = 1 .. h + 1
        /\ handled' # <<>>
    <2>1. handled \in Seq(Seq(Nat \cup {NoByte}))
      BY <1>1 DEF TypeOK
    <2>2. /\ Append(handled, pack) \in Seq(Seq(Nat \cup {NoByte}))
          /\ Append(handled, pack) # <<>>
          /\ Len(Append(handled, pack)) = h + 1
          /\ \A k \in 1 .. h : Append(handled, pack)[k] = handled[k]
          /\ Append(handled, pack)[h + 1] = pack
      BY <2>1, <1>7, AppendProperties
    <2> QED
      BY <2>1, <2>2, <1>2
  <1>9. m_phead' \in 0 .. BUFFER_SIZE /\ m_ptail' \in m_phead' .. BUFFER_SIZE
    BY <1>2, <1>4, <1>5
  <1>10. TypeOK'
    BY <1>1, <1>2, <1>8, <1>9 DEF TypeOK
  <1>11. FramesInv' /\ Written' = Written
    BY <1>2, <1>1 DEF FramesInv, Written, FrameEnd
  <1>12. HandledBytes' = FrameEnd(frames[h + 1])
    BY <1>2, <1>8 DEF HandledBytes, FrameEnd
  <1>13. FrameEnd(frames[h + 1]) = m_phead + PackSize
    <2>1. FrameEnd(HeadFrame) = HeadFrame.start + HEAD_SIZE + HeadFrame.body
      BY DEF FrameEnd
    <2> QED
      BY <2>1, <1>3, <1>4, <1>5
  <1>14. MirrorInv'
    BY <1>2, <1>3, <1>12, <1>13 DEF MirrorInv
  <1>15. StuckInv'
    <2>1. usable # 0
      BY <1>2 DEF IInv, StuckInv
    <2> QED
      BY <1>2, <2>1 DEF StuckInv
  <1>16. DeliveredInOrder'
    <2>1. h + 1 <= Len(frames)
      BY <1>1, <1>3 DEF TypeOK
    <2>2. \A k \in 1 .. h + 1 : handled'[k] = FrameBytes(frames[k])
      BY <1>3, <1>5, <1>6, <1>8 DEF IInv, DeliveredInOrder
    <2> QED
      <3>1. frames' = frames /\ Len(handled') = h + 1 /\ DOMAIN handled' = 1 .. h + 1
        BY <1>2, <1>8
      <3> QED
        BY <3>1, <2>1, <2>2 DEF DeliveredInOrder, FrameBytes
  <1>17. NothingLeftBehind'
    BY <1>2 DEF NothingLeftBehind
  <1> QED
    BY <1>2, <1>10, <1>11, <1>14, <1>15, <1>16, <1>17 DEF IInv

\* The loop ends only when the next frame has not arrived completely.
LEMMA PacksDoneIInv ==
  ASSUME IInv, PacksDone
  PROVE  IInv'
  <1> USE SizeAssumption
  <1>1. TypeOK
    BY DEF IInv
  <1>2. /\ UNCHANGED <<frames, client, received, m_pbuffer, m_phead, m_ptail, usable, live, handled>>
        /\ pc = "parse" /\ pc' = "wait" /\ ~PackComplete
    BY DEF PacksDone, stream, cursors
  <1>3. TypeOK'
    BY <1>1, <1>2 DEF TypeOK
  <1>4. FramesInv' /\ DeliveredInOrder' /\ Written' = Written /\ HandledBytes' = HandledBytes
    BY <1>2, StreamUnchanged DEF stream
  <1>5. usable > 0
    BY <1>1, <1>2 DEF IInv, StuckInv, TypeOK
  <1>6. MirrorInv' /\ StuckInv'
    BY <1>2, <1>4, <1>5 DEF IInv, MirrorInv, StuckInv
  <1>7. NothingLeftBehind'
    <2> SUFFICES ASSUME Len(handled) < Len(frames)
                 PROVE  received < FrameEnd(frames[Len(handled) + 1])
      BY <1>2 DEF NothingLeftBehind, FrameEnd
    <2> DEFINE next == frames[Len(handled) + 1]
    <2>1. Len(handled) + 1 \in DOMAIN frames
      BY <1>1 DEF TypeOK
    <2>2. next \in Frame /\ next.start \in Nat /\ next.body \in Nat
      BY <1>1, <2>1, WrittenType DEF Frame
    <2>3. /\ m_ptail = received /\ m_phead = HandledBytes /\ received \in Nat
          /\ m_ptail \in Nat /\ m_phead \in Nat
      BY <1>1, <1>5 DEF IInv, MirrorInv, TypeOK
    <2>4. next.start = HandledBytes
      <3>1. CASE handled = <<>>
        BY <3>1, <2>1, <1>1 DEF IInv, FramesInv, HandledBytes, TypeOK
      <3>2. CASE handled # <<>>
        <4>1. Len(handled) \in DOMAIN frames
          BY <3>2, <2>1, <1>1 DEF TypeOK
        <4>2. next.start = FrameEnd(frames[Len(handled)])
          BY <4>1, <2>1 DEF IInv, FramesInv
        <4> QED
          BY <4>2, <3>2 DEF HandledBytes
      <3> QED
        BY <3>1, <3>2
    <2>5. CASE GetSize < HEAD_SIZE
      BY <2>5, <2>2, <2>3, <2>4 DEF GetSize, FrameEnd
    <2>6. CASE GetSize >= HEAD_SIZE
      <3>1. HeadFrame = next
        BY <2>6, <1>2, HeadOfPack
      <3>2. PackSize = HEAD_SIZE + next.body
        BY <3>1 DEF PackSize
      <3>3. ~(PackSize <= GetSize)
        BY <2>6, <1>2 DEF PackComplete
      <3> QED
        BY <3>2, <3>3, <2>2, <2>3, <2>4 DEF GetSize, FrameEnd
    <2> QED
      BY <2>3, <2>5, <2>6 DEF GetSize
  <1> QED
    BY <1>2, <1>3, <1>4, <1>6, <1>7 DEF IInv

-----------------------------------------------------------------------------
(* The invariant is inductive, and what follows from it. *)

\* No step of the client, of RecvData or of the pack loop breaks the invariant.
THEOREM StepIInv == IInv /\ [Next]_vars => IInv'
  <1> SUFFICES ASSUME IInv, [Next]_vars PROVE IInv'
    OBVIOUS
  <1>1. ASSUME NEW b \in BodyLens, PeerSend(b) PROVE IInv'
    BY <1>1, PeerSendIInv
  <1>2. ASSUME NEW how \in {"closed", "reset"}, PeerClose(how) PROVE IInv'
    BY <1>2, PeerCloseIInv
  <1>3. CASE RecvRefused
    BY <1>3, RecvRefusedIInv
  <1>4. CASE RecvEnd
    BY <1>4, RecvEndIInv
  <1>5. ASSUME NEW n \in 1 .. BUFFER_SIZE, RecvBytes(n) PROVE IInv'
    BY <1>5, RecvBytesIInv
  <1>6. CASE HandlePack
    BY <1>6, HandlePackIInv
  <1>7. CASE PacksDone
    BY <1>7, PacksDoneIInv
  <1>8. CASE UNCHANGED vars
    BY <1>8 DEF vars, cursors, IInv, TypeOK, FramesInv, FrameEnd, Written, MirrorInv, HandledBytes,
                StuckInv, DeliveredInOrder, FrameBytes, NothingLeftBehind
  <1> QED
    BY <1>1, <1>2, <1>3, <1>4, <1>5, <1>6, <1>7, <1>8 DEF Next

\* The invariant holds in every state a link of the server can reach.
THEOREM SpecIInv == Spec => []IInv
  BY InitIInv, StepIInv, PTL DEF Spec

\* The cursors of class buffer never leave the array nor pass each other, and
\* no variable leaves its type, whatever the client does.
THEOREM TypeCorrect == Spec => []TypeOK
  <1>1. IInv => TypeOK
    BY DEF IInv
  <1> QED
    BY <1>1, SpecIInv, PTL

\* Every pack handed to a handler is the frame the client wrote at that place.
THEOREM Delivery == Spec => []DeliveredInOrder
  <1>1. IInv => DeliveredInOrder
    BY DEF IInv
  <1> QED
    BY <1>1, SpecIInv, PTL

\* Dojob never goes back to epoll_wait with a complete pack in the buffer.
THEOREM LoopDrains == Spec => []NothingLeftBehind
  <1>1. IInv => NothingLeftBehind
    BY DEF IInv
  <1> QED
    BY <1>1, SpecIInv, PTL

\* A connection is refused only after it has received BUFFER_SIZE bytes.
THEOREM RefusedOnlyWhenSpent == Spec => []RefusesOnlyWhenSpent
  <1>1. IInv => RefusesOnlyWhenSpent
    BY DEF IInv, StuckInv, RefusesOnlyWhenSpent
  <1> QED
    BY <1>1, SpecIInv, PTL

\* Until then the buffer holds exactly what was received and not handled.
THEOREM BufferMirrorsStream == Spec => []BufferHoldsStream
  <1>1. IInv => BufferHoldsStream
    <2> SUFFICES ASSUME IInv, usable > 0
                 PROVE  /\ GetSize = received - HandledBytes
                        /\ \A i \in 0 .. GetSize - 1 : m_pbuffer[m_phead + i] = HandledBytes + i
      BY DEF BufferHoldsStream
    <2>1. /\ m_ptail = received /\ m_phead = HandledBytes
          /\ \A i \in 0 .. m_ptail - 1 : m_pbuffer[i] = i
          /\ m_phead \in Nat /\ m_ptail \in Nat
      BY DEF IInv, MirrorInv, TypeOK
    <2> QED
      BY <2>1 DEF GetSize
  <1> QED
    BY <1>1, SpecIInv, PTL

-----------------------------------------------------------------------------
(* LinkBuffer implements FrameChannel. *)

\* What it takes for a sequence to be another one with an element appended.
LEMMA IsAppend ==
  ASSUME NEW S, NEW s \in Seq(S), NEW e \in S, NEW t \in Seq(S),
         Len(t) = Len(s) + 1,
         \A k \in 1 .. Len(s) : t[k] = s[k],
         t[Len(s) + 1] = e
  PROVE  t = Append(s, e)
  <1>1. /\ Append(s, e) \in Seq(S) /\ Len(Append(s, e)) = Len(s) + 1
        /\ \A k \in 1 .. Len(s) : Append(s, e)[k] = s[k]
        /\ Append(s, e)[Len(s) + 1] = e
    BY AppendProperties
  <1>2. \A k \in 1 .. Len(t) : t[k] = Append(s, e)[k]
    BY <1>1
  <1> QED
    BY <1>1, <1>2, SeqEqual

\* The mapped variables are sequences as long as what they are mapped from, and
\* what was handled is the beginning of what was written.
MappedInv ==
  /\ BodiesWritten \in Seq(Nat) /\ Len(BodiesWritten) = Len(frames)
  /\ DOMAIN frames = 1 .. Len(frames) /\ Len(frames) \in Nat
  /\ \A k \in 1 .. Len(frames) : BodiesWritten[k] = frames[k].body
  /\ BodiesHandled \in Seq(Nat) /\ Len(BodiesHandled) = Len(handled)
  /\ DOMAIN handled = 1 .. Len(handled) /\ Len(handled) \in Nat
  /\ \A k \in 1 .. Len(handled) : BodiesHandled[k] = frames[k].body
  /\ Len(handled) <= Len(frames)

\* It follows from the inductive invariant.
LEMMA MappedTypes == IInv => MappedInv
  <1> SUFFICES ASSUME IInv PROVE MappedInv
    OBVIOUS
  <1> USE SizeAssumption
  <1>1. /\ DOMAIN frames = 1 .. Len(frames) /\ Len(frames) \in Nat
        /\ DOMAIN handled = 1 .. Len(handled) /\ Len(handled) \in Nat
        /\ Len(handled) <= Len(frames)
    BY DEF IInv, TypeOK, DeliveredInOrder
  <1>2. \A k \in 1 .. Len(frames) : frames[k].body \in Nat /\ frames[k].start \in Nat
    BY <1>1, WrittenType DEF IInv, Frame
  <1>3. \A k \in 1 .. Len(frames) : BodiesWritten[k] = frames[k].body
    BY <1>1 DEF BodiesWritten
  <1>4. BodiesWritten \in [1 .. Len(frames) -> Nat]
    BY <1>1, <1>2 DEF BodiesWritten
  <1>5. ASSUME NEW k \in 1 .. Len(handled)
        PROVE  Len(handled[k]) - HEAD_SIZE = frames[k].body
    <2> DEFINE n == HEAD_SIZE + frames[k].body
               bytes == [i \in 1 .. n |-> frames[k].start + i - 1]
    <2>1. k \in 1 .. Len(frames)
      BY <1>1
    <2>2. frames[k].body \in Nat /\ frames[k].start \in Nat
      BY <2>1, <1>2
    <2>3. n \in Nat /\ bytes \in [1 .. n -> Nat]
      BY <2>2
    <2>4. Len(bytes) = n
      BY <2>3, FunctionIsSeq
    <2>5. handled[k] = bytes
      BY <1>1 DEF IInv, DeliveredInOrder, FrameBytes
    <2> QED
      BY <2>2, <2>4, <2>5
  <1>6. \A k \in 1 .. Len(handled) : BodiesHandled[k] = frames[k].body
    BY <1>1, <1>5 DEF BodiesHandled
  <1>7. BodiesHandled \in [1 .. Len(handled) -> Nat]
    BY <1>1, <1>2, <1>5 DEF BodiesHandled
  <1> QED
    BY <1>1, <1>3, <1>4, <1>6, <1>7, FunctionIsSeq DEF MappedInv

\* A step that leaves frames, handled and the end of the link alone stutters.
LEMMA MappedUnchanged ==
  ASSUME UNCHANGED <<frames, handled>>, (pc = "deleted") <=> (pc' = "deleted")
  PROVE  UNCHANGED Channel!vars
  <1>1. BodiesWritten' = BodiesWritten /\ BodiesHandled' = BodiesHandled
    BY DEF BodiesWritten, BodiesHandled
  <1>2. (pc = "deleted")' = (pc = "deleted")
    OBVIOUS
  <1> QED
    BY <1>1, <1>2 DEF Channel!vars

\* The initial states of LinkBuffer are initial states of FrameChannel.
LEMMA ChannelInit ==
  ASSUME Init
  PROVE  Channel!Init
  <1>1. BodiesWritten = <<>> /\ BodiesHandled = <<>>
    BY DEF Init, BodiesWritten, BodiesHandled
  <1>2. (pc = "deleted") = FALSE
    BY DEF Init
  <1> QED
    BY <1>1, <1>2 DEF Channel!Init

\* A frame written to the link is a Send.
LEMMA PeerSendIsSend ==
  ASSUME IInv, IInv', NEW b \in BodyLens, PeerSend(b)
  PROVE  Channel!Send(b)
  <1> DEFINE new == [start |-> Written, body |-> b]
  <1>1. UNCHANGED <<handled, pc>> /\ frames' = Append(frames, new) /\ b \in Nat
    BY SizeAssumption DEF PeerSend
  <1>2. new \in Frame
    BY WrittenType DEF IInv, Frame
  <1>3. frames \in Seq(Frame) /\ new.body = b
    BY DEF IInv, TypeOK
  <1>4. /\ Len(frames') = Len(frames) + 1
        /\ \A k \in 1 .. Len(frames) : frames'[k] = frames[k]
        /\ frames'[Len(frames) + 1] = new
    BY <1>1, <1>2, <1>3, AppendProperties
  <1>5. MappedInv /\ MappedInv'
    BY MappedTypes, PTL
  <1>6. BodiesWritten' = Append(BodiesWritten, b)
    <2>1. /\ BodiesWritten \in Seq(Nat) /\ Len(BodiesWritten) = Len(frames)
          /\ BodiesWritten' \in Seq(Nat) /\ Len(BodiesWritten') = Len(frames')
          /\ Len(frames) \in Nat
      BY <1>5 DEF MappedInv
    <2>2. \A k \in 1 .. Len(frames) : BodiesWritten[k] = frames[k].body
      BY <1>5 DEF MappedInv
    <2>3. \A k \in 1 .. Len(frames') : BodiesWritten'[k] = frames'[k].body
      BY <1>5 DEF MappedInv
    <2>4. \A k \in 1 .. Len(BodiesWritten) : BodiesWritten'[k] = BodiesWritten[k]
      <3> SUFFICES ASSUME NEW k \in 1 .. Len(frames)
                   PROVE  BodiesWritten'[k] = BodiesWritten[k]
        BY <2>1
      <3>1. k \in 1 .. Len(frames')
        BY <2>1, <1>4
      <3>2. frames'[k] = frames[k]
        BY <1>4
      <3> QED
        BY <2>2, <2>3, <3>1, <3>2
    <2>5. BodiesWritten'[Len(BodiesWritten) + 1] = b
      <3>1. Len(frames) + 1 \in 1 .. Len(frames')
        BY <2>1, <1>4
      <3> QED
        BY <2>1, <2>3, <3>1, <1>3, <1>4
    <2> QED
      BY <2>1, <2>4, <2>5, <1>1, <1>4, IsAppend
  <1>7. BodiesHandled' = BodiesHandled /\ (pc = "deleted")' = (pc = "deleted")
    BY <1>1 DEF BodiesHandled
  <1> QED
    BY <1>6, <1>7 DEF Channel!Send

\* A round of the pack loop is a Dispatch of the oldest frame.
LEMMA HandlePackIsDispatch ==
  ASSUME IInv, IInv', HandlePack
  PROVE  Channel!Dispatch
  <1>1. UNCHANGED <<frames, pc>> /\ pc # "deleted" /\ Len(handled') = Len(handled) + 1
    BY AppendProperties DEF HandlePack, stream, IInv, TypeOK
  <1>2. MappedInv /\ MappedInv'
    BY MappedTypes, PTL
  <1>3. BodiesWritten' = BodiesWritten /\ (pc = "deleted")' = (pc = "deleted")
    BY <1>1 DEF BodiesWritten
  <1>4. /\ BodiesHandled \in Seq(Nat) /\ Len(BodiesHandled) = Len(handled)
        /\ BodiesHandled' \in Seq(Nat) /\ Len(BodiesHandled') = Len(handled) + 1
        /\ Len(handled) \in Nat /\ Len(frames) \in Nat
        /\ Len(handled) + 1 <= Len(frames)
    BY <1>1, <1>2 DEF MappedInv
  <1>5. \A k \in 1 .. Len(frames) : BodiesWritten[k] = frames[k].body
    BY <1>2 DEF MappedInv
  <1>6. \A k \in 1 .. Len(handled) : BodiesHandled[k] = frames[k].body
    BY <1>2 DEF MappedInv
  <1>7. \A k \in 1 .. Len(handled) + 1 : BodiesHandled'[k] = frames[k].body
    BY <1>1, <1>2 DEF MappedInv
  <1> DEFINE next == BodiesWritten[Len(BodiesHandled) + 1]
  <1>8. next = frames[Len(handled) + 1].body /\ next \in Nat
    <2>1. Len(handled) + 1 \in 1 .. Len(frames)
      BY <1>4
    <2>2. BodiesWritten \in Seq(Nat) /\ Len(BodiesWritten) = Len(frames)
      BY <1>2 DEF MappedInv
    <2> QED
      BY <2>1, <2>2, <1>4, <1>5
  <1> HIDE DEF next
  <1>9. BodiesHandled' = Append(BodiesHandled, next)
    <2>1. \A k \in 1 .. Len(BodiesHandled) : BodiesHandled'[k] = BodiesHandled[k]
      BY <1>4, <1>6, <1>7
    <2>2. BodiesHandled'[Len(BodiesHandled) + 1] = next
      BY <1>4, <1>7, <1>8
    <2> QED
      BY <1>4, <1>8, <2>1, <2>2, IsAppend
  <1>10. Len(BodiesHandled) < Len(BodiesWritten)
    BY <1>2, <1>4 DEF MappedInv
  <1> QED
    BY <1>1, <1>3, <1>9, <1>10 DEF Channel!Dispatch, next

\* Every step of LinkBuffer is a step of FrameChannel or changes nothing there:
\* a write is Send, a round of the pack loop Dispatch, the end Channel's End.
LEMMA ChannelStep ==
  ASSUME IInv, IInv', [Next]_vars
  PROVE  [Channel!Next]_(Channel!vars)
  <1>1. ASSUME NEW b \in BodyLens, PeerSend(b) PROVE Channel!Next
    BY <1>1, PeerSendIsSend DEF Channel!Next
  <1>2. ASSUME NEW how \in {"closed", "reset"}, PeerClose(how) PROVE UNCHANGED Channel!vars
    BY <1>2, MappedUnchanged DEF PeerClose
  <1>3. CASE RecvRefused
    BY <1>3, MappedUnchanged DEF RecvRefused, stream
  <1>4. CASE RecvEnd
    <2>1. BodiesWritten' = BodiesWritten /\ BodiesHandled' = BodiesHandled
      BY <1>4 DEF RecvEnd, stream, BodiesWritten, BodiesHandled
    <2>2. ~(pc = "deleted") /\ (pc = "deleted")' = TRUE
      BY <1>4 DEF RecvEnd
    <2> QED
      BY <2>1, <2>2 DEF Channel!Next, Channel!End
  <1>5. ASSUME NEW n \in 1 .. BUFFER_SIZE, RecvBytes(n) PROVE UNCHANGED Channel!vars
    BY <1>5, MappedUnchanged DEF RecvBytes, stream
  <1>6. CASE HandlePack
    BY <1>6, HandlePackIsDispatch DEF Channel!Next
  <1>7. CASE PacksDone
    BY <1>7, MappedUnchanged DEF PacksDone, stream
  <1>8. CASE UNCHANGED vars
    BY <1>8, MappedUnchanged DEF vars
  <1> QED
    BY <1>1, <1>2, <1>3, <1>4, <1>5, <1>6, <1>7, <1>8 DEF Next

\* The buffer and the pack loop keep the promise of FrameChannel: the frames a
\* client writes are dispatched in order and once, until the link is deleted.
THEOREM LinkImplementsChannel == Spec => ImplementsChannel
  <1>1. Init => Channel!Init
    BY ChannelInit
  <1>2. IInv /\ IInv' /\ [Next]_vars => [Channel!Next]_(Channel!vars)
    BY ChannelStep
  <1> QED
    BY <1>1, <1>2, SpecIInv, PTL DEF Spec, ImplementsChannel, Channel!Spec
=============================================================================
