---------------------------- MODULE FrameChannel ----------------------------
(***************************************************************************)
(* What one connection of the server promises to the message handlers:     *)
(* the frames (header + body) a client writes are dispatched in the order  *)
(* they were written, each one once, none invented, and none after the     *)
(* connection has ended.  Frames are known by the length of their body.    *)
(* LinkBuffer implements this specification.                               *)
(***************************************************************************)
EXTENDS Naturals, Sequences

CONSTANT Bodies           \* the body lengths a client uses

VARIABLES
  sent,                   \* the bodies the client has written, in order
  dispatched,             \* the bodies handed to a message handler, in order
  ended                   \* the server has dropped the connection

vars == <<sent, dispatched, ended>>

Init ==
  /\ sent = <<>>
  /\ dispatched = <<>>
  /\ ended = FALSE

\* The client writes one more frame.
Send(b) ==
  /\ sent' = Append(sent, b)
  /\ UNCHANGED <<dispatched, ended>>

\* The server dispatches the oldest frame it has not dispatched yet.
Dispatch ==
  /\ ~ended
  /\ Len(dispatched) < Len(sent)
  /\ dispatched' = Append(dispatched, sent[Len(dispatched) + 1])
  /\ UNCHANGED <<sent, ended>>

\* The server drops the connection; what was not dispatched never will be.
End ==
  /\ ~ended
  /\ ended' = TRUE
  /\ UNCHANGED <<sent, dispatched>>

Next ==
  \/ \E b \in Bodies : Send(b)
  \/ Dispatch
  \/ End

Spec == Init /\ [][Next]_vars
=============================================================================
