--------------------------- MODULE PlainMessages ----------------------------
(***************************************************************************)
(* The messages that have a file each, with the operators that             *)
(* GameSpecMessages has for its own.                                       *)
(***************************************************************************)
EXTENDS WireFormat

-----------------------------------------------------------------------------
(* MSG_PLAYER_MOVE *)

MSG_PLAYER_MOVE_Default == [
  x |-> 0, z |-> 0, ry |-> 0, playerid |-> 0, state |-> 0, unknown |-> <<>>]

MSG_PLAYER_MOVE_Set(m) == SetInts(m, {"x", "z", "ry", "playerid", "state"})

MSG_PLAYER_MOVE_Field(m, t) ==
  ReadInts(<<"x", "z", "ry", "playerid", "state">>, m, t)

MSG_PLAYER_MOVE_Write(m) ==
  WriteInt(1, m.x) \o WriteInt(2, m.z) \o WriteInt(3, m.ry)
  \o WriteInt(4, m.playerid) \o WriteInt(5, m.state) \o m.unknown

MSG_PLAYER_MOVE_Size(m) ==
  UnknownSize(m.unknown) + IntSize(m.x) + IntSize(m.z) + IntSize(m.ry)
  + IntSize(m.playerid) + IntSize(m.state)

MSG_PLAYER_MOVE_Merge(m, from) ==
  MergeInts({"x", "z", "ry", "playerid", "state"}, m, from)

-----------------------------------------------------------------------------
(* MSG_PLAYER_REGISTER *)

MSG_PLAYER_REGISTER_Default == [
  x |-> 0, z |-> 0, ry |-> 0, speed |-> 0, professsional |-> 0,
  playerid |-> 0, unknown |-> <<>>]

MSG_PLAYER_REGISTER_Set(m) ==
  SetInts(m, {"x", "z", "ry", "speed", "professsional", "playerid"})

MSG_PLAYER_REGISTER_Field(m, t) ==
  ReadInts(<<"x", "z", "ry", "speed", "professsional", "playerid">>, m, t)

MSG_PLAYER_REGISTER_Write(m) ==
  WriteInt(1, m.x) \o WriteInt(2, m.z) \o WriteInt(3, m.ry)
  \o WriteInt(4, m.speed) \o WriteInt(5, m.professsional)
  \o WriteInt(6, m.playerid) \o m.unknown

MSG_PLAYER_REGISTER_Size(m) ==
  UnknownSize(m.unknown) + IntSize(m.x) + IntSize(m.z) + IntSize(m.ry)
  + IntSize(m.speed) + IntSize(m.professsional) + IntSize(m.playerid)

MSG_PLAYER_REGISTER_Merge(m, from) ==
  MergeInts({"x", "z", "ry", "speed", "professsional", "playerid"}, m, from)

-----------------------------------------------------------------------------
(* MsgTest *)

MsgTestDefault == [id |-> 0, uid |-> 0, msg |-> EmptyString, unknown |-> <<>>]

MsgTestSet(m) == SetInts(m, {"id", "uid"}) \cup SetText(m, "msg")

MsgTestField(m, t) ==
  IF IsDelimited(t, 3) THEN ReadText("msg", m, t)
  ELSE ReadInts(<<"id", "uid">>, m, t)

MsgTestWrite(m) ==
  WriteInt(1, m.id) \o WriteInt(2, m.uid) \o WriteText(3, m.msg) \o m.unknown

MsgTestSize(m) ==
  UnknownSize(m.unknown) + TextSize(m.msg) + IntSize(m.id) + IntSize(m.uid)

MsgTestMerge(m, from) ==
  [MergeInts({"id", "uid"}, m, from) EXCEPT !.msg = MergeText(@, from.msg)]
=============================================================================
