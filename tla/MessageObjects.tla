--------------------------- MODULE MessageObjects ---------------------------
(***************************************************************************)
(* Two objects of one message class and what can be called on them: the    *)
(* accessors, Clear, MergeFrom, CopyFrom, Swap, SerializeToArray and       *)
(* ParseFromArray.  The class is `kind' and stays; MCMessageObjects gives  *)
(* every class its operators.                                              *)
(*                                                                         *)
(* What is parsed is what another object was serialized to, as such, with  *)
(* one more field in it (of a newer version, of another wire type than the *)
(* one declared, or a repeated one), or without its end.                   *)
(***************************************************************************)
EXTENDS WireFormat

CONSTANTS
  Kinds,              \* the message classes
  Default(_),         \* Default(k): what Clear leaves
  Setters(_, _),      \* Setters(k, m): what one accessor makes of m
  Field(_, _, _),     \* Field(k, m, t): what parsing field t makes of m
  Write(_, _),        \* Write(k, m): the fields m is serialized to
  Size(_, _),         \* Size(k, m): ByteSizeLong
  Merge(_, _, _),     \* Merge(k, m, from): MergeFrom
  OddFields,          \* fields a message may come with besides its own
  MaxCalls            \* bound on the calls of a behaviour

VARIABLES
  kind,     \* the class
  msg,      \* the object called
  other,    \* another object of the class
  calls     \* calls so far
vars == <<kind, msg, other, calls>>

-----------------------------------------------------------------------------
(* Operations of every class. *)

\* ParseFromArray: Clear, then every field; IsInitialized is true.
Parse(k, fields) == MergeFields(LAMBDA m, t : Field(k, m, t), Default(k), fields)

\* CopyFrom
Copy(k, m, from) == Merge(k, Default(k), from)

\* The bytes of an object as they may arrive elsewhere.
Received(fields) ==
  {fields} \cup {Append(fields, t) : t \in OddFields} \cup {<<t>> \o fields : t \in OddFields}
  \cup {Append(SubSeq(fields, 1, i), Cut) : i \in 0 .. Len(fields) - 1}

-----------------------------------------------------------------------------

Init ==
  /\ kind \in Kinds
  /\ msg = Default(kind)
  /\ other = Default(kind)
  /\ calls = 0

Call == calls < MaxCalls /\ calls' = calls + 1 /\ UNCHANGED kind

SetField == Call /\ msg' \in Setters(kind, msg) /\ UNCHANGED other

Clear == Call /\ msg' = Default(kind) /\ UNCHANGED other

MergeFrom == Call /\ msg' = Merge(kind, msg, other) /\ UNCHANGED other

CopyFrom == Call /\ msg' = Copy(kind, msg, other) /\ UNCHANGED other

Swap == Call /\ msg' = other /\ other' = msg

ParseFromArray ==
  /\ Call
  /\ \E bytes \in Received(Write(kind, other)) :
       msg' = Parse(kind, bytes).msg    \* also when it returns false
  /\ UNCHANGED other

Next == SetField \/ Clear \/ MergeFrom \/ CopyFrom \/ Swap \/ ParseFromArray

Spec == Init /\ [][Next]_vars

-----------------------------------------------------------------------------
(* Properties. *)

\* Every text a parser would look at is UTF-8.
RECURSIVE Legible(_)
Legible(fields) ==
  \A i \in DOMAIN fields :
    LET t == fields[i] IN
      /\ "str" \in DOMAIN t => t.str \notin NotUtf8
      /\ "msg" \in DOMAIN t => Legible(t.msg)

(* What SerializeToArray writes, ParseFromArray reads back as the same      *)
(* object, the fields it did not know included: rows written by a server   *)
(* with a newer .proto survive an older one.                               *)
RoundTrip == Legible(Write(kind, msg)) => Parse(kind, Write(kind, msg)) = Read(msg)

(* ByteSizeLong is the number of bytes SerializeToArray writes, which      *)
(* BroadCast and UpdatePlayerInfo take it for (SocketServer.cpp:189,       *)
(* MySqlMgr.cpp:207); negative numbers and nested messages are where it    *)
(* could differ.                                                           *)
SizeIsExact == Size(kind, msg) = Bytes(Write(kind, msg))

(* Reading the bytes of two objects one after the other is merging the     *)
(* second into the first: parser, serializer and MergeFrom agree on what a *)
(* missing field, a repeated field and a sub-message mean.                 *)
ConcatenationMerges ==
  LET bytes == Write(kind, msg) \o Write(kind, other)
  IN Legible(bytes) => Parse(kind, bytes) = Read(Merge(kind, msg, other))
=============================================================================
