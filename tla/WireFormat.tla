----------------------------- MODULE WireFormat -----------------------------
(***************************************************************************)
(* What the generated message classes use of the protobuf library          *)
(* (WireFormatLite and CodedStream, version 3.5), as the calls in          *)
(* src/Networkdev/protocal/*.pb.cc use it.                                 *)
(*                                                                         *)
(* A serialized message is a sequence of fields.  A field has its number   *)
(* and one payload: `int' (a varint: int32, bool and enum), or, of the     *)
(* wire type LENGTH_DELIMITED, `str' (a string), `msg' (an embedded        *)
(* message, again a sequence of fields) or `packed' (a packed repeated     *)
(* int32), as it was written.  The tag tells a varint from a delimited     *)
(* field, and nothing tells the delimited ones apart: a reader takes the   *)
(* bytes for what its own class declares.  Bytes are counted, not spelled  *)
(* out; the payloads that arrive in the place of another kind are in       *)
(* Payloads, with what each kind makes of their bytes.  Cut stands for the *)
(* first bytes of a field whose rest is missing.                           *)
(***************************************************************************)
EXTENDS Integers, Sequences, SequencesExt, TLC

CONSTANTS
  Ints,         \* the int32 values that are set
  Strings,      \* the texts that are set
  StrLen,       \* their length in bytes; the empty text is the one of length 0
  NotUtf8,      \* those that are not UTF-8
  Payloads,     \* [str, msg, packed]: the same bytes, as each kind reads them
  Null          \* the null pointer of a sub-message that is not there

ASSUME WireAssumption ==
  /\ Ints \subseteq Int /\ 0 \in Ints
  /\ StrLen \in [Strings -> Nat]
  /\ NotUtf8 \subseteq Strings
  /\ \E s \in Strings : StrLen[s] = 0 /\ s \notin NotUtf8

EmptyString == CHOOSE s \in Strings : StrLen[s] = 0 /\ s \notin NotUtf8

Varint(num, v) == [num |-> num, int |-> v]
Text(num, s) == [num |-> num, str |-> s]
Embedded(num, fields) == [num |-> num, msg |-> fields]
Packed(num, vs) == [num |-> num, packed |-> vs]
Cut == [num |-> 0]

IsVarint(t, num) == t.num = num /\ "int" \in DOMAIN t
IsDelimited(t, num) == t.num = num /\ "int" \notin DOMAIN t

\* The payload of a delimited field, as the reader of each kind takes it.
PayloadOf(t) ==
  CHOOSE p \in Payloads : \E form \in DOMAIN t \ {"num"} : p[form] = t[form]
TextOf(t) == IF "str" \in DOMAIN t THEN t.str ELSE PayloadOf(t).str
FieldsOf(t) == IF "msg" \in DOMAIN t THEN t.msg ELSE PayloadOf(t).msg
NumbersOf(t) == IF "packed" \in DOMAIN t THEN t.packed ELSE PayloadOf(t).packed

Sum(numbers) == FoldLeft(LAMBDA sum, n : sum + n, 0, numbers)
SumOver(Op(_), s) == Sum([k \in DOMAIN s |-> Op(s[k])])
Concat(Op(_), s) == FoldLeft(LAMBDA all, x : all \o Op(x), <<>>, s)

-----------------------------------------------------------------------------
(* Sizes. *)

VarintSize32(n) ==
  IF n < 128 THEN 1
  ELSE IF n < 16384 THEN 2
  ELSE IF n < 2097152 THEN 3
  ELSE IF n < 268435456 THEN 4
  ELSE 5

\* A negative int32 is sent as 64 bits.
Int32Size(v) == IF v < 0 THEN 10 ELSE VarintSize32(v)

LengthDelimitedSize(n) == VarintSize32(n) + n
StringSize(s) == LengthDelimitedSize(StrLen[s])

\* What a number takes, and a field whose embedded message takes inner bytes;
\* every field number here is below 16: the tag is a byte.
NumberBytes(v) == IF v < 0 THEN 10 ELSE VarintSize32(v)
FieldBytes(t, inner) ==
  1 + (IF "int" \in DOMAIN t THEN NumberBytes(t.int)
       ELSE IF "str" \in DOMAIN t THEN LengthDelimitedSize(StrLen[t.str])
       ELSE IF "msg" \in DOMAIN t THEN LengthDelimitedSize(inner)
       ELSE LengthDelimitedSize(SumOver(NumberBytes, t.packed)))

\* What fields take that nest at most so deep.  The deepest message of the
\* protocol is the answer to a login, a player, the bags, an item, and an
\* unknown field within it.
FlatBytes(fields) == SumOver(LAMBDA t : FieldBytes(t, 0), fields)
Bytes1(fields) == SumOver(LAMBDA t : FieldBytes(t, FlatBytes(t.msg)), fields)
Bytes2(fields) == SumOver(LAMBDA t : FieldBytes(t, Bytes1(t.msg)), fields)
Bytes3(fields) == SumOver(LAMBDA t : FieldBytes(t, Bytes2(t.msg)), fields)
Bytes(fields) == SumOver(LAMBDA t : FieldBytes(t, Bytes3(t.msg)), fields)

ASSUME PayloadAssumption ==
  \A p \in Payloads :
    /\ DOMAIN p = {"str", "msg", "packed"} /\ p.str \in Strings
    /\ Bytes(p.msg) = StrLen[p.str] /\ SumOver(NumberBytes, p.packed) = StrLen[p.str]
    /\ \A q \in Payloads \ {p} : p.str # q.str /\ p.msg # q.msg /\ p.packed # q.packed

\* In ByteSizeLong: a field with the default value is not sent.
IntSize(v) == IF v = 0 THEN 0 ELSE 1 + Int32Size(v)
BoolSize(b) == IF b = 0 THEN 0 ELSE 1 + 1
TextSize(s) == IF StrLen[s] = 0 THEN 0 ELSE 1 + StringSize(s)
MessageSize(sub, Size(_)) == IF sub = Null THEN 0 ELSE 1 + LengthDelimitedSize(Size(sub))
MessagesSize(subs, Size(_)) == Len(subs) + SumOver(LAMBDA s : LengthDelimitedSize(Size(s)), subs)
TextsSize(texts) == Len(texts) + SumOver(StringSize, texts)
PackedSize(vs) ==
  LET data_size == SumOver(Int32Size, vs)
  IN IF data_size = 0 THEN 0 ELSE 1 + Int32Size(data_size) + data_size
UnknownSize(unknown) == Bytes(unknown)

-----------------------------------------------------------------------------
(* Writing and reading. *)

WriteInt(num, v) == IF v = 0 THEN <<>> ELSE <<Varint(num, v)>>
WriteText(num, s) == IF StrLen[s] = 0 THEN <<>> ELSE <<Text(num, s)>>
WriteTexts(num, texts) == [i \in DOMAIN texts |-> Text(num, texts[i])]
WritePacked(num, vs) == IF vs = <<>> THEN <<>> ELSE <<Packed(num, vs)>>
WriteMessage(num, sub, Write(_)) == IF sub = Null THEN <<>> ELSE <<Embedded(num, Write(sub))>>
WriteMessages(num, subs, Write(_)) == [i \in DOMAIN subs |-> Embedded(num, Write(subs[i]))]

\* The result of reading: a failure keeps what was read before it.
Read(m) == [ok |-> TRUE, msg |-> m]
Failed(m) == [ok |-> FALSE, msg |-> m]

\* SkipField: a field the class does not know is kept with the message.
SkipField(m, t) == Read([m EXCEPT !.unknown = Append(@, t)])

\* ReadPrimitive for the int32 and enum fields, names[n] being field number n.
ReadInts(names, m, t) ==
  IF t.num \in DOMAIN names /\ "int" \in DOMAIN t
    THEN Read([m EXCEPT ![names[t.num]] = t.int])
    ELSE SkipField(m, t)

ReadBool(name, m, t) == Read([m EXCEPT ![name] = IF t.int = 0 THEN 0 ELSE 1])

\* ReadString and VerifyUtf8String
VerifyUtf8String(s, m) == IF s \in NotUtf8 THEN Failed(m) ELSE Read(m)
ReadText(name, m, t) == VerifyUtf8String(TextOf(t), [m EXCEPT ![name] = TextOf(t)])
ReadTextElement(name, m, t) ==
  VerifyUtf8String(TextOf(t), [m EXCEPT ![name] = Append(@, TextOf(t))])

\* A repeated int32 is taken packed and one by one.
ReadPacked(name, m, t) == Read([m EXCEPT ![name] = @ \o NumbersOf(t)])
ReadIntElement(name, m, t) == Read([m EXCEPT ![name] = Append(@, t.int)])

\* The loop of MergePartialFromCodedStream: field after field, until one fails.
MergeFields(Field(_, _), m, fields) ==
  FoldLeft(LAMBDA r, t : IF ~r.ok THEN r
                         ELSE IF t = Cut THEN Failed(r.msg)
                         ELSE Field(r.msg, t),
           Read(m), fields)

\* ReadMessage into a sub-message, which is there from then on, and into a new
\* element.  What was read before a failure stays.
ReadMessage(Field(_, _), Default, name, m, t) ==
  LET r == MergeFields(Field, IF m[name] = Null THEN Default ELSE m[name], FieldsOf(t))
  IN [ok |-> r.ok, msg |-> [m EXCEPT ![name] = r.msg]]
ReadElement(Field(_, _), Default, name, m, t) ==
  LET r == MergeFields(Field, Default, FieldsOf(t))
  IN [ok |-> r.ok, msg |-> [m EXCEPT ![name] = Append(@, r.msg)]]

-----------------------------------------------------------------------------
(* MergeFrom: numbers that are not 0 replace, unknown fields add up. *)

MergeInts(names, m, from) ==
  [f \in DOMAIN m |-> IF f = "unknown" THEN m[f] \o from[f]
                      ELSE IF f \in names /\ from[f] # 0 THEN from[f]
                      ELSE m[f]]
MergeText(to, from) == IF StrLen[from] = 0 THEN to ELSE from
MergeMessage(to, from, Default, Merge(_, _)) ==
  IF from = Null THEN to ELSE Merge(IF to = Null THEN Default ELSE to, from)

-----------------------------------------------------------------------------
(* The accessors: what one call can make of a message. *)

SetInts(m, names) == {[m EXCEPT ![name] = v] : name \in names, v \in Ints}
SetBool(m, name) == {[m EXCEPT ![name] = b] : b \in {0, 1}}
SetText(m, name) == {[m EXCEPT ![name] = s] : s \in Strings}

\* A sub-message: clear_ and release_ take it away, mutable_ makes one if there
\* is none and gives it out to be changed.
SetMessage(m, name, Default, Set(_)) ==
  LET sub == IF m[name] = Null THEN Default ELSE m[name]
  IN {[m EXCEPT ![name] = s] : s \in {Null, sub} \cup Set(sub)}

\* A repeated field of messages: clear_, add_, and mutable_ of one that is there.
SetRepeated(m, name, Default, Set(_)) ==
  {[m EXCEPT ![name] = <<>>]}
  \cup {[m EXCEPT ![name] = Append(@, e)] : e \in {Default} \cup Set(Default)}
  \cup UNION {{[m EXCEPT ![name][i] = e] : e \in Set(m[name][i])} : i \in DOMAIN m[name]}

\* A repeated field of values: clear_, add_ and set_.
SetValues(m, name, values) ==
  {[m EXCEPT ![name] = <<>>]}
  \cup {[m EXCEPT ![name] = Append(@, v)] : v \in values}
  \cup {[m EXCEPT ![name][i] = v] : i \in DOMAIN m[name], v \in values}
=============================================================================
