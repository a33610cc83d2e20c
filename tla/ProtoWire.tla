----------------------------- MODULE ProtoWire ------------------------------
(***************************************************************************)
(* The generated codec of every message of x/privacy (types/*.pb.go and    *)
(* types/v2/*.pb.go): transactions, queries, the genesis file and the      *)
(* records the keeper stores.  A sender marshals a message, what arrives   *)
(* may start with fields of a newer schema and may be cut short, and a     *)
(* receiver unmarshals it.                                                 *)
(*                                                                         *)
(* A message is a function from field names to values: an integer, a       *)
(* Boolean, a sequence of bytes, or a sequence (of byte strings, integers  *)
(* or messages); a message pointer is a sequence of length at most one.    *)
(* A byte is a number in 0..255.  An int64 is the integer it stands for,   *)
(* and a negative one takes the ten bytes of its two's complement.         *)
(***************************************************************************)
EXTENDS Integers, Sequences, TLC, WireTx, WireGenesis, WireQuery, WireAudit
LOCAL INSTANCE SequencesExt
LOCAL INSTANCE FiniteSetsExt

CONSTANTS MaxCut,    \* messages of at most this many bytes are also cut short
          LongField  \* length of the longest byte string a field is given

VARIABLES mtype,     \* type of the message being sent
          sent,      \* the message
          wire,      \* what Marshal returned, unknown fields in front of it
          cut,       \* number of bytes lost at the end
          phase,     \* "idle", "sent", "cut" or "received"
          got        \* what Unmarshal returned

wireVars == <<mtype, sent, wire, cut, phase, got>>

Codec == TxCodec @@ GenesisCodec @@ QueryCodec @@ AuditCodec

Types == DOMAIN Codec

-----------------------------------------------------------------------------
(* Integers on the wire *)

RECURSIVE NegativeVarint(_, _)
\* Two's complement in 64 bits: nine groups of seven bits and the sign bit.
NegativeVarint(v, groups) ==
    IF groups = 0 THEN <<1>>
    ELSE <<128 + (v % 128)>> \o NegativeVarint(v \div 128, groups - 1)

RECURSIVE encodeVarint(_)
encodeVarint(v) ==
    IF v < 0 THEN NegativeVarint(v, 9)
    ELSE IF v < 128 THEN <<v>>
    ELSE <<128 + (v % 128)>> \o encodeVarint(v \div 128)

RECURSIVE sovShort(_)
\* A size function whose boundary is one too late.
sovShort(x) ==
    IF x < 0 THEN 10 ELSE IF x <= 128 THEN 1 ELSE 1 + sovShort(x \div 128)

RECURSIVE sov(_)
\* Bytes encodeVarint needs: (bits.Len64(x|1) + 6) / 7.
sov(x) ==
    IF x < 0 THEN 10 ELSE IF x < 128 THEN 1 ELSE 1 + sov(x \div 128)

RECURSIVE Groups(_, _, _)
\* The value of the groups d[from..to], the lowest first.
Groups(d, from, to) ==
    IF from = to THEN d[from]
    ELSE d[from] - 128 + 128 * Groups(d, from + 1, to)

RECURSIVE SignedGroups(_, _, _)
SignedGroups(d, from, to) ==
    IF from = to THEN -(d[from] % 2)
    ELSE d[from] - 128 + 128 * SignedGroups(d, from + 1, to)

Failed == [ok |-> FALSE]

\* The loop every integer is read with: at most ten bytes, the last below 0x80.
\* An index is the number of bytes already read.
ReadVarint(d, i) ==
    LET ends == {k \in (i + 1)..(i + 10) : k <= Len(d) /\ d[k] < 128}
    IN  IF ends = {} THEN Failed
        ELSE LET e == Min(ends)
             IN  [ok |-> TRUE, next |-> e,
                  v  |-> IF e = i + 10 THEN SignedGroups(d, i + 1, e)
                         ELSE Groups(d, i + 1, e)]

-----------------------------------------------------------------------------
(* Marshal and Size *)

Framed(tag, body) == tag \o encodeVarint(Len(body)) \o body

RECURSIVE MarshalToSizedBuffer(_, _)
RECURSIVE MarshalElements(_, _)
\* The elements of a repeated field, or the one message of a pointer.
MarshalElements(e, x) ==
    IF x = <<>> THEN <<>>
    ELSE Framed(e.at, IF e.kind = "repbytes" THEN Head(x)
                      ELSE MarshalToSizedBuffer(e.type, Head(x)))
         \o MarshalElements(e, Tail(x))

RECURSIVE PackedBytes(_)
PackedBytes(x) ==
    IF x = <<>> THEN <<>> ELSE encodeVarint(Head(x)) \o PackedBytes(Tail(x))

MarshalField(e, x) ==
    CASE e.kind \in {"uint", "int"} ->
            IF x = 0 THEN <<>> ELSE e.at \o encodeVarint(x)
      [] e.kind = "bool"   -> IF x THEN e.at \o <<1>> ELSE <<>>
      [] e.kind = "bytes"  -> IF x = <<>> THEN <<>> ELSE Framed(e.at, x)
      [] e.kind = "packed" ->
            IF x = <<>> THEN <<>> ELSE Framed(e.at, PackedBytes(x))
      [] OTHER -> MarshalElements(e, x)

RECURSIVE MarshalFields(_, _)
\* The buffer is filled from its end: each field goes in front of the ones
\* written before it.
MarshalFields(table, m) ==
    IF table = <<>> THEN <<>>
    ELSE MarshalFields(Tail(table), m)
         \o MarshalField(Head(table), m[Head(table).field])

MarshalToSizedBuffer(t, m) == MarshalFields(Codec[t].marshal, m)

RECURSIVE Size(_, _)
RECURSIVE SizeElements(_, _)
SizeElements(e, x) ==
    IF x = <<>> THEN 0
    ELSE LET l == IF e.kind = "repbytes" THEN Len(Head(x))
                  ELSE Size(e.type, Head(x))
         IN  e.at + l + sov(l) + SizeElements(e, Tail(x))

RECURSIVE PackedSize(_)
PackedSize(x) == IF x = <<>> THEN 0 ELSE sov(Head(x)) + PackedSize(Tail(x))

SizeField(e, x) ==
    CASE e.kind \in {"uint", "int"} -> IF x = 0 THEN 0 ELSE e.at + sov(x)
      [] e.kind = "bool"   -> IF x THEN e.at + 1 ELSE 0
      [] e.kind = "bytes"  ->
            IF x = <<>> THEN 0 ELSE e.at + Len(x) + sov(Len(x))
      [] e.kind = "packed" ->
            IF x = <<>> THEN 0 ELSE e.at + sov(PackedSize(x)) + PackedSize(x)
      [] OTHER -> SizeElements(e, x)

RECURSIVE SizeFields(_, _)
SizeFields(table, m) ==
    IF table = <<>> THEN 0
    ELSE SizeField(Head(table), m[Head(table).field]) + SizeFields(Tail(table), m)

Size(t, m) == SizeFields(Codec[t].size, m)

\* Marshal allocates Size bytes, fills them from the end and returns as many
\* from the front as were written.  A buffer that is too small panics.
Written(body, room) ==
    IF Len(body) > room THEN Failed
    ELSE [ok |-> TRUE,
          b  |-> SubSeq([i \in 1..(room - Len(body)) |-> 0] \o body, 1, Len(body))]

Marshal(t, m) == Written(MarshalToSizedBuffer(t, m), Size(t, m))

-----------------------------------------------------------------------------
(* Unmarshal *)

Default(e) ==
    CASE e.kind \in {"uint", "int"} -> 0
      [] e.kind = "bool" -> FALSE
      [] OTHER -> <<>>

\* The cases of Unmarshal's switch, and the message it starts from.
EntriesOf(codec) == [t \in DOMAIN codec |-> Range(codec[t].unmarshal)]

Entries == EntriesOf(Codec)

EntryOf(entries, f) == CHOOSE e \in entries : e.field = f

Fields(entries) == {e.field : e \in entries}

EmptyOf(entries) == [f \in Fields(entries) |-> Default(EntryOf(entries, f))]

Empty == [t \in Types |-> EmptyOf(Entries[t])]

\* A frame that runs past the end is cut at the end instead of refused.
ReadFrameShort(d, i) ==
    LET l == ReadVarint(d, i)
    IN  IF ~l.ok \/ l.v < 0 THEN Failed
        ELSE LET e == IF l.next + l.v > Len(d) THEN Len(d) ELSE l.next + l.v
             IN  [ok |-> TRUE, v |-> SubSeq(d, l.next + 1, e), next |-> e]

\* A length and as many bytes, which must be there.
ReadFrame(d, i) ==
    LET l == ReadVarint(d, i)
    IN  IF ~l.ok \/ l.v < 0 \/ l.next + l.v > Len(d) THEN Failed
        ELSE [ok |-> TRUE, v |-> SubSeq(d, l.next + 1, l.next + l.v),
              next |-> l.next + l.v]

RECURSIVE skip(_, _, _)
\* One field of any number, groups with all they contain; what is skipped may
\* end behind the buffer, which the caller tests.
skip(d, i, depth) ==
    LET tag  == ReadVarint(d, i)
        on(j, dep) == IF dep = 0 THEN [ok |-> TRUE, next |-> j]
                      ELSE skip(d, j, dep)
        num  == ReadVarint(d, tag.next)
    IN  IF ~tag.ok THEN Failed
        ELSE CASE tag.v % 8 = 0 -> IF num.ok THEN on(num.next, depth) ELSE Failed
               [] tag.v % 8 = 1 -> on(tag.next + 8, depth)
               [] tag.v % 8 = 2 -> IF num.ok /\ num.v >= 0
                                   THEN on(num.next + num.v, depth) ELSE Failed
               [] tag.v % 8 = 3 -> skip(d, tag.next, depth + 1)
               [] tag.v % 8 = 4 -> IF depth = 0 THEN Failed
                                   ELSE on(tag.next, depth - 1)
               [] tag.v % 8 = 5 -> on(tag.next + 4, depth)
               [] OTHER -> Failed

RECURSIVE Integers7(_, _, _)
\* The elements of a packed field, from index i until index to is reached; the
\* last one is bounded by the buffer, not by the field.
Integers7(d, i, to) ==
    IF i >= to THEN [ok |-> TRUE, v |-> <<>>, next |-> i]
    ELSE LET n    == ReadVarint(d, i)
             rest == Integers7(d, n.next, to)
         IN  IF ~n.ok THEN Failed
             ELSE IF ~rest.ok THEN Failed
             ELSE [ok |-> TRUE, v |-> <<n.v>> \o rest.v, next |-> rest.next]

\* The wire types a case accepts.
WireTypes(e) ==
    CASE e.kind \in {"uint", "int", "bool"} -> {0}
      [] e.kind = "packed" -> {0, 2}
      [] OTHER -> {2}

RECURSIVE UnmarshalFrom(_, _, _, _)
\* A nested message becomes the value of a pointer, or one more element.
Nested(e, x, m, next) ==
    IF ~m.ok THEN Failed
    ELSE [ok |-> TRUE, v |-> IF e.kind = "msg" THEN <<m.v>> ELSE Append(x, m.v), next |-> next]

\* One case of the switch on the number or the frame r that was read: the new
\* value of the field and the next index.
Value(e, x, wt, d, r) ==
    LET with(v) == [ok |-> TRUE, v |-> v, next |-> r.next]
        start   == IF e.kind = "msg" /\ x # <<>> THEN x[1] ELSE Empty[e.type]
        ns      == Integers7(d, r.next - Len(r.v), r.next)
    IN  IF wt \notin WireTypes(e) \/ ~r.ok THEN Failed
        ELSE CASE e.kind \in {"uint", "int", "bytes"} -> with(r.v)
               [] e.kind = "bool"     -> with(r.v # 0)
               [] e.kind = "repbytes" -> with(Append(x, r.v))
               [] e.kind = "packed" /\ wt = 0 -> with(Append(x, r.v))
               [] e.kind = "packed" /\ wt = 2 ->
                     IF ns.ok THEN [ns EXCEPT !.v = x \o ns.v] ELSE Failed
               [] e.kind \in {"msg", "repmsg"} ->
                     Nested(e, x, UnmarshalFrom(e.type, r.v, 0, start), r.next)

UnmarshalField(e, x, wt, d, i) ==
    Value(e, x, wt, d, IF wt = 0 THEN ReadVarint(d, i) ELSE ReadFrame(d, i))

\* The message after a case, and after a field that no case knows.
Stored(m, field, r) ==
    IF ~r.ok THEN Failed
    ELSE [ok |-> TRUE, v |-> [m EXCEPT ![field] = r.v], next |-> r.next]

Skipped(d, m, s) ==
    IF ~s.ok THEN Failed
    ELSE IF s.next > Len(d) THEN Failed
    ELSE [ok |-> TRUE, v |-> m, next |-> s.next]

Switch(d, i, m, tag, cases) ==
    IF cases = {} THEN Skipped(d, m, skip(d, i, 0))
    ELSE LET e == CHOOSE e \in cases : TRUE
         IN  Stored(m, e.field, UnmarshalField(e, m[e.field], tag.v % 8, d, tag.next))

\* One round of the loop over the buffer: the tag, then the case of its number
\* or skip.  The code cuts the number to an int32; the tags here are those the
\* messages of the module and the fields of a newer schema have, far below that,
\* and a length that would wrap an index is past the end of every buffer.
Round(t, d, i, m, tag) ==
    IF ~tag.ok THEN Failed
    ELSE IF tag.v % 8 = 4 \/ tag.v \div 8 <= 0 THEN Failed
    ELSE Switch(d, i, m, tag, {e \in Entries[t] : e.at = tag.v \div 8})

Rounds(t, d, s) ==
    IF ~s.ok THEN Failed ELSE UnmarshalFrom(t, d, s.next, s.v)

UnmarshalFrom(t, d, i, m) ==
    IF i = Len(d) THEN [ok |-> TRUE, v |-> m]
    ELSE Rounds(t, d, Round(t, d, i, m, ReadVarint(d, i)))

Unmarshal(t, d) == UnmarshalFrom(t, d, 0, Empty[t])

-----------------------------------------------------------------------------
(* The messages that are sent *)

RECURSIVE Sample(_, _)
\* Values of a field: 0 is none; 1 is small; 2 sits on the boundaries (the first
\* two-byte number, a negative int64, an empty element); 3 is long.
SampleField(e, k) ==
    CASE k = 0               -> Default(e)
      [] k > 0 /\ e.kind = "uint"     -> <<1, 128, 16384>>[k]
      [] k > 0 /\ e.kind = "int"      -> <<1, -1, 127>>[k]
      [] k > 0 /\ e.kind = "bool"     -> TRUE
      [] k > 0 /\ e.kind = "bytes"    -> <<  <<0>>, <<8, 200>>,
                                            [i \in 1..LongField |-> i % 256] >>[k]
      [] k > 0 /\ e.kind = "repbytes" -> <<  << <<7>> >>, << <<>>, <<8, 1>> >>,
                                            << [i \in 1..LongField |-> 1], <<2>> >> >>[k]
      [] k > 0 /\ e.kind = "packed"   -> << <<1>>, <<0, 128>>, <<300, 1, 0>> >>[k]
      [] k > 0 /\ e.kind \in {"msg", "repmsg"} ->
            LET ks == IF e.kind = "msg" THEN << <<1>>, <<2>>, <<0>> >>[k]
                                        ELSE << <<1>>, <<0, 2>>, <<1, 2>> >>[k]
            IN  [i \in DOMAIN ks |-> Sample(e.type, ks[i])]

SampleOf(entries, k) == [f \in Fields(entries) |-> SampleField(EntryOf(entries, f), k)]

Sample(t, k) == SampleOf(Entries[t], k)

WithOne(entries, empty) ==
    {[empty EXCEPT ![e.field] = SampleField(e, k)] : e \in entries, k \in 1..3}

Messages ==
    [t \in Types |-> {Sample(t, k) : k \in 0..2} \cup WithOne(Entries[t], Empty[t])]

\* Fields of numbers no message of x/privacy has, one per wire type: a varint,
\* eight bytes, a frame, a group around a varint, four bytes.
Unknown ==
    LET tag(wt) == encodeVarint(8 * 1000 + wt)
    IN  { tag(0) \o <<200, 1>>,
          tag(1) \o <<1, 2, 3, 4, 5, 6, 7, 8>>,
          tag(2) \o <<2, 10, 200>>,
          tag(3) \o <<8, 5>> \o tag(4),
          tag(5) \o <<1, 2, 3, 4>> }

NoMessage == <<>>

Behind(u, w) == IF w.ok THEN [w EXCEPT !.b = u \o w.b] ELSE w

WireInit ==
    /\ mtype \in Types
    /\ sent = NoMessage /\ wire = Failed /\ cut = 0
    /\ phase = "idle" /\ got = Failed

SendMessage ==
    /\ phase = "idle"
    /\ \E m \in Messages[mtype] : sent' = m /\ wire' = Marshal(mtype, m)
    /\ phase' = "sent"
    /\ UNCHANGED <<mtype, cut, got>>

\* The sender knows fields the receiver's schema does not have.
SendNewer ==
    /\ phase = "idle"
    /\ \E m \in {Sample(mtype, k) : k \in 0..1}, u \in Unknown :
          /\ sent' = m
          /\ wire' = Behind(u, Marshal(mtype, m))
    /\ phase' = "sent"
    /\ UNCHANGED <<mtype, cut, got>>

\* What is read ends early: a torn file, a short read.
LoseTail ==
    /\ phase = "sent" /\ wire.ok
    /\ Len(wire.b) <= MaxCut
    /\ cut' \in 1..Len(wire.b)
    /\ phase' = "cut"
    /\ UNCHANGED <<mtype, sent, wire, got>>

Receive ==
    /\ phase \in {"sent", "cut"}
    /\ got' = IF wire.ok
              THEN Unmarshal(mtype, SubSeq(wire.b, 1, Len(wire.b) - cut))
              ELSE Failed
    /\ phase' = "received"
    /\ UNCHANGED <<mtype, sent, wire, cut>>

WireNext == SendMessage \/ SendNewer \/ LoseTail \/ Receive

WireSpec == WireInit /\ [][WireNext]_wireVars

-----------------------------------------------------------------------------
\* RoundTrip: what Unmarshal makes of the whole encoding is the message that
\* was marshalled, field by field, and Size reserved exactly the bytes
\* MarshalToSizedBuffer wrote (else Marshal would panic, or return a shifted
\* buffer); fields of a newer schema in front of it are skipped and disturb
\* nothing.
RoundTrip ==
    phase = "received" /\ cut = 0 => got = [ok |-> TRUE, v |-> sent]

\* CutNeverMisread: an encoding that lost its tail is refused, or every field
\* read from it is absent or has the value that was sent, and a repeated field
\* is a prefix of what was sent: no field of a stored record or of a message
\* is ever filled with part of its bytes, and a nested message is whole.
CutNeverMisread ==
    phase = "received" /\ cut > 0 /\ got.ok =>
        \A e \in Entries[mtype] :
            LET x == got.v[e.field]
            IN  \/ x = Default(e)
                \/ x = sent[e.field]
                \/ e.kind \in {"repbytes", "repmsg"} /\ IsPrefix(x, sent[e.field])
=============================================================================
