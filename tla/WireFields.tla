----------------------------- MODULE WireFields -----------------------------
(***************************************************************************)
(* One line of a field table.  The generated codec of x/privacy/types      *)
(* treats every message field by its kind; a table gives, for one message  *)
(* and one of the three functions, the fields in the order the function    *)
(* treats them and the literal `at' it uses for each: the tag bytes it     *)
(* writes (MarshalToSizedBuffer), the number of tag bytes it counts (Size) *)
(* or the field number of its case label (Unmarshal).                      *)
(* Strings and byte slices are both byte sequences; every unsigned integer *)
(* and enumeration is a "uint", int64 is an "int".                         *)
(***************************************************************************)
Entry(kind, field, type, at) ==
    [kind |-> kind, field |-> field, type |-> type, at |-> at]

Uint(field, at) == Entry("uint", field, "", at)

Int64(field, at) == Entry("int", field, "", at)

Bool(field, at) == Entry("bool", field, "", at)

Bytes(field, at) == Entry("bytes", field, "", at)

RepBytes(field, at) == Entry("repbytes", field, "", at)

Packed(field, at) == Entry("packed", field, "", at)

Msg(field, type, at) == Entry("msg", field, type, at)

RepMsg(field, type, at) == Entry("repmsg", field, type, at)

Codec3(marshal, size, unmarshal) ==
    [marshal |-> marshal, size |-> size, unmarshal |-> unmarshal]
=============================================================================
