-------------------------- MODULE SecretArithmetic --------------------------
(***************************************************************************)
(* A register for a field element, a scalar or a curve point, worked on by *)
(* the operations of crypto/internal/ctbn254 in any order, beside the      *)
(* value plain arithmetic gives for the same operations.                   *)
(*                                                                         *)
(* unit - which of the three the register holds                            *)
(* reg  - what the code computed: ok, and the words or the extended point  *)
(* ref  - what it should denote: ok, and a residue or an affine point      *)
(***************************************************************************)
EXTENDS EdwardsCurve

VARIABLES unit, reg, ref

arithVars == <<unit, reg, ref>>

ModulusOf(u) == IF u = "field" THEN Prime ELSE Order

FieldOf(u) == IF u = "field" THEN P ELSE Q

(* The numbers 32 bytes hold, and the bytes. *)
Strings == 0 .. Base ^ 4 - 1

Residues(u) == 0 .. ModulusOf(u) - 1

(* The elements decoded from the residues. *)
Operands == [u \in {"field", "scalar"} |->
               [v \in Residues(u) |-> Decode(FieldOf(u), BytesOf(v)).z]]

-----------------------------------------------------------------------------
(* Plain arithmetic: inverses and roots, and the affine law of the curve. *)
Inverses == [v \in 1 .. Prime - 1 |-> CHOOSE w \in 1 .. Prime - 1 : (v * w) % Prime = 1]

Roots(v) == {w \in 0 .. Prime - 1 : (w * w) % Prime = v}

Curve == {c \in (0 .. Prime - 1) \X (0 .. Prime - 1) :
            (c[2] * c[2] - c[1] * c[1]) % Prime = (1 + CurveD * c[1] * c[1] * c[2] * c[2]) % Prime}

AffineSum(c, e) ==
    LET k == CurveD * c[1] * e[1] * c[2] * e[2]
    IN  <<((c[1] * e[2] + c[2] * e[1]) * Inverses[(1 + k) % Prime]) % Prime,
          ((c[2] * e[2] + c[1] * e[1]) * Inverses[(1 - k) % Prime]) % Prime>>

Sums == [c \in Curve, e \in Curve |-> AffineSum(c, e)]

Neutral == <<0, 1>>

Multiple(n, c) == LET k[i \in 0 .. n] == IF i = 0 THEN Neutral ELSE Sums[k[i - 1], c] IN k[n]

Subgroup == {c \in Curve : Multiple(Order, c) = Neutral}

(* The compressed form: y, and above it whether x is the larger of x and -x. *)
Compressed(c) == c[2] + (IF c[1] > (-c[1]) % Prime THEN Base ^ 4 \div 2 ELSE 0)

Extended(c) == FromAffine(Operands["field"][c[1]], Operands["field"][c[2]]).p

Points == [c \in Subgroup |-> Extended(c)]

-----------------------------------------------------------------------------
NoPoint == [ok |-> FALSE, c |-> Neutral]

Denoted(found) ==
    IF found = {} THEN NoPoint ELSE [ok |-> TRUE, c |-> CHOOSE c \in found : TRUE]

(* A point enters through one of the two decoders.  Beside each x are tried  *)
(* every y of the curve, x itself and the first y that is not canonical; the *)
(* compressed strings are those of every y up to that one, with either sign. *)
Ordinates(a) == {c[2] : c \in {e \in Curve : e[1] = a}} \cup {a, Prime}

DecodedPoint ==
    \/ \E a \in 0 .. Prime : \E b \in Ordinates(a) :
         /\ reg = DecodePoint64(BytesOf(a), BytesOf(b))
         /\ ref = Denoted({c \in Subgroup \ {Neutral} : c = <<a, b>>})
    \/ \E n \in {m \in Strings : m % (Base ^ 4 \div 2) <= Prime} :
         /\ reg = DecodeLegacyCompressed(Reversed(BytesOf(n)))
         /\ ref = Denoted({c \in Subgroup \ {Neutral} : Compressed(c) = n})

ArithInit ==
    \/ unit = "point" /\ DecodedPoint
    \/ /\ unit \in {"field", "scalar"}
       /\ reg = [ok |-> TRUE, z |-> NoWords]
       /\ ref = [ok |-> TRUE, v |-> 0]

-----------------------------------------------------------------------------
Becomes(words, v) ==
    /\ reg' = [ok |-> TRUE, z |-> words]
    /\ ref' = [ok |-> TRUE, v |-> v % ModulusOf(unit)]
    /\ UNCHANGED unit

(* SetBytes, ParseNonzeroScalarBE32: a refusal leaves zero. *)
SetBytes(n) ==
    /\ unit # "point"
    /\ reg' = IF unit = "field" THEN Decode(P, BytesOf(n)) ELSE DecodeScalar(BytesOf(n))
    /\ ref' = IF n < ModulusOf(unit) THEN [ok |-> TRUE, v |-> n] ELSE [ok |-> FALSE, v |-> 0]
    /\ UNCHANGED unit

Parse(n) ==
    /\ unit = "scalar"
    /\ reg' = ParseNonzeroScalarBE32(BytesOf(n))
    /\ ref' = IF n \in 1 .. Order - 1 THEN [ok |-> TRUE, v |-> n] ELSE [ok |-> FALSE, v |-> 0]
    /\ UNCHANGED unit

(* Add, Sub, Mul by an operand; Neg; Reduce256. *)
CombineElements(v) ==
    /\ unit = "field"
    /\ LET o == Operands[unit][v]
       IN  \/ Becomes(Add(P, reg.z, o), ref.v + v)
           \/ Becomes(Sub(P, reg.z, o), ref.v - v)
           \/ Becomes(Mul(P, reg.z, o), ref.v * v)

CombineScalars(v) ==
    /\ unit = "scalar"
    /\ LET o == Operands[unit][v]
       IN  \/ Becomes(AddScalar(reg.z, o), ref.v + v)
           \/ Becomes(SubScalar(reg.z, o), ref.v - v)
           \/ Becomes(MulScalar(reg.z, o), ref.v * v)

Neg == unit # "point" /\ Becomes(IF unit = "field" THEN Opp(P, reg.z) ELSE NegScalar(reg.z), -ref.v)

Reduce(n) ==
    /\ unit # "point"
    /\ Becomes(IF unit = "field" THEN Reduce256(P, BytesOf(n)) ELSE ReduceScalar(BytesOf(n)), n)

SquareElement == unit = "field" /\ Becomes(Square(P, reg.z), ref.v * ref.v)

(* Inverse: zero has none, and is left in the register. *)
InvertElement ==
    /\ unit = "field"
    /\ reg' = [ok |-> IsZero(reg.z) = 0, z |-> Inv0(P, reg.z)]
    /\ ref' = IF ref.v = 0 THEN [ok |-> FALSE, v |-> 0] ELSE [ok |-> TRUE, v |-> Inverses[ref.v]]
    /\ UNCHANGED unit

(* SqrtPublic: either root. *)
Sqrt ==
    /\ unit = "field"
    /\ reg' = SqrtPublic(P, reg.z)
    /\ \/ Roots(ref.v) = {} /\ ref' = [ok |-> FALSE, v |-> 0]
       \/ \E w \in Roots(ref.v) :
            ref' = [ok |-> TRUE, v |-> IF Operands["field"][w] = reg'.z THEN w ELSE (-w) % Prime]
    /\ UNCHANGED unit

(* DeriveIdentityScalarSeed32, PoPResponse, one draw of SampleScalar. *)
Derive(n) ==
    unit = "scalar" /\ Becomes(DeriveIdentityScalarSeed32(BytesOf(n)), IF n % Order = 0 THEN 1 ELSE n)

Respond(k, n) ==
    unit = "scalar" /\ Becomes(PoPResponse(Operands["scalar"][k], reg.z, BytesOf(n)), k + n * ref.v)

SampleScalar(n, nonzero) ==
    LET drawn == Draw(n, nonzero)
    IN  /\ unit = "scalar"
        /\ drawn.ok
        /\ Becomes(drawn.z, n % 2 ^ (Bits - SpareBits))

-----------------------------------------------------------------------------
PointBecomes(p, c) ==
    /\ unit = "point" /\ ref.ok
    /\ reg' = [ok |-> TRUE, p |-> p]
    /\ ref' = [ok |-> TRUE, c |-> c]
    /\ UNCHANGED unit

PlusPoint(c) == PointBecomes(AddPoint(reg.p, Points[c]), Sums[ref.c, c])

TwicePoint == PointBecomes(DoublePoint(reg.p), Sums[ref.c, ref.c])

(* ScalarMult is called on decoded points and on the base, with z = 1. *)
ScalarMult(k) ==
    /\ unit = "point" /\ reg.p.z = P.one
    /\ PointBecomes(scalarMultBE(reg.p, ScalarBytes(Operands["scalar"][k])), Multiple(k, ref.c))

ArithNext ==
    \/ \E n \in Strings :
         \/ SetBytes(n) \/ Parse(n) \/ Reduce(n) \/ Derive(n)
         \/ \E nonzero \in BOOLEAN : SampleScalar(n, nonzero)
         \/ \E k \in Residues("scalar") : Respond(k, n)
    \/ \E v \in Residues(unit) : CombineElements(v) \/ CombineScalars(v)
    \/ Neg \/ SquareElement \/ InvertElement \/ Sqrt
    \/ \E c \in Subgroup : PlusPoint(c)
    \/ TwicePoint
    \/ \E k \in Residues("scalar") : ScalarMult(k)

ArithSpec == ArithInit /\ [][ArithNext]_arithVars

-----------------------------------------------------------------------------
(* Every chain of field or scalar operations leaves the canonical Montgomery *)
(* words of the residue plain arithmetic gives, and refuses exactly what has *)
(* no value: a string that is not canonical, the inverse of zero, the root   *)
(* of a non-square, a zero key.                                              *)
ElementsExact ==
    unit \in {"field", "scalar"} =>
      /\ reg.ok = ref.ok
      /\ LessThan(reg.z, FieldOf(unit).m)
      /\ BytesBE(FieldOf(unit), reg.z) = BytesOf(ref.v)
      /\ (IsZero(reg.z) = 1) = (ref.v = 0)

(* The decoders take exactly the canonical encodings of the points of the    *)
(* prime subgroup other than the identity, and every chain of additions,     *)
(* doublings and scalar multiplications from them denotes the point of the   *)
(* affine group law, in both encodings.                                      *)
PointsExact ==
    unit = "point" =>
      /\ reg.ok = ref.ok
      /\ reg.ok =>
           /\ EncodePoint64(reg.p) = <<BytesOf(ref.c[1]), BytesOf(ref.c[2])>>
           /\ CompressLegacy(reg.p) = Reversed(BytesOf(Compressed(ref.c)))
           /\ M(reg.p.x, reg.p.y) = M(reg.p.z, reg.p.t)
           /\ IsIdentity(reg.p) = (ref.c = Neutral)
           /\ \A c \in Subgroup : EqualPoint(reg.p, Points[c]) = (c = ref.c)
=============================================================================
