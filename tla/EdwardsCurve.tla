---------------------------- MODULE EdwardsCurve ----------------------------
(***************************************************************************)
(* The prime subgroup of the twisted Edwards curve -x^2 + y^2 = 1 + d x^2  *)
(* y^2 in complete extended coordinates, and its two encodings             *)
(* (crypto/internal/ctbn254/edwardsct), over the field of MontgomeryField. *)
(***************************************************************************)
EXTENDS ScalarField
LOCAL INSTANCE Bitwise

CONSTANTS Prime,   \* the field
          CurveD   \* curveD

P == Field(Prime)

D == ToMontgomery(P, Words(CurveD))

M(x, y) == Mul(P, x, y)

S(x) == Square(P, x)

InvalidPoint == [ok |-> FALSE, p |-> [x |-> NoWords, y |-> NoWords, z |-> NoWords, t |-> NoWords]]

Identity == [x |-> NoWords, y |-> P.one, z |-> P.one, t |-> NoWords]

-----------------------------------------------------------------------------
OnCurve(x2, y2) == Equal(Sub(P, y2, x2), Add(P, P.one, M(M(x2, y2), D))) = 1

IsOnCurve(x, y) == OnCurve(S(x), S(y))

FromAffine(x, y) ==
    IF IsOnCurve(x, y) THEN [ok |-> TRUE, p |-> [x |-> x, y |-> y, z |-> P.one, t |-> M(x, y)]]
    ELSE InvalidPoint

IsIdentity(p) == IsZero(p.x) = 1 /\ Equal(p.y, p.z) = 1 /\ Equal(p.t, NoWords) = 1

(* Point.Equal *)
EqualPoint(p, q) == Equal(M(p.x, q.z), M(q.x, p.z)) = 1 /\ Equal(M(p.y, q.z), M(q.y, p.z)) = 1

Twice(x) == Add(P, x, x)

(* The end of Add and of Double. *)
FromEFGH(e, f, g, h) == [x |-> M(e, f), y |-> M(g, h), t |-> M(e, h), z |-> M(f, g)]

FromABCD(a, b, c, d) == FromEFGH(Sub(P, b, a), Sub(P, d, c), Add(P, d, c), Add(P, b, a))

(* Point.Add *)
AddPoint(p, q) ==
    FromABCD(M(Sub(P, p.y, p.x), Sub(P, q.y, q.x)), M(Add(P, p.y, p.x), Add(P, q.y, q.x)),
             Twice(M(M(p.t, q.t), D)), Twice(M(p.z, q.z)))

(* Point.Double: the squares of x, y, z and x + y; d is -a, g is d + b. *)
FromSquares(b, c, d, e, g) == FromEFGH(e, Sub(P, g, c), g, Sub(P, d, b))

WithD(a, b, c, d, xy) == FromSquares(b, c, d, Sub(P, Sub(P, xy, a), b), Add(P, d, b))

DoubleFrom(a, b, c, xy) == WithD(a, b, c, Opp(P, a), xy)

DoublePoint(p) == DoubleFrom(S(p.x), S(p.y), Twice(S(p.z)), S(Add(P, p.x, p.y)))

(* Point.Affine: refused when z has no inverse. *)
Affine(p) ==
    LET inv == Inv0(P, p.z)
    IN  [ok |-> IsZero(p.z) = 0, x |-> M(p.x, inv), y |-> M(p.y, inv)]

-----------------------------------------------------------------------------
(* scalarMultBE: double, add, select, for every bit of the string. *)
scalarMultBE(p, b) ==
    LET addIf(bit, r) == Selectznz(bit, r, AddPoint(r, p))
        result[i \in 0 .. Bits] ==
          IF i = 0 THEN Identity
          ELSE Then(result[i - 1], LAMBDA r : addIf(BitBE(b, i - 1), DoublePoint(r)))
    IN  result[Bits]

BytesOf(n) == Reversed(ToBytes(Words(n)))

(* A subgroup test that is left out. *)
AnyPoint(p) == TRUE

inPrimeSubgroup(p) == IsIdentity(scalarMultBE(p, BytesOf(Order)))

(* The checks both decoders end with. *)
Member(r) == IF r.ok /\ ~IsIdentity(r.p) /\ inPrimeSubgroup(r.p) THEN r ELSE InvalidPoint

(* DecodePoint64 on the two halves of its input. *)
DecodePoint64(xb, yb) ==
    LET x == Decode(P, xb)
        y == Decode(P, yb)
    IN  IF x.ok /\ y.ok THEN Member(FromAffine(x.z, y.z)) ELSE InvalidPoint

EncodePoint64(p) == LET a == Affine(p) IN <<BytesBE(P, a.x), BytesBE(P, a.y)>>

(* legacySignBit: the borrow of -x - x on canonical words. *)
legacySignBit(x) ==
    IF LessThan(FromMontgomery(P, Opp(P, x)), FromMontgomery(P, x)) THEN 1 ELSE 0

(* The top bit of the last byte carries the sign. *)
TopBit == 2 ^ (ByteBits - 1)

CompressLegacy(p) ==
    LET a == Affine(p)
        le == Reversed(BytesBE(P, a.y))
    IN  [le EXCEPT ![Len(le)] = @ | (TopBit * legacySignBit(a.x))]

(* The x of DecodeLegacyCompressed: the root of (1 - y^2) / (-1 - d y^2) with *)
(* the sign asked for.                                                       *)
WithSign(root, sign) ==
    [ok |-> root.ok, x |-> IF legacySignBit(root.z) # sign THEN Opp(P, root.z) ELSE root.z]

RootOfQuotient(numerator, denominator, sign) ==
    IF IsZero(denominator) = 1 THEN [ok |-> FALSE, x |-> NoWords]
    ELSE LET root(v) == SqrtPublic(P, v)
         IN  WithSign(Then(M(numerator, Inv0(P, denominator)), root), sign)

DecompressX(y, sign) ==
    LET y2 == S(y)
    IN  RootOfQuotient(Sub(P, P.one, y2), Sub(P, Opp(P, M(D, y2)), P.one), sign)

(* The bytes must be the ones CompressLegacy makes of the point. *)
Canonical(r, b) == IF r.ok /\ CompressLegacy(r.p) = b THEN r ELSE InvalidPoint

Lift(x, y, b) == IF x.ok THEN Canonical(Member(FromAffine(x.x, y)), b) ELSE InvalidPoint

DecodeLegacyCompressed(b) ==
    LET n == Len(b)
        y == Decode(P, Reversed([b EXCEPT ![n] = @ % TopBit]))
    IN  IF y.ok THEN Lift(DecompressX(y.z, b[n] \div TopBit), y.z, b) ELSE InvalidPoint
=============================================================================
