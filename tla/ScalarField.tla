----------------------------- MODULE ScalarField -----------------------------
(***************************************************************************)
(* Residues modulo the order of the subgroup                               *)
(* (crypto/internal/ctbn254/scalarct).  fiat_q64.go is fiat_p64.go with    *)
(* the literals of another modulus, so its functions are those of          *)
(* MontgomeryField at that field; reduce.go and sample.go are modelled on  *)
(* top of them.  A drawn or hashed string is given by its bytes.           *)
(***************************************************************************)
EXTENDS MontgomeryField

CONSTANT Order   \* modulusQ

Q == Field(Order)

MulScalar(x, y) == Mul(Q, x, y)

(* An addition that leaves out the subtraction at its end. *)
AddScalarUnreduced(x, y) == Low4(AddWords(x, y, 0))

AddScalar(x, y) == Add(Q, x, y)

SubScalar(x, y) == Sub(Q, x, y)

NegScalar(x) == Opp(Q, x)

ScalarToMontgomery(x) == ToMontgomery(Q, x)

ScalarFromMontgomery(x) == FromMontgomery(Q, x)

NoScalar == [ok |-> FALSE, z |-> NoWords]

(* FromCanonicalBE; SetBytes stores zero when it fails. *)
DecodeScalar(b) ==
    LET raw == FromBytes(Reversed(b))
    IN  IF LessThan(raw, Q.m) THEN [ok |-> TRUE, z |-> ScalarToMontgomery(raw)] ELSE NoScalar

(* Scalar.Bytes *)
ScalarBytes(x) == Reversed(ToBytes(ScalarFromMontgomery(x)))

(* ParseNonzeroScalarBE32 with NewNonzeroScalar *)
ParseNonzeroScalarBE32(b) ==
    LET s == DecodeScalar(b)
    IN  IF s.ok /\ IsZero(s.z) = 0 THEN s ELSE NoScalar

(* Reduce256 *)
ReduceScalar(b) == Reduce256(Q, b)

(* DeriveIdentityScalarSeed32: only zero is replaced, by one. *)
DeriveIdentityScalarSeed32(b) ==
    LET z == ReduceScalar(b) IN Selectznz(IsZero(z), z, Q.one)

(* PoPResponse: k + (h mod q) * a *)
PoPResponse(k, a, h) == AddScalar(MulScalar(ReduceScalar(h), a), k)

(* One draw of SampleScalar: the five top bits are cleared (in[0] &= 7), and *)
(* a draw that is not accepted is replaced by another.                       *)
SpareBits == 5

Draw(n, nonzero) ==
    LET s == DecodeScalar(Reversed(ToBytes(Words(n % 2 ^ (Bits - SpareBits)))))
    IN  IF s.ok /\ (nonzero => IsZero(s.z) = 0) THEN s ELSE NoScalar
=============================================================================
