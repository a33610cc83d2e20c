--------------------------- MODULE MontgomeryField ---------------------------
(***************************************************************************)
(* Fixed-schedule arithmetic modulo a prime, in Montgomery form over four  *)
(* saturated words: the generated field code (frct/fiat_p64.go; the code   *)
(* of scalarct/fiat_q64.go differs from it only in its literals) and the   *)
(* elements built on it (frct/field.go, inverse.go, reduce.go,             *)
(* sqrt_public.go).                                                        *)
(*                                                                         *)
(* The word has WordBits bits and the byte ByteBits; a number of bytes is  *)
(* what fills four words.  A field f carries the literals the generator    *)
(* computed for its modulus.  Word i of the code is x[i + 1].              *)
(***************************************************************************)
EXTENDS Integers, Sequences
LOCAL INSTANCE Bitwise
LOCAL INSTANCE FiniteSetsExt

CONSTANTS WordBits,  \* 64
          ByteBits   \* 8

Base == 2 ^ WordBits

Bits == 4 * WordBits

Words(n) == <<n % Base, (n \div Base) % Base, (n \div Base ^ 2) % Base, (n \div Base ^ 3) % Base>>

(* The literals: the modulus, the negated inverse of its lowest word, R and *)
(* R^2 reduced where R = 2^256, and p - 1 = odd * 2^twos.                   *)
Field(p) ==
    LET twos == CHOOSE r \in 1 .. Bits : (p - 1) % 2 ^ r = 0 /\ ((p - 1) \div 2 ^ r) % 2 = 1
    IN  [p    |-> p,
         m    |-> Words(p),
         inv  |-> CHOOSE k \in 0 .. Base - 1 : (k * p) % Base = Base - 1,
         one  |-> Words(Base ^ 4 % p),
         r2   |-> Words(Base ^ 8 % p),
         twos |-> twos,
         odd  |-> (p - 1) \div 2 ^ twos]

-----------------------------------------------------------------------------
RECURSIVE AddWords(_, _, _)
(* A chain of bits.Add64: the words of the sum, then the carry out. *)
AddWords(x, y, carry) ==
    IF x = <<>> THEN <<carry>>
    ELSE LET s == Head(x) + Head(y) + carry
         IN  <<s % Base>> \o AddWords(Tail(x), Tail(y), s \div Base)

RECURSIVE SubWords(_, _, _)
(* A chain of bits.Sub64: the words of the difference, then the borrow out. *)
SubWords(x, y, borrow) ==
    IF x = <<>> THEN <<borrow>>
    ELSE LET d == Head(x) - Head(y) - borrow
         IN  <<d % Base>> \o SubWords(Tail(x), Tail(y), IF d < 0 THEN 1 ELSE 0)

Low4(x) == SubSeq(x, 1, 4)

(* cmovznzU64, Selectznz *)
Selectznz(bit, x, y) == IF bit = 0 THEN x ELSE y

NoWords == <<0, 0, 0, 0>>

(* Step(v); TLC evaluates v before Step, not where Step first uses it. *)
Then(v, Step(_)) == CHOOSE w \in {Step(u) : u \in {v}} : TRUE

(* Four bits.Mul64 and the additions that join them: w * y in five words.  *)
Row(w, y) ==
    SubSeq(AddWords([i \in 1 .. 5 |-> IF i = 5 THEN 0 ELSE (w * y[i]) % Base],
                    [i \in 1 .. 5 |-> IF i = 1 THEN 0 ELSE (w * y[i - 1]) \div Base], 0), 1, 5)

(* A value below 2m, its fifth word top: subtract m unless that borrows     *)
(* from the top.                                                            *)
ReduceOnce(f, x, top) ==
    LET d == SubWords(x, f.m, 0) IN Selectznz(IF top < d[5] THEN 1 ELSE 0, Low4(d), x)

(* The multiple of m that clears the lowest word, which is shifted out; six *)
(* words in, five out.                                                      *)
ShiftOut(t, top) == <<t[2], t[3], t[4], t[5], t[6] + top>>

ClearLowest(f, s) ==
    ShiftOut(AddWords(SubSeq(s, 1, 5), Row((s[1] * f.inv) % Base, f.m), 0), s[6])

(* One word of the first factor in Mul: five words in, five words out.      *)
MulRound(f, acc, w, y) == ClearLowest(f, AddWords(acc, Row(w, y), 0))

RECURSIVE MulRounds(_, _, _, _)
MulRounds(f, acc, x, y) ==
    IF x = <<>> THEN acc
    ELSE Then(MulRound(f, acc, Head(x), y), LAMBDA a : MulRounds(f, a, Tail(x), y))

Mul(f, x, y) ==
    LET rounds(a)  == MulRounds(f, <<0, 0, 0, 0, 0>>, a[1], a[2])
        reduced(r) == ReduceOnce(f, Low4(r), r[5])
    IN  Then(Then(<<x, y>>, rounds), reduced)

Square(f, x) == Mul(f, x, x)

(* The same in ToMontgomery and FromMontgomery: four words in and out, the  *)
(* top ones added without a carry.                                          *)
ShiftShort(t, top) == <<t[2], t[3], t[4], (t[5] + top) % Base>>

ClearShort(f, s, top) ==
    LET red == Row((s[1] * f.inv) % Base, f.m)
    IN  ShiftShort(AddWords(s, Low4(red), 0), top + red[5])

(* One word in ToMontgomery. *)
ToSum(f, s, top) == ClearShort(f, Low4(s), top + s[5])

ToRound(f, acc, w) ==
    LET row == Row(w, f.r2) IN ToSum(f, AddWords(acc, Low4(row), 0), row[5])

RECURSIVE ToRounds(_, _, _)
ToRounds(f, acc, x) ==
    IF x = <<>> THEN acc ELSE Then(ToRound(f, acc, Head(x)), LAMBDA a : ToRounds(f, a, Tail(x)))

ToMontgomery(f, x) == ReduceOnce(f, ToRounds(f, NoWords, x), 0)

(* One word in FromMontgomery: the word is added, then the lowest cleared.  *)
FromRound(f, acc, w) == ClearShort(f, Low4(AddWords(acc, <<w, 0, 0, 0>>, 0)), 0)

RECURSIVE FromRounds(_, _, _)
FromRounds(f, acc, x) ==
    IF x = <<>> THEN acc ELSE Then(FromRound(f, acc, Head(x)), LAMBDA a : FromRounds(f, a, Tail(x)))

FromMontgomery(f, x) == ReduceOnce(f, FromRounds(f, NoWords, x), 0)

Add(f, x, y) == LET s == AddWords(x, y, 0) IN ReduceOnce(f, Low4(s), s[5])

(* Sub, Opp: m is added back when the subtraction borrowed. *)
Sub(f, x, y) ==
    LET d == SubWords(x, y, 0)
    IN  Low4(AddWords(Low4(d), Selectznz(d[5], NoWords, f.m), 0))

Opp(f, x) == Sub(f, NoWords, x)

-----------------------------------------------------------------------------
(* Little-endian bytes of four words, and back. *)
BytesPerWord == WordBits \div ByteBits

WordToBytes(w) == [k \in 1 .. BytesPerWord |-> (w \div 2 ^ (ByteBits * (k - 1))) % 2 ^ ByteBits]

ToBytes(x) == WordToBytes(x[1]) \o WordToBytes(x[2]) \o WordToBytes(x[3]) \o WordToBytes(x[4])

WordFromBytes(b, i) ==
    LET sum[k \in 0 .. BytesPerWord] ==
          IF k = 0 THEN 0 ELSE sum[k - 1] + b[i * BytesPerWord + k] * 2 ^ (ByteBits * (k - 1))
    IN  sum[BytesPerWord]

FromBytes(b) == <<WordFromBytes(b, 0), WordFromBytes(b, 1), WordFromBytes(b, 2), WordFromBytes(b, 3)>>

RECURSIVE Reversed(_)
(* The loops that turn a string from big- to little-endian. *)
Reversed(b) == IF b = <<>> THEN <<>> ELSE Reversed(Tail(b)) \o <<Head(b)>>

(* Bit i of a big-endian string, the highest first. *)
BitBE(b, i) == (b[1 + i \div ByteBits] \div 2 ^ (ByteBits - 1 - (i % ByteBits))) % 2

-----------------------------------------------------------------------------
(* Element: IsZero and Equal fold the words into one and its sign. *)
IsZeroWord(v) == 1 - (v | ((Base - v) % Base)) \div (Base \div 2)

IsZero(x) == IsZeroWord(((x[1] | x[2]) | x[3]) | x[4])

Equal(x, y) == IsZeroWord((((x[1] ^^ y[1]) | (x[2] ^^ y[2])) | (x[3] ^^ y[3])) | (x[4] ^^ y[4]))

(* rawLessThan *)
LessThan(x, y) == SubWords(x, y, 0)[5] = 1

(* FromCanonicalBE; SetBytes stores zero when it fails. *)
Decode(f, b) ==
    LET raw == FromBytes(Reversed(b))
    IN  IF LessThan(raw, f.m) THEN [ok |-> TRUE, z |-> ToMontgomery(f, raw)]
        ELSE [ok |-> FALSE, z |-> NoWords]

BytesBE(f, x) == Reversed(ToBytes(FromMontgomery(f, x)))

(* Inv0 and pow256: square, multiply, select, for every bit of the exponent. *)
MulIf(bit, f, z, x) == Selectznz(bit, z, Mul(f, z, x))

Pow(f, x, e) ==
    LET r[i \in 0 .. Bits] ==
          IF i = 0 THEN f.one
          ELSE Then(r[i - 1], LAMBDA z : MulIf((e \div 2 ^ (Bits - i)) % 2, f, Square(f, z), x))
    IN  r[Bits]

Inv0(f, x) == Pow(f, x, f.p - 2)

(* Reduce256: double, add one, select, for every bit of the string. *)
Reduce256(f, b) ==
    LET round(z, bit) == LET doubled == Add(f, z, z) IN Selectznz(bit, doubled, Add(f, doubled, f.one))
        r[i \in 0 .. Bits] ==
          IF i = 0 THEN NoWords ELSE Then(r[i - 1], LAMBDA z : round(z, BitBE(b, i - 1)))
    IN  r[Bits]

-----------------------------------------------------------------------------
(* SqrtPublic: p - 1 = odd * 2^twos, and g generates the roots of unity of  *)
(* order 2^twos.                                                            *)
TonelliG(f) ==
    LET n == CHOOSE n \in 2 .. f.p - 1 : \A r \in 1 .. f.p - 1 : (r * r) % f.p # n
    IN  Pow(f, ToMontgomery(f, Words(n)), f.odd)

SquareTimes(f, x, n) ==
    LET r[i \in 0 .. n] == IF i = 0 THEN x ELSE Then(r[i - 1], LAMBDA z : Square(f, z)) IN r[n]

NoRoot == [ok |-> FALSE, z |-> NoWords]

(* One round on v = <<y, b, g, r>>: b has order 2^m, and t^2 = g^(2^(r - m)). *)
TonelliStep(f, v, m, t, g) == <<Mul(f, v[1], t), Mul(f, v[2], g), g, m>>

TonelliRoot(f, v, m, t) == TonelliStep(f, v, m, t, Square(f, t))

RECURSIVE Tonelli(_, _)
(* The loop: b shrinks to one, y stays a root of x * b. *)
Tonelli(f, v) ==
    IF Equal(v[2], f.one) = 1 THEN [ok |-> TRUE, z |-> v[1]]
    ELSE LET orders == {k \in 0 .. v[4] - 1 : Equal(SquareTimes(f, v[2], k), f.one) = 1}
             next(m) == TonelliRoot(f, v, m, SquareTimes(f, v[3], v[4] - m - 1))
         IN  IF orders = {} THEN NoRoot
             ELSE Then(next(Min(orders)), LAMBDA n : Tonelli(f, n))

(* y = x * w and b = w * y, tested for a square before the loop. *)
TonelliFrom(f, y, b) ==
    IF Equal(SquareTimes(f, b, f.twos - 1), f.one) = 0 THEN NoRoot
    ELSE Then(<<y, b, TonelliG(f), f.twos>>, LAMBDA n : Tonelli(f, n))

RootFrom(f, w, y) == TonelliFrom(f, y, Mul(f, w, y))

SqrtPublic(f, x) ==
    LET from(w) == RootFrom(f, w, Mul(f, x, w))
    IN  IF IsZero(x) = 1 THEN [ok |-> TRUE, z |-> NoWords]
        ELSE from(Pow(f, x, (f.odd - 1) \div 2))
=============================================================================
