--------------------------- MODULE StrupleNumbers ---------------------------
(***************************************************************************)
(* The numeric half of struple_semantic_order: integers of any width,      *)
(* floats and decimals compared exactly, without a bignum library.         *)
(* Magnitudes are big-endian byte sequences and everything is multiplied   *)
(* up to integers before it is compared.  An operator gives -1, 0 or 1;    *)
(* the code's -2 (no memory) is an outcome of the walk (StrupleSemantic).  *)
(*                                                                         *)
(* A float64 pattern is a first byte of sign and exponent, then mantissa   *)
(* bytes; the exponent field 127 holds the infinities and NaNs.            *)
(***************************************************************************)
EXTENDS StrupleValues

CONSTANTS
    ExpShift,     \* value = mantissa * 2^(exponent field - ExpShift)   (1075)
    FloatTop,     \* every finite float is below 10^FloatTop            (310)
    FloatDepth    \* every non-zero float is above 10^-FloatDepth       (325)

ASSUME FloatAssumption ==
    /\ F32Width <= F64Width
    /\ ExpShift \in Nat /\ ExpShift > 8 * (F64Width - 1)
    /\ FloatTop \in Nat /\ FloatDepth \in Nat

-----------------------------------------------------------------------------
(* Arithmetic on magnitudes. *)

NatOf(mag) == FoldLeft(LAMBDA n, b : 256 * n + b, 0, mag)

(* mag * m + c for small m and c: one pass from the last byte, then the    *)
(* carry's own bytes in front.                                             *)
MulAdd(mag, m, c) ==
    LET turn(b, acc) == [carry |-> (b * m + acc.carry) \div 256,
                         out   |-> <<(b * m + acc.carry) % 256>> \o acc.out]
        pass == FoldRight(turn, mag, [carry |-> c, out |-> <<>>])
    IN  ToBE(pass.carry) \o pass.out

MulSmall(mag, m) == MulAdd(mag, m, 0)

(* mag * base^k for base 5 or 10, a few factors at a time. *)
MulPow(mag, base, k) ==
    LET power[j \in 0..k] ==
            IF j = 0 THEN mag
            ELSE IF j < 6 THEN MulSmall(power[j - 1], base)
            ELSE MulSmall(power[j - 6], base^6)
    IN  power[k]

Shl(mag, bits) == MulSmall(mag, 2^(bits % 8)) \o Zeroes(bits \div 8)

DigitsToMag(digits) == FoldLeft(LAMBDA mag, d : MulAdd(mag, 10, d), <<>>, digits)

CmpMag(a, b) ==
    LET x == Trimmed(a)
        y == Trimmed(b)
    IN  IF Len(x) # Len(y) THEN SignOf(Len(x) - Len(y)) ELSE Compare(x, y)

-----------------------------------------------------------------------------
(* Floats. *)

MantissaBits == 8 * (F64Width - 1)

FloatSign(f) ==
    IF f[1] % 128 = 0 /\ \A i \in 2..Len(f) : f[i] = 0 THEN 0
    ELSE IF f[1] >= 128 THEN -1 ELSE 1

Abs(f) == [f EXCEPT ![1] = @ % 128]

(* Finite |f| as mant * 2^exp. *)
Decompose(f) ==
    LET raw  == f[1] % 128
        frac == NatOf(Tail(f))
    IN  IF raw = 0 THEN [mant |-> frac, exp |-> 1 - ExpShift]
        ELSE [mant |-> 2^MantissaBits + frac, exp |-> raw - ExpShift]

(* (double)e->f32_val, and the comparison of two doubles that are not NaN. *)
Widened(bits) == bits \o Zeroes(F64Width - Len(bits))

DoubleCompare(x, y) ==
    IF FloatSign(x) # FloatSign(y) THEN SignOf(FloatSign(x) - FloatSign(y))
    ELSE FloatSign(x) * Compare(Abs(x), Abs(y))

(* (double)value for a non-zero value +-n: the significant bits that fit,  *)
(* rounded to even.                                                        *)
ToDouble(negative, n) ==
    LET bits    == CHOOSE k \in 1..32 : n \div 2^(k - 1) = 1
        cut     == bits - (MantissaBits + 1)
        half    == 2^(cut - 1)
        low     == n % 2^cut
        rounded == n \div 2^cut + (IF low > half \/ (low = half /\ (n \div 2^cut) % 2 = 1)
                                   THEN 1 ELSE 0)
        mant    == IF cut <= 0 THEN n * 2^(-cut) ELSE rounded
        norm    == IF mant = 2^(MantissaBits + 1) THEN [m |-> mant \div 2, e |-> cut + 1]
                   ELSE [m |-> mant, e |-> cut]
        frac    == norm.m - 2^MantissaBits
    IN  <<norm.e + ExpShift + (IF negative THEN 128 ELSE 0)>>
          \o Zeroes(F64Width - 1 - ByteLen(frac)) \o ToBE(frac)

-----------------------------------------------------------------------------
(* Integers against floats. *)

IsIntKind(e) == e.kind \in {"int", "bigint"}
IsFloat(e)   == e.kind \in {"f32", "f64"}
IsExact(e)   == IsIntKind(e) \/ e.kind = "decimal"
SemFloat(e)  == IF e.kind = "f32" THEN Widened(e.bits) ELSE e.bits

IntSign(e) ==
    IF e.kind = "int" /\ Trimmed(e.mag) = <<>> THEN 0 ELSE IF e.neg THEN -1 ELSE 1

(* n against mant * 2^exp in the native unsigned type: what would overflow *)
(* it is larger.                                                           *)
U64Scaled(n, mant, exp) ==
    LET bits == 8 * NativeWidth
        top  == 256^NativeWidth - 1
    IN  IF exp >= 0
        THEN IF exp >= bits \/ mant > top \div 2^exp THEN -1 ELSE SignOf(n - mant * 2^exp)
        ELSE IF -exp >= bits \/ n > top \div 2^(-exp) THEN 1 ELSE SignOf(n * 2^(-exp) - mant)

MagScaled(mag, mant, exp) ==
    IF exp >= 0 THEN CmpMag(mag, Shl(ToBE(mant), exp)) ELSE CmpMag(Shl(mag, -exp), ToBE(mant))

(* A value that every double near it can hold exactly is converted; beyond *)
(* that the float is taken apart.                                          *)
I64Float(e, f) ==
    LET n == NatOf(e.mag)
        d == Decompose(f)
    IN  IF n = 0 THEN -FloatSign(f)
        ELSE IF n <= 2^(MantissaBits + 1) THEN DoubleCompare(ToDouble(e.neg, n), f)
        ELSE IF IntSign(e) # FloatSign(f) THEN SignOf(IntSign(e) - FloatSign(f))
        ELSE IntSign(e) * U64Scaled(n, d.mant, d.exp)

BigintFloat(e, f) ==
    LET d == Decompose(f)
    IN  IF IntSign(e) # FloatSign(f) THEN SignOf(IntSign(e) - FloatSign(f))
        ELSE IntSign(e) * MagScaled(e.mag, d.mant, d.exp)

IntFinite(e, f) == IF e.kind = "int" THEN I64Float(e, f) ELSE BigintFloat(e, f)

(* Variant with a bug: among negatives too, the big integer is the larger. *)
BigIsLarger(a, b) ==
    IF IntSign(a) # IntSign(b) THEN SignOf(IntSign(a) - IntSign(b))
    ELSE IF a.kind # b.kind THEN IF a.kind = "bigint" THEN 1 ELSE -1
    ELSE IntSign(a) * CmpMag(a.mag, b.mag)

(* A native integer against a big one of the same sign needs no bytes. *)
IntInt(a, b) ==
    IF IntSign(a) # IntSign(b) THEN SignOf(IntSign(a) - IntSign(b))
    ELSE IF a.kind # b.kind THEN IntSign(a) * (IF a.kind = "bigint" THEN 1 ELSE -1)
    ELSE IntSign(a) * CmpMag(a.mag, b.mag)

-----------------------------------------------------------------------------
(* Decimals against the rest: sign * mag * 10^exp10. *)

B10(e) ==
    IF e.kind = "decimal"
    THEN [sign |-> IF e.digits = <<>> THEN 0 ELSE IF e.neg THEN -1 ELSE 1,
          mag |-> DigitsToMag(e.digits), exp10 |-> e.exp]
    ELSE [sign |-> IntSign(e), mag |-> e.mag, exp10 |-> 0]

(* Variant with a bug: two decimal digits to the byte in both bounds. *)
TwoDigitsPerByte(v) ==
    LET n == Len(Trimmed(v.mag)) IN [lo |-> v.exp10 + 2 * n - 2, hi |-> v.exp10 + 2 * n]

(* 10^lo <= mag * 10^exp10 < 10^hi, from the number of bytes alone. *)
Oom(v) ==
    LET n == Len(Trimmed(v.mag)) IN [lo |-> v.exp10 + 2 * n - 2, hi |-> v.exp10 + 3 * n]

(* Orders of magnitude decide where they are disjoint, so that the scaling *)
(* never runs over a large difference of exponents.                        *)
B10Mag(a, b) ==
    LET e == IF a.exp10 < b.exp10 THEN a.exp10 ELSE b.exp10
    IN  IF Oom(a).hi <= Oom(b).lo THEN -1
        ELSE IF Oom(b).hi <= Oom(a).lo THEN 1
        ELSE CmpMag(MulPow(a.mag, 10, a.exp10 - e), MulPow(b.mag, 10, b.exp10 - e))

(* mag * 10^exp10 against mant * 2^exp, both sides scaled up to integers   *)
(* by powers of 2 and 5.                                                   *)
B10MagToFloat(v, d) ==
    LET pow5 == IF v.exp10 < 0 THEN -v.exp10 ELSE 0
        pow2 == IF -d.exp > pow5 THEN -d.exp ELSE pow5
        lhs  == Shl(MulPow(v.mag, 5, v.exp10 + pow5), v.exp10 + pow2)
        rhs  == Shl(MulPow(ToBE(d.mant), 5, pow5), d.exp + pow2)
    IN  CmpMag(lhs, rhs)

B10Float(v, f) ==
    IF v.sign # FloatSign(f) THEN SignOf(v.sign - FloatSign(f))
    ELSE IF v.sign = 0 THEN 0
    ELSE v.sign * (IF Oom(v).lo >= FloatTop THEN 1
                   ELSE IF Oom(v).hi <= -FloatDepth THEN -1
                   ELSE B10MagToFloat(v, Decompose(f)))

(* Variant with a bug: the swapped operands' result is not negated. *)
SwapForgotten(a, b) ==
    IF IsExact(a) /\ IsExact(b)
    THEN IF B10(a).sign # B10(b).sign THEN SignOf(B10(a).sign - B10(b).sign)
         ELSE B10(a).sign * B10Mag(B10(a), B10(b))
    ELSE IF IsExact(a) THEN B10Float(B10(a), SemFloat(b)) ELSE B10Float(B10(b), SemFloat(a))

WithDecimal(a, b) ==
    IF IsExact(a) /\ IsExact(b)
    THEN IF B10(a).sign # B10(b).sign THEN SignOf(B10(a).sign - B10(b).sign)
         ELSE IF B10(a).sign = 0 THEN 0
         ELSE B10(a).sign * B10Mag(B10(a), B10(b))
    ELSE IF IsExact(a) THEN B10Float(B10(a), SemFloat(b)) ELSE -B10Float(B10(b), SemFloat(a))

-----------------------------------------------------------------------------
(* Negative infinity, everything finite, infinity, NaN. *)
NumClass(e) ==
    IF IsExact(e) \/ SemFloat(e)[1] % 128 # 127 THEN 1
    ELSE IF IsNaN(SemFloat(e)) THEN 3
    ELSE IF SemFloat(e)[1] >= 128 THEN 0 ELSE 2

Numbers(a, b) ==
    IF NumClass(a) # NumClass(b) THEN SignOf(NumClass(a) - NumClass(b))
    ELSE CASE NumClass(a) # 1 -> 0
           [] NumClass(a) = 1 /\ "decimal" \in {a.kind, b.kind} -> WithDecimal(a, b)
           [] IsIntKind(a) /\ IsIntKind(b)  -> IntInt(a, b)
           [] IsIntKind(a) /\ IsFloat(b)    -> IntFinite(a, SemFloat(b))
           [] IsFloat(a) /\ IsIntKind(b)    -> -IntFinite(b, SemFloat(a))
           [] OTHER -> DoubleCompare(SemFloat(a), SemFloat(b))

(* Comparing these two needs memory for a magnitude. *)
Allocates(a, b) ==
    /\ NumClass(a) = 1 /\ NumClass(b) = 1
    /\ \/ /\ "decimal" \in {a.kind, b.kind}
          /\ \E e \in {a, b} : IsExact(e) /\ B10(e).sign # 0
       \/ /\ \E x, y \in {a, b} : x.kind = "bigint" /\ IsFloat(y)
                                  /\ IntSign(x) = FloatSign(SemFloat(y))
=============================================================================
