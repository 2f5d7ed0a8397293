---------------------------- MODULE NumericOrder ----------------------------
(***************************************************************************)
(* The order README.md promises of struple_semantic_order ("by exact       *)
(* mathematical value"), stated without the code's arithmetic: every       *)
(* finite number, of whatever kind, has one exact decimal expansion, and   *)
(* expansions compare by sign, scale and digits.  A malformed element, or  *)
(* a container nested too deep, compares as an error.                      *)
(***************************************************************************)
EXTENDS StrupleNumbers

CONSTANT MaxDepth    \* STRUPLE_MAX_DEPTH: levels of nesting compared or parsed

ASSUME DepthAssumption == MaxDepth \in Nat

ERROR == 2

(* Long multiplication of decimal digits: d * m + c, and d * base^k. *)
DecimalDigits[n \in Nat] ==
    IF n < 10 THEN <<n>> ELSE DecimalDigits[n \div 10] \o <<n % 10>>

TimesPlus(d, m, c) ==
    LET column(x, right) == [carry |-> (x * m + right.carry) \div 10,
                             out   |-> <<(x * m + right.carry) % 10>> \o right.out]
        row == FoldRight(column, d, [carry |-> c, out |-> <<>>])
    IN  DecimalDigits[row.carry] \o row.out

TimesPower(d, base, k) ==
    LET product[j \in 0..k] == IF j = 0 THEN d ELSE TimesPlus(product[j - 1], base, 0)
    IN  product[k]

(* +-digits * 10^exp in the normal form of ScalarValue. *)
Expansion(negative, digits, exp) ==
    ScalarValue([kind |-> "decimal", neg |-> negative, digits |-> digits, exp |-> exp])

(* A dyadic fraction m / 2^k is m * 5^k / 10^k. *)
ExactDyadic(negative, mant, exp) ==
    IF exp >= 0 THEN Expansion(negative, TimesPower(DecimalDigits[mant], 2, exp), 0)
    ELSE Expansion(negative, TimesPower(DecimalDigits[mant], 5, -exp), exp)

ExactInteger(negative, mag) ==
    Expansion(negative, FoldLeft(LAMBDA d, b : TimesPlus(d, 256, b), <<>>, mag), 0)

ExactDecimal(e) ==
    LET bits == Widened(e.bits)
        raw  == bits[1] % 128
        frac == NatOf(Tail(bits))
    IN  CASE e.kind = "decimal" -> ScalarValue(e)
          [] IsIntKind(e) -> ExactInteger(e.neg, e.mag)
          [] IsFloat(e)   -> ExactDyadic(bits[1] >= 128,
                                         IF raw = 0 THEN frac ELSE frac + 256^(F64Width - 1),
                                         (IF raw = 0 THEN 1 ELSE raw) - ExpShift)

(* -infinity, finite, +infinity, NaN *)
Extent(e) ==
    IF ~IsFloat(e) \/ e.bits[1] % 128 # 127 THEN 1
    ELSE IF IsNaN(e.bits) THEN 3 ELSE IF e.bits[1] = 127 THEN 2 ELSE 0

FiniteOrder(v, w) ==
    CASE v.digits = <<>> /\ w.digits = <<>> -> 0
      [] v.digits = <<>> /\ w.digits # <<>> -> IF w.neg THEN 1 ELSE -1
      [] v.digits # <<>> /\ w.digits = <<>> -> IF v.neg THEN -1 ELSE 1
      [] OTHER -> SignedCompare(v.neg, w.neg, DecimalMagnitudeCompare(v, w))

NumberOrder(x, y) ==
    IF Extent(x) # Extent(y) THEN SignOf(Extent(x) - Extent(y))
    ELSE IF Extent(x) # 1 THEN 0
    ELSE FiniteOrder(ExactDecimal(x), ExactDecimal(y))

-----------------------------------------------------------------------------
(* Numbers of every kind are one class. *)
ClassOf(e) ==
    LET order == << {"nil"}, {"undef"}, {"bool"}, {"int", "bigint", "f32", "f64", "decimal"},
                    {"timestamp"}, {"uuid"}, {"string"}, {"bytes"}, {"array"}, {"map"}, {"set"} >>
    IN  CHOOSE i \in DOMAIN order : e.kind \in order[i]

IsContainer(e) == e.kind \in {"array", "map", "set"}

ScalarOrder(x, y) ==
    IF ClassOf(x) # ClassOf(y) THEN SignOf(ClassOf(x) - ClassOf(y))
    ELSE CASE x.kind \in {"nil", "undef"} -> 0
           [] x.kind = "bool" -> IF x.val = y.val THEN 0 ELSE IF x.val THEN 1 ELSE -1
           [] ClassOf(x) = 4 -> NumberOrder(x, y)
           [] x.kind = "timestamp" -> PatternCompare(x.data, y.data, FALSE)
           [] x.kind \in {"uuid", "string", "bytes"} -> Compare(x.data, y.data)

(* The order of two elements, given that of what they contain. *)
ElementsOrder(x, y, inside) ==
    IF "error" \in {x.kind, y.kind} THEN ERROR
    ELSE IF IsContainer(x) /\ x.kind = y.kind THEN inside
    ELSE ScalarOrder(x, y)

(* The first position at which two tuples differ decides; a tuple that has *)
(* ended is below one that goes on.                                        *)
FirstDifference(at, x, y) ==
    LET decided == {i \in DOMAIN at : at[i] # 0}
        longer  == IF Len(x) > Len(y) THEN x ELSE y
    IN  IF decided # {} THEN at[FirstOf(decided)]
        ELSE IF Len(x) = Len(y) THEN 0
        ELSE IF longer[Len(at) + 1].kind = "error" THEN ERROR ELSE SignOf(Len(x) - Len(y))

(* Containers at level d hold tuples at level d + 1. *)
SemanticOrder[a \in Seq(Byte), b \in Seq(Byte), d \in Nat] ==
    LET x == Elements[a]
        y == Elements[b]
    IN  IF d > MaxDepth THEN ERROR
        ELSE FirstDifference(
                [i \in DOMAIN x \cap DOMAIN y |->
                    ElementsOrder(x[i], y[i], SemanticOrder[x[i].data, y[i].data, d + 1])],
                x, y)

(* The kinds of the numbers of a buffer, at any level, and whether all of  *)
(* it is as the encoder writes it.                                         *)
NumberKinds[b \in Seq(Byte)] ==
    UNION {CASE IsContainer(e) -> NumberKinds[e.data]
             [] IsIntKind(e)   -> {"int"}
             [] IsFloat(e) \/ e.kind = "decimal" -> {e.kind}
             [] OTHER -> {} : e \in ToSet(Elements[b])}

IsCanonical[b \in Seq(Byte)] ==
    /\ Transcoded[b] = b
    /\ \A e \in ToSet(Elements[b]) : IsContainer(e) => IsCanonical[e.data]
=============================================================================
