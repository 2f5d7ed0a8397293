------------------------ MODULE StrupleSemanticProofs ------------------------
(***************************************************************************)
(* The walk of struple_semantic_order, for all arguments and every limit   *)
(* of nesting: its answer is a sign, its recursion is bounded, each of its *)
(* steps leaves less to do, so that it returns, and with its arguments     *)
(* exchanged it gives the opposite answer.                                 *)
(*                                                                         *)
(* None of this is inductive by itself: what is left to do is a natural    *)
(* number only because no activation's reader is past the end of the bytes *)
(* it runs over (Placed), which are those the activation above unescaped   *)
(* out of a container and has not changed since; and the two answers are   *)
(* opposite only because the exchanged call has stood, at each of its      *)
(* steps, where the first stood at the same step, mirrored (Traced).       *)
(***************************************************************************)
EXTENDS StrupleSemantic, StrupleCodecProofs, FiniteSetTheorems

Activation == [pos : Nat \X Nat, scratch : Seq(Byte) \X Seq(Byte)]

(* Where the readers of the activations stand.                             *)
Within_(f, inputs) == f.pos[1] <= Len(inputs[1]) /\ f.pos[2] <= Len(inputs[2])

-----------------------------------------------------------------------------
(* Sums: the total of a sequence is that of its front and its last element.*)
IsSum(v, s, k) == v = [n \in 0..k |-> IF n = 0 THEN 0 ELSE v[n - 1] + s[n]]

LEMMA SumExists ==
    ASSUME NEW s
    PROVE  \A k \in Nat : \E v : IsSum(v, s, k)
  <1> DEFINE S == {k \in Nat : \E v : IsSum(v, s, k)}
  <1>1. 0 \in S
    <2>1. IsSum([n \in 0..0 |-> 0], s, 0)
      BY DEF IsSum
    <2>2. QED
      BY <2>1
  <1>2. ASSUME NEW k \in Nat, k \in S
        PROVE  k + 1 \in S
    <2>1. PICK v : IsSum(v, s, k)
      BY <1>2
    <2> DEFINE next == [n \in 0..(k + 1) |-> IF n = k + 1 THEN v[k] + s[k + 1] ELSE v[n]]
    <2>2. \A n \in 0..k : v[n] = IF n = 0 THEN 0 ELSE v[n - 1] + s[n]
      BY <2>1, Zenon DEF IsSum
    <2>3. ASSUME NEW n \in 0..(k + 1)
          PROVE  next[n] = IF n = 0 THEN 0 ELSE next[n - 1] + s[n]
      <3>1. CASE n = k + 1
        <4>1. next[n] = v[k] + s[k + 1] /\ n # 0 /\ n - 1 = k /\ k # k + 1 /\ k \in 0..(k + 1)
          BY <3>1
        <4>2. next[k] = v[k]
          BY <4>1
        <4> HIDE DEF next
        <4>3. QED
          BY <3>1, <4>1, <4>2
      <3>2. CASE n # k + 1 /\ n # 0
        <4>1. n \in 0..k /\ n - 1 \in 0..k /\ n - 1 # k + 1 /\ n - 1 \in 0..(k + 1)
          BY <3>2
        <4>2. next[n] = v[n] /\ next[n - 1] = v[n - 1]
          BY <3>2, <4>1
        <4> HIDE DEF next
        <4>3. QED
          BY <2>2, <3>2, <4>1, <4>2
      <3>3. CASE n = 0
        BY <2>2, <3>3
      <3>4. QED
        BY <3>1, <3>2, <3>3
    <2>4. next = [n \in 0..(k + 1) |-> next[n]]
      BY Zenon
    <2> HIDE DEF next
    <2>5. next = [n \in 0..(k + 1) |-> IF n = 0 THEN 0 ELSE next[n - 1] + s[n]]
      BY <2>3, <2>4
    <2>6. QED
      BY <2>5 DEF IsSum
  <1> HIDE DEF S
  <1>3. \A k \in Nat : k \in S
    BY <1>1, <1>2, NatSetInduction
  <1>4. QED
    BY <1>3 DEF S

(* The sums that Total picks.                                              *)
LEMMA TotalIsSum ==
    ASSUME NEW s \in Seq(Nat)
    PROVE  \E v : /\ Total(s) = v[Len(s)] /\ v[0] = 0
                  /\ \A n \in 1..Len(s) : v[n] = v[n - 1] + s[n]
                  /\ \A n \in 0..Len(s) : v[n] \in Nat
  <1> DEFINE v == CHOOSE v : v = [n \in 0..Len(s) |-> IF n = 0 THEN 0 ELSE v[n - 1] + s[n]]
  <1>1. Len(s) \in Nat
    BY LenProperties
  <1>2. \E w : w = [n \in 0..Len(s) |-> IF n = 0 THEN 0 ELSE w[n - 1] + s[n]]
    BY <1>1, SumExists DEF IsSum
  <1>3. v = [n \in 0..Len(s) |-> IF n = 0 THEN 0 ELSE v[n - 1] + s[n]]
    BY <1>2, Zenon
  <1>4. Total(s) = v[Len(s)]
    BY Zenon DEF Total
  <1> HIDE DEF v
  <1>5. \A n \in 0..Len(s) : v[n] = IF n = 0 THEN 0 ELSE v[n - 1] + s[n]
    BY <1>3, Zenon
  <1>6. v[0] = 0 /\ \A n \in 1..Len(s) : v[n] = v[n - 1] + s[n]
    BY <1>1, <1>5
  <1> DEFINE S == {k \in Nat : k <= Len(s) => v[k] \in Nat}
  <1>7. 0 \in S
    BY <1>6
  <1>8. ASSUME NEW k \in Nat, k \in S
        PROVE  k + 1 \in S
    <2> SUFFICES ASSUME k + 1 <= Len(s) PROVE v[k + 1] \in Nat
      OBVIOUS
    <2>1. (k + 1) - 1 = k /\ k <= Len(s) /\ k + 1 \in 1..Len(s)
      BY <1>1
    <2>2. v[k + 1] = v[k] + s[k + 1]
      BY <1>6, <2>1
    <2>3. s[k + 1] \in Nat /\ v[k] \in Nat
      BY <1>8, <2>1, ElementOfSeq
    <2>4. QED
      BY <2>2, <2>3
  <1> HIDE DEF S
  <1>9. \A k \in Nat : k \in S
    BY <1>7, <1>8, NatSetInduction
  <1>10. \A n \in 0..Len(s) : v[n] \in Nat
    BY <1>1, <1>9 DEF S
  <1>11. QED
    BY <1>4, <1>6, <1>10

(* t is s and one more.                                                    *)
LEMMA TotalOneMore ==
    ASSUME NEW s \in Seq(Nat), NEW t \in Seq(Nat), Len(t) = Len(s) + 1,
           \A i \in 1..Len(s) : t[i] = s[i]
    PROVE  Total(s) \in Nat /\ Total(t) = Total(s) + t[Len(t)]
  <1> DEFINE n == Len(s)
  <1>1. n \in Nat
    BY LenProperties
  <1>2. PICK v : /\ Total(s) = v[n] /\ v[0] = 0
                 /\ \A i \in 1..n : v[i] = v[i - 1] + s[i]
                 /\ \A i \in 0..n : v[i] \in Nat
    BY TotalIsSum
  <1>3. PICK w : /\ Total(t) = w[n + 1] /\ w[0] = 0
                 /\ \A i \in 1..(n + 1) : w[i] = w[i - 1] + t[i]
                 /\ \A i \in 0..(n + 1) : w[i] \in Nat
    <2>1. \E w : /\ Total(t) = w[Len(t)] /\ w[0] = 0
                 /\ \A i \in 1..Len(t) : w[i] = w[i - 1] + t[i]
                 /\ \A i \in 0..Len(t) : w[i] \in Nat
      BY TotalIsSum
    <2>2. QED
      BY <2>1
  <1> DEFINE S == {k \in Nat : k <= n => w[k] = v[k]}
  <1>4. 0 \in S
    BY <1>2, <1>3
  <1>5. ASSUME NEW k \in Nat, k \in S
        PROVE  k + 1 \in S
    <2> SUFFICES ASSUME k + 1 <= n PROVE w[k + 1] = v[k + 1]
      OBVIOUS
    <2>1. (k + 1) - 1 = k /\ k <= n /\ k + 1 \in 1..n /\ k + 1 \in 1..(n + 1)
      BY <1>1
    <2>2. w[k + 1] = w[k] + t[k + 1] /\ v[k + 1] = v[k] + s[k + 1]
      BY <1>2, <1>3, <2>1
    <2>3. t[k + 1] = s[k + 1] /\ w[k] = v[k]
      BY <1>5, <2>1
    <2>4. QED
      BY <2>2, <2>3
  <1> HIDE DEF S
  <1>6. \A k \in Nat : k \in S
    BY <1>4, <1>5, NatSetInduction
  <1>7. w[n] = v[n]
    BY <1>1, <1>6 DEF S
  <1>8. (n + 1) - 1 = n /\ n + 1 \in 1..(n + 1) /\ n \in 0..n
    BY <1>1
  <1>9. w[n + 1] = w[n] + t[n + 1] /\ v[n] \in Nat
    BY <1>2, <1>3, <1>8
  <1> HIDE DEF n
  <1>10. QED
    BY <1>2, <1>3, <1>7, <1>9 DEF n

-----------------------------------------------------------------------------
(* Elements: what is inside one is shorter than it, and the order of two   *)
(* is a sign.                                                              *)


(* A reading step, whatever it returns.                                    *)
LEMMA StepTyped ==
    ASSUME NEW b \in Seq(Byte), NEW p \in 0..Len(b)
    PROVE  /\ Next(b, p).rc \in {-1, 0, 1}
           /\ Next(b, p).rc = 1 => /\ Next(b, p).pos \in (p + 1)..Len(b)
                                   /\ Next(b, p).el \in Encodable
  <1>1. Len(b) \in Nat
    BY LenProperties
  <1>2. /\ p = Len(b) => Next(b, p).pos = p /\ Next(b, p).rc = 0
        /\ p # Len(b) => Next(b, p).pos \in (p + 1)..Len(b) /\ Next(b, p).rc \in {-1, 1}
    BY NextAdvances DEF Advances
  <1>3. QED
    BY <1>1, <1>2, NextEncodable

Sign == {-1, 0, 1}

LEMMA SignOfSign == \A n : SignOf(n) \in Sign
  BY DEF SignOf, Sign

LEMMA CompareSign == \A x, y : Compare(x, y) \in Sign
  <1> SUFFICES ASSUME NEW x, NEW y PROVE Compare(x, y) \in Sign
    OBVIOUS
  <1>1. \E m, n : Compare(x, y) = SignOf(m) \/ Compare(x, y) = SignOf(n)
    BY Zenon DEF Compare
  <1>2. QED
    BY <1>1, SignOfSign

LEMMA Product == \A m, n \in Sign : m * n \in Sign /\ -m \in Sign
  BY DEF Sign

LEMMA MagnitudesSign ==
    /\ \A a, b : CmpMag(a, b) \in Sign
    /\ \A f : FloatSign(f) \in Sign
    /\ \A e : IntSign(e) \in Sign
    /\ \A n, m, x : U64Scaled(n, m, x) \in Sign
    /\ \A g, m, x : MagScaled(g, m, x) \in Sign
    /\ \A a, b : B10Mag(a, b) \in Sign
    /\ \A v, d : B10MagToFloat(v, d) \in Sign
    /\ \A e : e.kind \in {"int", "bigint", "decimal"} => B10(e).sign \in Sign
  <1>0. -1 \in Sign /\ 0 \in Sign /\ 1 \in Sign
    BY DEF Sign
  <1>1. \A a, b : CmpMag(a, b) \in Sign
    BY SignOfSign, CompareSign, Zenon DEF CmpMag
  <1>2. \A f : FloatSign(f) \in Sign
    BY <1>0, Zenon DEF FloatSign
  <1>3. \A e : IntSign(e) \in Sign
    BY <1>0, Zenon DEF IntSign
  <1>4. \A n, m, x : U64Scaled(n, m, x) \in Sign
    BY <1>0, SignOfSign, Zenon DEF U64Scaled
  <1>5. \A g, m, x : MagScaled(g, m, x) \in Sign
    BY <1>1, Zenon DEF MagScaled
  <1>6. \A a, b : B10Mag(a, b) \in Sign
    BY <1>0, <1>1, Zenon DEF B10Mag
  <1>7. \A v, d : B10MagToFloat(v, d) \in Sign
    BY <1>1, Zenon DEF B10MagToFloat
  <1>8. \A e : e.kind \in {"int", "bigint", "decimal"} => B10(e).sign \in Sign
    BY <1>0, <1>3 DEF B10
  <1>9. QED
    BY <1>1, <1>2, <1>3, <1>4, <1>5, <1>6, <1>7, <1>8

LEMMA FloatsSign ==
    /\ \A x, y : DoubleCompare(x, y) \in Sign
    /\ \A e, f : IntFinite(e, f) \in Sign
    /\ \A a, b : IntInt(a, b) \in Sign
    /\ \A v, f : v.sign \in Sign => B10Float(v, f) \in Sign
  <1>0. -1 \in Sign /\ 0 \in Sign /\ 1 \in Sign
    BY DEF Sign
  <1>1. \A m, n \in Sign : m * n \in Sign /\ -m \in Sign
    BY Product
  <1>2. \A x, y : DoubleCompare(x, y) \in Sign
    BY <1>1, SignOfSign, CompareSign, MagnitudesSign, Zenon DEF DoubleCompare
  <1>3. \A e, f : I64Float(e, f) \in Sign
    BY <1>1, <1>2, SignOfSign, MagnitudesSign, Zenon DEF I64Float
  <1>4. \A e, f : BigintFloat(e, f) \in Sign
    BY <1>1, SignOfSign, MagnitudesSign, Zenon DEF BigintFloat
  <1>5. \A e, f : IntFinite(e, f) \in Sign
    BY <1>3, <1>4, Zenon DEF IntFinite
  <1>6. \A a, b : IntInt(a, b) \in Sign
    <2> SUFFICES ASSUME NEW a, NEW b PROVE IntInt(a, b) \in Sign
      OBVIOUS
    <2> DEFINE larger == IF a.kind = "bigint" THEN 1 ELSE -1
    <2>1. larger \in Sign
      BY <1>0, Zenon
    <2>2. IntInt(a, b) = IF IntSign(a) # IntSign(b) THEN SignOf(IntSign(a) - IntSign(b))
                         ELSE IF a.kind # b.kind THEN IntSign(a) * larger
                         ELSE IntSign(a) * CmpMag(a.mag, b.mag)
      BY Zenon DEF IntInt
    <2> HIDE DEF larger
    <2>3. QED
      BY <1>1, <2>1, <2>2, SignOfSign, MagnitudesSign, ZenonT(40)
  <1>7. \A v, f : v.sign \in Sign => B10Float(v, f) \in Sign
    <2> SUFFICES ASSUME NEW v, NEW f, v.sign \in Sign PROVE B10Float(v, f) \in Sign
      OBVIOUS
    <2> DEFINE side == IF Oom(v).lo >= FloatTop THEN 1
                       ELSE IF Oom(v).hi <= -FloatDepth THEN -1
                       ELSE B10MagToFloat(v, Decompose(f))
    <2>1. side \in Sign
      BY <1>0, MagnitudesSign, Zenon
    <2>2. B10Float(v, f) = IF v.sign # FloatSign(f) THEN SignOf(v.sign - FloatSign(f))
                           ELSE IF v.sign = 0 THEN 0 ELSE v.sign * side
      BY Zenon DEF B10Float
    <2> HIDE DEF side
    <2>3. QED
      BY <1>0, <1>1, <2>1, <2>2, SignOfSign, Zenon
  <1>8. QED
    BY <1>2, <1>5, <1>6, <1>7

Numerals == {"int", "bigint", "f32", "f64", "decimal"}

LEMMA NumbersSign ==
    ASSUME NEW a, NEW b, a.kind \in Numerals, b.kind \in Numerals
    PROVE  Numbers(a, b) \in Sign
  <1>0. -1 \in Sign /\ 0 \in Sign /\ 1 \in Sign
    BY DEF Sign
  <1>1. \A m, n \in Sign : m * n \in Sign /\ -m \in Sign
    BY Product
  <1>2. /\ \A e \in {a, b} : IsExact(e) => B10(e).sign \in Sign
        /\ ~IsExact(a) => IsFloat(a)
        /\ ~IsExact(b) => IsFloat(b)
    BY MagnitudesSign DEF Numerals, IsExact, IsIntKind, IsFloat
  <1>3. ASSUME NumClass(a) = 1, "decimal" \in {a.kind, b.kind}
        PROVE  WithDecimal(a, b) \in Sign
    <2>1. IsExact(a) \/ IsExact(b)
      BY <1>3, Zenon DEF IsExact
    <2>2. CASE IsExact(a) /\ IsExact(b)
      BY <1>0, <1>1, <1>2, <2>2, SignOfSign, MagnitudesSign, Zenon DEF WithDecimal
    <2>3. CASE IsExact(a) /\ ~IsExact(b)
      BY <1>2, <2>3, FloatsSign, Zenon DEF WithDecimal
    <2>4. CASE ~IsExact(a) /\ IsExact(b)
      BY <1>1, <1>2, <2>4, FloatsSign, Zenon DEF WithDecimal
    <2>5. QED
      BY <2>1, <2>2, <2>3, <2>4
  <1>4. -IntFinite(b, SemFloat(a)) \in Sign
    BY <1>1, FloatsSign
  <1>5. CASE NumClass(a) # NumClass(b)
    BY <1>5, SignOfSign, Zenon DEF Numbers
  <1>6. CASE NumClass(a) = NumClass(b)
    <2>1. \/ Numbers(a, b) = 0
          \/ NumClass(a) = 1 /\ "decimal" \in {a.kind, b.kind} /\ Numbers(a, b) = WithDecimal(a, b)
          \/ Numbers(a, b) = IntInt(a, b)
          \/ Numbers(a, b) = IntFinite(a, SemFloat(b))
          \/ Numbers(a, b) = -IntFinite(b, SemFloat(a))
          \/ Numbers(a, b) = DoubleCompare(SemFloat(a), SemFloat(b))
      <3>1. Numbers(a, b) =
              CASE NumClass(a) # 1 -> 0
                [] NumClass(a) = 1 /\ "decimal" \in {a.kind, b.kind} -> WithDecimal(a, b)
                [] IsIntKind(a) /\ IsIntKind(b)  -> IntInt(a, b)
                [] IsIntKind(a) /\ IsFloat(b)    -> IntFinite(a, SemFloat(b))
                [] IsFloat(a) /\ IsIntKind(b)    -> -IntFinite(b, SemFloat(a))
                [] OTHER -> DoubleCompare(SemFloat(a), SemFloat(b))
        BY <1>6, Zenon DEF Numbers
      <3>2. QED
        BY <3>1
    <2>2. QED
      BY <1>0, <1>3, <1>4, <2>1, FloatsSign, Zenon
  <1>7. QED
    BY <1>5, <1>6

(* Elements of one class have one kind, or are numbers.                    *)
Kinds == {"nil", "undef", "bool", "timestamp", "uuid", "string", "bytes", "array", "map", "set"}

LEMMA ClassKind ==
    ASSUME NEW x, NEW y, {x.kind, y.kind} \subseteq Kinds \cup Numerals, ClassOf(x) = ClassOf(y)
    PROVE  x.kind = y.kind \/ {x.kind, y.kind} \subseteq Numerals
  <1> DEFINE Classes == << {"nil"}, {"undef"}, {"bool"}, {"int", "bigint", "f32", "f64", "decimal"},
                          {"timestamp"}, {"uuid"}, {"string"}, {"bytes"}, {"array"}, {"map"}, {"set"} >>
  <1>1. ASSUME NEW e, e.kind \in Kinds \cup Numerals
        PROVE  ClassOf(e) \in DOMAIN Classes /\ e.kind \in Classes[ClassOf(e)]
    <2>1. \E i \in DOMAIN Classes : e.kind \in Classes[i]
      <3>1. DOMAIN Classes = 1..11
        OBVIOUS
      <3>2. \E i \in 1..11 : e.kind \in Classes[i]
        BY <1>1 DEF Kinds, Numerals
      <3>3. QED
        BY <3>1, <3>2
    <2>2. ClassOf(e) = CHOOSE i \in DOMAIN Classes : e.kind \in Classes[i]
      BY Zenon DEF ClassOf
    <2> HIDE DEF Classes
    <2>3. QED
      BY <2>1, <2>2, Zenon
  <1>2. \A i \in DOMAIN Classes : Classes[i] = Numerals \/ \E k : Classes[i] = {k}
    <2>1. DOMAIN Classes = 1..11
      OBVIOUS
    <2>2. /\ Classes[1] = {"nil"} /\ Classes[2] = {"undef"} /\ Classes[3] = {"bool"} /\ Classes[4] = Numerals
          /\ Classes[5] = {"timestamp"} /\ Classes[6] = {"uuid"} /\ Classes[7] = {"string"}
          /\ Classes[8] = {"bytes"} /\ Classes[9] = {"array"} /\ Classes[10] = {"map"} /\ Classes[11] = {"set"}
      BY DEF Numerals
    <2> HIDE DEF Classes
    <2>3. \A i \in DOMAIN Classes : i \in 1..11
      BY <2>1
    <2>4. \A i \in 1..11 : i = 1 \/ i = 2 \/ i = 3 \/ i = 4 \/ i = 5 \/ i = 6 \/ i = 7 \/ i = 8
                           \/ i = 9 \/ i = 10 \/ i = 11
      OBVIOUS
    <2>5. QED
      BY <2>2, <2>3, <2>4, Zenon
  <1> HIDE DEF Classes
  <1>3. x.kind \in Classes[ClassOf(x)] /\ y.kind \in Classes[ClassOf(x)] /\ ClassOf(x) \in DOMAIN Classes
    BY <1>1
  <1>4. QED
    BY <1>2, <1>3

LEMMA EncodableKinds ==
    ASSUME NEW e \in Encodable
    PROVE  /\ e.kind \in Kinds \cup Numerals
           /\ e.kind = "bool" => e.val \in BOOLEAN
           /\ e.kind \in DOMAIN FramedCode => e.data \in Seq(Byte)
  <1> DOMAIN FramedCode = {"string", "bytes", "array", "map", "set"}
    BY DEF FramedCode
  <1> QED
    BY DEF Encodable, Kinds, Numerals

LEMMA ElementOrderSign ==
    ASSUME NEW x \in Encodable, NEW y \in Encodable, ~SameContainer(x, y)
    PROVE  ElementOrder(x, y) \in Sign
  <1>1. {x.kind, y.kind} \subseteq Kinds \cup Numerals
    BY EncodableKinds
  <1>2. CASE ClassOf(x) # ClassOf(y)
    BY <1>2, SignOfSign, Zenon DEF ElementOrder
  <1>3. CASE ClassOf(x) = ClassOf(y)
    <2>1. x.kind = y.kind \/ {x.kind, y.kind} \subseteq Numerals
      BY <1>1, <1>3, ClassKind
    <2>2. ElementOrder(x, y) =
            CASE x.kind \in {"nil", "undef"} -> 0
              [] x.kind = "bool" -> (IF x.val THEN 1 ELSE 0) - (IF y.val THEN 1 ELSE 0)
              [] IsExact(x) \/ IsFloat(x) -> Numbers(x, y)
              [] x.kind = "timestamp" -> Compare(FlipSign(x.data), FlipSign(y.data))
              [] x.kind \in {"uuid", "string", "bytes"} -> Compare(x.data, y.data)
      BY <1>3, Zenon DEF ElementOrder
    <2>3. IsExact(x) \/ IsFloat(x) <=> x.kind \in Numerals
      BY DEF IsExact, IsIntKind, IsFloat, Numerals
    <2>4. CASE x.kind \in Numerals
      <3>1. ElementOrder(x, y) = Numbers(x, y)
        BY <2>2, <2>3, <2>4 DEF Numerals
      <3>2. x.kind \in Numerals /\ y.kind \in Numerals
        BY <2>1, <2>4
      <3>3. QED
        BY <3>1, <3>2, NumbersSign
    <2>5. CASE x.kind \notin Numerals
      <3>1. x.kind = y.kind /\ x.kind \in Kinds \ {"array", "map", "set"}
        BY <1>1, <2>1, <2>5 DEF SameContainer, IsContainer
      <3>2. CASE x.kind \in {"nil", "undef"}
        <4>1. ElementOrder(x, y) = 0
          BY <2>2, <2>3, <2>5, <3>2
        <4>2. QED
          BY <4>1 DEF Sign
      <3>3. CASE x.kind = "bool"
        <4>1. ElementOrder(x, y) = (IF x.val THEN 1 ELSE 0) - (IF y.val THEN 1 ELSE 0)
          BY <2>2, <2>3, <2>5, <3>3
        <4>2. QED
          BY <4>1 DEF Sign
      <3>4. CASE x.kind \in {"timestamp", "uuid", "string", "bytes"}
        <4>1. \/ ElementOrder(x, y) = Compare(FlipSign(x.data), FlipSign(y.data))
              \/ ElementOrder(x, y) = Compare(x.data, y.data)
          BY <2>2, <2>3, <2>5, <3>4
        <4>2. QED
          BY <4>1, CompareSign
      <3>5. QED
        BY <3>1, <3>2, <3>3, <3>4 DEF Kinds
    <2>6. QED
      BY <2>4, <2>5
  <1>4. QED
    BY <1>2, <1>3

-----------------------------------------------------------------------------
(* Sequences of activations.                                               *)
LEMMA FrontOf ==
    ASSUME NEW S, NEW s \in Seq(S), Len(s) > 0
    PROVE  /\ Front(s) \in Seq(S) /\ Len(Front(s)) = Len(s) - 1
           /\ \A i \in 1..(Len(s) - 1) : Front(s)[i] = s[i]
           /\ Last(s) = s[Len(s)] /\ s[Len(s)] \in S
  <1> DEFINE n == Len(s) - 1
  <1>1. n \in Nat /\ \A i \in 1..n : s[i] \in S
    OBVIOUS
  <1>2. /\ SubSeq(s, 1, n) \in Seq(S)
        /\ Len(SubSeq(s, 1, n)) = IF 1 <= n THEN n - 1 + 1 ELSE 0
        /\ \A i \in 1..(n - 1 + 1) : SubSeq(s, 1, n)[i] = s[1 + i - 1]
    BY <1>1, SubSeqProperties
  <1>3. Front(s) = SubSeq(s, 1, n) /\ Last(s) = s[Len(s)] /\ s[Len(s)] \in S
    BY DEF Front, Last
  <1> HIDE DEF n
  <1>4. /\ (IF 1 <= n THEN n - 1 + 1 ELSE 0) = n /\ n - 1 + 1 = n
        /\ \A i \in 1..n : 1 + i - 1 = i
    BY <1>1
  <1>5. Len(Front(s)) = n /\ \A i \in 1..n : Front(s)[i] = s[i]
    BY <1>2, <1>3, <1>4
  <1>6. QED
    BY <1>2, <1>3, <1>5 DEF n

(* The innermost activation goes on as x.                                  *)
LEMMA Replaced ==
    ASSUME NEW S, NEW s \in Seq(S), Len(s) > 0, NEW x \in S
    PROVE  /\ Front(s) \o <<x>> \in Seq(S) /\ Len(Front(s) \o <<x>>) = Len(s)
           /\ \A i \in 1..(Len(s) - 1) : (Front(s) \o <<x>>)[i] = s[i]
           /\ (Front(s) \o <<x>>)[Len(s)] = x
  <1> DEFINE f == Front(s)
  <1>1. f \in Seq(S) /\ Len(f) = Len(s) - 1 /\ \A i \in 1..(Len(s) - 1) : f[i] = s[i]
    BY FrontOf
  <1> HIDE DEF f
  <1>2. <<x>> \in Seq(S) /\ Len(<<x>>) = 1 /\ <<x>>[1] = x /\ Len(s) \in Nat
    BY LenProperties
  <1>3. /\ f \o <<x>> \in Seq(S) /\ Len(f \o <<x>>) = Len(f) + Len(<<x>>)
        /\ \A i \in 1..(Len(f) + Len(<<x>>)) :
              (f \o <<x>>)[i] = IF i <= Len(f) THEN f[i] ELSE <<x>>[i - Len(f)]
    BY <1>1, <1>2, ConcatProperties
  <1>4. QED
    BY <1>1, <1>2, <1>3 DEF f

(* ... and calls y.                                                        *)
LEMMA Deeper ==
    ASSUME NEW S, NEW s \in Seq(S), Len(s) > 0, NEW x \in S, NEW y \in S
    PROVE  /\ Front(s) \o <<x, y>> \in Seq(S) /\ Len(Front(s) \o <<x, y>>) = Len(s) + 1
           /\ \A i \in 1..Len(s) : (Front(s) \o <<x, y>>)[i] = (Front(s) \o <<x>>)[i]
           /\ (Front(s) \o <<x, y>>)[Len(s) + 1] = y
  <1> DEFINE f == Front(s)
  <1>1. f \in Seq(S) /\ Len(f) = Len(s) - 1 /\ Len(s) \in Nat
    BY FrontOf, LenProperties
  <1> HIDE DEF f
  <1>2. <<x, y>> \in Seq(S) /\ Len(<<x, y>>) = 2 /\ <<x, y>>[1] = x /\ <<x, y>>[2] = y
    OBVIOUS
  <1>3. /\ f \o <<x, y>> \in Seq(S) /\ Len(f \o <<x, y>>) = Len(f) + Len(<<x, y>>)
        /\ \A i \in 1..(Len(f) + Len(<<x, y>>)) :
              (f \o <<x, y>>)[i] = IF i <= Len(f) THEN f[i] ELSE <<x, y>>[i - Len(f)]
    BY <1>1, <1>2, ConcatProperties
  <1>4. <<x>> \in Seq(S) /\ Len(<<x>>) = 1 /\ <<x>>[1] = x
    OBVIOUS
  <1>5. \A i \in 1..(Len(f) + Len(<<x>>)) :
              (f \o <<x>>)[i] = IF i <= Len(f) THEN f[i] ELSE <<x>>[i - Len(f)]
    BY <1>1, <1>4, ConcatProperties
  <1>6. \A i \in 1..Len(s) : (f \o <<x, y>>)[i] = (f \o <<x>>)[i]
    <2> SUFFICES ASSUME NEW i \in 1..Len(s) PROVE (f \o <<x, y>>)[i] = (f \o <<x>>)[i]
      OBVIOUS
    <2>1. (f \o <<x, y>>)[i] = IF i <= Len(f) THEN f[i] ELSE <<x, y>>[i - Len(f)]
      BY <1>1, <1>2, <1>3
    <2>2. (f \o <<x>>)[i] = IF i <= Len(f) THEN f[i] ELSE <<x>>[i - Len(f)]
      BY <1>1, <1>4, <1>5
    <2>3. i <= Len(f) \/ i - Len(f) = 1
      BY <1>1
    <2>4. QED
      BY <1>2, <1>4, <2>1, <2>2, <2>3
  <1>7. (f \o <<x, y>>)[Len(s) + 1] = y
    <2>1. /\ Len(s) + 1 \in 1..(Len(f) + Len(<<x, y>>)) /\ ~(Len(s) + 1 <= Len(f))
          /\ Len(s) + 1 - Len(f) = 2
      BY <1>1, <1>2
    <2>2. (f \o <<x, y>>)[Len(s) + 1] =
             IF Len(s) + 1 <= Len(f) THEN f[Len(s) + 1] ELSE <<x, y>>[Len(s) + 1 - Len(f)]
      BY <1>3, <2>1
    <2>3. QED
      BY <1>2, <2>1, <2>2
  <1>8. f \o <<x, y>> \in Seq(S) /\ Len(f \o <<x, y>>) = Len(s) + 1
    BY <1>1, <1>2, <1>3
  <1>9. QED
    BY <1>6, <1>7, <1>8 DEF f

LEMMA PairOf ==
    ASSUME NEW S, NEW x \in S, NEW y \in S, NEW f, f = [side \in {1, 2} |-> IF side = 1 THEN x ELSE y]
    PROVE  f \in S \X S /\ f[1] = x /\ f[2] = y
  <1>1. f = <<x, y>>
    <2>1. DOMAIN <<x, y>> = {1, 2}
      OBVIOUS
    <2>2. QED
      BY <2>1
  <1>2. QED
    BY <1>1

(* What an activation has left to do, of a chain of them over the          *)
(* arguments a.                                                            *)
InputsOf(a, fs, i) == IF i = 1 THEN a ELSE fs[i - 1].scratch
Load(a, fs, i)     == 2 * Unread(fs[i], InputsOf(a, fs, i)) + 2
Loads(a, fs)       == [i \in DOMAIN fs |-> Load(a, fs, i)]
Placed(a, fs)      == \A i \in 1..Len(fs) : Within_(fs[i], InputsOf(a, fs, i))

LEMMA LoadsTyped ==
    ASSUME NEW a \in Seq(Byte) \X Seq(Byte), NEW fs \in Seq(Activation), Placed(a, fs)
    PROVE  /\ Loads(a, fs) \in Seq(Nat) /\ Len(Loads(a, fs)) = Len(fs)
           /\ \A i \in 1..Len(fs) : /\ Loads(a, fs)[i] = Load(a, fs, i)
                                    /\ Load(a, fs, i) \in Nat /\ Load(a, fs, i) >= 2
                                    /\ InputsOf(a, fs, i) \in Seq(Byte) \X Seq(Byte)
  <1>1. Len(fs) \in Nat /\ DOMAIN fs = 1..Len(fs) /\ \A i \in 1..Len(fs) : fs[i] \in Activation
    BY LenProperties, ElementOfSeq
  <1>2. ASSUME NEW i \in 1..Len(fs)
        PROVE  /\ InputsOf(a, fs, i) \in Seq(Byte) \X Seq(Byte)
               /\ Load(a, fs, i) \in Nat /\ Load(a, fs, i) >= 2
    <2> DEFINE in == InputsOf(a, fs, i)
               f  == fs[i]
    <2>1. in \in Seq(Byte) \X Seq(Byte)
      <3>1. i # 1 => fs[i - 1] \in Activation
        BY <1>1
      <3>2. QED
        BY <3>1 DEF InputsOf, Activation
    <2>2. Within_(f, in) /\ f \in Activation
      BY <1>1 DEF Placed
    <2> HIDE DEF in, f
    <2>3. f.pos[1] \in Nat /\ f.pos[2] \in Nat /\ f.pos[1] <= Len(in[1]) /\ f.pos[2] <= Len(in[2])
      BY <2>2 DEF Within_, Activation
    <2>4. in[1] \in Seq(Byte) /\ in[2] \in Seq(Byte)
      BY <2>1
    <2>5. Len(in[1]) \in Nat /\ Len(in[2]) \in Nat
      BY <2>4, LenProperties
    <2>6. Unread(f, in) \in Nat
      <3>1. \A k, l, m, n \in Nat : k <= m /\ l <= n => m - k + n - l \in Nat
        OBVIOUS
      <3>2. QED
        BY <2>3, <2>5, <3>1, Zenon DEF Unread
    <2>7. QED
      BY <2>1, <2>6 DEF Load, in, f
  <1>3. Loads(a, fs) \in [1..Len(fs) -> Nat]
    BY <1>1, <1>2 DEF Loads
  <1>4. \A i \in 1..Len(fs) : Loads(a, fs)[i] = Load(a, fs, i)
    BY <1>1 DEF Loads
  <1>5. Loads(a, fs) \in Seq(Nat) /\ Len(Loads(a, fs)) = Len(fs)
    BY <1>1, <1>3
  <1>6. QED
    BY <1>2, <1>4, <1>5

(* fs is gs and one activation more.                                       *)
LEMMA OneActivationMore ==
    ASSUME NEW a \in Seq(Byte) \X Seq(Byte), NEW gs \in Seq(Activation), NEW fs \in Seq(Activation),
           Len(fs) = Len(gs) + 1, \A i \in 1..Len(gs) : fs[i] = gs[i]
    PROVE  /\ Placed(a, fs) <=> Placed(a, gs) /\ Within_(fs[Len(fs)], InputsOf(a, fs, Len(fs)))
           /\ Placed(a, fs) => /\ Total(Loads(a, gs)) \in Nat
                               /\ Total(Loads(a, fs)) = Total(Loads(a, gs)) + Load(a, fs, Len(fs))
  <1>1. Len(gs) \in Nat /\ Len(fs) \in Nat
    BY LenProperties
  <1>2. \A i \in 1..Len(gs) : InputsOf(a, fs, i) = InputsOf(a, gs, i)
    <2> SUFFICES ASSUME NEW i \in 1..Len(gs), i # 1 PROVE fs[i - 1] = gs[i - 1]
      BY DEF InputsOf
    <2>1. i - 1 \in 1..Len(gs)
      BY <1>1
    <2>2. QED
      BY <2>1
  <1>3. \A i \in 1..Len(gs) : Load(a, fs, i) = Load(a, gs, i)
    BY <1>2 DEF Load
  <1>4. Placed(a, fs) <=> Placed(a, gs) /\ Within_(fs[Len(fs)], InputsOf(a, fs, Len(fs)))
    <2>1. \A i \in 1..Len(fs) : i \in 1..Len(gs) \/ i = Len(fs)
      BY <1>1
    <2>2. Len(fs) \in 1..Len(fs) /\ \A i \in 1..Len(gs) : i \in 1..Len(fs)
      BY <1>1
    <2>3. QED
      BY <1>2, <2>1, <2>2 DEF Placed
  <1>5. ASSUME Placed(a, fs)
        PROVE  /\ Total(Loads(a, gs)) \in Nat
               /\ Total(Loads(a, fs)) = Total(Loads(a, gs)) + Load(a, fs, Len(fs))
    <2>1. /\ Loads(a, fs) \in Seq(Nat) /\ Len(Loads(a, fs)) = Len(fs)
          /\ \A i \in 1..Len(fs) : Loads(a, fs)[i] = Load(a, fs, i)
      BY <1>5, LoadsTyped
    <2>2. /\ Loads(a, gs) \in Seq(Nat) /\ Len(Loads(a, gs)) = Len(gs)
          /\ \A i \in 1..Len(gs) : Loads(a, gs)[i] = Load(a, gs, i)
      BY <1>4, <1>5, LoadsTyped
    <2>3. \A i \in 1..Len(gs) : i \in 1..Len(fs)
      BY <1>1
    <2>4. \A i \in 1..Len(Loads(a, gs)) : Loads(a, fs)[i] = Loads(a, gs)[i]
      BY <1>3, <2>1, <2>2, <2>3
    <2>5. Len(Loads(a, fs)) = Len(Loads(a, gs)) + 1 /\ Len(fs) \in 1..Len(fs)
      BY <1>1, <2>1, <2>2
    <2>6. /\ Total(Loads(a, gs)) \in Nat
          /\ Total(Loads(a, fs)) = Total(Loads(a, gs)) + Loads(a, fs)[Len(Loads(a, fs))]
      BY <2>1, <2>2, <2>4, <2>5, TotalOneMore
    <2>7. QED
      BY <2>1, <2>5, <2>6
  <1>6. QED
    BY <1>4, <1>5

-----------------------------------------------------------------------------
(* The walk.                                                               *)
Walking == TypeOK /\ DepthBounded /\ Placed(args, frames)

LEMMA WorkNow == Work = Total(Loads(args, frames)) + (IF pc = "back" THEN 1 ELSE 0)
  <1>1. \A i : 2 * Unread(frames[i], Inputs(i)) + 2 = Load(args, frames, i)
    BY Zenon DEF Load, Inputs, InputsOf
  <1>2. Loads(args, frames) = [i \in DOMAIN frames |-> 2 * Unread(frames[i], Inputs(i)) + 2]
    BY <1>1, Zenon DEF Loads
  <1>3. QED
    BY <1>2, Zenon DEF Work

LEMMA WorkNext == Work' = Total(Loads(args', frames')) + (IF pc' = "back" THEN 1 ELSE 0)
  <1>1. \A i : (2 * Unread(frames[i], Inputs(i)) + 2)' = Load(args', frames', i)
    BY Zenon DEF Load, Inputs, InputsOf, Unread
  <1>2. Loads(args', frames') = [i \in DOMAIN frames' |-> (2 * Unread(frames[i], Inputs(i)) + 2)']
    BY <1>1, Zenon DEF Loads
  <1>3. QED
    BY <1>2 DEF Work

LEMMA WalkFacts ==
    ASSUME Walking
    PROVE  /\ frames \in Seq(Activation) /\ Len(frames) \in Nat
           /\ args \in Seq(Byte) \X Seq(Byte) /\ Placed(args, frames)
           /\ \A i : Inputs(i) = InputsOf(args, frames, i)
           /\ Work = Total(Loads(args, frames)) + (IF pc = "back" THEN 1 ELSE 0)
  <1>1. frames \in Seq(Activation) /\ args \in Seq(Byte) \X Seq(Byte) /\ Placed(args, frames)
    BY DEF Walking, TypeOK, Activation
  <1>2. \A i : Inputs(i) = InputsOf(args, frames, i)
    BY Zenon DEF Inputs, InputsOf
  <1>3. QED
    BY <1>1, <1>2, LenProperties, WorkNow

(* The innermost activation returns.                                       *)
LEMMA LeaveStep ==
    ASSUME Walking, Len(frames) > 0, NEW o \in Sign, NEW e \in BOOLEAN, Leave(o, e),
           args' = args, memory' \in BOOLEAN, first' = first
    PROVE  Walking' /\ Work' < Work
  <1> DEFINE n  == Len(frames)
             gs == Front(frames)
             w  == Total(Loads(args, gs))
             l  == Load(args, frames, n)
  <1>1. /\ frames \in Seq(Activation) /\ n \in Nat
        /\ args \in Seq(Byte) \X Seq(Byte) /\ Placed(args, frames)
        /\ Work = Total(Loads(args, frames)) + (IF pc = "back" THEN 1 ELSE 0)
    BY WalkFacts
  <1>2. gs \in Seq(Activation) /\ Len(gs) = n - 1 /\ \A i \in 1..(n - 1) : gs[i] = frames[i]
    BY <1>1, FrontOf
  <1>3. /\ Placed(args, gs) /\ w \in Nat
        /\ Total(Loads(args, frames)) = w + l
    <2>1. n = Len(gs) + 1 /\ \A i \in 1..Len(gs) : frames[i] = gs[i]
      BY <1>1, <1>2
    <2> HIDE DEF gs
    <2>2. QED
      BY <1>1, <1>2, <2>1, OneActivationMore
  <1>4. l \in Nat /\ l >= 2
    <2>1. n \in 1..n
      BY <1>1
    <2>2. QED
      BY <1>1, <2>1, LoadsTyped
  <1>5. frames' = gs /\ order' = o /\ err' = e /\ pc' = IF n = 1 THEN "done" ELSE "back"
    BY DEF Leave
  <1>6. TypeOK'
    <2>1. first \in Seq([order : {-1, 0, 1}, err : BOOLEAN])
      BY DEF Walking, TypeOK
    <2> HIDE DEF gs
    <2>2. QED
      BY <1>1, <1>2, <1>5, <2>1 DEF TypeOK, Activation, Sign
  <1>7. DepthBounded'
    <2>1. n <= MaxDepth + 1
      BY DEF Walking, DepthBounded
    <2> HIDE DEF gs
    <2>2. QED
      BY <1>1, <1>2, <1>5, <2>1, DepthAssumption DEF DepthBounded
  <1>8. Placed(args, frames)'
    BY <1>3, <1>5, Zenon
  <1>9. Walking'
    BY <1>6, <1>7, <1>8 DEF Walking
  <1>10. Work' = w + (IF pc' = "back" THEN 1 ELSE 0)
    BY <1>5, WorkNext, Zenon
  <1> HIDE DEF w, l
  <1>11. QED
    BY <1>1, <1>3, <1>4, <1>9, <1>10

(* Both readers of the innermost activation have read.                     *)
LEMMA ReadFacts ==
    ASSUME Walking, Len(frames) > 0, NEW side \in {1, 2}
    PROVE  /\ Inputs(Len(frames))[side] \in Seq(Byte) /\ Len(Inputs(Len(frames))[side]) \in Nat
           /\ frames[Len(frames)].pos[side] \in 0..Len(Inputs(Len(frames))[side])
           /\ frames[Len(frames)].scratch[side] \in Seq(Byte)
           /\ Read(side).rc \in {-1, 0, 1}
           /\ Read(side).rc = 1 =>
                /\ Read(side).pos \in (frames[Len(frames)].pos[side] + 1)..Len(Inputs(Len(frames))[side])
                /\ Read(side).el \in Encodable
                /\ IsContainer(Read(side).el) =>
                     Len(Read(side).el.data) + 2 <= Read(side).pos - frames[Len(frames)].pos[side]
  <1> DEFINE n == Len(frames)
             b == Inputs(n)[side]
             f == frames[n]
             p == f.pos[side]
  <1>1. /\ frames \in Seq(Activation) /\ n \in Nat
        /\ args \in Seq(Byte) \X Seq(Byte) /\ Placed(args, frames)
        /\ Inputs(n) = InputsOf(args, frames, n) /\ n \in 1..n
    BY WalkFacts
  <1>2. Inputs(n) \in Seq(Byte) \X Seq(Byte)
    BY <1>1, LoadsTyped
  <1>3. b \in Seq(Byte) /\ Len(b) \in Nat
    BY <1>2, LenProperties
  <1>4. f \in Activation /\ Within_(f, Inputs(n))
    BY <1>1, ElementOfSeq DEF Placed
  <1>5. p \in Nat /\ f.scratch[side] \in Seq(Byte)
    BY <1>4 DEF Activation
  <1>6. p <= Len(b)
    BY <1>4 DEF Within_
  <1>7. Read(side) = Next(b, p)
    BY <1>1, FrontOf, Zenon DEF Read, Input
  <1> HIDE DEF p, b
  <1>8. p \in 0..Len(b)
    BY <1>3, <1>5, <1>6
  <1>9. /\ Next(b, p).rc \in {-1, 0, 1}
        /\ Next(b, p).rc = 1 => Next(b, p).pos \in (p + 1)..Len(b) /\ Next(b, p).el \in Encodable
    BY <1>3, <1>8, StepTyped
  <1>10. Next(b, p).rc = 1 /\ IsContainer(Next(b, p).el) => Len(Next(b, p).el.data) + 2 <= Next(b, p).pos - p
    BY <1>3, <1>8, ContentsShorter DEF IsContainer, Containers
  <1>11. QED
    BY <1>3, <1>5, <1>7, <1>8, <1>9, <1>10 DEF p, b

(* It goes on where they stand now, with less to read.                     *)
LEMMA AdvancedFacts ==
    ASSUME Walking, Len(frames) > 0, NEW r, r = <<Read(1), Read(2)>>, Both(r, {1})
    PROVE  LET n == Len(frames)
               x == Advanced(r)
           IN  /\ x \in Activation /\ Within_(x, Inputs(n))
               /\ Unread(x, Inputs(n)) \in Nat /\ Unread(frames[n], Inputs(n)) \in Nat
               /\ Unread(x, Inputs(n)) + 2 <= Unread(frames[n], Inputs(n))
               /\ SameContainer(r[1].el, r[2].el) =>
                    Unread(x, Inputs(n)) + Len(x.scratch[1]) + Len(x.scratch[2]) + 4
                       <= Unread(frames[n], Inputs(n))
  <1> DEFINE n  == Len(frames)
             x  == Advanced(r)
             in == Inputs(n)
             f  == frames[n]
             p1 == f.pos[1]
             p2 == f.pos[2]
             q1 == Read(1).pos
             q2 == Read(2).pos
             m1 == Len(in[1])
             m2 == Len(in[2])
             e1 == Read(1).el
             e2 == Read(2).el
             s1 == IF e1.kind \in DOMAIN FramedCode THEN e1.data ELSE f.scratch[1]
             s2 == IF e2.kind \in DOMAIN FramedCode THEN e2.data ELSE f.scratch[2]
  <1>1. r[1] = Read(1) /\ r[2] = Read(2) /\ Read(1).rc = 1 /\ Read(2).rc = 1
    BY DEF Both
  <1>2. /\ m1 \in Nat /\ p1 \in 0..m1 /\ q1 \in (p1 + 1)..m1 /\ e1 \in Encodable /\ f.scratch[1] \in Seq(Byte)
        /\ IsContainer(e1) => Len(e1.data) + 2 <= q1 - p1
    BY <1>1, ReadFacts
  <1>3. /\ m2 \in Nat /\ p2 \in 0..m2 /\ q2 \in (p2 + 1)..m2 /\ e2 \in Encodable /\ f.scratch[2] \in Seq(Byte)
        /\ IsContainer(e2) => Len(e2.data) + 2 <= q2 - p2
    BY <1>1, ReadFacts
  <1>4. s1 \in Seq(Byte) /\ s2 \in Seq(Byte)
    BY <1>2, <1>3, EncodableKinds
  <1>5. Last(frames) = f
    BY WalkFacts, FrontOf
  <1>6. x = [pos     |-> [side \in {1, 2} |-> r[side].pos],
             scratch |-> [side \in {1, 2} |->
                            IF r[side].el.kind \in DOMAIN FramedCode THEN r[side].el.data
                            ELSE f.scratch[side]]]
    BY <1>5, Zenon DEF Advanced
  <1>7. [side \in {1, 2} |-> r[side].pos] = [side \in {1, 2} |-> IF side = 1 THEN q1 ELSE q2]
    BY <1>1
  <1>8. [side \in {1, 2} |-> IF r[side].el.kind \in DOMAIN FramedCode THEN r[side].el.data
                             ELSE f.scratch[side]]
          = [side \in {1, 2} |-> IF side = 1 THEN s1 ELSE s2]
    BY <1>1
  <1>9. IsContainer(e1) /\ IsContainer(e2) => s1 = e1.data /\ s2 = e2.data
    BY DEF IsContainer, FramedCode
  <1>10. SameContainer(r[1].el, r[2].el) => IsContainer(e1) /\ IsContainer(e2)
    BY <1>1 DEF SameContainer, IsContainer
  <1> HIDE DEF x, in, f, p1, p2, q1, q2, m1, m2, e1, e2, s1, s2
  <1>11. q1 \in Nat /\ q2 \in Nat
    BY <1>2, <1>3
  <1>12. x.pos \in Nat \X Nat /\ x.pos[1] = q1 /\ x.pos[2] = q2
    BY <1>6, <1>7, <1>11, PairOf
  <1>13. x.scratch \in Seq(Byte) \X Seq(Byte) /\ x.scratch[1] = s1 /\ x.scratch[2] = s2
    BY <1>4, <1>6, <1>8, PairOf
  <1>14. x \in Activation
    BY <1>6, <1>12, <1>13 DEF Activation
  <1>15. Within_(x, in)
    <2>1. q1 <= m1 /\ q2 <= m2
      BY <1>2, <1>3
    <2>2. QED
      BY <1>12, <2>1, Zenon DEF Within_, m1, m2
  <1>16. Unread(x, in) = m1 - q1 + m2 - q2 /\ Unread(f, in) = m1 - p1 + m2 - p2
    BY <1>12, Zenon DEF Unread, m1, m2, p1, p2
  <1>17. /\ Unread(x, in) \in Nat /\ Unread(f, in) \in Nat /\ Unread(x, in) + 2 <= Unread(f, in)
    BY <1>2, <1>3, <1>16
  <1>18. ASSUME SameContainer(r[1].el, r[2].el)
         PROVE  Unread(x, in) + Len(x.scratch[1]) + Len(x.scratch[2]) + 4 <= Unread(f, in)
    <2>1. x.scratch[1] = e1.data /\ x.scratch[2] = e2.data
      BY <1>9, <1>10, <1>13, <1>18
    <2>2. Len(x.scratch[1]) + 2 <= q1 - p1 /\ Len(x.scratch[2]) + 2 <= q2 - p2
      BY <1>2, <1>3, <1>10, <1>18, <2>1
    <2>3. Len(x.scratch[1]) \in Nat /\ Len(x.scratch[2]) \in Nat
      BY <1>4, <1>13, LenProperties
    <2> DEFINE l1 == Len(x.scratch[1])
               l2 == Len(x.scratch[2])
    <2> HIDE DEF l1, l2
    <2>4. l1 \in Nat /\ l2 \in Nat /\ l1 + 2 <= q1 - p1 /\ l2 + 2 <= q2 - p2
      BY <2>2, <2>3 DEF l1, l2
    <2>5. Unread(x, in) + l1 + l2 + 4 <= Unread(f, in)
      BY <1>2, <1>3, <1>16, <2>4
    <2>6. QED
      BY <2>5 DEF l1, l2
  <1>19. QED
    BY <1>14, <1>15, <1>17, <1>18 DEF x, in, f

(* The innermost activation goes on as x, in the place of its frame.       *)
LEMMA ChainReplaced ==
    ASSUME Walking, Len(frames) > 0, NEW x \in Activation, Within_(x, Inputs(Len(frames))),
           Unread(x, Inputs(Len(frames))) \in Nat, Unread(frames[Len(frames)], Inputs(Len(frames))) \in Nat
    PROVE  LET n  == Len(frames)
               gs == Front(frames) \o <<x>>
           IN  /\ gs \in Seq(Activation) /\ Len(gs) = n /\ Placed(args, gs)
               /\ gs[n] = x
               /\ Total(Loads(args, gs)) \in Nat
               /\ Total(Loads(args, frames)) =
                    Total(Loads(args, gs)) + 2 * Unread(frames[n], Inputs(n)) - 2 * Unread(x, Inputs(n))
  <1> DEFINE n  == Len(frames)
             fs == Front(frames)
             gs == fs \o <<x>>
  <1>1. /\ frames \in Seq(Activation) /\ n \in Nat
        /\ args \in Seq(Byte) \X Seq(Byte) /\ Placed(args, frames)
        /\ Inputs(n) = InputsOf(args, frames, n)
    BY WalkFacts
  <1>2. fs \in Seq(Activation) /\ Len(fs) = n - 1 /\ \A i \in 1..(n - 1) : fs[i] = frames[i]
    BY <1>1, FrontOf
  <1>3. gs \in Seq(Activation) /\ Len(gs) = n /\ (\A i \in 1..(n - 1) : gs[i] = frames[i]) /\ gs[n] = x
    BY <1>1, Replaced
  <1> HIDE DEF fs, gs
  <1>4. n = Len(fs) + 1 /\ Len(gs) = Len(fs) + 1 /\ \A i \in 1..Len(fs) : frames[i] = fs[i] /\ gs[i] = fs[i]
    BY <1>1, <1>2, <1>3
  <1>5. InputsOf(args, gs, n) = Inputs(n)
    <2>1. n # 1 => n - 1 \in 1..(n - 1)
      BY <1>1, <1>2
    <2>2. QED
      BY <1>1, <1>3, <2>1 DEF InputsOf
  <1>6. Placed(args, fs) /\ Placed(args, gs)
    <2>1. Placed(args, fs)
      BY <1>1, <1>2, <1>4, OneActivationMore
    <2>2. Placed(args, gs) <=> Placed(args, fs) /\ Within_(gs[Len(gs)], InputsOf(args, gs, Len(gs)))
      BY <1>1, <1>2, <1>3, <1>4, OneActivationMore
    <2>3. QED
      BY <1>3, <1>5, <2>1, <2>2
  <1>7. /\ Total(Loads(args, fs)) \in Nat
        /\ Total(Loads(args, frames)) = Total(Loads(args, fs)) + Load(args, frames, n)
    BY <1>1, <1>2, <1>4, OneActivationMore
  <1>8. Total(Loads(args, gs)) = Total(Loads(args, fs)) + Load(args, gs, n)
    <2>1. Total(Loads(args, gs)) = Total(Loads(args, fs)) + Load(args, gs, Len(gs))
      BY <1>1, <1>2, <1>3, <1>4, <1>6, OneActivationMore
    <2>2. QED
      BY <1>3, <2>1
  <1>9. /\ Load(args, frames, n) = 2 * Unread(frames[n], Inputs(n)) + 2
        /\ Load(args, gs, n) = 2 * Unread(x, Inputs(n)) + 2
    BY <1>1, <1>3, <1>5, Zenon DEF Load
  <1> DEFINE u == Unread(frames[n], Inputs(n))
             v == Unread(x, Inputs(n))
             w == Total(Loads(args, fs))
  <1>10. u \in Nat /\ v \in Nat /\ w \in Nat
    BY <1>7
  <1>11. /\ Total(Loads(args, frames)) = w + (2 * u + 2)
         /\ Total(Loads(args, gs)) = w + (2 * v + 2)
    BY <1>7, <1>8, <1>9
  <1> HIDE DEF u, v, w
  <1>12. /\ Total(Loads(args, gs)) \in Nat
         /\ Total(Loads(args, frames)) = Total(Loads(args, gs)) + 2 * u - 2 * v
    BY <1>10, <1>11
  <1>13. QED
    BY <1>3, <1>6, <1>12 DEF u, v, fs, gs

(* The innermost activation goes on with what follows.                     *)
LEMMA GoOnStep ==
    ASSUME Walking, Len(frames) > 0, pc = "loop", NEW r, r = <<Read(1), Read(2)>>, Both(r, {1}),
           frames' = Front(frames) \o <<Advanced(r)>>, pc' \in {"loop", "back"},
           order' \in Sign, err' \in BOOLEAN, UNCHANGED <<args, memory, first>>
    PROVE  Walking' /\ Work' < Work
  <1> DEFINE n  == Len(frames)
             x  == Advanced(r)
             gs == Front(frames) \o <<x>>
             u  == Unread(frames[n], Inputs(n))
             v  == Unread(x, Inputs(n))
             w  == Total(Loads(args, gs))
  <1>1. /\ x \in Activation /\ Within_(x, Inputs(n)) /\ v \in Nat /\ u \in Nat /\ v + 2 <= u
    BY AdvancedFacts
  <1>2. /\ gs \in Seq(Activation) /\ Len(gs) = n /\ Placed(args, gs) /\ w \in Nat
        /\ Total(Loads(args, frames)) = w + 2 * u - 2 * v
    <2> HIDE DEF x
    <2>1. QED
      BY <1>1, ChainReplaced
  <1>3. Work = Total(Loads(args, frames))
    <2>1. Total(Loads(args, frames)) \in Int
      BY <1>1, <1>2
    <2>2. QED
      BY <2>1, WorkNow
  <1>4. frames' = gs /\ args' = args
    OBVIOUS
  <1>5. Work' = w + (IF pc' = "back" THEN 1 ELSE 0)
    BY <1>4, WorkNext, Zenon
  <1>6. Walking'
    <2> HIDE DEF gs
    <2>1. args \in Seq(Byte) \X Seq(Byte) /\ memory \in BOOLEAN
          /\ first \in Seq([order : {-1, 0, 1}, err : BOOLEAN])
      BY DEF Walking, TypeOK
    <2>2. TypeOK'
      BY <1>2, <1>4, <2>1 DEF TypeOK, Activation, Sign
    <2>3. DepthBounded'
      BY <1>2, <1>4 DEF Walking, DepthBounded
    <2>4. Placed(args, frames)'
      BY <1>2, <1>4, Zenon
    <2>5. QED
      BY <2>2, <2>3, <2>4 DEF Walking
  <1> HIDE DEF u, v, w, gs
  <1>7. QED
    BY <1>1, <1>2, <1>3, <1>5, <1>6

(* It goes on behind two containers and calls itself for their contents.   *)
LEMMA EnterStep ==
    ASSUME Walking, Len(frames) > 0, pc = "loop", NEW r, r = <<Read(1), Read(2)>>, Both(r, {1}),
           SameContainer(r[1].el, r[2].el), ~(Depth + 1 > MaxDepth),
           frames' = Front(frames) \o <<Advanced(r), Entered>>, pc' = "loop",
           order' = 0, err' = err, UNCHANGED <<args, memory, first>>
    PROVE  Walking' /\ Work' < Work
  <1> DEFINE n  == Len(frames)
             x  == Advanced(r)
             gs == Front(frames) \o <<x>>
             hs == Front(frames) \o <<x, Entered>>
             u  == Unread(frames[n], Inputs(n))
             v  == Unread(x, Inputs(n))
             w  == Total(Loads(args, gs))
             l1 == Len(x.scratch[1])
             l2 == Len(x.scratch[2])
  <1>1. /\ x \in Activation /\ Within_(x, Inputs(n)) /\ v \in Nat /\ u \in Nat /\ v + 2 <= u
        /\ v + l1 + l2 + 4 <= u
    BY AdvancedFacts
  <1>2. /\ gs \in Seq(Activation) /\ Len(gs) = n /\ Placed(args, gs) /\ gs[n] = x /\ w \in Nat
        /\ Total(Loads(args, frames)) = w + 2 * u - 2 * v
    <2> HIDE DEF x
    <2>1. QED
      BY <1>1, ChainReplaced
  <1>3. l1 \in Nat /\ l2 \in Nat
    <2> HIDE DEF x
    <2>1. x.scratch[1] \in Seq(Byte) /\ x.scratch[2] \in Seq(Byte)
      BY <1>1 DEF Activation
    <2>2. QED
      BY <2>1, LenProperties
  <1>4. Entered \in Activation /\ Entered.pos[1] = 0 /\ Entered.pos[2] = 0
    BY EmptySeq DEF Entered, Activation
  <1>5. frames \in Seq(Activation) /\ n \in Nat /\ args \in Seq(Byte) \X Seq(Byte)
    BY WalkFacts
  <1>6. hs \in Seq(Activation) /\ Len(hs) = n + 1 /\ (\A i \in 1..n : hs[i] = gs[i]) /\ hs[n + 1] = Entered
    <2> HIDE DEF x
    <2>1. x \in Activation /\ Entered \in Activation /\ frames \in Seq(Activation) /\ Len(frames) > 0
      BY <1>1, <1>4, <1>5
    <2>2. QED
      BY <2>1, Deeper, SMTT(30)
  <1>7. frames' = hs /\ args' = args
    OBVIOUS
  <1>8. n <= MaxDepth
    BY <1>5, DepthAssumption DEF Depth
  <1> HIDE DEF x, gs, hs
  <1>9. InputsOf(args, hs, n + 1) = x.scratch
    <2>1. n + 1 # 1 /\ n + 1 - 1 = n /\ n \in 1..n
      BY <1>5
    <2>2. InputsOf(args, hs, n + 1) = hs[n + 1 - 1].scratch
      BY <2>1 DEF InputsOf
    <2>3. QED
      BY <1>2, <1>6, <2>1, <2>2
  <1>10. Len(hs) = Len(gs) + 1 /\ (\A i \in 1..Len(gs) : hs[i] = gs[i]) /\ Len(hs) = n + 1
    BY <1>2, <1>6
  <1>11. Within_(hs[n + 1], InputsOf(args, hs, n + 1))
    <2>1. 0 <= l1 /\ 0 <= l2
      BY <1>3
    <2>2. QED
      BY <1>4, <1>6, <1>9, <2>1, Zenon DEF Within_
  <1>12. Placed(args, hs)
    <2>1. Placed(args, hs) <=> Placed(args, gs) /\ Within_(hs[Len(hs)], InputsOf(args, hs, Len(hs)))
      BY <1>2, <1>5, <1>6, <1>10, OneActivationMore
    <2>2. QED
      BY <1>2, <1>10, <1>11, <2>1
  <1>13. Load(args, hs, n + 1) = 2 * (l1 + l2) + 2
    <2>1. Load(args, hs, n + 1) = 2 * (l1 - 0 + l2 - 0) + 2
      BY <1>4, <1>6, <1>9, Zenon DEF Load, Unread
    <2> HIDE DEF l1, l2
    <2>2. QED
      BY <1>3, <2>1
  <1>14. Total(Loads(args, hs)) = w + (2 * (l1 + l2) + 2)
    <2>1. Total(Loads(args, hs)) = w + Load(args, hs, Len(hs))
      BY <1>2, <1>5, <1>6, <1>10, <1>12, OneActivationMore
    <2>2. QED
      BY <1>10, <1>13, <2>1
  <1>15. Work = Total(Loads(args, frames))
    <2> HIDE DEF u, v, w
    <2>1. Total(Loads(args, frames)) \in Int
      BY <1>1, <1>2
    <2>2. QED
      BY <2>1, WorkNow
  <1>16. Work' = Total(Loads(args, hs))
    <2>1. Work' = Total(Loads(args, hs)) + 0
      BY <1>7, WorkNext, Zenon
    <2> HIDE DEF w, l1, l2
    <2>2. QED
      BY <1>2, <1>3, <1>14, <2>1
  <1>17. Walking'
    <2>1. args \in Seq(Byte) \X Seq(Byte) /\ memory \in BOOLEAN /\ err \in BOOLEAN
          /\ first \in Seq([order : {-1, 0, 1}, err : BOOLEAN])
      BY DEF Walking, TypeOK
    <2>2. TypeOK'
      BY <1>6, <1>7, <2>1 DEF TypeOK, Activation
    <2>3. DepthBounded'
      BY <1>5, <1>6, <1>7, <1>8, DepthAssumption DEF DepthBounded
    <2>4. Placed(args, frames)'
      BY <1>7, <1>12, Zenon
    <2>5. QED
      BY <2>2, <2>3, <2>4 DEF Walking
  <1> HIDE DEF u, v, w, l1, l2
  <1>18. w + (2 * (l1 + l2) + 2) < w + 2 * u - 2 * v
    BY <1>1, <1>2, <1>3
  <1>19. QED
    BY <1>2, <1>14, <1>15, <1>16, <1>17, <1>18

-----------------------------------------------------------------------------
(* Before the first element is read there is one activation.               *)
LEMMA OneEntered ==
    ASSUME NEW a \in Seq(Byte) \X Seq(Byte)
    PROVE  <<Entered>> \in Seq(Activation) /\ Len(<<Entered>>) = 1 /\ Placed(a, <<Entered>>)
  <1>1. Entered \in Activation /\ Entered.pos[1] = 0 /\ Entered.pos[2] = 0
    BY EmptySeq DEF Entered, Activation
  <1> DEFINE e == Entered
  <1> HIDE DEF e
  <1>2. <<e>> \in Seq(Activation) /\ Len(<<e>>) = 1 /\ <<e>>[1] = e
    BY <1>1 DEF e
  <1>3. Within_(e, a)
    <2>1. a[1] \in Seq(Byte) /\ a[2] \in Seq(Byte)
      OBVIOUS
    <2>2. 0 <= Len(a[1]) /\ 0 <= Len(a[2])
      BY <2>1, LenProperties
    <2>3. QED
      BY <1>1, <2>2, Zenon DEF Within_, e
  <1>4. \A i \in 1..1 : Within_(<<e>>[i], InputsOf(a, <<e>>, i))
    <2>1. \A i \in 1..1 : i = 1
      OBVIOUS
    <2>2. QED
      BY <1>2, <1>3, <2>1 DEF InputsOf
  <1>5. QED
    BY <1>2, <1>4 DEF Placed, e

LEMMA InitWalking == Init => Walking
  <1> SUFFICES ASSUME Init PROVE Walking
    OBVIOUS
  <1>1. /\ args \in Seq(Byte) \X Seq(Byte) /\ frames = <<Entered>> /\ pc = "loop" /\ order = 0
        /\ err = FALSE /\ memory = TRUE /\ first = <<>>
    BY ArgumentAssumption DEF Init
  <1>2. frames \in Seq(Activation) /\ Len(frames) = 1 /\ Placed(args, frames)
    BY <1>1, OneEntered
  <1>3. first \in Seq([order : {-1, 0, 1}, err : BOOLEAN])
    BY <1>1, EmptySeq
  <1> DEFINE Answers == Seq([order : {-1, 0, 1}, err : BOOLEAN])
  <1>4. TypeOK
    <2> HIDE DEF Answers
    <2>1. first \in Answers
      BY <1>3 DEF Answers
    <2>2. frames \in Seq([pos : Nat \X Nat, scratch : Seq(Byte) \X Seq(Byte)])
      BY <1>2 DEF Activation
    <2>3. order \in {-1, 0, 1} /\ pc \in {"loop", "back", "done"} /\ err \in BOOLEAN /\ memory \in BOOLEAN
      BY <1>1
    <2>4. QED
      BY <1>1, <2>1, <2>2, <2>3, Zenon DEF TypeOK, Answers
  <1>5. DepthBounded
    BY <1>2, DepthAssumption DEF DepthBounded
  <1>6. QED
    BY <1>2, <1>4, <1>5 DEF Walking

LEMMA WalkStepWorks ==
    ASSUME Walking, WalkStep
    PROVE  Walking' /\ Work' < Work
  <1>1. pc # "done" => Len(frames) > 0
    BY DEF Walking, DepthBounded
  <1>2. order \in Sign /\ err \in BOOLEAN /\ memory \in BOOLEAN /\ frames \in Seq(Activation)
    BY DEF Walking, TypeOK, Sign, Activation
  <1>3. 0 \in Sign
    BY DEF Sign
  <1>4. CASE Malformed
    <2>1. Leave(0, TRUE) /\ Len(frames) > 0 /\ UNCHANGED <<args, memory, first>>
      BY <1>1, <1>4 DEF Malformed
    <2>2. QED
      BY <1>2, <1>3, <2>1, LeaveStep
  <1>5. CASE Ended
    <2>1. /\ Len(frames) > 0 /\ UNCHANGED <<args, memory, first>>
          /\ \E r \in {<<Read(1), Read(2)>>} : Leave(SignOf(r[1].rc - r[2].rc), err)
      BY <1>1, <1>5 DEF Ended
    <2>2. PICK o \in Sign : Leave(o, err)
      BY <2>1, SignOfSign, Zenon
    <2>3. QED
      BY <1>2, <2>1, <2>2, LeaveStep
  <1>6. CASE ComparedElements
    <2>1. pc = "loop" /\ Len(frames) > 0 /\ UNCHANGED <<args, memory, first>>
      BY <1>1, <1>6 DEF ComparedElements
    <2>2. PICK r \in {<<Read(1), Read(2)>>} :
            /\ Both(r, {1})
            /\ ~SameContainer(r[1].el, r[2].el)
            /\ \E c \in {ElementOrder(r[1].el, r[2].el)} :
                  IF c # 0 THEN Leave(c, err)
                  ELSE /\ frames' = Front(frames) \o <<Advanced(r)>>
                       /\ UNCHANGED <<pc, order, err>>
      BY <1>6 DEF ComparedElements
    <2>3. r = <<Read(1), Read(2)>>
      BY <2>2
    <2>4. PICK c \in {ElementOrder(r[1].el, r[2].el)} :
            IF c # 0 THEN Leave(c, err)
            ELSE /\ frames' = Front(frames) \o <<Advanced(r)>>
                 /\ UNCHANGED <<pc, order, err>>
      BY <2>2
    <2>5. CASE c # 0
      <3>1. r[1] = Read(1) /\ r[2] = Read(2) /\ r[1].rc = 1 /\ r[2].rc = 1
        BY <2>2, <2>3 DEF Both
      <3>2. r[1].el \in Encodable /\ r[2].el \in Encodable
        BY <2>1, <3>1, ReadFacts
      <3>3. c \in Sign
        BY <2>2, <2>4, <3>2, ElementOrderSign
      <3>4. QED
        BY <1>2, <2>1, <2>4, <2>5, <3>3, LeaveStep
    <2>6. CASE c = 0
      <3>1. frames' = Front(frames) \o <<Advanced(r)>> /\ pc' = pc /\ order' = order /\ err' = err
        BY <2>4, <2>6
      <3>2. QED
        BY <1>2, <2>1, <2>2, <2>3, <3>1, GoOnStep
    <2>7. QED
      BY <2>5, <2>6
  <1>7. CASE OutOfMemory
    <2>1. Leave(0, TRUE) /\ Len(frames) > 0 /\ args' = args /\ first' = first /\ memory' = FALSE
      BY <1>1, <1>7 DEF OutOfMemory
    <2>2. QED
      BY <1>2, <1>3, <2>1, LeaveStep
  <1>8. CASE Descend
    <2>1. pc = "loop" /\ Len(frames) > 0 /\ order' = 0 /\ UNCHANGED <<args, memory, first>>
      BY <1>1, <1>8 DEF Descend
    <2>2. PICK r \in {<<Read(1), Read(2)>>} :
            /\ Both(r, {1})
            /\ SameContainer(r[1].el, r[2].el)
            /\ IF Depth + 1 > MaxDepth
               THEN /\ frames' = Front(frames) \o <<Advanced(r)>>
                    /\ pc' = "back"
                    /\ err' = TRUE
               ELSE /\ frames' = Front(frames) \o <<Advanced(r), Entered>>
                    /\ UNCHANGED <<pc, err>>
      BY <1>8 DEF Descend
    <2>3. r = <<Read(1), Read(2)>>
      BY <2>2
    <2>4. CASE Depth + 1 > MaxDepth
      <3>1. frames' = Front(frames) \o <<Advanced(r)>> /\ pc' = "back" /\ err' = TRUE
        BY <2>2, <2>4
      <3>2. QED
        BY <1>3, <2>1, <2>2, <2>3, <3>1, GoOnStep
    <2>5. CASE ~(Depth + 1 > MaxDepth)
      <3>1. frames' = Front(frames) \o <<Advanced(r), Entered>> /\ pc' = "loop" /\ err' = err
        BY <2>1, <2>2, <2>5
      <3>2. QED
        BY <2>1, <2>2, <2>3, <2>5, <3>1, EnterStep
    <2>6. QED
      BY <2>4, <2>5
  <1>9. CASE Resume
    <2>1. pc = "back" /\ Len(frames) > 0 /\ UNCHANGED <<args, memory, first>>
      BY <1>1, <1>9 DEF Resume
    <2>2. CASE err \/ order # 0
      <3>1. Leave(order, err)
        BY <1>9, <2>2 DEF Resume
      <3>2. QED
        BY <1>2, <2>1, <3>1, LeaveStep
    <2>3. CASE ~(err \/ order # 0)
      <3>1. frames' = frames /\ pc' = "loop" /\ order' = order /\ err' = err
        BY <1>9, <2>3 DEF Resume
      <3>2. Walking'
        <4>1. TypeOK'
          BY <2>1, <3>1 DEF Walking, TypeOK
        <4>2. DepthBounded'
          BY <2>1, <3>1 DEF Walking, DepthBounded
        <4>3. Placed(args, frames)'
          BY <2>1, <3>1, Zenon DEF Walking
        <4>4. QED
          BY <4>1, <4>2, <4>3 DEF Walking
      <3>3. Work' < Work
        <4> DEFINE w == Total(Loads(args, frames))
        <4>1. w \in Nat
          <5>1. Loads(args, frames) \in Seq(Nat)
            BY WalkFacts, LoadsTyped
          <5>2. Len(Loads(args, frames)) \in Nat
            BY <5>1, LenProperties
          <5>3. PICK v : w = v[Len(Loads(args, frames))]
                         /\ \A n \in 0..Len(Loads(args, frames)) : v[n] \in Nat
            BY <5>1, TotalIsSum
          <5>4. QED
            BY <5>2, <5>3
        <4>2. Work = w + 1 /\ Work' = w + 0
          <5>1. frames' = frames /\ args' = args /\ pc = "back" /\ pc' # "back"
            BY <2>1, <3>1
          <5>2. QED
            BY <5>1, WorkNow, WorkNext, Zenon
        <4> HIDE DEF w
        <4>3. QED
          BY <4>1, <4>2
      <3>4. QED
        BY <3>2, <3>3
    <2>4. QED
      BY <2>2, <2>3
  <1>10. QED
    BY <1>4, <1>5, <1>6, <1>7, <1>8, <1>9 DEF WalkStep

LEMMA ExchangeStep ==
    ASSUME Walking, Exchange
    PROVE  Walking' /\ first' # first
  <1>1. /\ first = <<>> /\ first' = <<[order |-> order, err |-> err]>> /\ args' = <<args[2], args[1]>>
        /\ frames' = <<Entered>> /\ pc' = "loop" /\ order' = 0 /\ err' = FALSE /\ memory' = memory
    BY DEF Exchange
  <1>2. args \in Seq(Byte) \X Seq(Byte) /\ memory \in BOOLEAN /\ order \in {-1, 0, 1} /\ err \in BOOLEAN
    BY DEF Walking, TypeOK
  <1>3. args' \in Seq(Byte) \X Seq(Byte)
    BY <1>1, <1>2
  <1>4. frames' \in Seq(Activation) /\ Len(frames') = 1 /\ Placed(args', frames')
    BY <1>1, <1>3, OneEntered
  <1>5. first' \in Seq([order : {-1, 0, 1}, err : BOOLEAN]) /\ first' # first
    <2> DEFINE R == [order : {-1, 0, 1}, err : BOOLEAN]
               x == [order |-> order, err |-> err]
    <2>1. x \in R
      BY <1>2
    <2> HIDE DEF x, R
    <2>2. <<x>> \in Seq(R) /\ <<x>> # <<>>
      BY <2>1
    <2>3. QED
      BY <1>1, <2>2 DEF x, R
  <1>6. TypeOK'
    BY <1>1, <1>2, <1>3, <1>4, <1>5 DEF TypeOK, Activation
  <1>7. DepthBounded'
    BY <1>4, DepthAssumption DEF DepthBounded
  <1>8. QED
    BY <1>4, <1>5, <1>6, <1>7 DEF Walking

LEMMA StutterWalking ==
    ASSUME Walking, UNCHANGED vars
    PROVE  Walking'
  <1>1. TypeOK'
    BY DEF Walking, TypeOK, vars
  <1>2. DepthBounded'
    BY DEF Walking, DepthBounded, vars
  <1>3. Placed(args, frames)'
    <2>1. args' = args /\ frames' = frames
      BY DEF vars
    <2>2. QED
      BY <2>1, Zenon DEF Walking
  <1>4. QED
    BY <1>1, <1>2, <1>3 DEF Walking

LEMMA NextWalking == Walking /\ [SemanticNext]_vars => Walking'
  BY WalkStepWorks, ExchangeStep, StutterWalking DEF SemanticNext, Finished

-----------------------------------------------------------------------------
(* Folds.  A fold goes through the set of positions of a sequence: each    *)
(* pick leaves one fewer, and what a turn keeps the whole keeps.           *)
Positions(n) == SUBSET (1..n)
Picks(n, pick) == \A s \in Positions(n) : s # {} => pick[s] \in s

LEMMA PickShrinks ==
    ASSUME NEW n \in Nat, NEW pick, Picks(n, pick)
    PROVE  Shrinks(Positions(n), [s \in Positions(n) |-> Cardinality(s)],
                   [s \in Positions(n) |-> s = {}], [s \in Positions(n) |-> s \ {pick[s]}])
  <1> DEFINE D    == Positions(n)
             size == [s \in D |-> Cardinality(s)]
             stop == [s \in D |-> s = {}]
             rest == [s \in D |-> s \ {pick[s]}]
  <1>1. \A s \in D : IsFiniteSet(s) /\ Cardinality(s) \in Nat
    <2>1. IsFiniteSet(1..n)
      BY FS_Interval
    <2>2. \A s \in D : IsFiniteSet(s)
      BY <2>1, FS_Subset DEF Positions
    <2>3. QED
      BY <2>2, FS_CardinalityType
  <1>2. \A s \in D : size[s] = Cardinality(s) /\ (stop[s] <=> s = {}) /\ rest[s] = s \ {pick[s]}
    OBVIOUS
  <1>3. ASSUME NEW s \in D, s # {}
        PROVE  rest[s] \in D /\ size[rest[s]] < size[s]
    <2>1. pick[s] \in s
      BY <1>3 DEF Picks
    <2>2. rest[s] \in D
      BY <1>2 DEF Positions
    <2>3. Cardinality(s \ {pick[s]}) = Cardinality(s) - 1
      BY <1>1, <2>1, FS_RemoveElement
    <2>4. size[rest[s]] = Cardinality(s \ {pick[s]}) /\ size[s] = Cardinality(s) /\ Cardinality(s) \in Nat
      <3> HIDE DEF D, size, rest
      <3>1. QED
        BY <1>1, <1>2, <2>2
    <2> HIDE DEF size, rest
    <2>5. QED
      BY <2>2, <2>3, <2>4
  <1>4. size \in [D -> Nat]
    BY <1>1
  <1> HIDE DEF D, size, stop, rest
  <1>5. Shrinks(D, size, stop, rest)
    BY <1>2, <1>3, <1>4 DEF Shrinks
  <1>6. QED
    BY <1>5 DEF D, size, stop, rest

(* The fold of turn over the positions, wherever turn stays in V.          *)
Turns(n, V, turn) == \A i \in 1..n, v \in V : turn[<<i, v>>] \in V

IsFold(f, n, V, pick, start, turn) ==
    /\ f \in [Positions(n) -> V]
    /\ \A s \in Positions(n) : f[s] = IF s = {} THEN start ELSE turn[<<pick[s], f[s \ {pick[s]}]>>]

LEMMA FoldExists ==
    ASSUME NEW n \in Nat, NEW pick, Picks(n, pick), NEW V, NEW start \in V, NEW turn, Turns(n, V, turn)
    PROVE  \E f : IsFold(f, n, V, pick, start, turn)
  <1> DEFINE D    == Positions(n)
             size == [s \in D |-> Cardinality(s)]
             stop == [s \in D |-> s = {}]
             rest == [s \in D |-> s \ {pick[s]}]
             base == [s \in D |-> start]
             step == [p \in D \X V |-> IF p[1] = {} THEN start ELSE turn[<<pick[p[1]], p[2]>>]]
  <1>1. Shrinks(D, size, stop, rest)
    BY PickShrinks
  <1>2. \A s \in D : (stop[s] <=> s = {}) /\ rest[s] = s \ {pick[s]} /\ base[s] = start
    OBVIOUS
  <1>3. ASSUME NEW s \in D, NEW v \in V, s # {}
        PROVE  turn[<<pick[s], v>>] \in V
    <2>1. pick[s] \in 1..n
      BY <1>3 DEF Picks, Positions
    <2>2. QED
      BY <2>1 DEF Turns
  <1>4. \A s \in D, v \in V : step[<<s, v>>] = IF s = {} THEN start ELSE turn[<<pick[s], v>>]
    <2> TAKE s \in D, v \in V
    <2>1. <<s, v>> \in D \X V
      OBVIOUS
    <2>2. QED
      BY <2>1
  <1>5. base \in [D -> V] /\ step \in [D \X V -> V]
    <2>1. ASSUME NEW p \in D \X V
          PROVE  (IF p[1] = {} THEN start ELSE turn[<<pick[p[1]], p[2]>>]) \in V
      <3>1. p[1] \in D /\ p[2] \in V
        OBVIOUS
      <3>2. QED
        BY <1>3, <3>1
    <2>2. QED
      BY <2>1
  <1> HIDE DEF D, size, stop, rest, base, step
  <1>6. Typed(D, V, base, step)
    BY <1>5 DEF Typed
  <1>7. PICK f \in [D -> V] : IsSteps(f, D, stop, base, step, rest)
    BY <1>1, <1>6, Recursion
  <1>8. \A s \in D : f[s] = IF stop[s] THEN base[s] ELSE step[<<s, f[rest[s]]>>]
    BY <1>1, <1>6, <1>7, StepsTyped
  <1>9. ASSUME NEW s \in D
        PROVE  f[s] = IF s = {} THEN start ELSE turn[<<pick[s], f[s \ {pick[s]}]>>]
    <2>1. CASE s = {}
      BY <1>2, <1>8, <2>1
    <2>2. CASE s # {}
      <3>1. rest[s] \in D
        BY <1>1, <1>2, <2>2 DEF Shrinks
      <3>2. f[rest[s]] \in V
        BY <3>1
      <3>3. f[s] = step[<<s, f[rest[s]]>>]
        BY <1>2, <1>8, <2>2
      <3>4. step[<<s, f[rest[s]]>>] = turn[<<pick[s], f[rest[s]]>>]
        BY <1>4, <2>2, <3>2, Zenon
      <3>5. QED
        BY <1>2, <2>2, <3>3, <3>4
    <2>3. QED
      BY <2>1, <2>2
  <1>10. QED
    BY <1>9 DEF D, IsFold

(* What holds of no position, and of one more, holds of them all.          *)
LEMMA FoldInduction ==
    ASSUME NEW n \in Nat, NEW pick, Picks(n, pick), NEW P,
           \A s \in Positions(n) : s = {} \/ s \ {pick[s]} \in P => s \in P
    PROVE  1..n \in P
  <1> DEFINE size == [s \in Positions(n) |-> Cardinality(s)]
             stop == [s \in Positions(n) |-> s = {}]
             rest == [s \in Positions(n) |-> s \ {pick[s]}]
  <1>1. \A s \in Positions(n) : stop[s] \/ rest[s] \in P => s \in P
    OBVIOUS
  <1>2. Shrinks(Positions(n), size, stop, rest)
    BY PickShrinks
  <1> HIDE DEF size, stop, rest
  <1>3. Positions(n) \subseteq P
    BY <1>1, <1>2, SizeInduction
  <1>4. QED
    BY <1>3 DEF Positions

LEMMA PickMost ==
    ASSUME NEW n \in Nat
    PROVE  /\ Picks(n, [s \in Positions(n) |-> Max(s)])
           /\ Picks(n, [s \in Positions(n) |-> Min(s)])
  <1>1. ASSUME NEW s \in Positions(n), s # {}
        PROVE  Min(s) \in s
    <2>1. s \in SUBSET Nat
      BY DEF Positions
    <2>2. \E x \in s : \A y \in s : x <= y
      BY <1>1, <2>1, FirstOfProperties
    <2>3. QED
      BY <2>2 DEF Min
  <1>2. ASSUME NEW s \in Positions(n), s # {}
        PROVE  Max(s) \in s
    <2> DEFINE T == {n - i : i \in s}
    <2>1. \A i \in s : i \in 1..n
      BY DEF Positions
    <2>2. T \in SUBSET Nat /\ T # {}
      BY <1>2, <2>1
    <2>3. FirstOf(T) \in T /\ \A j \in T : FirstOf(T) <= j
      BY <2>2, FirstOfProperties
    <2>4. PICK x \in s : FirstOf(T) = n - x
      BY <2>3
    <2>5. \A y \in s : n - x <= n - y
      BY <2>3, <2>4
    <2>6. \A y \in s : x >= y
      BY <2>1, <2>5
    <2>7. QED
      BY <2>6 DEF Max
  <1>3. QED
    BY <1>1, <1>2 DEF Picks

-----------------------------------------------------------------------------
(* Magnitudes are byte strings, whatever they are multiplied by.           *)
Products == [carry : Nat, out : Seq(Byte)]

MulTurn(m, b, acc) == [carry |-> (b * m + acc.carry) \div 256,
                       out   |-> <<(b * m + acc.carry) % 256>> \o acc.out]

LEMMA MulTurnTyped ==
    ASSUME NEW m \in Nat, NEW b \in Byte, NEW acc \in Products
    PROVE  MulTurn(m, b, acc) \in Products
  <1> DEFINE x == b * m + acc.carry
             z == x % 256
             q == x \div 256
  <1>1. b \in Nat /\ acc.carry \in Nat /\ acc.out \in Seq(Byte)
    BY DEF Byte, Products
  <1>2. b * m \in Nat
    BY <1>1
  <1>3. x \in Nat
    BY <1>1, <1>2
  <1> HIDE DEF x
  <1>4. q \in Nat /\ z \in Byte
    BY <1>3 DEF Byte
  <1> HIDE DEF q, z
  <1>5. <<z>> \o acc.out \in Seq(Byte)
    BY <1>1, <1>4
  <1>6. MulTurn(m, b, acc) = [carry |-> q, out |-> <<z>> \o acc.out]
    BY Zenon DEF MulTurn, q, z, x
  <1>7. QED
    BY <1>4, <1>5, <1>6 DEF Products

(* The pass of MulAdd from the last byte to the first.                     *)
IsPass(g, mag, m, c) ==
    g = [s \in SUBSET (DOMAIN mag) |->
           IF s = {} THEN [carry |-> c, out |-> <<>>] ELSE MulTurn(m, mag[Min(s)], g[s \ {Min(s)}])]

LEMMA MulAddPass ==
    ASSUME NEW mag, NEW m, NEW c, NEW g, IsPass(g, mag, m, c)
    PROVE  \E h : /\ IsPass(h, mag, m, c)
                  /\ MulAdd(mag, m, c) = ToBE(h[DOMAIN mag].carry) \o h[DOMAIN mag].out
  <1> DEFINE h == CHOOSE h : h = [s \in SUBSET (DOMAIN mag) |->
                    IF s = {} THEN [carry |-> c, out |-> <<>>] ELSE MulTurn(m, mag[Min(s)], h[s \ {Min(s)}])]
  <1>1. h = [s \in SUBSET (DOMAIN mag) |->
               IF s = {} THEN [carry |-> c, out |-> <<>>] ELSE MulTurn(m, mag[Min(s)], h[s \ {Min(s)}])]
    BY Zenon DEF IsPass
  <1>2. MulAdd(mag, m, c) = ToBE(h[DOMAIN mag].carry) \o h[DOMAIN mag].out
    BY Zenon DEF MulAdd, FoldRight, MapThenFoldSet, MulTurn
  <1> HIDE DEF h
  <1>3. IsPass(h, mag, m, c)
    BY <1>1, Zenon DEF IsPass
  <1>4. QED
    BY <1>2, <1>3

LEMMA MulAddTyped ==
    ASSUME NEW mag \in Seq(Byte), NEW m \in Nat, NEW c \in Nat
    PROVE  MulAdd(mag, m, c) \in Seq(Byte)
  <1> DEFINE n     == Len(mag)
             start == [carry |-> c, out |-> <<>>]
  <1>0. PICK pick, turn : /\ pick = [s \in Positions(n) |-> Min(s)]
                          /\ turn = [p \in (1..n) \X Products |-> MulTurn(m, mag[p[1]], p[2])]
    OBVIOUS
  <1>1. n \in Nat /\ DOMAIN mag = 1..n /\ \A i \in 1..n : mag[i] \in Byte
    BY LenProperties
  <1>2. Picks(n, pick)
    BY <1>0, <1>1, PickMost
  <1>3. start \in Products
    BY EmptySeq DEF Products
  <1>4. \A i \in 1..n, v \in Products : turn[<<i, v>>] = MulTurn(m, mag[i], v) /\ turn[<<i, v>>] \in Products
    <2> TAKE i \in 1..n, v \in Products
    <2>1. <<i, v>> \in (1..n) \X Products
      OBVIOUS
    <2>2. turn[<<i, v>>] = MulTurn(m, mag[i], v)
      BY <1>0, <2>1
    <2>3. QED
      BY <1>1, <2>2, MulTurnTyped
  <1>5. \A s \in Positions(n) : pick[s] = Min(s)
    BY <1>0
  <1> HIDE DEF n, start
  <1>6. Turns(n, Products, turn)
    BY <1>4 DEF Turns
  <1>7. PICK f \in [Positions(n) -> Products] : \A s \in Positions(n) :
          f[s] = IF s = {} THEN start ELSE turn[<<pick[s], f[s \ {pick[s]}]>>]
    <2>1. PICK f : IsFold(f, n, Products, pick, start, turn)
      BY <1>1, <1>2, <1>3, <1>6, FoldExists
    <2>2. QED
      BY <2>1 DEF IsFold
  <1>8. ASSUME NEW s \in Positions(n), s # {}
        PROVE  Min(s) \in 1..n /\ s \ {Min(s)} \in Positions(n)
    BY <1>2, <1>5, <1>8 DEF Picks, Positions
  <1>9. ASSUME NEW s \in Positions(n)
        PROVE  f[s] = IF s = {} THEN start ELSE MulTurn(m, mag[Min(s)], f[s \ {Min(s)}])
    <2>1. CASE s = {}
      BY <1>7, <2>1
    <2>2. CASE s # {}
      <3>1. f[s \ {Min(s)}] \in Products
        BY <1>8, <2>2
      <3>2. f[s] = turn[<<Min(s), f[s \ {Min(s)}]>>]
        BY <1>5, <1>7, <2>2
      <3>3. QED
        BY <1>4, <1>8, <2>2, <3>1, <3>2
    <2>3. QED
      BY <2>1, <2>2
  <1>10. IsPass(f, mag, m, c)
    <2>1. f = [s \in Positions(n) |-> f[s]]
      OBVIOUS
    <2>2. f = [s \in Positions(n) |-> IF s = {} THEN start ELSE MulTurn(m, mag[Min(s)], f[s \ {Min(s)}])]
      BY <1>9, <2>1
    <2>3. QED
      BY <1>1, <2>2, Zenon DEF IsPass, Positions, start
  <1>11. PICK h : /\ IsPass(h, mag, m, c)
                  /\ MulAdd(mag, m, c) = ToBE(h[DOMAIN mag].carry) \o h[DOMAIN mag].out
    BY <1>10, MulAddPass
  <1>12. \A s \in Positions(n) : h[s] = IF s = {} THEN start ELSE MulTurn(m, mag[Min(s)], h[s \ {Min(s)}])
    BY <1>1, <1>11, Zenon DEF IsPass, Positions, start
  <1> DEFINE P == {s \in Positions(n) : h[s] \in Products}
  <1>13. ASSUME NEW s \in Positions(n), s = {} \/ s \ {pick[s]} \in P
         PROVE  s \in P
    <2>1. CASE s = {}
      BY <1>3, <1>12, <2>1
    <2>2. CASE s # {}
      <3>1. h[s \ {Min(s)}] \in Products
        BY <1>5, <1>13, <2>2
      <3>2. mag[Min(s)] \in Byte
        BY <1>1, <1>8, <2>2
      <3>3. MulTurn(m, mag[Min(s)], h[s \ {Min(s)}]) \in Products
        BY <3>1, <3>2, MulTurnTyped
      <3>4. QED
        BY <1>12, <2>2, <3>3
    <2>3. QED
      BY <2>1, <2>2
  <1> HIDE DEF P
  <1>15. 1..n \in P
    BY <1>1, <1>2, <1>13, FoldInduction
  <1>16. h[DOMAIN mag] \in Products
    BY <1>1, <1>15 DEF P
  <1>17. ToBE(h[DOMAIN mag].carry) \in Seq(Byte) /\ h[DOMAIN mag].out \in Seq(Byte)
    BY <1>16, ToBEBytes DEF Products
  <1>18. QED
    BY <1>11, <1>17, ConcatProperties

(* The digits of a decimal, one multiplication each.                       *)
IsRun(g, digits) ==
    g = [s \in SUBSET (DOMAIN digits) |->
           IF s = {} THEN <<>> ELSE MulAdd(g[s \ {Max(s)}], 10, digits[Max(s)])]

LEMMA DigitsRun ==
    ASSUME NEW digits, NEW g, IsRun(g, digits)
    PROVE  \E h : IsRun(h, digits) /\ DigitsToMag(digits) = h[DOMAIN digits]
  <1> DEFINE h == CHOOSE h : h = [s \in SUBSET (DOMAIN digits) |->
                    IF s = {} THEN <<>> ELSE MulAdd(h[s \ {Max(s)}], 10, digits[Max(s)])]
  <1>1. h = [s \in SUBSET (DOMAIN digits) |->
               IF s = {} THEN <<>> ELSE MulAdd(h[s \ {Max(s)}], 10, digits[Max(s)])]
    BY Zenon DEF IsRun
  <1>2. DigitsToMag(digits) = h[DOMAIN digits]
    BY Zenon DEF DigitsToMag, FoldLeft, MapThenFoldSet
  <1> HIDE DEF h
  <1>3. IsRun(h, digits)
    BY <1>1, Zenon DEF IsRun
  <1>4. QED
    BY <1>2, <1>3

LEMMA DigitsToMagTyped ==
    ASSUME NEW digits \in Seq(0..9)
    PROVE  DigitsToMag(digits) \in Seq(Byte)
  <1> DEFINE n == Len(digits)
             V == Seq(Byte)
             none == <<>>
  <1>0. PICK pick, turn : /\ pick = [s \in Positions(n) |-> Max(s)]
                          /\ turn = [p \in (1..n) \X V |-> MulAdd(p[2], 10, digits[p[1]])]
    OBVIOUS
  <1>1. n \in Nat /\ DOMAIN digits = 1..n /\ \A i \in 1..n : digits[i] \in Nat
    BY LenProperties
  <1>2. Picks(n, pick)
    BY <1>0, <1>1, PickMost
  <1>3. none \in V
    BY EmptySeq
  <1>4. \A i \in 1..n, v \in V : turn[<<i, v>>] = MulAdd(v, 10, digits[i]) /\ MulAdd(v, 10, digits[i]) \in V
    <2> TAKE i \in 1..n, v \in V
    <2>1. <<i, v>> \in (1..n) \X V
      OBVIOUS
    <2>2. turn[<<i, v>>] = MulAdd(v, 10, digits[i])
      BY <1>0, <2>1
    <2>3. QED
      BY <1>1, <2>2, MulAddTyped
  <1>5. \A s \in Positions(n) : pick[s] = Max(s)
    BY <1>0
  <1> HIDE DEF n, V, none
  <1>6. Turns(n, V, turn)
    BY <1>4 DEF Turns
  <1>7. PICK f \in [Positions(n) -> V] : \A s \in Positions(n) :
          f[s] = IF s = {} THEN none ELSE turn[<<pick[s], f[s \ {pick[s]}]>>]
    <2>1. PICK f : IsFold(f, n, V, pick, none, turn)
      BY <1>1, <1>2, <1>3, <1>6, FoldExists
    <2>2. QED
      BY <2>1 DEF IsFold
  <1>8. ASSUME NEW s \in Positions(n), s # {}
        PROVE  Max(s) \in 1..n /\ s \ {Max(s)} \in Positions(n)
    BY <1>2, <1>5, <1>8 DEF Picks, Positions
  <1>9. ASSUME NEW s \in Positions(n)
        PROVE  f[s] = IF s = {} THEN none ELSE MulAdd(f[s \ {Max(s)}], 10, digits[Max(s)])
    <2>1. CASE s = {}
      BY <1>7, <2>1
    <2>2. CASE s # {}
      <3>1. f[s \ {Max(s)}] \in V
        BY <1>8, <2>2
      <3>2. f[s] = turn[<<Max(s), f[s \ {Max(s)}]>>]
        BY <1>5, <1>7, <2>2
      <3>3. QED
        BY <1>4, <1>8, <2>2, <3>1, <3>2
    <2>3. QED
      BY <2>1, <2>2
  <1>10. IsRun(f, digits)
    <2>1. f = [s \in Positions(n) |-> f[s]]
      OBVIOUS
    <2>2. f = [s \in Positions(n) |-> IF s = {} THEN none ELSE MulAdd(f[s \ {Max(s)}], 10, digits[Max(s)])]
      BY <1>9, <2>1
    <2>3. QED
      BY <1>1, <2>2, Zenon DEF IsRun, Positions, none
  <1>11. PICK h : IsRun(h, digits) /\ DigitsToMag(digits) = h[DOMAIN digits]
    BY <1>10, DigitsRun
  <1>12. \A s \in Positions(n) : h[s] = IF s = {} THEN none ELSE MulAdd(h[s \ {Max(s)}], 10, digits[Max(s)])
    BY <1>1, <1>11, Zenon DEF IsRun, Positions, none
  <1> DEFINE P == {s \in Positions(n) : h[s] \in V}
  <1>13. ASSUME NEW s \in Positions(n), s = {} \/ s \ {pick[s]} \in P
         PROVE  s \in P
    <2>1. CASE s = {}
      BY <1>3, <1>12, <2>1
    <2>2. CASE s # {}
      <3>1. h[s \ {Max(s)}] \in V
        BY <1>5, <1>13, <2>2
      <3>2. MulAdd(h[s \ {Max(s)}], 10, digits[Max(s)]) \in V
        BY <1>4, <1>8, <2>2, <3>1
      <3>3. QED
        BY <1>12, <2>2, <3>2
    <2>3. QED
      BY <2>1, <2>2
  <1> HIDE DEF P
  <1>14. 1..n \in P
    BY <1>1, <1>2, <1>13, FoldInduction
  <1>15. h[DOMAIN digits] \in V
    BY <1>1, <1>14 DEF P
  <1>16. QED
    BY <1>11, <1>15 DEF V

(* The powers of MulPow up to any exponent, by induction on it.            *)
Raised(v, j, base) == IF j < 6 THEN MulSmall(v[j - 1], base) ELSE MulSmall(v[j - 6], base^6)
IsPower(v, mag, base, k) == v = [j \in 0..k |-> IF j = 0 THEN mag ELSE Raised(v, j, base)]

LEMMA PowerExists ==
    ASSUME NEW mag, NEW base
    PROVE  \A k \in Nat : \E v : IsPower(v, mag, base, k)
  <1> DEFINE S == {k \in Nat : \E v : IsPower(v, mag, base, k)}
  <1>1. 0 \in S
    <2>1. 0..0 = {0}
      OBVIOUS
    <2>2. IsPower([j \in 0..0 |-> mag], mag, base, 0)
      BY <2>1 DEF IsPower
    <2>3. QED
      BY <2>2
  <1>2. ASSUME NEW k \in Nat, k \in S
        PROVE  k + 1 \in S
    <2>1. PICK v : IsPower(v, mag, base, k)
      BY <1>2
    <2>2. PICK next : next = [j \in 0..(k + 1) |-> IF j = k + 1 THEN Raised(v, j, base) ELSE v[j]]
      OBVIOUS
    <2>3. \A j \in 0..k : v[j] = IF j = 0 THEN mag ELSE Raised(v, j, base)
      BY <2>1, Zenon DEF IsPower
    <2>4. \A j \in 0..k : next[j] = v[j] /\ j # k + 1
      BY <2>2
    <2>5. next[k + 1] = Raised(v, k + 1, base)
      BY <2>2
    <2>6. ASSUME NEW j \in 0..(k + 1), j # 0
          PROVE  Raised(next, j, base) = Raised(v, j, base)
      <3>1. j - 1 \in 0..k /\ (~(j < 6) => j - 6 \in 0..k)
        BY <2>6
      <3>2. next[j - 1] = v[j - 1] /\ (~(j < 6) => next[j - 6] = v[j - 6])
        BY <2>4, <3>1
      <3>3. QED
        BY <3>2, Zenon DEF Raised
    <2>7. ASSUME NEW j \in 0..(k + 1)
          PROVE  next[j] = IF j = 0 THEN mag ELSE Raised(next, j, base)
      <3>1. CASE j = k + 1
        <4>1. j # 0
          BY <3>1
        <4>2. QED
          BY <2>5, <2>6, <3>1, <4>1
      <3>2. CASE j # k + 1
        <4>1. j \in 0..k
          BY <3>2
        <4>2. QED
          BY <2>3, <2>4, <2>6, <4>1
      <3>3. QED
        BY <3>1, <3>2
    <2>8. next = [j \in 0..(k + 1) |-> next[j]]
      BY <2>2
    <2>9. next = [j \in 0..(k + 1) |-> IF j = 0 THEN mag ELSE Raised(next, j, base)]
      BY <2>7, <2>8
    <2>10. QED
      BY <2>9 DEF IsPower
  <1> HIDE DEF S
  <1>3. \A k \in Nat : k \in S
    BY <1>1, <1>2, NatSetInduction
  <1>4. QED
    BY <1>3 DEF S

LEMMA MulPowTyped ==
    ASSUME NEW mag \in Seq(Byte), NEW base \in Nat, base^6 \in Nat, NEW k \in Nat
    PROVE  MulPow(mag, base, k) \in Seq(Byte)
  <1> DEFINE v == CHOOSE v : v = [j \in 0..k |-> IF j = 0 THEN mag
                                               ELSE IF j < 6 THEN MulSmall(v[j - 1], base)
                                               ELSE MulSmall(v[j - 6], base^6)]
  <1>1. MulPow(mag, base, k) = v[k]
    BY Zenon DEF MulPow
  <1>2. \E w : w = [j \in 0..k |-> IF j = 0 THEN mag
                                   ELSE IF j < 6 THEN MulSmall(w[j - 1], base)
                                   ELSE MulSmall(w[j - 6], base^6)]
    <2>1. \E w : IsPower(w, mag, base, k)
      BY PowerExists
    <2>2. QED
      BY <2>1, Zenon DEF IsPower, Raised
  <1>3. v = [j \in 0..k |-> IF j = 0 THEN mag
                            ELSE IF j < 6 THEN MulSmall(v[j - 1], base)
                            ELSE MulSmall(v[j - 6], base^6)]
    BY <1>2, Zenon
  <1> HIDE DEF v
  <1>4. \A j \in 0..k : v[j] = IF j = 0 THEN mag ELSE IF j < 6 THEN MulSmall(v[j - 1], base)
                                                 ELSE MulSmall(v[j - 6], base^6)
    BY <1>3, Zenon
  <1>5. \A x \in Seq(Byte), m \in Nat : MulSmall(x, m) \in Seq(Byte)
    BY MulAddTyped DEF MulSmall
  <1> DEFINE S == {n \in Nat : \A j \in 0..k : j < n => v[j] \in Seq(Byte)}
  <1>6. 0 \in S
    OBVIOUS
  <1>7. ASSUME NEW n \in Nat, n \in S
        PROVE  n + 1 \in S
    <2>1. ASSUME NEW j \in 0..k, j < n + 1
          PROVE  v[j] \in Seq(Byte)
      <3>1. CASE j = 0
        BY <1>4, <3>1
      <3>2. CASE j # 0 /\ j < 6
        <4>1. j - 1 \in 0..k /\ j - 1 < n
          BY <2>1, <3>2
        <4>2. v[j - 1] \in Seq(Byte)
          BY <1>7, <4>1
        <4>3. v[j] = MulSmall(v[j - 1], base)
          BY <1>4, <3>2
        <4>4. QED
          BY <1>5, <4>2, <4>3
      <3>3. CASE j # 0 /\ ~(j < 6)
        <4>1. j - 6 \in 0..k /\ j - 6 < n
          BY <2>1, <3>3
        <4>2. v[j - 6] \in Seq(Byte)
          BY <1>7, <4>1
        <4>3. v[j] = MulSmall(v[j - 6], base^6)
          BY <1>4, <3>3
        <4>4. QED
          BY <1>5, <4>2, <4>3
      <3>4. QED
        BY <3>1, <3>2, <3>3
    <2>2. QED
      BY <2>1
  <1> HIDE DEF S
  <1>8. \A n \in Nat : n \in S
    BY <1>6, <1>7, NatSetInduction
  <1>9. k + 1 \in S /\ k \in 0..k /\ k < k + 1
    BY <1>8
  <1>10. QED
    BY <1>1, <1>9 DEF S

-----------------------------------------------------------------------------
(* The comparisons of numbers are exchanged with their arguments.          *)
LEMMA Reversals ==
    /\ \A m \in Sign : -m \in Sign /\ m = -(-m)
    /\ \A m, n \in Sign : m * (-n) = -(m * n)
    /\ \A x, y \in Int : SignOf(y - x) = -SignOf(x - y)
    /\ 0 = -0 /\ 1 = -(-1)
  <1>1. \A m \in Sign : -m \in Sign /\ m = -(-m)
    BY DEF Sign
  <1>2. ASSUME NEW m \in Sign, NEW n \in Sign
        PROVE  m * (-n) = -(m * n)
    <2>1. m = -1 \/ m = 0 \/ m = 1
      BY DEF Sign
    <2>2. n = -1 \/ n = 0 \/ n = 1
      BY DEF Sign
    <2>3. QED
      BY <2>1, <2>2
  <1>3. \A x, y \in Int : SignOf(y - x) = -SignOf(x - y)
    BY SignFacts
  <1>4. 0 = -0 /\ 1 = -(-1)
    <2>1. 0 - 0 = 0 /\ ~(0 < 0) /\ ~(0 > 0) /\ 0 \in Int /\ 1 \in Sign
      BY DEF Sign
    <2>2. SignOf(0 - 0) = 0
      BY <2>1, Zenon DEF SignOf
    <2>3. SignOf(0 - 0) = -SignOf(0 - 0)
      BY <1>3, <2>1, Zenon
    <2>4. QED
      BY <1>1, <2>1, <2>2, <2>3, Zenon
  <1>5. QED
    BY <1>1, <1>2, <1>3, <1>4, Zenon

LEMMA CmpMagBack ==
    ASSUME NEW a \in Seq(Byte), NEW b \in Seq(Byte)
    PROVE  CmpMag(b, a) = -CmpMag(a, b)
  <1> DEFINE x == Trimmed(a)
             y == Trimmed(b)
  <1>1. x \in Seq(Byte) /\ y \in Seq(Byte) /\ Len(x) \in Int /\ Len(y) \in Int
    BY TrimmedProperties
  <1>2. /\ CmpMag(a, b) = IF Len(x) # Len(y) THEN SignOf(Len(x) - Len(y)) ELSE Compare(x, y)
        /\ CmpMag(b, a) = IF Len(y) # Len(x) THEN SignOf(Len(y) - Len(x)) ELSE Compare(y, x)
    BY Zenon DEF CmpMag
  <1> HIDE DEF x, y
  <1>3. SignOf(Len(y) - Len(x)) = -SignOf(Len(x) - Len(y)) /\ Compare(y, x) = -Compare(x, y)
    BY <1>1, Reversals, CompareOrder
  <1>4. QED
    BY <1>2, <1>3, Zenon

(* A float as a double.                                                    *)
LEMMA DoubleTyped ==
    ASSUME NEW e \in Encodable, IsFloat(e)
    PROVE  /\ SemFloat(e) \in Seq(Byte) /\ Abs(SemFloat(e)) \in Seq(Byte)
           /\ FloatSign(SemFloat(e)) \in Sign
  <1> DEFINE f == SemFloat(e)
  <1>1. f \in Seq(Byte)
    <2>1. CASE e.kind = "f32"
      <3>1. e.bits \in [1..F32Width -> Byte] /\ F32Width \in Nat /\ F64Width \in Nat /\ F32Width <= F64Width
        BY <2>1, WidthAssumption, FloatAssumption DEF Encodable, FramedCode
      <3>2. e.bits \in Seq(Byte) /\ Len(e.bits) = F32Width
        BY <3>1
      <3>3. F64Width - F32Width \in Nat /\ 0 \in Byte
        BY <3>1 DEF Byte
      <3>4. Zeroes(F64Width - F32Width) \in Seq(Byte)
        BY <3>3 DEF Zeroes
      <3>5. f = e.bits \o Zeroes(F64Width - F32Width)
        BY <2>1, <3>2 DEF SemFloat, Widened
      <3>6. QED
        BY <3>2, <3>4, <3>5, ConcatProperties
    <2>2. CASE e.kind # "f32"
      <3>1. e.kind = "f64"
        BY <2>2 DEF IsFloat
      <3>2. e.bits \in [1..F64Width -> Byte] /\ F64Width \in Nat
        BY <3>1, WidthAssumption DEF Encodable, FramedCode
      <3>3. QED
        BY <2>2, <3>2 DEF SemFloat
    <2>3. QED
      BY <2>1, <2>2
  <1> HIDE DEF f
  <1>2. Abs(f) \in Seq(Byte)
    <2>1. \A x \in Byte : x % 128 \in Byte
      BY DEF Byte
    <2>2. Len(f) \in Nat /\ f \in [1..Len(f) -> Byte]
      BY <1>1, LenProperties
    <2>3. [f EXCEPT ![1] = @ % 128] \in [1..Len(f) -> Byte]
      BY <2>1, <2>2
    <2>4. QED
      BY <2>2, <2>3 DEF Abs
  <1>3. QED
    BY <1>1, <1>2, MagnitudesSign DEF f

LEMMA DoubleBack ==
    ASSUME NEW x, NEW y, Abs(x) \in Seq(Byte), Abs(y) \in Seq(Byte),
           FloatSign(x) \in Sign, FloatSign(y) \in Sign
    PROVE  DoubleCompare(y, x) = -DoubleCompare(x, y)
  <1> DEFINE m == FloatSign(x)
             n == FloatSign(y)
             c == Compare(Abs(x), Abs(y))
  <1>1. Compare(Abs(y), Abs(x)) = -c /\ c \in Sign
    BY CompareOrder DEF Sign
  <1>2. m \in Int /\ n \in Int
    BY DEF Sign
  <1>3. SignOf(n - m) = -SignOf(m - n)
    BY <1>2, Reversals
  <1>4. m * (-c) = -(m * c)
    BY <1>1, Reversals
  <1>5. /\ DoubleCompare(x, y) = IF m # n THEN SignOf(m - n) ELSE m * c
        /\ DoubleCompare(y, x) = IF n # m THEN SignOf(n - m) ELSE n * Compare(Abs(y), Abs(x))
    BY Zenon DEF DoubleCompare
  <1> HIDE DEF m, n, c
  <1>6. QED
    BY <1>1, <1>3, <1>4, <1>5, Zenon

(* An exact number as sign, magnitude and decimal exponent.                *)
Tens == {v : v \in [sign : Sign, mag : Seq(Byte), exp10 : Int]}

LEMMA ExactTyped ==
    ASSUME NEW e \in Encodable, IsExact(e)
    PROVE  B10(e) \in Tens /\ (IsIntKind(e) => e.mag \in Seq(Byte) /\ IntSign(e) \in Sign)
  <1>1. CASE e.kind = "decimal"
    <2>1. e.digits \in Seq(0..9) /\ e.exp \in Int
      BY <1>1 DEF Encodable, FramedCode
    <2> DEFINE g == DigitsToMag(e.digits)
               s == IF e.digits = <<>> THEN 0 ELSE IF e.neg THEN -1 ELSE 1
    <2>2. g \in Seq(Byte) /\ s \in Sign
      BY <2>1, DigitsToMagTyped DEF Sign
    <2>3. B10(e) = [sign |-> s, mag |-> g, exp10 |-> e.exp]
      BY <1>1, Zenon DEF B10
    <2> HIDE DEF g, s
    <2>4. QED
      BY <1>1, <2>1, <2>2, <2>3 DEF Tens, IsIntKind
  <1>2. CASE e.kind # "decimal"
    <2>1. e.kind \in {"int", "bigint"}
      BY <1>2 DEF IsExact, IsIntKind
    <2>2. e.mag \in Seq(Byte)
      BY <2>1 DEF Encodable, FramedCode, Magnitude
    <2>3. IntSign(e) \in Sign
      BY MagnitudesSign
    <2>4. B10(e) = [sign |-> IntSign(e), mag |-> e.mag, exp10 |-> 0]
      BY <1>2, Zenon DEF B10
    <2>5. QED
      BY <2>2, <2>3, <2>4 DEF Tens
  <1>3. QED
    BY <1>1, <1>2

(* Two orders of magnitude are not both below the other, and the scaled    *)
(* magnitudes are compared as byte strings.                                *)
LEMMA B10MagBack ==
    ASSUME NEW v \in Tens, NEW w \in Tens
    PROVE  B10Mag(w, v) = -B10Mag(v, w)
  <1> DEFINE e == IF v.exp10 < w.exp10 THEN v.exp10 ELSE w.exp10
             d == IF w.exp10 < v.exp10 THEN w.exp10 ELSE v.exp10
             x == MulPow(v.mag, 10, v.exp10 - e)
             y == MulPow(w.mag, 10, w.exp10 - e)
             m == Len(Trimmed(v.mag))
             n == Len(Trimmed(w.mag))
  <1>1. v.mag \in Seq(Byte) /\ w.mag \in Seq(Byte) /\ v.exp10 \in Int /\ w.exp10 \in Int
    BY DEF Tens
  <1>2. m \in Nat /\ n \in Nat
    BY <1>1, TrimmedProperties
  <1>3. /\ Oom(v).lo = v.exp10 + 2 * m - 2 /\ Oom(v).hi = v.exp10 + 3 * m
        /\ Oom(w).lo = w.exp10 + 2 * n - 2 /\ Oom(w).hi = w.exp10 + 3 * n
    BY DEF Oom
  <1>4. d = e /\ v.exp10 - e \in Nat /\ w.exp10 - e \in Nat
    BY <1>1
  <1>5. x \in Seq(Byte) /\ y \in Seq(Byte)
    <2>1. 10^6 \in Nat
      BY SMT
    <2> HIDE DEF e
    <2>2. QED
      BY <1>1, <1>4, <2>1, MulPowTyped
  <1>6. /\ B10Mag(v, w) = IF Oom(v).hi <= Oom(w).lo THEN -1
                          ELSE IF Oom(w).hi <= Oom(v).lo THEN 1 ELSE CmpMag(x, y)
        /\ B10Mag(w, v) = IF Oom(w).hi <= Oom(v).lo THEN -1
                          ELSE IF Oom(v).hi <= Oom(w).lo THEN 1
                          ELSE CmpMag(MulPow(w.mag, 10, w.exp10 - d), MulPow(v.mag, 10, v.exp10 - d))
    BY Zenon DEF B10Mag
  <1>7. CmpMag(y, x) = -CmpMag(x, y)
    <2> HIDE DEF x, y
    <2>1. QED
      BY <1>5, CmpMagBack
  <1>8. ~(Oom(v).hi <= Oom(w).lo /\ Oom(w).hi <= Oom(v).lo)
    <2> HIDE DEF m, n
    <2>1. QED
      BY <1>1, <1>2, <1>3
  <1>9. B10Mag(w, v) = IF Oom(w).hi <= Oom(v).lo THEN -1
                       ELSE IF Oom(v).hi <= Oom(w).lo THEN 1 ELSE CmpMag(y, x)
    <2> HIDE DEF d, e
    <2>1. QED
      BY <1>4, <1>6, Zenon
  <1> HIDE DEF d, e, x, y, m, n
  <1>10. CASE Oom(v).hi <= Oom(w).lo
    <2>1. B10Mag(v, w) = -1 /\ B10Mag(w, v) = 1
      BY <1>6, <1>8, <1>9, <1>10, Zenon
    <2>2. QED
      BY <2>1, Reversals, Zenon
  <1>11. CASE Oom(w).hi <= Oom(v).lo
    <2>1. B10Mag(v, w) = 1 /\ B10Mag(w, v) = -1
      BY <1>6, <1>8, <1>9, <1>11, Zenon
    <2>2. QED
      BY <2>1
  <1>12. CASE ~(Oom(v).hi <= Oom(w).lo) /\ ~(Oom(w).hi <= Oom(v).lo)
    BY <1>6, <1>7, <1>9, <1>12, Zenon
  <1>13. QED
    BY <1>10, <1>11, <1>12

LEMMA IntIntBack ==
    ASSUME NEW a \in Encodable, NEW b \in Encodable, IsIntKind(a), IsIntKind(b)
    PROVE  IntInt(b, a) = -IntInt(a, b)
  <1> DEFINE m == IntSign(a)
             n == IntSign(b)
             c == CmpMag(a.mag, b.mag)
             larger(e) == IF e.kind = "bigint" THEN 1 ELSE -1
  <1>1. a.mag \in Seq(Byte) /\ b.mag \in Seq(Byte) /\ m \in Sign /\ n \in Sign
    BY ExactTyped DEF IsExact
  <1>2. CmpMag(b.mag, a.mag) = -c /\ c \in Sign
    BY <1>1, CmpMagBack, MagnitudesSign
  <1>3. SignOf(n - m) = -SignOf(m - n)
    <2>1. m \in Int /\ n \in Int
      BY <1>1 DEF Sign
    <2>2. QED
      BY <2>1, Reversals
  <1>4. m * (-c) = -(m * c)
    BY <1>1, <1>2, Reversals
  <1>5. a.kind # b.kind => larger(b) = -larger(a) /\ larger(a) \in Sign
    BY DEF IsIntKind, Sign
  <1>6. a.kind # b.kind => m * larger(b) = -(m * larger(a))
    <2> SUFFICES ASSUME a.kind # b.kind PROVE m * larger(b) = -(m * larger(a))
      OBVIOUS
    <2> DEFINE l == larger(a)
    <2>1. larger(b) = -l /\ l \in Sign
      BY <1>5
    <2> HIDE DEF l
    <2>2. m * (-l) = -(m * l)
      BY <1>1, <2>1, Reversals
    <2>3. QED
      BY <2>1, <2>2 DEF l
  <1>7. /\ IntInt(a, b) = IF m # n THEN SignOf(m - n)
                          ELSE IF a.kind # b.kind THEN m * larger(a) ELSE m * c
        /\ IntInt(b, a) = IF n # m THEN SignOf(n - m)
                          ELSE IF b.kind # a.kind THEN n * larger(b) ELSE n * CmpMag(b.mag, a.mag)
    BY Zenon DEF IntInt
  <1> HIDE DEF m, n, c, larger
  <1>8. CASE m # n
    BY <1>3, <1>7, <1>8, Zenon
  <1>9. CASE m = n /\ a.kind # b.kind
    BY <1>6, <1>7, <1>9, Zenon
  <1>10. CASE m = n /\ a.kind = b.kind
    BY <1>2, <1>4, <1>7, <1>10, Zenon
  <1>11. QED
    BY <1>8, <1>9, <1>10

LEMMA WithDecimalBack ==
    ASSUME NEW a \in Encodable, NEW b \in Encodable, a.kind \in Numerals, b.kind \in Numerals,
           "decimal" \in {a.kind, b.kind}
    PROVE  WithDecimal(b, a) = -WithDecimal(a, b)
  <1>1. IsExact(a) \/ IsExact(b)
    BY DEF IsExact
  <1>2. CASE IsExact(a) /\ IsExact(b)
    <2> DEFINE v == B10(a)
               w == B10(b)
    <2>1. v \in Tens /\ w \in Tens
      BY <1>2, ExactTyped
    <2>2. /\ WithDecimal(a, b) = IF v.sign # w.sign THEN SignOf(v.sign - w.sign)
                                 ELSE IF v.sign = 0 THEN 0 ELSE v.sign * B10Mag(v, w)
          /\ WithDecimal(b, a) = IF w.sign # v.sign THEN SignOf(w.sign - v.sign)
                                 ELSE IF w.sign = 0 THEN 0 ELSE w.sign * B10Mag(w, v)
      BY <1>2, Zenon DEF WithDecimal
    <2> HIDE DEF v, w
    <2>3. v.sign \in Sign /\ w.sign \in Sign
      BY <2>1 DEF Tens
    <2>4. SignOf(w.sign - v.sign) = -SignOf(v.sign - w.sign)
      <3>1. v.sign \in Int /\ w.sign \in Int
        BY <2>3 DEF Sign
      <3>2. QED
        BY <3>1, Reversals
    <2>5. B10Mag(w, v) = -B10Mag(v, w) /\ B10Mag(v, w) \in Sign
      BY <2>1, B10MagBack, MagnitudesSign
    <2>6. v.sign * (-B10Mag(v, w)) = -(v.sign * B10Mag(v, w))
      BY <2>3, <2>5, Reversals
    <2>7. CASE v.sign # w.sign
      BY <2>2, <2>4, <2>7, Zenon
    <2>8. CASE v.sign = w.sign /\ v.sign = 0
      <3>1. WithDecimal(a, b) = 0 /\ WithDecimal(b, a) = 0
        BY <2>2, <2>8, Zenon
      <3>2. QED
        BY <3>1, Reversals, Zenon
    <2>9. CASE v.sign = w.sign /\ v.sign # 0
      BY <2>2, <2>5, <2>6, <2>9, Zenon
    <2>10. QED
      BY <2>7, <2>8, <2>9
  <1>3. ASSUME NEW x \in {a, b}, IsExact(x)
        PROVE  \A f : B10Float(B10(x), f) \in Sign /\ -(-B10Float(B10(x), f)) = B10Float(B10(x), f)
    <2>1. B10(x).sign \in Sign
      BY <1>3, ExactTyped DEF Tens
    <2>2. QED
      BY <2>1, FloatsSign, Reversals
  <1>4. CASE IsExact(a) /\ ~IsExact(b)
    <2>1. WithDecimal(a, b) = B10Float(B10(a), SemFloat(b)) /\ WithDecimal(b, a) = -B10Float(B10(a), SemFloat(b))
      BY <1>4, Zenon DEF WithDecimal
    <2>2. QED
      BY <2>1, Zenon
  <1>5. CASE ~IsExact(a) /\ IsExact(b)
    <2>1. WithDecimal(b, a) = B10Float(B10(b), SemFloat(a)) /\ WithDecimal(a, b) = -B10Float(B10(b), SemFloat(a))
      BY <1>5, Zenon DEF WithDecimal
    <2>2. QED
      BY <1>3, <1>5, <2>1
  <1>6. QED
    BY <1>1, <1>2, <1>4, <1>5

LEMMA NumbersBack ==
    ASSUME NEW a \in Encodable, NEW b \in Encodable, a.kind \in Numerals, b.kind \in Numerals
    PROVE  Numbers(b, a) = -Numbers(a, b)
  <1>1. NumClass(a) \in Int /\ NumClass(b) \in Int
    BY DEF NumClass
  <1>2. CASE NumClass(a) # NumClass(b)
    <2>1. Numbers(a, b) = SignOf(NumClass(a) - NumClass(b)) /\ Numbers(b, a) = SignOf(NumClass(b) - NumClass(a))
      BY <1>2, Zenon DEF Numbers
    <2>2. QED
      BY <1>1, <2>1, Reversals
  <1>3. ASSUME NEW x \in {a, b}, NEW y \in {a, b}, NumClass(x) = NumClass(y)
        PROVE  Numbers(x, y) =
                 CASE NumClass(x) # 1 -> 0
                   [] NumClass(x) = 1 /\ "decimal" \in {x.kind, y.kind} -> WithDecimal(x, y)
                   [] IsIntKind(x) /\ IsIntKind(y)  -> IntInt(x, y)
                   [] IsIntKind(x) /\ IsFloat(y)    -> IntFinite(x, SemFloat(y))
                   [] IsFloat(x) /\ IsIntKind(y)    -> -IntFinite(y, SemFloat(x))
                   [] OTHER -> DoubleCompare(SemFloat(x), SemFloat(y))
    BY <1>3, Zenon DEF Numbers
  <1>4. \A x \in {a, b} : x.kind = "decimal" \/ IsIntKind(x) \/ IsFloat(x)
    BY DEF Numerals, IsIntKind, IsFloat
  <1>5. \A x : /\ IsIntKind(x) => ~IsFloat(x) /\ x.kind # "decimal"
               /\ IsFloat(x) => x.kind # "decimal"
    BY DEF IsIntKind, IsFloat
  <1>6. ASSUME NEW x \in {a, b}, NEW y \in {a, b}, NumClass(x) = NumClass(y)
        PROVE  /\ NumClass(x) # 1 => Numbers(x, y) = 0
               /\ NumClass(x) = 1 /\ "decimal" \in {x.kind, y.kind} => Numbers(x, y) = WithDecimal(x, y)
               /\ NumClass(x) = 1 /\ IsIntKind(x) /\ IsIntKind(y) => Numbers(x, y) = IntInt(x, y)
               /\ NumClass(x) = 1 /\ IsIntKind(x) /\ IsFloat(y) => Numbers(x, y) = IntFinite(x, SemFloat(y))
               /\ NumClass(x) = 1 /\ IsFloat(x) /\ IsIntKind(y) => Numbers(x, y) = -IntFinite(y, SemFloat(x))
               /\ NumClass(x) = 1 /\ IsFloat(x) /\ IsFloat(y) =>
                    Numbers(x, y) = DoubleCompare(SemFloat(x), SemFloat(y))
    <2> DEFINE N == Numbers(x, y)
    <2>1. N = CASE NumClass(x) # 1 -> 0
                [] NumClass(x) = 1 /\ "decimal" \in {x.kind, y.kind} -> WithDecimal(x, y)
                [] IsIntKind(x) /\ IsIntKind(y)  -> IntInt(x, y)
                [] IsIntKind(x) /\ IsFloat(y)    -> IntFinite(x, SemFloat(y))
                [] IsFloat(x) /\ IsIntKind(y)    -> -IntFinite(y, SemFloat(x))
                [] OTHER -> DoubleCompare(SemFloat(x), SemFloat(y))
      BY <1>3, <1>6
    <2> HIDE DEF N
    <2>2. NumClass(x) # 1 => N = 0
      <3>1. \A z : IsIntKind(z) => NumClass(z) = 1
        BY Zenon DEF NumClass, IsExact
      <3>2. QED
        BY <1>5, <1>6, <2>1, <3>1
    <2>3. NumClass(x) = 1 /\ "decimal" \in {x.kind, y.kind} => N = WithDecimal(x, y)
      BY <1>5, <2>1
    <2>4. NumClass(x) = 1 /\ IsIntKind(x) /\ IsIntKind(y) => N = IntInt(x, y)
      BY <1>5, <2>1
    <2>5. NumClass(x) = 1 /\ IsIntKind(x) /\ IsFloat(y) => N = IntFinite(x, SemFloat(y))
      BY <1>5, <2>1
    <2>6. NumClass(x) = 1 /\ IsFloat(x) /\ IsIntKind(y) => N = -IntFinite(y, SemFloat(x))
      BY <1>5, <2>1
    <2>7. NumClass(x) = 1 /\ IsFloat(x) /\ IsFloat(y) => N = DoubleCompare(SemFloat(x), SemFloat(y))
      BY <1>5, <2>1
    <2>8. QED
      BY <2>2, <2>3, <2>4, <2>5, <2>6, <2>7 DEF N
  <1>7. \A e, f : IntFinite(e, f) = -(-IntFinite(e, f))
    BY FloatsSign, Reversals
  <1>8. CASE NumClass(a) = NumClass(b)
    <2>1. CASE NumClass(a) # 1
      <3>1. Numbers(a, b) = 0 /\ Numbers(b, a) = 0
        BY <1>6, <1>8, <2>1
      <3>2. QED
        BY <3>1, Reversals, Zenon
    <2>2. CASE NumClass(a) = 1 /\ "decimal" \in {a.kind, b.kind}
      <3>1. Numbers(a, b) = WithDecimal(a, b) /\ Numbers(b, a) = WithDecimal(b, a)
        BY <1>6, <1>8, <2>2
      <3>2. QED
        BY <2>2, <3>1, WithDecimalBack
    <2>3. CASE NumClass(a) = 1 /\ IsIntKind(a) /\ IsIntKind(b)
      <3>1. Numbers(a, b) = IntInt(a, b) /\ Numbers(b, a) = IntInt(b, a)
        BY <1>6, <1>8, <2>3
      <3>2. QED
        BY <2>3, <3>1, IntIntBack
    <2>4. CASE NumClass(a) = 1 /\ IsIntKind(a) /\ IsFloat(b)
      <3>1. Numbers(a, b) = IntFinite(a, SemFloat(b)) /\ Numbers(b, a) = -IntFinite(a, SemFloat(b))
        BY <1>6, <1>8, <2>4
      <3>2. QED
        BY <3>1
    <2>5. CASE NumClass(a) = 1 /\ IsFloat(a) /\ IsIntKind(b)
      <3>1. Numbers(b, a) = IntFinite(b, SemFloat(a)) /\ Numbers(a, b) = -IntFinite(b, SemFloat(a))
        BY <1>6, <1>8, <2>5
      <3>2. QED
        BY <1>7, <3>1
    <2>6. CASE NumClass(a) = 1 /\ IsFloat(a) /\ IsFloat(b)
      <3>1. /\ Numbers(a, b) = DoubleCompare(SemFloat(a), SemFloat(b))
            /\ Numbers(b, a) = DoubleCompare(SemFloat(b), SemFloat(a))
        BY <1>6, <1>8, <2>6
      <3>2. QED
        BY <2>6, <3>1, DoubleTyped, DoubleBack
    <2>7. QED
      BY <1>4, <2>1, <2>2, <2>3, <2>4, <2>5, <2>6
  <1>9. QED
    BY <1>2, <1>8

LEMMA ClassNumber ==
    ASSUME NEW e, e.kind \in Kinds \cup Numerals
    PROVE  ClassOf(e) \in 1..11
  <1> DEFINE Classes == << {"nil"}, {"undef"}, {"bool"}, {"int", "bigint", "f32", "f64", "decimal"},
                          {"timestamp"}, {"uuid"}, {"string"}, {"bytes"}, {"array"}, {"map"}, {"set"} >>
  <1>1. DOMAIN Classes = 1..11
    OBVIOUS
  <1>2. \E i \in DOMAIN Classes : e.kind \in Classes[i]
    <2>1. \E i \in 1..11 : e.kind \in Classes[i]
      BY DEF Kinds, Numerals
    <2>2. QED
      BY <1>1, <2>1
  <1>3. ClassOf(e) = CHOOSE i \in DOMAIN Classes : e.kind \in Classes[i]
    BY Zenon DEF ClassOf
  <1> HIDE DEF Classes
  <1>4. QED
    BY <1>1, <1>2, <1>3, Zenon

(* Exchanging two elements reverses their order.                           *)
LEMMA ElementOrderBack ==
    ASSUME NEW x \in Encodable, NEW y \in Encodable, ~SameContainer(x, y)
    PROVE  ElementOrder(y, x) = -ElementOrder(x, y)
  <1>1. x.kind \in Kinds \cup Numerals /\ y.kind \in Kinds \cup Numerals
    BY EncodableKinds
  <1>2. ClassOf(x) \in Int /\ ClassOf(y) \in Int
    BY <1>1, ClassNumber
  <1>3. CASE ClassOf(x) # ClassOf(y)
    <2>1. ElementOrder(x, y) = SignOf(ClassOf(x) - ClassOf(y)) /\ ElementOrder(y, x) = SignOf(ClassOf(y) - ClassOf(x))
      BY <1>3, Zenon DEF ElementOrder
    <2>2. QED
      BY <1>2, <2>1, Reversals
  <1>4. CASE ClassOf(x) = ClassOf(y)
    <2>1. x.kind = y.kind \/ {x.kind, y.kind} \subseteq Numerals
      BY <1>1, <1>4, ClassKind
    <2>2. ASSUME NEW u \in {x, y}, NEW v \in {x, y}
          PROVE  ElementOrder(u, v) =
            CASE u.kind \in {"nil", "undef"} -> 0
              [] u.kind = "bool" -> (IF u.val THEN 1 ELSE 0) - (IF v.val THEN 1 ELSE 0)
              [] IsExact(u) \/ IsFloat(u) -> Numbers(u, v)
              [] u.kind = "timestamp" -> Compare(FlipSign(u.data), FlipSign(v.data))
              [] u.kind \in {"uuid", "string", "bytes"} -> Compare(u.data, v.data)
      BY <1>4, <2>2, Zenon DEF ElementOrder
    <2>3. \A u : IsExact(u) \/ IsFloat(u) <=> u.kind \in Numerals
      BY DEF IsExact, IsIntKind, IsFloat, Numerals
    <2>4. ASSUME NEW u \in {x, y}, NEW v \in {x, y}
          PROVE  /\ u.kind \in {"nil", "undef"} => ElementOrder(u, v) = 0
                 /\ u.kind = "bool" =>
                      ElementOrder(u, v) = (IF u.val THEN 1 ELSE 0) - (IF v.val THEN 1 ELSE 0)
                 /\ u.kind \in Numerals => ElementOrder(u, v) = Numbers(u, v)
                 /\ u.kind = "timestamp" => ElementOrder(u, v) = Compare(FlipSign(u.data), FlipSign(v.data))
                 /\ u.kind \in {"uuid", "string", "bytes"} => ElementOrder(u, v) = Compare(u.data, v.data)
      <3> DEFINE N == ElementOrder(u, v)
      <3>1. N = CASE u.kind \in {"nil", "undef"} -> 0
                  [] u.kind = "bool" -> (IF u.val THEN 1 ELSE 0) - (IF v.val THEN 1 ELSE 0)
                  [] IsExact(u) \/ IsFloat(u) -> Numbers(u, v)
                  [] u.kind = "timestamp" -> Compare(FlipSign(u.data), FlipSign(v.data))
                  [] u.kind \in {"uuid", "string", "bytes"} -> Compare(u.data, v.data)
        BY <2>2, <2>4
      <3> HIDE DEF N
      <3>2. u.kind \in {"nil", "undef"} => N = 0
        BY <2>3, <3>1 DEF Numerals
      <3>3. u.kind = "bool" => N = (IF u.val THEN 1 ELSE 0) - (IF v.val THEN 1 ELSE 0)
        BY <2>3, <3>1 DEF Numerals
      <3>4. u.kind \in Numerals => N = Numbers(u, v)
        BY <2>3, <3>1 DEF Numerals
      <3>5. u.kind = "timestamp" => N = Compare(FlipSign(u.data), FlipSign(v.data))
        BY <2>3, <3>1 DEF Numerals
      <3>6. u.kind \in {"uuid", "string", "bytes"} => N = Compare(u.data, v.data)
        BY <2>3, <3>1 DEF Numerals
      <3>7. QED
        BY <3>2, <3>3, <3>4, <3>5, <3>6 DEF N
    <2>5. CASE x.kind \in Numerals
      <3>1. y.kind \in Numerals
        BY <2>1, <2>5
      <3>2. ElementOrder(x, y) = Numbers(x, y) /\ ElementOrder(y, x) = Numbers(y, x)
        BY <2>4, <2>5, <3>1
      <3>3. QED
        BY <2>5, <3>1, <3>2, NumbersBack
    <2>6. CASE x.kind \notin Numerals
      <3>1. x.kind = y.kind /\ x.kind \in Kinds \ {"array", "map", "set"}
        BY <1>1, <2>1, <2>6 DEF SameContainer, IsContainer
      <3>2. CASE x.kind \in {"nil", "undef"}
        <4>1. ElementOrder(x, y) = 0 /\ ElementOrder(y, x) = 0
          BY <2>4, <3>1, <3>2
        <4>2. QED
          BY <4>1, Reversals, Zenon
      <3>3. CASE x.kind = "bool"
        <4> DEFINE m == IF x.val THEN 1 ELSE 0
                   n == IF y.val THEN 1 ELSE 0
        <4>1. ElementOrder(x, y) = m - n /\ ElementOrder(y, x) = n - m
          BY <2>4, <3>1, <3>3
        <4>2. m \in Int /\ n \in Int
          OBVIOUS
        <4> HIDE DEF m, n
        <4>3. n - m = -(m - n)
          BY <4>2
        <4>4. QED
          BY <4>1, <4>3, Zenon
      <3>4. CASE x.kind = "timestamp"
        <4>1. /\ ElementOrder(x, y) = Compare(FlipSign(x.data), FlipSign(y.data))
              /\ ElementOrder(y, x) = Compare(FlipSign(y.data), FlipSign(x.data))
          BY <2>4, <3>1, <3>4
        <4>2. x.data \in Seq(Byte) /\ y.data \in Seq(Byte)
          <5>1. /\ x.data \in [1..NativeWidth -> Byte] /\ y.data \in [1..NativeWidth -> Byte]
                /\ NativeWidth \in Nat
            BY <3>1, <3>4, WidthAssumption DEF Encodable, FramedCode
          <5>2. QED
            BY <5>1
        <4>3. FlipSign(x.data) \in Seq(Byte) /\ FlipSign(y.data) \in Seq(Byte)
          BY <4>2, FlipSignBytes
        <4>4. Compare(FlipSign(y.data), FlipSign(x.data)) = -Compare(FlipSign(x.data), FlipSign(y.data))
          BY <4>3, CompareOrder
        <4>5. QED
          BY <4>1, <4>4, Zenon
      <3>5. CASE x.kind \in {"uuid", "string", "bytes"}
        <4>1. /\ ElementOrder(x, y) = Compare(x.data, y.data)
              /\ ElementOrder(y, x) = Compare(y.data, x.data)
          BY <2>4, <3>1, <3>5
        <4>2. x.data \in Seq(Byte) /\ y.data \in Seq(Byte)
          <5>1. CASE x.kind = "uuid"
            <6>1. /\ x.data \in [1..UuidWidth -> Byte] /\ y.data \in [1..UuidWidth -> Byte]
                  /\ UuidWidth \in Nat
              BY <3>1, <5>1, WidthAssumption DEF Encodable, FramedCode
            <6>2. QED
              BY <6>1
          <5>2. CASE x.kind \in {"string", "bytes"}
            <6>1. x.kind \in DOMAIN FramedCode
              BY <5>2 DEF FramedCode
            <6>2. QED
              BY <3>1, <6>1, EncodableKinds
          <5>3. QED
            BY <3>5, <5>1, <5>2
        <4>3. Compare(y.data, x.data) = -Compare(x.data, y.data)
          BY <4>2, CompareOrder
        <4>4. QED
          BY <4>1, <4>3, Zenon
      <3>6. QED
        BY <3>1, <3>2, <3>3, <3>4, <3>5 DEF Kinds
    <2>7. QED
      BY <2>5, <2>6
  <1>5. QED
    BY <1>3, <1>4

-----------------------------------------------------------------------------
(* A call as a value: its arguments, its activations and its answer, and   *)
(* the call after it when memory suffices.                                 *)
State(a, fs, p, o, e) == [args |-> a, frames |-> fs, pc |-> p, order |-> o, err |-> e]
CallNow               == State(args, frames, pc, order, err)

Calls == [args : Seq(Byte) \X Seq(Byte), frames : Seq(Activation), pc : {"loop", "back", "done"},
          order : Sign, err : BOOLEAN]

Sound(s) == s \in Calls /\ Placed(s.args, s.frames) /\ (s.pc # "done" => Len(s.frames) > 0)

ReadOf(s, side) == Next(InputsOf(s.args, s.frames, Len(s.frames))[side], Last(s.frames).pos[side])

AdvancedOf(f, r) ==
    [pos     |-> [side \in {1, 2} |-> r[side].pos],
     scratch |-> [side \in {1, 2} |->
                    IF r[side].el.kind \in DOMAIN FramedCode THEN r[side].el.data ELSE f.scratch[side]]]

LeftOf(s, o, e) ==
    State(s.args, Front(s.frames), IF Len(s.frames) = 1 THEN "done" ELSE "back", o, e)

GoesOn(s, r) == Front(s.frames) \o <<AdvancedOf(Last(s.frames), r)>>
Enters(s, r) == Front(s.frames) \o <<AdvancedOf(Last(s.frames), r), Entered>>

ComparedOf(s, r, c) == IF c # 0 THEN LeftOf(s, c, s.err) ELSE State(s.args, GoesOn(s, r), s.pc, s.order, s.err)

DescendedOf(s, r) ==
    IF Len(s.frames) > MaxDepth THEN State(s.args, GoesOn(s, r), "back", 0, TRUE)
    ELSE State(s.args, Enters(s, r), s.pc, 0, s.err)

TurnOf(s, r) ==
    IF ~Both(r, {0, 1}) THEN LeftOf(s, 0, TRUE)
    ELSE IF ~Both(r, {1}) THEN LeftOf(s, SignOf(r[1].rc - r[2].rc), s.err)
    ELSE IF ~SameContainer(r[1].el, r[2].el) THEN ComparedOf(s, r, ElementOrder(r[1].el, r[2].el))
    ELSE DescendedOf(s, r)

ResumedOf(s) ==
    IF s.err \/ s.order # 0 THEN LeftOf(s, s.order, s.err)
    ELSE State(s.args, s.frames, "loop", s.order, s.err)

After(s) == IF s.pc = "loop" THEN TurnOf(s, <<ReadOf(s, 1), ReadOf(s, 2)>>) ELSE ResumedOf(s)

LEMMA StateFields ==
    \A a, fs, p, o, e : /\ State(a, fs, p, o, e).args = a /\ State(a, fs, p, o, e).frames = fs
                        /\ State(a, fs, p, o, e).pc = p /\ State(a, fs, p, o, e).order = o
                        /\ State(a, fs, p, o, e).err = e
  BY DEF State

LEMMA SoundNow ==
    ASSUME Walking
    PROVE  Sound(CallNow)
  <1>1. CallNow \in Calls
    BY DEF Walking, TypeOK, CallNow, State, Calls, Activation, Sign
  <1>2. Placed(CallNow.args, CallNow.frames) /\ (CallNow.pc # "done" => Len(CallNow.frames) > 0)
    BY StateFields DEF CallNow, Walking, DepthBounded
  <1>3. QED
    BY <1>1, <1>2 DEF Sound

(* A step that has its memory is the one of the call.                      *)
LEMMA StepIsAfter ==
    ASSUME Walking, WalkStep, memory'
    PROVE  CallNow' = After(CallNow) /\ pc # "done" /\ args' = args /\ first' = first
  <1> DEFINE s == CallNow
             r == <<ReadOf(s, 1), ReadOf(s, 2)>>
             x == AdvancedOf(Last(frames), r)
  <1>1. s.args = args /\ s.frames = frames /\ s.pc = pc /\ s.order = order /\ s.err = err
    BY StateFields DEF CallNow
  <1>2. CallNow' = State(args', frames', pc', order', err')
    BY DEF CallNow, State
  <1>3. r = <<Read(1), Read(2)>>
    <2>1. \A i : Inputs(i) = InputsOf(args, frames, i)
      BY Zenon DEF Inputs, InputsOf
    <2>2. \A side : ReadOf(s, side) = Read(side)
      BY <1>1, <2>1, Zenon DEF ReadOf, Read, Input
    <2>3. QED
      BY <2>2
  <1>4. Advanced(r) = x
    BY Zenon DEF Advanced, AdvancedOf
  <1> HIDE DEF s, r, x
  <1>5. ASSUME NEW o, NEW e, Leave(o, e), args' = args
        PROVE  CallNow' = LeftOf(s, o, e)
    BY <1>1, <1>2, <1>5, Zenon DEF Leave, LeftOf
  <1>6. After(s) = IF pc = "loop" THEN TurnOf(s, r) ELSE ResumedOf(s)
    BY <1>1, Zenon DEF After, r
  <1>7. /\ GoesOn(s, r) = Front(frames) \o <<Advanced(r)>>
        /\ Enters(s, r) = Front(frames) \o <<Advanced(r), Entered>>
    BY <1>1, <1>4, Zenon DEF GoesOn, Enters, x
  <1>8. Both(r, {1}) => Both(r, {0, 1})
    BY DEF Both
  <1>9. CASE Malformed
    <2>1. /\ pc = "loop" /\ ~Both(r, {0, 1}) /\ Leave(0, TRUE)
          /\ UNCHANGED <<args, memory, first>>
      BY <1>3, <1>9 DEF Malformed
    <2>2. TurnOf(s, r) = LeftOf(s, 0, TRUE)
      BY <2>1, Zenon DEF TurnOf
    <2>3. QED
      BY <1>5, <1>6, <2>1, <2>2 DEF s
  <1>10. CASE Ended
    <2>1. /\ pc = "loop" /\ Both(r, {0, 1}) /\ ~Both(r, {1}) /\ Leave(SignOf(r[1].rc - r[2].rc), err)
          /\ UNCHANGED <<args, memory, first>>
      BY <1>3, <1>10 DEF Ended
    <2>2. TurnOf(s, r) = LeftOf(s, SignOf(r[1].rc - r[2].rc), err)
      BY <1>1, <2>1, Zenon DEF TurnOf
    <2>3. QED
      BY <1>5, <1>6, <2>1, <2>2 DEF s
  <1>11. CASE ComparedElements
    <2> DEFINE c == ElementOrder(r[1].el, r[2].el)
    <2>1. /\ pc = "loop" /\ Both(r, {1}) /\ ~SameContainer(r[1].el, r[2].el)
          /\ IF c # 0 THEN Leave(c, err)
             ELSE /\ frames' = Front(frames) \o <<Advanced(r)>>
                  /\ UNCHANGED <<pc, order, err>>
          /\ UNCHANGED <<args, memory, first>>
      BY <1>3, <1>11 DEF ComparedElements
    <2>2. TurnOf(s, r) = ComparedOf(s, r, c)
      BY <1>8, <2>1, Zenon DEF TurnOf
    <2> HIDE DEF c
    <2>3. CASE c # 0
      <3>1. TurnOf(s, r) = LeftOf(s, c, err)
        BY <1>1, <2>2, <2>3, Zenon DEF ComparedOf
      <3>2. Leave(c, err) /\ args' = args
        BY <2>1, <2>3
      <3>3. QED
        BY <1>5, <1>6, <2>1, <3>1, <3>2 DEF s
    <2>4. CASE c = 0
      <3>1. TurnOf(s, r) = State(args, GoesOn(s, r), pc, order, err)
        BY <1>1, <2>2, <2>4, Zenon DEF ComparedOf
      <3>2. frames' = GoesOn(s, r) /\ pc' = pc /\ order' = order /\ err' = err /\ args' = args
        BY <1>7, <2>1, <2>4
      <3>3. CallNow' = TurnOf(s, r)
        BY <1>2, <3>1, <3>2, Zenon
      <3>4. QED
        BY <1>6, <2>1, <3>3 DEF s
    <2>5. QED
      BY <2>3, <2>4
  <1>12. CASE OutOfMemory
    BY <1>12 DEF OutOfMemory
  <1>13. CASE Descend
    <2>1. /\ pc = "loop" /\ Both(r, {1}) /\ SameContainer(r[1].el, r[2].el)
          /\ IF Depth + 1 > MaxDepth
             THEN /\ frames' = Front(frames) \o <<Advanced(r)>>
                  /\ pc' = "back"
                  /\ err' = TRUE
             ELSE /\ frames' = Front(frames) \o <<Advanced(r), Entered>>
                  /\ UNCHANGED <<pc, err>>
          /\ order' = 0
          /\ UNCHANGED <<args, memory, first>>
      BY <1>3, <1>13 DEF Descend
    <2>2. TurnOf(s, r) = DescendedOf(s, r)
      BY <1>8, <2>1, Zenon DEF TurnOf
    <2>3. Depth + 1 > MaxDepth <=> Len(s.frames) > MaxDepth
      BY <1>1, WalkFacts DEF Depth
    <2>4. CASE Depth + 1 > MaxDepth
      <3>1. TurnOf(s, r) = State(args, GoesOn(s, r), "back", 0, TRUE)
        BY <1>1, <2>2, <2>3, <2>4, Zenon DEF DescendedOf
      <3>2. frames' = GoesOn(s, r) /\ pc' = "back" /\ order' = 0 /\ err' = TRUE /\ args' = args
        BY <1>7, <2>1, <2>4
      <3>3. CallNow' = TurnOf(s, r)
        BY <1>2, <3>1, <3>2, Zenon
      <3>4. QED
        BY <1>6, <2>1, <3>3 DEF s
    <2>5. CASE ~(Depth + 1 > MaxDepth)
      <3>1. TurnOf(s, r) = State(args, Enters(s, r), pc, 0, err)
        BY <1>1, <2>2, <2>3, <2>5, Zenon DEF DescendedOf
      <3>2. frames' = Enters(s, r) /\ pc' = pc /\ order' = 0 /\ err' = err /\ args' = args
        BY <1>7, <2>1, <2>5
      <3>3. CallNow' = TurnOf(s, r)
        BY <1>2, <3>1, <3>2, Zenon
      <3>4. QED
        BY <1>6, <2>1, <3>3 DEF s
    <2>6. QED
      BY <2>4, <2>5
  <1>14. CASE Resume
    <2>1. /\ pc = "back"
          /\ IF err \/ order # 0 THEN Leave(order, err)
             ELSE /\ pc' = "loop"
                  /\ UNCHANGED <<frames, order, err>>
          /\ UNCHANGED <<args, memory, first>>
      BY <1>14 DEF Resume
    <2>2. After(s) = ResumedOf(s)
      BY <1>6, <2>1
    <2>3. CASE err \/ order # 0
      <3>1. ResumedOf(s) = LeftOf(s, order, err)
        BY <1>1, <2>3, Zenon DEF ResumedOf
      <3>2. Leave(order, err) /\ args' = args
        BY <2>1, <2>3
      <3>3. QED
        BY <1>5, <2>1, <2>2, <3>1, <3>2 DEF s
    <2>4. CASE ~(err \/ order # 0)
      <3>1. ResumedOf(s) = State(args, frames, "loop", order, err)
        BY <1>1, <2>4, Zenon DEF ResumedOf
      <3>2. frames' = frames /\ pc' = "loop" /\ order' = order /\ err' = err /\ args' = args
        BY <2>1, <2>4
      <3>3. CallNow' = ResumedOf(s)
        BY <1>2, <3>1, <3>2, Zenon
      <3>4. QED
        BY <2>1, <2>2, <3>3 DEF s
    <2>5. QED
      BY <2>3, <2>4
  <1>15. QED
    BY <1>9, <1>10, <1>11, <1>12, <1>13, <1>14 DEF WalkStep

-----------------------------------------------------------------------------
(* The call with its arguments exchanged: what the two readers of every    *)
(* activation hold is exchanged, and so is the sign of the answer.         *)
Flip(p)      == <<p[2], p[1]>>
Swapped(f)   == [pos |-> Flip(f.pos), scratch |-> Flip(f.scratch)]
AllSwapped(fs) == [i \in 1..Len(fs) |-> Swapped(fs[i])]
Mirror(s)    == State(Flip(s.args), AllSwapped(s.frames), s.pc, -s.order, s.err)

LEMMA FlipTyped ==
    ASSUME NEW S, NEW p \in S \X S
    PROVE  Flip(p) \in S \X S /\ Flip(p)[1] = p[2] /\ Flip(p)[2] = p[1]
  BY DEF Flip

LEMMA SwappedTyped ==
    ASSUME NEW f \in Activation
    PROVE  Swapped(f) \in Activation
  <1>1. f.pos \in Nat \X Nat /\ f.scratch \in Seq(Byte) \X Seq(Byte)
    BY DEF Activation
  <1>2. Flip(f.pos) \in Nat \X Nat /\ Flip(f.scratch) \in Seq(Byte) \X Seq(Byte)
    BY <1>1, FlipTyped
  <1>3. QED
    BY <1>2 DEF Swapped, Activation

LEMMA AllSwappedTyped ==
    ASSUME NEW fs \in Seq(Activation)
    PROVE  /\ AllSwapped(fs) \in Seq(Activation) /\ Len(AllSwapped(fs)) = Len(fs)
           /\ \A i \in 1..Len(fs) : AllSwapped(fs)[i] = Swapped(fs[i])
  <1>1. Len(fs) \in Nat /\ \A i \in 1..Len(fs) : fs[i] \in Activation
    BY LenProperties, ElementOfSeq
  <1>2. AllSwapped(fs) \in [1..Len(fs) -> Activation]
    BY <1>1, SwappedTyped DEF AllSwapped
  <1>3. \A i \in 1..Len(fs) : AllSwapped(fs)[i] = Swapped(fs[i])
    BY Zenon DEF AllSwapped
  <1>4. QED
    BY <1>1, <1>2, <1>3

LEMMA AllSwappedConcat ==
    ASSUME NEW fs \in Seq(Activation), NEW gs \in Seq(Activation)
    PROVE  AllSwapped(fs \o gs) = AllSwapped(fs) \o AllSwapped(gs)
  <1> DEFINE hs == fs \o gs
             u  == AllSwapped(fs)
             v  == AllSwapped(gs)
             w  == AllSwapped(hs)
  <1>1. /\ hs \in Seq(Activation) /\ Len(hs) = Len(fs) + Len(gs)
        /\ \A i \in 1..(Len(fs) + Len(gs)) : hs[i] = IF i <= Len(fs) THEN fs[i] ELSE gs[i - Len(fs)]
    BY ConcatProperties
  <1> HIDE DEF hs
  <1>2. /\ u \in Seq(Activation) /\ Len(u) = Len(fs) /\ \A i \in 1..Len(fs) : u[i] = Swapped(fs[i])
        /\ v \in Seq(Activation) /\ Len(v) = Len(gs) /\ \A i \in 1..Len(gs) : v[i] = Swapped(gs[i])
        /\ w \in Seq(Activation) /\ Len(w) = Len(hs) /\ \A i \in 1..Len(hs) : w[i] = Swapped(hs[i])
    BY <1>1, AllSwappedTyped
  <1> HIDE DEF u, v, w
  <1>3. /\ u \o v \in Seq(Activation) /\ Len(u \o v) = Len(u) + Len(v)
        /\ \A i \in 1..(Len(u) + Len(v)) : (u \o v)[i] = IF i <= Len(u) THEN u[i] ELSE v[i - Len(u)]
    <2>1. u \in Seq(Activation) /\ v \in Seq(Activation)
      BY <1>2
    <2>2. QED
      BY <2>1, ConcatProperties
  <1>4. ASSUME NEW i \in 1..Len(w)
        PROVE  w[i] = (u \o v)[i]
    <2>1. Len(fs) \in Nat /\ Len(gs) \in Nat /\ i \in 1..(Len(fs) + Len(gs)) /\ i \in 1..Len(hs)
      BY <1>1, <1>2, LenProperties
    <2>2. CASE i <= Len(fs)
      <3>1. i \in 1..Len(fs)
        BY <2>1, <2>2
      <3>2. w[i] = Swapped(fs[i]) /\ (u \o v)[i] = Swapped(fs[i])
        BY <1>1, <1>2, <1>3, <2>1, <2>2, <3>1
      <3>3. QED
        BY <3>2
    <2>3. CASE ~(i <= Len(fs))
      <3>1. i - Len(fs) \in 1..Len(gs)
        BY <2>1, <2>3
      <3>2. w[i] = Swapped(gs[i - Len(fs)]) /\ (u \o v)[i] = Swapped(gs[i - Len(fs)])
        BY <1>1, <1>2, <1>3, <2>1, <2>3, <3>1
      <3>3. QED
        BY <3>2
    <2>4. QED
      BY <2>2, <2>3
  <1>5. w = u \o v
    <2>1. Len(w) = Len(u \o v)
      BY <1>1, <1>2, <1>3
    <2>2. QED
      BY <1>2, <1>3, <1>4, <2>1, SeqEqual
  <1>6. QED
    BY <1>5 DEF u, v, w, hs

LEMMA AllSwappedFew ==
    \A x, y : AllSwapped(<<x>>) = <<Swapped(x)>> /\ AllSwapped(<<x, y>>) = <<Swapped(x), Swapped(y)>>
  <1> TAKE x, y
  <1>1. Len(<<x>>) = 1 /\ <<x>>[1] = x /\ Len(<<x, y>>) = 2 /\ <<x, y>>[1] = x /\ <<x, y>>[2] = y
    OBVIOUS
  <1>2. AllSwapped(<<x>>) = <<Swapped(x)>>
    <2>1. AllSwapped(<<x>>) = [i \in 1..1 |-> Swapped(<<x>>[i])]
      BY <1>1, Zenon DEF AllSwapped
    <2>2. \A i \in 1..1 : <<x>>[i] = x
      OBVIOUS
    <2>3. AllSwapped(<<x>>) = [i \in 1..1 |-> Swapped(x)]
      BY <2>1, <2>2
    <2>4. QED
      BY <2>3
  <1>3. AllSwapped(<<x, y>>) = <<Swapped(x), Swapped(y)>>
    <2>1. AllSwapped(<<x, y>>) = [i \in 1..2 |-> Swapped(<<x, y>>[i])]
      BY <1>1, Zenon DEF AllSwapped
    <2>2. 1..2 = {1, 2}
      OBVIOUS
    <2>3. QED
      BY <2>1, <2>2
  <1>4. QED
    BY <1>2, <1>3

LEMMA FrontSwapped ==
    ASSUME NEW fs \in Seq(Activation), Len(fs) > 0
    PROVE  /\ Front(AllSwapped(fs)) = AllSwapped(Front(fs))
           /\ Last(AllSwapped(fs)) = Swapped(Last(fs))
  <1> DEFINE u == AllSwapped(fs)
             g == Front(fs)
             v == AllSwapped(g)
  <1>1. /\ g \in Seq(Activation) /\ Len(g) = Len(fs) - 1 /\ Len(fs) \in Nat
        /\ (\A i \in 1..(Len(fs) - 1) : g[i] = fs[i]) /\ Last(fs) = fs[Len(fs)]
    BY FrontOf, LenProperties
  <1>2. u \in Seq(Activation) /\ Len(u) = Len(fs) /\ \A i \in 1..Len(fs) : u[i] = Swapped(fs[i])
    BY AllSwappedTyped
  <1> HIDE DEF u, g
  <1>3. v \in Seq(Activation) /\ Len(v) = Len(g) /\ \A i \in 1..Len(g) : v[i] = Swapped(g[i])
    BY <1>1, AllSwappedTyped
  <1> HIDE DEF v
  <1>4. /\ Front(u) \in Seq(Activation) /\ Len(Front(u)) = Len(u) - 1
        /\ (\A i \in 1..(Len(u) - 1) : Front(u)[i] = u[i]) /\ Last(u) = u[Len(u)]
    BY <1>1, <1>2, FrontOf
  <1>5. \A i \in 1..Len(v) : v[i] = Front(u)[i]
    BY <1>1, <1>2, <1>3, <1>4
  <1>6. Len(v) = Len(Front(u))
    BY <1>1, <1>2, <1>3, <1>4
  <1>7. v = Front(u)
    BY <1>3, <1>4, <1>5, <1>6, SeqEqual
  <1>8. Last(u) = Swapped(Last(fs))
    <2>1. Len(fs) \in 1..Len(fs)
      BY <1>1
    <2>2. QED
      BY <1>1, <1>2, <1>4, <2>1
  <1>9. QED
    BY <1>7, <1>8 DEF u, v, g

LEMMA EnteredSwapped == Swapped(Entered) = Entered
  <1>1. Entered.pos = <<0, 0>> /\ Entered.scratch = << <<>>, <<>> >>
    BY DEF Entered
  <1>2. Flip(<<0, 0>>) = <<0, 0>> /\ Flip(<< <<>>, <<>> >>) = << <<>>, <<>> >>
    BY DEF Flip
  <1>3. QED
    BY <1>1, <1>2, Zenon DEF Swapped, Entered

-----------------------------------------------------------------------------
(* What the readers of the mirrored call read.                             *)
LEMMA ReadTyped ==
    ASSUME NEW s, Sound(s), Len(s.frames) > 0, NEW side \in {1, 2}
    PROVE  /\ ReadOf(s, side).rc \in {-1, 0, 1}
           /\ ReadOf(s, side).rc = 1 => ReadOf(s, side).pos \in Nat /\ ReadOf(s, side).el \in Encodable
  <1> DEFINE fs == s.frames
             n  == Len(fs)
             a  == s.args
             in == InputsOf(a, fs, n)
             b  == in[side]
             p  == fs[n].pos[side]
  <1>1. fs \in Seq(Activation) /\ n \in Nat /\ a \in Seq(Byte) \X Seq(Byte) /\ Placed(a, fs) /\ n \in 1..n
    <2>1. fs \in Seq(Activation) /\ a \in Seq(Byte) \X Seq(Byte) /\ Placed(a, fs)
      BY DEF Sound, Calls
    <2>2. QED
      BY <2>1, LenProperties
  <1>2. in \in Seq(Byte) \X Seq(Byte)
    BY <1>1, LoadsTyped
  <1>3. fs[n] \in Activation /\ Within_(fs[n], in)
    BY <1>1, ElementOfSeq DEF Placed
  <1>4. b \in Seq(Byte) /\ p \in Nat /\ p <= Len(b)
    BY <1>2, <1>3 DEF Within_, Activation
  <1>5. ReadOf(s, side) = Next(b, p)
    <2>1. Last(fs) = fs[n]
      BY <1>1, FrontOf
    <2>2. QED
      BY <2>1, Zenon DEF ReadOf
  <1> HIDE DEF b, p
  <1>6. Len(b) \in Nat /\ p \in 0..Len(b)
    BY <1>4, LenProperties
  <1>7. /\ Next(b, p).rc \in {-1, 0, 1}
        /\ Next(b, p).rc = 1 => Next(b, p).pos \in (p + 1)..Len(b) /\ Next(b, p).el \in Encodable
    BY <1>4, <1>6, StepTyped
  <1>8. \A q \in (p + 1)..Len(b) : q \in Nat
    BY <1>4, <1>6
  <1>9. QED
    BY <1>5, <1>7, <1>8

LEMMA MirrorFields ==
    ASSUME NEW s
    PROVE  /\ Mirror(s).args = Flip(s.args) /\ Mirror(s).frames = AllSwapped(s.frames)
           /\ Mirror(s).pc = s.pc /\ Mirror(s).order = -s.order /\ Mirror(s).err = s.err
  BY StateFields DEF Mirror

LEMMA ReadsExchanged ==
    ASSUME NEW s, Sound(s), Len(s.frames) > 0
    PROVE  ReadOf(Mirror(s), 1) = ReadOf(s, 2) /\ ReadOf(Mirror(s), 2) = ReadOf(s, 1)
  <1> DEFINE fs == s.frames
             n  == Len(fs)
             a  == s.args
             gs == AllSwapped(fs)
             in == InputsOf(a, fs, n)
  <1>1. fs \in Seq(Activation) /\ n \in Nat /\ n \in 1..n /\ Last(fs) = fs[n]
    <2>1. fs \in Seq(Activation)
      BY DEF Sound, Calls
    <2>2. QED
      BY <2>1, LenProperties, FrontOf
  <1>2. /\ Mirror(s).args = Flip(a) /\ Mirror(s).frames = gs /\ Len(gs) = n
        /\ Last(gs) = Swapped(Last(fs)) /\ \A i \in 1..n : gs[i] = Swapped(fs[i])
    BY <1>1, MirrorFields, FrontSwapped, AllSwappedTyped
  <1> HIDE DEF gs
  <1>3. InputsOf(Flip(a), gs, n) = Flip(in)
    <2>1. CASE n = 1
      BY <2>1, Zenon DEF InputsOf
    <2>2. CASE n # 1
      <3>1. n - 1 \in 1..n
        <4>1. \A k \in Nat : k \in 1..k /\ k # 1 => k - 1 \in 1..k
          OBVIOUS
        <4>2. QED
          BY <1>1, <2>2, <4>1, Zenon
      <3>2. gs[n - 1].scratch = Flip(fs[n - 1].scratch)
        <4>1. gs[n - 1] = Swapped(fs[n - 1])
          BY <1>2, <3>1, Zenon
        <4>2. \A f : Swapped(f).scratch = Flip(f.scratch)
          BY DEF Swapped
        <4>3. QED
          BY <4>1, <4>2, Zenon
      <3>3. QED
        BY <2>2, <3>2, Zenon DEF InputsOf
    <2>3. QED
      BY <2>1, <2>2
  <1>4. Last(gs).pos = Flip(Last(fs).pos)
    BY <1>2 DEF Swapped
  <1>5. \A p : Flip(p)[1] = p[2] /\ Flip(p)[2] = p[1]
    BY DEF Flip
  <1>6. \A side : ReadOf(s, side) = Next(in[side], Last(fs).pos[side])
    BY Zenon DEF ReadOf
  <1>7. \A side : ReadOf(Mirror(s), side) = Next(Flip(in)[side], Flip(Last(fs).pos)[side])
    BY <1>2, <1>3, <1>4, Zenon DEF ReadOf
  <1>8. QED
    BY <1>5, <1>6, <1>7, Zenon

(* Where they stand afterwards.                                            *)
LEMMA AdvancedExchanged ==
    ASSUME NEW f \in Activation, NEW x, NEW y, {x.pos, y.pos} \subseteq Nat,
           {x.el, y.el} \subseteq Encodable
    PROVE  /\ AdvancedOf(f, <<x, y>>) \in Activation
           /\ AdvancedOf(Swapped(f), <<y, x>>) = Swapped(AdvancedOf(f, <<x, y>>))
  <1> DEFINE Held(r, old) == IF r.el.kind \in DOMAIN FramedCode THEN r.el.data ELSE old
             S  == Seq(Byte)
             r  == <<x, y>>
             t  == <<y, x>>
             u  == Held(x, f.scratch[1])
             v  == Held(y, f.scratch[2])
             g  == Swapped(f)
  <1>1. f.pos \in Nat \X Nat /\ f.scratch \in S \X S /\ g.scratch = Flip(f.scratch)
    BY DEF Activation, Swapped
  <1>2. f.scratch[1] \in S /\ f.scratch[2] \in S /\ g.scratch[1] = f.scratch[2] /\ g.scratch[2] = f.scratch[1]
    BY <1>1 DEF Flip
  <1>3. u \in S /\ v \in S
    BY <1>2, EncodableKinds
  <1>4. ASSUME NEW T, NEW a \in T, NEW b \in T
        PROVE  /\ \A h : h = [side \in {1, 2} |-> IF side = 1 THEN a ELSE b] => h = <<a, b>>
               /\ <<a, b>> \in T \X T
    <2>1. DOMAIN <<a, b>> = {1, 2}
      OBVIOUS
    <2>2. QED
      BY <2>1
  <1> HIDE DEF S, g
  <1>5. ASSUME NEW p, NEW q, NEW h, p.pos \in Nat, q.pos \in Nat,
               NEW a \in S, NEW b \in S, a = Held(p, h.scratch[1]), b = Held(q, h.scratch[2])
        PROVE  AdvancedOf(h, <<p, q>>) = [pos |-> <<p.pos, q.pos>>, scratch |-> <<a, b>>]
    <2> DEFINE w == <<p, q>>
    <2>1. w[1] = p /\ w[2] = q
      OBVIOUS
    <2> HIDE DEF w
    <2>2. PICK c : c = [side \in {1, 2} |-> w[side].pos]
      OBVIOUS
    <2>3. PICK d : d = [side \in {1, 2} |-> Held(w[side], h.scratch[side])]
      OBVIOUS
    <2> HIDE DEF Held
    <2>4. c = [side \in {1, 2} |-> IF side = 1 THEN p.pos ELSE q.pos]
      BY <2>1, <2>2
    <2>5. d = [side \in {1, 2} |-> IF side = 1 THEN a ELSE b]
      BY <1>5, <2>1, <2>3
    <2>6. c = <<p.pos, q.pos>> /\ d = <<a, b>>
      BY <1>4, <1>5, <2>4, <2>5
    <2> USE DEF Held
    <2>7. AdvancedOf(h, w) = [pos |-> c, scratch |-> d]
      BY <2>2, <2>3, Zenon DEF AdvancedOf
    <2>8. QED
      BY <2>6, <2>7 DEF w
  <1>6. x.pos \in Nat /\ y.pos \in Nat
    OBVIOUS
  <1>7. AdvancedOf(f, r) = [pos |-> <<x.pos, y.pos>>, scratch |-> <<u, v>>]
    BY <1>3, <1>5, <1>6
  <1>8. AdvancedOf(g, t) = [pos |-> <<y.pos, x.pos>>, scratch |-> <<v, u>>]
    <2>1. u = Held(x, g.scratch[2]) /\ v = Held(y, g.scratch[1])
      BY <1>2
    <2> HIDE DEF u, v, Held
    <2>2. QED
      BY <1>3, <1>5, <1>6, <2>1
  <1> HIDE DEF u, v, Held
  <1>9. AdvancedOf(f, r) \in Activation
    BY <1>3, <1>6, <1>7 DEF Activation, S
  <1>10. Swapped(AdvancedOf(f, r)) = AdvancedOf(g, t)
    <2>1. Flip(<<x.pos, y.pos>>) = <<y.pos, x.pos>> /\ Flip(<<u, v>>) = <<v, u>>
      BY DEF Flip
    <2>2. AdvancedOf(f, r).pos = <<x.pos, y.pos>> /\ AdvancedOf(f, r).scratch = <<u, v>>
      BY <1>7
    <2>3. QED
      BY <1>8, <2>1, <2>2, Zenon DEF Swapped
  <1>11. QED
    BY <1>9, <1>10 DEF g

(* A step of the mirrored call mirrors the step of the call.               *)
LEMMA MirrorOf ==
    ASSUME NEW a, NEW fs, NEW p, NEW o, NEW e
    PROVE  Mirror(State(a, fs, p, o, e)) = State(Flip(a), AllSwapped(fs), p, -o, e)
  <1>1. PICK s : s = State(a, fs, p, o, e)
    OBVIOUS
  <1>2. s.args = a /\ s.frames = fs /\ s.pc = p /\ s.order = o /\ s.err = e
    BY <1>1, StateFields
  <1>3. Mirror(s) = State(Flip(a), AllSwapped(fs), p, -o, e)
    BY <1>2, Zenon DEF Mirror
  <1>4. QED
    BY <1>1, <1>3

LEMMA MirrorLeft ==
    ASSUME NEW s, Sound(s), Len(s.frames) > 0, NEW o, NEW e, NEW m, m = -o
    PROVE  LeftOf(Mirror(s), m, e) = Mirror(LeftOf(s, o, e))
  <1> DEFINE p == IF Len(s.frames) = 1 THEN "done" ELSE "back"
  <1>1. /\ Mirror(s).args = Flip(s.args) /\ Mirror(s).frames = AllSwapped(s.frames)
        /\ Len(AllSwapped(s.frames)) = Len(s.frames)
        /\ Front(AllSwapped(s.frames)) = AllSwapped(Front(s.frames))
    <2>1. s.frames \in Seq(Activation)
      BY DEF Sound, Calls
    <2>2. QED
      BY <2>1, MirrorFields, AllSwappedTyped, FrontSwapped
  <1>2. LeftOf(Mirror(s), m, e) = State(Flip(s.args), AllSwapped(Front(s.frames)), p, m, e)
    BY <1>1, Zenon DEF LeftOf
  <1>3. LeftOf(s, o, e) = State(s.args, Front(s.frames), p, o, e)
    BY Zenon DEF LeftOf
  <1> HIDE DEF p
  <1>4. Mirror(LeftOf(s, o, e)) = State(Flip(s.args), AllSwapped(Front(s.frames)), p, -o, e)
    BY <1>3, MirrorOf
  <1>5. QED
    BY <1>2, <1>4

LEMMA MirrorState ==
    ASSUME NEW s, NEW fs, NEW p, NEW o, NEW e, NEW m, m = -o
    PROVE  State(Mirror(s).args, AllSwapped(fs), p, m, e) = Mirror(State(s.args, fs, p, o, e))
  <1>1. Mirror(State(s.args, fs, p, o, e)) = State(Flip(s.args), AllSwapped(fs), p, -o, e)
    BY MirrorOf
  <1>2. QED
    BY <1>1, MirrorFields

LEMMA MirrorGoesOn ==
    ASSUME NEW s, Sound(s), Len(s.frames) > 0, NEW x, NEW y, {x.pos, y.pos} \subseteq Nat,
           {x.el, y.el} \subseteq Encodable
    PROVE  /\ GoesOn(Mirror(s), <<y, x>>) = AllSwapped(GoesOn(s, <<x, y>>))
           /\ Enters(Mirror(s), <<y, x>>) = AllSwapped(Enters(s, <<x, y>>))
  <1> DEFINE fs == s.frames
             f  == Last(fs)
             g  == Front(fs)
             a  == AdvancedOf(f, <<x, y>>)
             b  == AdvancedOf(Swapped(f), <<y, x>>)
  <1>1. fs \in Seq(Activation) /\ f \in Activation /\ g \in Seq(Activation)
    <2>1. fs \in Seq(Activation)
      BY DEF Sound, Calls
    <2>2. QED
      BY <2>1, FrontOf
  <1>2. /\ Last(Mirror(s).frames) = Swapped(f) /\ Front(Mirror(s).frames) = AllSwapped(g)
    BY <1>1, MirrorFields, FrontSwapped
  <1>3. a \in Activation /\ b = Swapped(a)
    BY <1>1, AdvancedExchanged
  <1>4. /\ GoesOn(s, <<x, y>>) = g \o <<a>> /\ Enters(s, <<x, y>>) = g \o <<a, Entered>>
        /\ GoesOn(Mirror(s), <<y, x>>) = AllSwapped(g) \o <<b>>
        /\ Enters(Mirror(s), <<y, x>>) = AllSwapped(g) \o <<b, Entered>>
    BY <1>2, Zenon DEF GoesOn, Enters
  <1> DEFINE en == Entered
  <1>5. en \in Activation /\ Swapped(en) = en
    BY EnteredSwapped, EmptySeq DEF Entered, Activation
  <1> HIDE DEF a, b, g, en
  <1>6. <<a>> \in Seq(Activation) /\ <<a, en>> \in Seq(Activation)
    BY <1>3, <1>5
  <1>7. /\ AllSwapped(g \o <<a>>) = AllSwapped(g) \o AllSwapped(<<a>>)
        /\ AllSwapped(g \o <<a, en>>) = AllSwapped(g) \o AllSwapped(<<a, en>>)
    BY <1>1, <1>6, AllSwappedConcat
  <1>8. AllSwapped(<<a>>) = <<b>> /\ AllSwapped(<<a, en>>) = <<b, en>>
    BY <1>3, <1>5, AllSwappedFew
  <1>9. QED
    BY <1>4, <1>7, <1>8, Zenon DEF en

LEMMA AfterMirror ==
    ASSUME NEW s, Sound(s), s.pc # "done"
    PROVE  After(Mirror(s)) = Mirror(After(s))
  <1> DEFINE x == ReadOf(s, 1)
             y == ReadOf(s, 2)
             r == <<x, y>>
             t == <<y, x>>
             w == Mirror(s)
  <1> SUFFICES After(w) = Mirror(After(s))
    OBVIOUS
  <1>1. Len(s.frames) > 0 /\ s.frames \in Seq(Activation) /\ s.order \in Sign /\ s.pc \in {"loop", "back"}
    BY DEF Sound, Calls
  <1>2. w.pc = s.pc /\ w.err = s.err /\ w.order = -s.order /\ w.frames = AllSwapped(s.frames)
        /\ Len(w.frames) = Len(s.frames)
    BY <1>1, MirrorFields, AllSwappedTyped
  <1>3. ReadOf(w, 1) = y /\ ReadOf(w, 2) = x
    BY <1>1, ReadsExchanged
  <1>4. /\ x.rc \in {-1, 0, 1} /\ (x.rc = 1 => x.pos \in Nat /\ x.el \in Encodable)
        /\ y.rc \in {-1, 0, 1} /\ (y.rc = 1 => y.pos \in Nat /\ y.el \in Encodable)
    BY <1>1, ReadTyped
  <1>5. /\ After(s) = IF s.pc = "loop" THEN TurnOf(s, r) ELSE ResumedOf(s)
        /\ After(w) = IF s.pc = "loop" THEN TurnOf(w, t) ELSE ResumedOf(w)
    BY <1>2, <1>3, Zenon DEF After
  <1>6. 0 = -0 /\ \A m \in Sign : -m \in Sign /\ m = -(-m)
    BY Reversals
  <1> HIDE DEF x, y, w
  <1>7. r[1] = x /\ r[2] = y /\ t[1] = y /\ t[2] = x
    OBVIOUS
  <1> HIDE DEF r, t
  <1>8. \A S : Both(t, S) <=> Both(r, S)
    BY <1>7 DEF Both
  <1>9. ASSUME NEW o, NEW e, NEW m, m = -o
        PROVE  LeftOf(w, m, e) = Mirror(LeftOf(s, o, e))
    BY <1>1, <1>9, MirrorLeft DEF w
  <1>10. ASSUME NEW fs, NEW p, NEW o, NEW e, NEW m, m = -o
         PROVE  State(w.args, AllSwapped(fs), p, m, e) = Mirror(State(s.args, fs, p, o, e))
    BY <1>10, MirrorState DEF w
  <1>11. CASE s.pc = "back"
    <2>1. After(s) = ResumedOf(s) /\ After(w) = ResumedOf(w)
      BY <1>5, <1>11
    <2>2. w.order # 0 <=> s.order # 0
      <3>1. \A m \in Sign : -m # 0 <=> m # 0
        BY DEF Sign
      <3>2. QED
        BY <1>1, <1>2, <3>1
    <2>3. CASE s.err \/ s.order # 0
      <3>1. ResumedOf(s) = LeftOf(s, s.order, s.err) /\ ResumedOf(w) = LeftOf(w, w.order, s.err)
        BY <1>2, <2>2, <2>3, Zenon DEF ResumedOf
      <3>2. QED
        BY <1>2, <1>9, <2>1, <3>1
    <2>4. CASE ~(s.err \/ s.order # 0)
      <3>1. /\ ResumedOf(s) = State(s.args, s.frames, "loop", s.order, s.err)
            /\ ResumedOf(w) = State(w.args, AllSwapped(s.frames), "loop", w.order, s.err)
        BY <1>2, <2>2, <2>4, Zenon DEF ResumedOf
      <3>2. QED
        BY <1>2, <1>10, <2>1, <3>1
    <2>5. QED
      BY <2>3, <2>4
  <1>12. CASE s.pc = "loop"
    <2>1. After(s) = TurnOf(s, r) /\ After(w) = TurnOf(w, t)
      BY <1>5, <1>12
    <2>2. CASE ~Both(r, {0, 1})
      <3>1. TurnOf(s, r) = LeftOf(s, 0, TRUE) /\ TurnOf(w, t) = LeftOf(w, 0, TRUE)
        BY <1>8, <2>2, Zenon DEF TurnOf
      <3>2. QED
        BY <1>6, <1>9, <2>1, <3>1
    <2>3. CASE Both(r, {0, 1}) /\ ~Both(r, {1})
      <3>1. /\ TurnOf(s, r) = LeftOf(s, SignOf(x.rc - y.rc), s.err)
            /\ TurnOf(w, t) = LeftOf(w, SignOf(y.rc - x.rc), s.err)
        BY <1>2, <1>7, <1>8, <2>3, Zenon DEF TurnOf
      <3>2. SignOf(y.rc - x.rc) = -SignOf(x.rc - y.rc)
        <4>1. x.rc \in Int /\ y.rc \in Int
          BY <1>4
        <4>2. QED
          BY <4>1, Reversals
      <3>3. QED
        BY <1>9, <2>1, <3>1, <3>2
    <2>4. CASE Both(r, {0, 1}) /\ Both(r, {1})
      <3>1. x.rc = 1 /\ y.rc = 1
        BY <1>7, <2>4 DEF Both
      <3>2. {x.pos, y.pos} \subseteq Nat /\ {x.el, y.el} \subseteq Encodable
        BY <1>4, <3>1
      <3>3. GoesOn(w, t) = AllSwapped(GoesOn(s, r)) /\ Enters(w, t) = AllSwapped(Enters(s, r))
        BY <1>1, <3>2, MirrorGoesOn DEF w, r, t
      <3>4. SameContainer(y.el, x.el) <=> SameContainer(x.el, y.el)
        BY DEF SameContainer, IsContainer
      <3>5. CASE ~SameContainer(x.el, y.el)
        <4> DEFINE c == ElementOrder(x.el, y.el)
                   d == ElementOrder(y.el, x.el)
        <4>1. d = -c /\ c \in Sign
          BY <3>2, <3>5, ElementOrderBack, ElementOrderSign
        <4>2. TurnOf(s, r) = ComparedOf(s, r, c) /\ TurnOf(w, t) = ComparedOf(w, t, d)
          BY <1>7, <1>8, <2>4, <3>4, <3>5, Zenon DEF TurnOf
        <4> HIDE DEF c, d
        <4>3. d # 0 <=> c # 0
          BY <4>1 DEF Sign
        <4>4. CASE c # 0
          <5>1. ComparedOf(s, r, c) = LeftOf(s, c, s.err) /\ ComparedOf(w, t, d) = LeftOf(w, d, s.err)
            BY <1>2, <4>3, <4>4, Zenon DEF ComparedOf
          <5>2. QED
            BY <1>9, <2>1, <4>1, <4>2, <5>1
        <4>5. CASE c = 0
          <5>1. /\ ComparedOf(s, r, c) = State(s.args, GoesOn(s, r), s.pc, s.order, s.err)
                /\ ComparedOf(w, t, d) = State(w.args, AllSwapped(GoesOn(s, r)), s.pc, w.order, s.err)
            BY <1>2, <3>3, <4>3, <4>5, Zenon DEF ComparedOf
          <5>2. QED
            BY <1>2, <1>10, <2>1, <4>2, <5>1
        <4>6. QED
          BY <4>4, <4>5
      <3>6. CASE SameContainer(x.el, y.el)
        <4>1. TurnOf(s, r) = DescendedOf(s, r) /\ TurnOf(w, t) = DescendedOf(w, t)
          BY <1>7, <1>8, <2>4, <3>4, <3>6, Zenon DEF TurnOf
        <4>2. CASE Len(s.frames) > MaxDepth
          <5>1. /\ DescendedOf(s, r) = State(s.args, GoesOn(s, r), "back", 0, TRUE)
                /\ DescendedOf(w, t) = State(w.args, AllSwapped(GoesOn(s, r)), "back", 0, TRUE)
            BY <1>2, <3>3, <4>2, Zenon DEF DescendedOf
          <5>2. QED
            BY <1>6, <1>10, <2>1, <4>1, <5>1
        <4>3. CASE ~(Len(s.frames) > MaxDepth)
          <5>1. /\ DescendedOf(s, r) = State(s.args, Enters(s, r), s.pc, 0, s.err)
                /\ DescendedOf(w, t) = State(w.args, AllSwapped(Enters(s, r)), s.pc, 0, s.err)
            BY <1>2, <3>3, <4>3, Zenon DEF DescendedOf
          <5>2. QED
            BY <1>6, <1>10, <2>1, <4>1, <5>1
        <4>4. QED
          BY <4>2, <4>3
      <3>7. QED
        BY <3>5, <3>6
    <2>5. QED
      BY <2>2, <2>3, <2>4
  <1>13. QED
    BY <1>1, <1>11, <1>12 DEF w

-----------------------------------------------------------------------------
(* A run of n steps, and what is known of the two calls: until the first   *)
(* has returned there is a run of it that has come to where it stands;     *)
(* afterwards the exchanged call stands where that run stood at some step, *)
(* mirrored.  An allocation that fails ends what is known.                 *)
Run(t, n) ==
    /\ \A i \in 0..n : Sound(t[i])
    /\ \A i \in 0..(n - 1) : t[i].pc # "done" /\ t[i + 1] = After(t[i])

Start(a) == State(a, <<Entered>>, "loop", 0, FALSE)

CameTo(t, n, a, c) == Run(t, n) /\ t[0] = Start(a) /\ t[n] = c

Repeats(t, n, told, c) ==
    /\ Run(t, n) /\ t[n].pc = "done" /\ told[1] = [order |-> t[n].order, err |-> t[n].err]
    /\ \E i \in 0..n : c = Mirror(t[i])

Known(told, a, c) ==
    \E n \in Nat : \E t : IF told = <<>> THEN CameTo(t, n, a, c) ELSE Repeats(t, n, told, c)

Traced == memory => Known(first, args, CallNow)

LEMMA RunLonger ==
    ASSUME NEW n \in Nat, NEW t, Run(t, n), t[n].pc # "done", Sound(After(t[n]))
    PROVE  \E u : Run(u, n + 1) /\ u[0] = t[0] /\ u[n + 1] = After(t[n])
  <1> DEFINE c == After(t[n])
  <1>1. PICK u : u = [i \in 0..(n + 1) |-> IF i = n + 1 THEN c ELSE t[i]]
    OBVIOUS
  <1>2. /\ n + 1 \in 0..(n + 1) /\ 0 \in 0..n /\ n \in 0..n
        /\ \A i \in 0..n : i \in 0..(n + 1) /\ i # n + 1
    OBVIOUS
  <1> HIDE DEF c
  <1>3. u[n + 1] = c /\ \A i \in 0..n : u[i] = t[i]
    BY <1>1, <1>2
  <1>4. \A i \in 0..(n + 1) : Sound(u[i])
    <2>1. \A i \in 0..(n + 1) : i = n + 1 \/ i \in 0..n
      OBVIOUS
    <2>2. QED
      BY <1>3, <2>1 DEF Run, c
  <1>5. ASSUME NEW i \in 0..((n + 1) - 1)
        PROVE  u[i].pc # "done" /\ u[i + 1] = After(u[i])
    <2>1. i \in 0..n /\ (i = n \/ i \in 0..(n - 1))
      OBVIOUS
    <2>2. CASE i = n
      BY <1>3, <2>1, <2>2 DEF c
    <2>3. CASE i \in 0..(n - 1)
      <3>1. i + 1 \in 0..n
        BY <2>3
      <3>2. t[i].pc # "done" /\ t[i + 1] = After(t[i])
        BY <2>3 DEF Run
      <3>3. QED
        BY <1>3, <2>1, <3>1, <3>2
    <2>4. QED
      BY <2>1, <2>2, <2>3
  <1>6. QED
    BY <1>2, <1>3, <1>4, <1>5 DEF Run, c

LEMMA InitTraced == Init => Traced
  <1> SUFFICES ASSUME Init PROVE Known(first, args, CallNow)
    BY DEF Traced
  <1>1. Sound(CallNow)
    BY InitWalking, SoundNow
  <1>2. CallNow = Start(args) /\ first = <<>>
    BY DEF Init, CallNow, Start
  <1>3. PICK t : t = [i \in {0} |-> CallNow]
    OBVIOUS
  <1>4. t[0] = CallNow
    BY <1>3
  <1>5. Run(t, 0)
    <2>1. (\A i \in 0..0 : i = 0) /\ \A i : i \notin 0..(0 - 1)
      OBVIOUS
    <2>2. QED
      BY <1>1, <1>4, <2>1 DEF Run
  <1>6. CameTo(t, 0, args, CallNow) /\ 0 \in Nat
    BY <1>2, <1>4, <1>5 DEF CameTo
  <1>7. QED
    BY <1>2, <1>6, Zenon DEF Known

LEMMA WalkTraced ==
    ASSUME Walking, Traced, WalkStep
    PROVE  Traced'
  <1> SUFFICES ASSUME memory' PROVE Known(first', args', CallNow')
    BY DEF Traced
  <1> DEFINE c == CallNow
             d == CallNow'
  <1>1. memory
    <2>1. memory' = memory \/ memory' = FALSE
      BY DEF WalkStep, Malformed, Ended, ComparedElements, OutOfMemory, Descend, Resume
    <2>2. QED
      BY <2>1
  <1>2. d = After(c) /\ c.pc # "done" /\ args' = args /\ first' = first
    BY StepIsAfter, StateFields DEF CallNow
  <1>3. Sound(c)
    BY SoundNow
  <1>4. Sound(d)
    <2>1. Walking'
      BY WalkStepWorks
    <2>2. (Walking => Sound(CallNow))'
      BY SoundNow, PTL
    <2>3. QED
      BY <2>1, <2>2
  <1> HIDE DEF c, d
  <1>5. PICK n \in Nat : \E t : IF first = <<>> THEN CameTo(t, n, args, c) ELSE Repeats(t, n, first, c)
    BY <1>1, Zenon DEF Traced, Known, c
  <1>6. PICK t : IF first = <<>> THEN CameTo(t, n, args, c) ELSE Repeats(t, n, first, c)
    BY <1>5
  <1>7. CASE first = <<>>
    <2>1. Run(t, n) /\ t[0] = Start(args) /\ t[n] = c
      BY <1>6, <1>7 DEF CameTo
    <2>2. PICK u : Run(u, n + 1) /\ u[0] = t[0] /\ u[n + 1] = After(t[n])
      BY <1>2, <1>4, <2>1, RunLonger
    <2>3. CameTo(u, n + 1, args', d) /\ n + 1 \in Nat
      BY <1>2, <2>1, <2>2 DEF CameTo
    <2>4. QED
      BY <1>2, <1>7, <2>3, Zenon DEF Known, d
  <1>8. CASE first # <<>>
    <2>1. /\ Run(t, n) /\ t[n].pc = "done" /\ first[1] = [order |-> t[n].order, err |-> t[n].err]
          /\ \E i \in 0..n : c = Mirror(t[i])
      BY <1>6, <1>8 DEF Repeats
    <2>2. PICK i \in 0..n : c = Mirror(t[i])
      BY <2>1
    <2>3. t[i].pc # "done" /\ Sound(t[i])
      BY <1>2, <2>1, <2>2, MirrorFields DEF Run
    <2>4. i # n
      BY <2>1, <2>3
    <2>5. i \in 0..(n - 1) /\ i + 1 \in 0..n
      BY <2>4
    <2>6. d = Mirror(t[i + 1])
      <3>1. t[i + 1] = After(t[i])
        BY <2>1, <2>5 DEF Run
      <3>2. After(Mirror(t[i])) = Mirror(After(t[i]))
        BY <2>3, AfterMirror
      <3>3. QED
        BY <1>2, <2>2, <3>1, <3>2
    <2>7. Repeats(t, n, first', d)
      BY <1>2, <2>1, <2>5, <2>6 DEF Repeats
    <2>8. QED
      BY <1>2, <1>8, <2>7, Zenon DEF Known, d
  <1>9. QED
    BY <1>7, <1>8

LEMMA ExchangeTraced ==
    ASSUME Walking, Traced, Exchange
    PROVE  Traced'
  <1> DEFINE c == CallNow
             d == CallNow'
  <1>1. /\ first = <<>> /\ memory /\ pc = "done" /\ first' = <<[order |-> order, err |-> err]>>
        /\ args' = <<args[2], args[1]>> /\ frames' = <<Entered>> /\ pc' = "loop" /\ order' = 0
        /\ err' = FALSE
    BY DEF Exchange
  <1>2. d = State(Flip(args), <<Entered>>, "loop", 0, FALSE)
    BY <1>1 DEF CallNow, State, Flip
  <1>3. d = Mirror(Start(args))
    <2>1. PICK z, e, l, f : z = 0 /\ e = <<Entered>> /\ l = "loop" /\ f = FALSE
      OBVIOUS
    <2>2. Mirror(State(args, e, l, z, f)) = State(Flip(args), AllSwapped(e), l, -z, f)
      BY MirrorOf
    <2>3. AllSwapped(e) = <<Swapped(Entered)>>
      BY <2>1, AllSwappedFew
    <2>4. AllSwapped(e) = <<Entered>>
      BY <2>3, EnteredSwapped
    <2>5. -z = 0
      BY <2>1, Reversals, Zenon
    <2>6. QED
      BY <1>2, <2>1, <2>2, <2>4, <2>5, Zenon DEF Start
  <1>4. c.pc = "done" /\ c.order = order /\ c.err = err
    BY <1>1, StateFields DEF CallNow
  <1> HIDE DEF c, d
  <1>5. PICK n \in Nat : \E t : CameTo(t, n, args, c)
    BY <1>1, Zenon DEF Traced, Known, c
  <1>6. PICK t : CameTo(t, n, args, c)
    BY <1>5
  <1>7. Run(t, n) /\ t[0] = Start(args) /\ t[n] = c
    BY <1>6 DEF CameTo
  <1>8. first'[1] = [order |-> t[n].order, err |-> t[n].err] /\ first' # <<>>
    <2>1. PICK x : x = [order |-> order, err |-> err]
      OBVIOUS
    <2>2. first' = <<x>> /\ <<x>>[1] = x /\ <<x>> # <<>>
      BY <1>1, <2>1
    <2>3. QED
      BY <1>4, <1>7, <2>1, <2>2
  <1>9. Repeats(t, n, first', d)
    <2>1. 0 \in 0..n
      OBVIOUS
    <2>2. QED
      BY <1>3, <1>4, <1>7, <1>8, <2>1 DEF Repeats
  <1>10. Known(first', args', d)
    BY <1>8, <1>9, Zenon DEF Known
  <1>11. QED
    BY <1>10 DEF Traced, d

LEMMA NextTraced == Walking /\ Traced /\ [SemanticNext]_vars => Traced'
  <1> SUFFICES ASSUME Walking, Traced, [SemanticNext]_vars PROVE Traced'
    OBVIOUS
  <1>1. CASE WalkStep
    BY <1>1, WalkTraced
  <1>2. CASE Exchange
    BY <1>2, ExchangeTraced
  <1>3. CASE UNCHANGED vars
    <2>1. memory' = memory /\ first' = first /\ args' = args /\ CallNow' = CallNow
      BY <1>3 DEF vars, CallNow, State
    <2>2. QED
      BY <2>1, Zenon DEF Traced
  <1>4. QED
    BY <1>1, <1>2, <1>3 DEF SemanticNext, Finished

-----------------------------------------------------------------------------
(* The invariant that is inductive.                                        *)
THEOREM Invariance == Spec => []Walking
  BY InitWalking, NextWalking, PTL DEF Spec

(* Whatever the two buffers hold, the walk's positions, scratch buffers    *)
(* and answer keep their types: the answer of two elements is a sign in    *)
(* every one of the numeric comparisons.                                   *)
THEOREM TypeCorrect == Spec => []TypeOK
  <1>1. Walking => TypeOK
    BY DEF Walking
  <1>2. QED
    BY <1>1, Invariance, PTL

(* struple.c, sem_order_impl: however the arguments nest, at most          *)
(* MaxDepth + 1 activations are on the stack, and while the call has not   *)
(* returned there is one.                                                  *)
THEOREM RecursionBounded == Spec => []DepthBounded
  <1>1. Walking => DepthBounded
    BY DEF Walking
  <1>2. QED
    BY <1>1, Invariance, PTL

(* Every step of a call leaves less to do by a measure of natural numbers, *)
(* so no buffer, canonical or not, makes struple_semantic_order run        *)
(* forever.                                                                *)
THEOREM StepsLeaveLess == Spec => LessToDo
  <1>1. Walking /\ [SemanticNext]_vars => [first' = first => Work' < Work]_vars
    BY WalkStepWorks, ExchangeStep DEF SemanticNext, Finished
  <1>2. QED
    BY <1>1, Invariance, PTL DEF Spec, LessToDo

(* struple_semantic_order(b, a) is the negation of                         *)
(* struple_semantic_order(a, b), and fails exactly when that fails,        *)
(* whatever bytes the two buffers hold and however deep they nest, as long *)
(* as memory suffices for both: every step of the one walk is the mirror   *)
(* image of the other's.                                                   *)
THEOREM ExchangeReverses == Spec => []Antisymmetric
  <1>1. ASSUME Traced PROVE Antisymmetric
    <2> SUFFICES ASSUME pc = "done", memory, first # <<>>
                 PROVE  first[1] = [order |-> -order, err |-> err]
      BY DEF Antisymmetric
    <2>1. PICK n \in Nat : \E t : Repeats(t, n, first, CallNow)
      BY <1>1, Zenon DEF Traced, Known
    <2>2. PICK t : Repeats(t, n, first, CallNow)
      BY <2>1
    <2>3. /\ Run(t, n) /\ first[1] = [order |-> t[n].order, err |-> t[n].err]
          /\ \E i \in 0..n : CallNow = Mirror(t[i])
      BY <2>2 DEF Repeats
    <2>4. PICK i \in 0..n : CallNow = Mirror(t[i])
      BY <2>3
    <2>5. t[i].pc = "done" /\ order = -t[i].order /\ err = t[i].err
      <3>1. CallNow.pc = "done" /\ CallNow.order = order /\ CallNow.err = err
        BY StateFields DEF CallNow
      <3>2. QED
        BY <2>4, <3>1, MirrorFields
    <2>6. i = n
      <3>1. i \in 0..(n - 1) => t[i].pc # "done"
        BY <2>3 DEF Run
      <3>2. QED
        BY <2>5, <3>1
    <2>7. t[n].order \in Sign
      <3>1. Sound(t[n])
        BY <2>3, <2>6 DEF Run
      <3>2. QED
        BY <3>1 DEF Sound, Calls
    <2>8. t[n].order = -order
      BY <2>5, <2>6, <2>7, Reversals
    <2>9. QED
      BY <2>3, <2>5, <2>6, <2>8
  <1>2. QED
    BY <1>1, InitTraced, NextTraced, Invariance, PTL DEF Spec
=============================================================================
