-------------------------- MODULE StrupleViewProofs --------------------------
(***************************************************************************)
(* Proofs about StrupleView, for every view and every index: a scan stands *)
(* where the first i elements of the tuple end, and so every navigation    *)
(* function answers from one split of the view into its elements.          *)
(***************************************************************************)
EXTENDS StrupleView, StrupleCodecProofs

-----------------------------------------------------------------------------
(* The elements of b are strings and b is their concatenation followed by  *)
(* what is not an element.                                                 *)
LEMMA SplitProperties ==
    ASSUME NEW b \in Seq(Byte)
    PROVE  /\ Split[b] \in Seq(Seq(Byte))
           /\ Residue(b) \in Seq(Byte)
           /\ b = FlattenSeq(Split[b]) \o Residue(b)
  <1>1. PICK r \in Seq(Byte) : b = FlattenSeq(Split[b]) \o r
    BY SplitDecomposes
  <1>2. Split[b] \in Seq(Seq(Byte)) /\ FlattenSeq(Split[b]) \in Seq(Byte)
    BY SplitDecomposes, FlattenType
  <1>3. Residue(b) = r
    BY <1>1, <1>2, CutConcat DEF Residue
  <1>4. QED
    BY <1>1, <1>2, <1>3

(* Suffixes of suffixes.                                                   *)
LEMMA FromFrom ==
    ASSUME NEW b \in Seq(Byte), NEW p \in 0..Len(b), NEW e \in p..Len(b)
    PROVE  From(From(b, p), e - p) = From(b, e)
  <1> DEFINE w == From(b, p)
             x == From(w, e - p)
             y == From(b, e)
  <1>1. Len(b) \in Nat /\ p \in Nat /\ e \in 0..Len(b) /\ e \in Nat
    BY LenProperties
  <1>2. w \in Seq(Byte) /\ Len(w) = Len(b) - p /\ \A k \in (p + 1)..Len(b) : w[k - p] = b[k]
    BY <1>1, FromProperties
  <1> HIDE DEF w
  <1>3. e - p \in 0..Len(w)
    BY <1>1, <1>2
  <1>4. x \in Seq(Byte) /\ Len(x) = Len(w) - (e - p) /\ \A k \in (e - p + 1)..Len(w) : x[k - (e - p)] = w[k]
    BY <1>2, <1>3, FromProperties
  <1>5. y \in Seq(Byte) /\ Len(y) = Len(b) - e /\ \A k \in (e + 1)..Len(b) : y[k - e] = b[k]
    BY <1>1, FromProperties
  <1> HIDE DEF x, y
  <1>6. Len(x) = Len(y)
    BY <1>1, <1>2, <1>4, <1>5
  <1>7. ASSUME NEW k \in 1..Len(x)
        PROVE  x[k] = y[k]
    <2>1. /\ k + (e - p) \in (e - p + 1)..Len(w) /\ (k + (e - p)) - (e - p) = k
          /\ k + e \in (e + 1)..Len(b) /\ (k + e) - e = k
          /\ k + e \in (p + 1)..Len(b) /\ (k + e) - p = k + (e - p)
      BY <1>1, <1>2, <1>4
    <2>2. x[k] = w[k + (e - p)]
      BY <1>4, <2>1
    <2>3. y[k] = b[k + e]
      BY <1>5, <2>1
    <2>4. w[k + (e - p)] = b[k + e]
      BY <1>2, <2>1
    <2>5. QED
      BY <2>2, <2>3, <2>4
  <1>8. x = y
    BY <1>4, <1>5, <1>6, <1>7, SeqEqual
  <1>9. QED
    BY <1>8 DEF w, x, y

-----------------------------------------------------------------------------
(* element_span looks only ahead: on the rest of a view it finds the same  *)
(* end, counted from where the rest starts.                                *)
Shifted(s, u, p) == s.rc = u.rc /\ (s.rc = 1 => s.end = u.end - p)

LEMMA SpanToShifted ==
    ASSUME NEW b \in Seq(Byte), NEW p \in 0..Len(b), NEW e \in Int
    PROVE  Shifted(SpanTo(From(b, p), e - p), SpanTo(b, e), p)
  BY FromProperties, LenProperties DEF Shifted, SpanTo

LEMMA BigIntShifted ==
    ASSUME NEW b \in Seq(Byte), NEW p \in 0..Len(b), NEW q \in p..Len(b), NEW t
    PROVE  Shifted(BigIntSpan(From(b, p), t, q - p), BigIntSpan(b, t, q), p)
  <1> DEFINE w == From(b, p)
             negative == t = INT_NEG_BIG
             m    == LenBytes(b, negative, q)
             lens == MagLens(b, negative, q)
  <1>1. /\ Len(b) \in Nat /\ w \in Seq(Byte) /\ Len(w) = Len(b) - p /\ p \in Nat /\ q \in Nat
        /\ Window(b, p, w, Len(b)) /\ Len(b) \in p..Len(b) /\ negative \in BOOLEAN
        /\ q \in 0..Len(b)
    BY FromProperties, LenProperties
  <1> HIDE DEF w
  <1>2. CASE q >= Len(b)
    <2>1. q - p >= Len(w)
      BY <1>1, <1>2
    <2>2. QED
      BY <1>2, <2>1 DEF BigIntSpan, NoSpan, Shifted, w
  <1>3. CASE ~(q >= Len(b))
    <2>1. ~(q - p >= Len(w)) /\ q + 1 <= Len(b) /\ CanTake(b, q, 1)
      BY <1>1, <1>3 DEF CanTake
    <2>2. Bytes(w, q - p, 1) = Bytes(b, q, 1)
      BY <1>1, <2>1, WindowBytes
    <2>3. LenBytes(w, negative, q - p) = m
      BY <2>2 DEF LenBytes
    <2>4. m \in Nat
      BY <1>1, <2>1, LengthByte, Zenon
    <2> HIDE DEF m, negative
    <2>5. CanTake(w, (q - p) + 1, m) <=> CanTake(b, q + 1, m)
      BY <1>1, <2>4 DEF CanTake
    <2>6. CASE m > LenOfLen \/ ~CanTake(b, q + 1, m)
      <3>1. BigIntSpan(b, t, q) = NoSpan
        BY <2>6 DEF BigIntSpan, m, negative
      <3>2. BigIntSpan(w, t, q - p) = NoSpan
        BY <2>3, <2>5, <2>6 DEF BigIntSpan, negative
      <3>3. QED
        BY <3>1, <3>2 DEF NoSpan, Shifted, w
    <2>7. CASE ~(m > LenOfLen \/ ~CanTake(b, q + 1, m))
      <3>1. q + 1 \in p..Len(b) /\ (q + 1) - p = (q - p) + 1 /\ (q + 1) + m <= Len(b)
        BY <1>1, <2>1, <2>4, <2>7 DEF CanTake
      <3>2. Bytes(w, (q + 1) - p, m) = Bytes(b, q + 1, m)
        BY <1>1, <2>4, <3>1, WindowBytes, SMTT(30)
      <3>3. Len(w) - (((q - p) + 1) + m) = Len(b) - (q + 1 + m)
        BY <1>1, <2>4
      <3>4. MagLens(w, negative, q - p) = lens
        BY <2>3, <3>1, <3>2, <3>3, Zenon DEF MagLens, m
      <3>5. CASE lens = {}
        <4>1. BigIntSpan(b, t, q) = NoSpan
          BY <3>5 DEF BigIntSpan, negative
        <4>2. BigIntSpan(w, t, q - p) = NoSpan
          BY <3>4, <3>5 DEF BigIntSpan, negative
        <4>3. QED
          BY <4>1, <4>2 DEF NoSpan, Shifted, w
      <3>6. CASE lens # {}
        <4>1. BigIntSpan(b, t, q) = SpanTo(b, q + 1 + m + FirstOf(lens))
          BY <1>3, <2>7, <3>6, Zenon DEF BigIntSpan, negative, m
        <4>2. BigIntSpan(w, t, q - p) = SpanTo(w, (q - p) + 1 + m + FirstOf(lens))
          BY <2>1, <2>3, <2>5, <2>7, <3>4, <3>6, Zenon DEF BigIntSpan, negative
        <4>3. lens \in SUBSET Nat
          BY DEF MagLens, DecodedIn
        <4>4. FirstOf(lens) \in Nat
          BY <3>6, <4>3, FirstOfProperties
        <4> DEFINE n == FirstOf(lens)
        <4> HIDE DEF n
        <4>5. (q - p) + 1 + m + n = (q + 1 + m + n) - p /\ q + 1 + m + n \in Int
          BY <1>1, <2>4, <4>4 DEF n
        <4>6. Shifted(SpanTo(w, (q + 1 + m + n) - p), SpanTo(b, q + 1 + m + n), p)
          BY <4>5, SpanToShifted DEF w
        <4>7. QED
          BY <4>1, <4>2, <4>5, <4>6 DEF w, n
      <3>7. QED
        BY <3>5, <3>6
    <2>8. QED
      BY <2>6, <2>7
  <1>4. QED
    BY <1>2, <1>3

(* The first of the offsets S, and of the same offsets counted from p.     *)
LEMMA EndsShifted ==
    ASSUME NEW S \in SUBSET Nat, NEW T \in SUBSET Nat, NEW p \in Nat,
           \A k \in S : k >= p /\ k - p \in T,
           \A k \in T : k + p \in S
    PROVE  (T = {} <=> S = {}) /\ (S # {} => FirstOf(T) = FirstOf(S) - p)
  <1>1. T = {} <=> S = {}
    OBVIOUS
  <1>2. CASE S # {}
    <2>1. FirstOf(S) \in S
      BY <1>2, FirstOfProperties
    <2>2. FirstOf(S) >= p /\ FirstOf(S) - p \in T
      BY <2>1
    <2>3. FirstOf(T) = FirstOf(S) - p
      BY <1>2, <2>2, FirstShifted
    <2>4. QED
      BY <1>1, <2>3
  <1>3. QED
    BY <1>1, <1>2

LEMMA DigitsShifted ==
    ASSUME NEW b \in Seq(Byte), NEW p \in 0..Len(b), NEW d \in Nat, d >= p, NEW end
    PROVE  LET S == {k \in (d + 1)..Len(b) : b[k] = end}
               T == {k \in (d - p + 1)..Len(From(b, p)) : From(b, p)[k] = end}
           IN  (T = {} <=> S = {}) /\ (S # {} => FirstOf(T) = FirstOf(S) - p /\ FirstOf(S) \in Int)
  <1> DEFINE w == From(b, p)
             S == {k \in (d + 1)..Len(b) : b[k] = end}
             T == {k \in (d - p + 1)..Len(w) : w[k] = end}
  <1>1. /\ Len(b) \in Nat /\ p \in Nat /\ Len(w) = Len(b) - p
        /\ \A k \in (p + 1)..Len(b) : w[k - p] = b[k]
    BY FromProperties, LenProperties
  <1> HIDE DEF w
  <1>2. S \in SUBSET Nat /\ T \in SUBSET Nat
    BY <1>1
  <1>3. \A k \in S : k >= p /\ k - p \in T
    BY <1>1
  <1>4. ASSUME NEW k \in T
        PROVE  k + p \in S
    <2>1. k + p \in (p + 1)..Len(b) /\ (k + p) - p = k /\ k + p \in (d + 1)..Len(b)
      BY <1>1
    <2>2. w[(k + p) - p] = b[k + p]
      BY <1>1, <2>1
    <2>3. QED
      BY <2>1, <2>2
  <1> HIDE DEF S, T
  <1>5. S # {} => FirstOf(S) \in Int
    <2> SUFFICES ASSUME S # {} PROVE FirstOf(S) \in Int
      OBVIOUS
    <2>1. S \in SUBSET Nat
      BY <1>2
    <2>2. FirstOf(S) \in S
      BY <2>1, FirstOfProperties
    <2>3. FirstOf(S) \in Nat
      BY <2>1, <2>2, Zenon
    <2>4. QED
      BY <2>3
  <1>6. (T = {} <=> S = {}) /\ (S # {} => FirstOf(T) = FirstOf(S) - p)
    BY <1>1, <1>2, <1>3, <1>4, EndsShifted
  <1>7. QED
    BY <1>5, <1>6 DEF S, T, w

LEMMA DecimalShifted ==
    ASSUME NEW b \in Seq(Byte), NEW p \in 0..Len(b), NEW q \in p..Len(b)
    PROVE  Shifted(DecimalSpan(From(b, p), q - p), DecimalSpan(b, q), p)
  <1> DEFINE w == From(b, p)
             sign     == b[q + 1]
             negative == sign = DEC_SIGN_NEG
             t        == Signed(negative, Bytes(b, q + 1, 1))[1]
             digits   == q + 2 + (IF t = INT_ZERO THEN 0 ELSE SlotWidth(t))
             end      == IF negative THEN 255 ELSE 0
             S        == {k \in (digits + 1)..Len(b) : b[k] = end}
             T        == {k \in (digits - p + 1)..Len(w) : w[k] = end}
  <1>0. Len(b) \in Nat /\ p \in Nat /\ q \in Nat /\ Len(b) \in p..Len(b) /\ q \in 0..Len(b) /\ q >= p
    BY LenProperties
  <1>1. /\ Len(b) \in Nat /\ w \in Seq(Byte) /\ Len(w) = Len(b) - p /\ p \in Nat /\ q \in Nat
        /\ Window(b, p, w, Len(b)) /\ Len(b) \in p..Len(b) /\ q \in 0..Len(b) /\ q >= p
        /\ \A k \in (p + 1)..Len(b) : w[k - p] = b[k]
    BY <1>0, FromProperties
  <1> HIDE DEF w
  <1>2. Shifted(NoSpan, NoSpan, p)
    BY DEF Shifted, NoSpan
  <1>3. CASE q >= Len(b)
    <2>1. q - p >= Len(w)
      BY <1>1, <1>3
    <2>2. DecimalSpan(w, q - p) = NoSpan /\ DecimalSpan(b, q) = NoSpan
      BY <1>3, <2>1 DEF DecimalSpan
    <2>3. QED
      BY <1>2, <2>2 DEF w
  <1>4. CASE ~(q >= Len(b))
    <2>1. w[(q - p) + 1] = sign /\ ~(q - p >= Len(w))
      <3>1. q + 1 \in (p + 1)..Len(b) /\ (q + 1) - p = (q - p) + 1
        BY <1>1, <1>4
      <3>2. w[(q + 1) - p] = b[q + 1]
        BY <1>1, <3>1
      <3>3. QED
        BY <1>1, <1>4, <3>1, <3>2
    <2>2. CASE sign = DEC_SIGN_ZERO
      <3>1. DecimalSpan(w, q - p) = SpanTo(w, (q - p) + 1) /\ DecimalSpan(b, q) = SpanTo(b, q + 1)
        BY <1>4, <2>1, <2>2, Zenon DEF DecimalSpan
      <3>2. (q - p) + 1 = (q + 1) - p /\ q + 1 \in Int
        BY <1>1
      <3>3. QED
        BY <3>1, <3>2, SpanToShifted DEF w
    <2>3. CASE sign # DEC_SIGN_ZERO /\ (sign \notin {DEC_SIGN_NEG, DEC_SIGN_POS} \/ q + 1 >= Len(b))
      <3>1. q + 1 >= Len(b) => (q - p) + 1 >= Len(w)
        BY <1>1
      <3>2. DecimalSpan(w, q - p) = NoSpan /\ DecimalSpan(b, q) = NoSpan
        BY <1>4, <2>1, <2>3, <3>1, Zenon DEF DecimalSpan
      <3>3. QED
        BY <1>2, <3>2 DEF w
    <2>4. CASE sign # DEC_SIGN_ZERO /\ sign \in {DEC_SIGN_NEG, DEC_SIGN_POS} /\ ~(q + 1 >= Len(b))
      <3>1. /\ ~((q - p) + 1 >= Len(w)) /\ q + 1 \in p..Len(b) /\ (q + 1) + 1 <= Len(b)
            /\ (q + 1) - p = (q - p) + 1
        BY <1>1, <2>4
      <3>2. Bytes(w, (q - p) + 1, 1) = Bytes(b, q + 1, 1)
        BY <1>1, <3>1, WindowBytes
      <3>3. Signed(w[(q - p) + 1] = DEC_SIGN_NEG, Bytes(w, (q - p) + 1, 1))[1] = t
        BY <2>1, <3>2
      <3>4. CASE t \notin FixedNeg \cup FixedPos \cup {INT_ZERO}
        <4>1. DecimalSpan(w, q - p) = NoSpan /\ DecimalSpan(b, q) = NoSpan
          BY <1>4, <2>1, <2>4, <3>1, <3>3, <3>4, Zenon DEF DecimalSpan
        <4>2. QED
          BY <1>2, <4>1 DEF w
      <3>5. CASE t \in FixedNeg \cup FixedPos \cup {INT_ZERO}
        <4> HIDE DEF t
        <4> DEFINE s == IF t = INT_ZERO THEN 0 ELSE SlotWidth(t)
        <4>0. digits = q + 2 + s
          OBVIOUS
        <4>1. s \in Nat
          BY <3>5, SlotWidthProperties
        <4> HIDE DEF digits, s, sign, end
        <4>2. digits \in Nat /\ digits >= p /\ (q - p) + 2 + s = digits - p
          BY <1>0, <4>0, <4>1
        <4>3. (T = {} <=> S = {}) /\ (S # {} => FirstOf(T) = FirstOf(S) - p /\ FirstOf(S) \in Int)
          <5>1. LET U == {k \in (digits + 1)..Len(b) : b[k] = end}
                    V == {k \in (digits - p + 1)..Len(From(b, p)) : From(b, p)[k] = end}
                IN  (V = {} <=> U = {}) /\ (U # {} => FirstOf(V) = FirstOf(U) - p /\ FirstOf(U) \in Int)
            BY <4>2, DigitsShifted
          <5>2. QED
            BY <5>1, Zenon DEF w
        <4>4. DecimalSpan(b, q) = IF S = {} THEN NoSpan ELSE SpanTo(b, FirstOf(S))
          <5>1. ~(sign \notin {DEC_SIGN_NEG, DEC_SIGN_POS} \/ q + 1 >= Len(b))
            BY <2>4
          <5>2. QED
            BY <1>4, <2>4, <3>5, <5>1, Zenon DEF DecimalSpan, digits, sign, end, t
        <4>5. DecimalSpan(w, q - p) = IF T = {} THEN NoSpan ELSE SpanTo(w, FirstOf(T))
          <5> DEFINE wneg == w[(q - p) + 1] = DEC_SIGN_NEG
                     wt   == Signed(wneg, Bytes(w, (q - p) + 1, 1))[1]
                     wd   == (q - p) + 2 + (IF wt = INT_ZERO THEN 0 ELSE SlotWidth(wt))
                     wT   == {k \in (wd + 1)..Len(w) : w[k] = IF wneg THEN 255 ELSE 0}
          <5>1. wt = t
            BY <3>3 DEF t, sign
          <5>2. ~(w[(q - p) + 1] \notin {DEC_SIGN_NEG, DEC_SIGN_POS} \/ (q - p) + 1 >= Len(w))
            BY <2>1, <2>4, <3>1
          <5>3. DecimalSpan(w, q - p) = IF wT = {} THEN NoSpan ELSE SpanTo(w, FirstOf(wT))
            BY <2>1, <2>4, <3>5, <5>1, <5>2, Zenon DEF DecimalSpan
          <5>4. wd = digits - p
            BY <4>2, <5>1 DEF s
          <5>5. (IF wneg THEN 255 ELSE 0) = end
            BY <2>1 DEF end
          <5> HIDE DEF wd, wneg, wt
          <5>6. wT = T
            BY <5>4, <5>5
          <5>7. QED
            BY <5>3, <5>6
        <4>6. CASE S = {}
          <5>1. DecimalSpan(w, q - p) = NoSpan /\ DecimalSpan(b, q) = NoSpan
            BY <4>3, <4>4, <4>5, <4>6
          <5>2. QED
            BY <1>2, <5>1 DEF w
        <4>7. CASE S # {}
          <5> HIDE DEF S, T
          <5>1. /\ DecimalSpan(w, q - p) = SpanTo(w, FirstOf(S) - p)
                /\ DecimalSpan(b, q) = SpanTo(b, FirstOf(S))
                /\ FirstOf(S) \in Int
            BY <4>3, <4>4, <4>5, <4>7
          <5>2. QED
            BY <5>1, SpanToShifted DEF w
        <4>8. QED
          BY <4>6, <4>7
      <3>6. QED
        BY <3>4, <3>5
    <2>5. QED
      BY <2>2, <2>3, <2>4
  <1>5. QED
    BY <1>3, <1>4

LEMMA TerminatorsShifted ==
    ASSUME NEW b \in Seq(Byte), NEW p \in 0..Len(b), NEW q \in p..Len(b)
    PROVE  LET S == Terminators(b, q)
               T == Terminators(From(b, p), q - p)
           IN  (T = {} <=> S = {}) /\ (S # {} => FirstOf(T) = FirstOf(S) - p /\ FirstOf(S) \in Int)
  <1> DEFINE w == From(b, p)
             S == Terminators(b, q)
             T == Terminators(w, q - p)
  <1>0. Len(b) \in Nat /\ p \in Nat /\ q \in Nat /\ q >= p
    BY LenProperties
  <1>1. /\ Len(b) \in Nat /\ p \in Nat /\ q \in Nat /\ q >= p /\ Len(w) = Len(b) - p
        /\ \A k \in (p + 1)..Len(b) : w[k - p] = b[k]
    BY <1>0, FromProperties
  <1> HIDE DEF w
  <1>2. S \in SUBSET Nat /\ T \in SUBSET Nat
    BY <1>1 DEF Terminators
  <1>3. ASSUME NEW k \in (q + 1)..Len(b)
        PROVE  /\ k >= p /\ k - p \in (q - p + 1)..Len(w)
               /\ w[k - p] = b[k]
               /\ k < Len(b) <=> k - p < Len(w)
               /\ k < Len(b) => w[(k - p) + 1] = b[k + 1]
    <2>1. /\ k >= p /\ k - p \in (q - p + 1)..Len(w) /\ k \in (p + 1)..Len(b)
          /\ k < Len(b) <=> k - p < Len(w)
          /\ k < Len(b) => k + 1 \in (p + 1)..Len(b) /\ (k + 1) - p = (k - p) + 1
      BY <1>1
    <2>2. w[k - p] = b[k]
      BY <1>1, <2>1
    <2>3. k < Len(b) => w[(k + 1) - p] = b[k + 1]
      BY <1>1, <2>1
    <2>4. QED
      BY <2>1, <2>2, <2>3
  <1>4. \A k \in S : k >= p /\ k - p \in T
    BY <1>3, SMTT(30) DEF Terminators
  <1>5. ASSUME NEW k \in T
        PROVE  k + p \in S
    <2>1. k \in (q - p + 1)..Len(w) /\ w[k] = 0 /\ ~(k < Len(w) /\ w[k + 1] = 255)
      BY DEF Terminators
    <2>2. k + p \in (q + 1)..Len(b) /\ (k + p) - p = k
      BY <1>1, <2>1
    <2>3. b[k + p] = 0 /\ ~(k + p < Len(b) /\ b[(k + p) + 1] = 255)
      BY <1>3, <2>1, <2>2
    <2>4. QED
      BY <2>2, <2>3 DEF Terminators
  <1>6. S # {} => FirstOf(S) \in Int
    BY <1>2, FirstOfProperties
  <1> HIDE DEF S, T
  <1>7. (T = {} <=> S = {}) /\ (S # {} => FirstOf(T) = FirstOf(S) - p)
    BY <1>1, <1>2, <1>4, <1>5, EndsShifted
  <1>8. QED
    BY <1>6, <1>7 DEF S, T, w

LEMMA FramedShifted ==
    ASSUME NEW b \in Seq(Byte), NEW p \in 0..Len(b), NEW q \in p..Len(b)
    PROVE  Shifted(IF Terminators(From(b, p), q - p) = {} THEN NoSpan
                   ELSE SpanTo(From(b, p), FirstOf(Terminators(From(b, p), q - p))),
                   IF Terminators(b, q) = {} THEN NoSpan
                   ELSE SpanTo(b, FirstOf(Terminators(b, q))), p)
  <1> DEFINE S == Terminators(b, q)
             T == Terminators(From(b, p), q - p)
  <1>1. (T = {} <=> S = {}) /\ (S # {} => FirstOf(T) = FirstOf(S) - p /\ FirstOf(S) \in Int)
    BY TerminatorsShifted
  <1> HIDE DEF S, T
  <1>2. Shifted(NoSpan, NoSpan, p)
    BY DEF Shifted, NoSpan
  <1>3. S # {} => Shifted(SpanTo(From(b, p), FirstOf(T)), SpanTo(b, FirstOf(S)), p)
    BY <1>1, SpanToShifted
  <1>4. QED
    BY <1>1, <1>2, <1>3 DEF S, T

LEMMA SpanShifted ==
    ASSUME NEW b \in Seq(Byte), NEW p \in 0..Len(b)
    PROVE  Shifted(ElementSpan(From(b, p), 0), ElementSpan(b, p), p)
  <1> DEFINE w == From(b, p)
             t == b[p + 1]
             q == p + 1
  <1>1. /\ Len(b) \in Nat /\ p \in Nat /\ Len(w) = Len(b) - p
        /\ \A k \in (p + 1)..Len(b) : w[k - p] = b[k]
    BY FromProperties, LenProperties
  <1>2. CASE p >= Len(b)
    <2>1. 0 >= Len(w)
      BY <1>1, <1>2
    <2>2. ElementSpan(w, 0).rc = 0 /\ ElementSpan(b, p).rc = 0
      BY <1>2, <2>1 DEF ElementSpan
    <2>3. QED
      BY <2>2 DEF Shifted
  <1>3. CASE ~(p >= Len(b))
    <2>1. q \in p..Len(b) /\ q \in (p + 1)..Len(b) /\ q - p = 1 /\ ~(0 >= Len(w)) /\ q \in Int
      BY <1>1, <1>3
    <2>2. w[1] = t
      BY <1>1, <2>1
    <2> HIDE DEF w, t, q
    <2>3. ElementSpan(w, 0) = SpanAfter(w, t, q - p)
      BY <2>1, <2>2 DEF ElementSpan
    <2>4. ElementSpan(b, p) = SpanAfter(b, t, q)
      BY <1>3 DEF ElementSpan, t, q
    <2>5. ASSUME NEW n \in Nat
          PROVE  Shifted(SpanTo(w, (q - p) + n), SpanTo(b, q + n), p)
      <3>1. (q - p) + n = (q + n) - p /\ q + n \in Int
        BY <1>1, <2>1
      <3>2. QED
        BY <3>1, SpanToShifted DEF w
    <2>6. Shifted(SpanTo(w, q - p), SpanTo(b, q), p)
      BY <2>1, SpanToShifted DEF w
    <2>7. Shifted(NoSpan, NoSpan, p)
      BY DEF Shifted, NoSpan
    <2>8. /\ Shifted(BigIntSpan(w, t, q - p), BigIntSpan(b, t, q), p)
          /\ Shifted(DecimalSpan(w, q - p), DecimalSpan(b, q), p)
          /\ Shifted(IF Terminators(w, q - p) = {} THEN NoSpan ELSE SpanTo(w, FirstOf(Terminators(w, q - p))),
                     IF Terminators(b, q) = {} THEN NoSpan ELSE SpanTo(b, FirstOf(Terminators(b, q))), p)
      BY <2>1, BigIntShifted, DecimalShifted, FramedShifted DEF w
    <2>9. t \in FixedNeg \cup FixedPos => SlotWidth(t) \in Nat
      BY SlotWidthProperties
    <2>10. Shifted(SpanAfter(w, t, q - p), SpanAfter(b, t, q), p)
      BY <2>5, <2>6, <2>7, <2>8, <2>9, WidthAssumption DEF SpanAfter
    <2>11. QED
      BY <2>3, <2>4, <2>10 DEF w
  <1>4. QED
    BY <1>2, <1>3

-----------------------------------------------------------------------------
(* Offset p of b is where its first n elements end, and what follows p     *)
(* splits into the others.                                                 *)
AtElement(b, p, n) ==
    /\ p \in 0..Len(b)
    /\ n \in 0..Len(Split[b])
    /\ SubSeq(b, 1, p) = FlattenSeq(SubSeq(Split[b], 1, n))
    /\ SubSeq(Split[b], n + 1, Len(Split[b])) = Split[From(b, p)]

LEMMA AtStart ==
    ASSUME NEW b \in Seq(Byte)
    PROVE  AtElement(b, 0, 0)
  <1>1. Split[b] \in Seq(Seq(Byte)) /\ Len(Split[b]) \in Nat /\ Len(b) \in Nat
    BY SplitProperties, LenProperties
  <1>2. SubSeq(b, 1, 0) = <<>> /\ SubSeq(Split[b], 1, 0) = <<>>
    BY SubSeqEmpty
  <1>3. From(b, 0) = b /\ SubSeq(Split[b], 0 + 1, Len(Split[b])) = Split[b]
    <2>1. SubSeq(b, 0 + 1, Len(b)) = b
      BY SubSeqFull
    <2>2. QED
      BY <1>1, <2>1, SubSeqFull DEF From
  <1>4. 0 \in 0..Len(b) /\ 0 \in 0..Len(Split[b])
    BY <1>1
  <1>5. SubSeq(b, 1, 0) = FlattenSeq(SubSeq(Split[b], 1, 0))
    BY <1>2, FlattenEmpty
  <1>6. SubSeq(Split[b], 0 + 1, Len(Split[b])) = Split[From(b, 0)]
    BY <1>3
  <1>7. QED
    BY <1>4, <1>5, <1>6 DEF AtElement

(* What a scan leaves unread is the other elements and the residue.        *)
LEMMA RestOfView ==
    ASSUME NEW b \in Seq(Byte), NEW p, NEW n, AtElement(b, p, n)
    PROVE  From(b, p) = FlattenSeq(SubSeq(Split[b], n + 1, Len(Split[b]))) \o Residue(b)
  <1> DEFINE w     == From(b, p)
             items == Split[b]
             I1    == SubSeq(items, 1, n)
             I2    == SubSeq(items, n + 1, Len(items))
             F1    == FlattenSeq(I1)
             F2    == FlattenSeq(I2)
             R     == Residue(b)
             W     == Residue(w)
  <1>1. p \in 0..Len(b) /\ n \in 0..Len(items) /\ SubSeq(b, 1, p) = F1 /\ I2 = Split[w]
    BY DEF AtElement
  <1>2. w \in Seq(Byte) /\ b = SubSeq(b, 1, p) \o w
    BY <1>1, CutAt DEF From
  <1>3. items \in Seq(Seq(Byte)) /\ R \in Seq(Byte) /\ b = FlattenSeq(items) \o R
    BY SplitProperties
  <1>4. W \in Seq(Byte) /\ w = FlattenSeq(Split[w]) \o W
    BY <1>2, SplitProperties
  <1>5. I1 \in Seq(Seq(Byte)) /\ I2 \in Seq(Seq(Byte)) /\ items = I1 \o I2
    BY <1>1, <1>3, CutAt
  <1>6. F1 \in Seq(Byte) /\ F2 \in Seq(Byte) /\ FlattenSeq(items) = F1 \o F2
    BY <1>5, FlattenType, FlattenConcat
  <1>7. b = F1 \o (F2 \o W) /\ b = (F1 \o F2) \o R /\ w = F2 \o W
    BY <1>1, <1>2, <1>3, <1>4, <1>6
  <1> HIDE DEF w, items, I1, I2, F1, F2, R, W
  <1>8. F1 \o (F2 \o W) = (F1 \o F2) \o W
    <2>1. F1 \in Seq(Byte) /\ F2 \in Seq(Byte) /\ W \in Seq(Byte)
      BY <1>4, <1>6
    <2>2. QED
      BY <2>1, ConcatAssociative, SMTT(30)
  <1> DEFINE H == F1 \o F2
  <1>9. H \in Seq(Byte) /\ b = H \o R /\ b = H \o W
    BY <1>6, <1>7, <1>8, ConcatProperties
  <1> HIDE DEF H
  <1>10. R = W
    <2>1. H \in Seq(Byte) /\ R \in Seq(Byte) /\ W \in Seq(Byte)
      BY <1>3, <1>4, <1>9
    <2>2. SubSeq(H \o R, Len(H) + 1, Len(H \o R)) = R
      BY <2>1, CutConcat
    <2>3. SubSeq(H \o W, Len(H) + 1, Len(H \o W)) = W
      BY <2>1, CutConcat
    <2>4. H \o R = H \o W
      BY <1>9
    <2>5. QED
      BY <2>2, <2>3, <2>4
  <1>11. QED
    BY <1>7, <1>10 DEF w, items, F2, I2, R

(* A skip that succeeds passes the next element.                           *)
LEMMA AtNext ==
    ASSUME NEW b \in Seq(Byte), NEW p, NEW n, AtElement(b, p, n), ElementSpan(b, p).rc = 1
    PROVE  /\ AtElement(b, ElementSpan(b, p).end, n + 1)
           /\ Split[b][n + 1] = SubSeq(b, p + 1, ElementSpan(b, p).end)
           /\ n < Len(Split[b])
           /\ n \in Nat /\ ElementSpan(b, p).end \in Nat
  <1> DEFINE w     == From(b, p)
             e     == ElementSpan(b, p).end
             s     == ElementSpan(w, 0)
             items == Split[b]
             x     == SubSeq(w, 1, s.end)
             I1    == SubSeq(items, 1, n)
             I2    == SubSeq(items, n + 1, Len(items))
             J     == Split[From(b, e)]
  <1>1. /\ p \in 0..Len(b) /\ n \in 0..Len(items) /\ SubSeq(b, 1, p) = FlattenSeq(I1) /\ I2 = Split[w]
        /\ Len(b) \in Nat /\ p \in Nat
    BY LenProperties DEF AtElement
  <1>2. w \in Seq(Byte) /\ Len(w) = Len(b) - p
    BY <1>1, FromProperties
  <1>3. s.rc = 1 /\ s.end = e - p
    BY <1>1, SpanShifted DEF Shifted
  <1>4. s.end \in 1..Len(w)
    BY <1>2, <1>3, FirstSpan
  <1>5. e \in (p + 1)..Len(b)
    <2>1. p # Len(b)
      BY <1>1, <1>2, <1>4
    <2>2. QED
      BY <1>1, <2>1, SpanInBounds DEF Spans
  <1>6. Split[w] = <<x>> \o J
    <2>1. Split[w] = <<x>> \o Split[From(w, s.end)]
      BY <1>2, <1>3, SplitUnfold
    <2>2. e \in p..Len(b)
      BY <1>1, <1>5
    <2>3. From(w, e - p) = From(b, e)
      BY <1>1, <2>2, FromFrom
    <2>4. QED
      BY <1>3, <2>1, <2>3
  <1>7. x = SubSeq(b, p + 1, e) /\ x \in Seq(Byte)
    <2>1. Window(b, p, w, Len(b)) /\ Len(b) \in p..Len(b) /\ p \in p..Len(b)
      BY <1>1, FromProperties
    <2>2. e - p \in Nat /\ p + (e - p) <= Len(b)
      BY <1>1, <1>5
    <2>3. Bytes(w, p - p, e - p) = Bytes(b, p, e - p)
      BY <1>1, <1>2, <2>1, <2>2, WindowBytes, SMTT(30)
    <2>4. p - p + 1 = 1 /\ (p - p) + (e - p) = e - p /\ p + (e - p) = e
      BY <1>1, <1>5
    <2>5. SubSeq(w, 1, e - p) = SubSeq(b, p + 1, e)
      BY <2>3, <2>4 DEF Bytes
    <2>6. x \in Seq(Byte)
      <3>1. s.end \in 0..Len(w)
        BY <1>4
      <3>2. QED
        BY <1>2, <3>1, CutAt
    <2>7. QED
      BY <1>3, <2>5, <2>6
  <1>8. /\ items \in Seq(Seq(Byte)) /\ Len(items) \in Nat
        /\ J \in Seq(Seq(Byte)) /\ Len(J) \in Nat
    <2>1. From(b, e) \in Seq(Byte)
      <3>1. e \in 0..Len(b)
        BY <1>1, <1>5
      <3>2. QED
        BY <3>1, FromProperties
    <2>2. QED
      BY <2>1, SplitProperties, LenProperties
  <1> HIDE DEF w, e, s, items, x, J
  <1>9. /\ I1 \in Seq(Seq(Byte)) /\ Len(I1) = n
        /\ I2 \in Seq(Seq(Byte)) /\ Len(I2) = Len(items) - n
        /\ items = I1 \o I2
    BY <1>1, <1>8, CutAt, ZenonT(40)
  <1>10. <<x>> \in Seq(Seq(Byte)) /\ Len(<<x>>) = 1
    BY <1>7
  <1>11. I2 = <<x>> \o J
    BY <1>1, <1>6
  <1> HIDE DEF I1, I2
  <1>12. Len(items) - n = 1 + Len(J)
    BY <1>8, <1>9, <1>10, <1>11, ConcatProperties
  <1>13. n \in Nat /\ n < Len(items) /\ n + 1 \in 0..Len(items)
    BY <1>1, <1>8, <1>12
  <1> DEFINE K == Append(I1, x)
  <1>14. K = I1 \o <<x>> /\ K \in Seq(Seq(Byte)) /\ Len(K) = n + 1 /\ K[n + 1] = x
    BY <1>7, <1>9, AppendIsConcat, AppendProperties
  <1>15. items = K \o J
    <2>1. (I1 \o <<x>>) \o J = I1 \o (<<x>> \o J)
      BY <1>8, <1>9, <1>10, ConcatAssociative, SMTT(30)
    <2>2. QED
      BY <1>9, <1>11, <1>14, <2>1
  <1> HIDE DEF K
  <1>16. SubSeq(items, 1, n + 1) = K /\ SubSeq(items, (n + 1) + 1, Len(items)) = J
    <2>1. K \in Seq(Seq(Byte)) /\ J \in Seq(Seq(Byte))
      BY <1>8, <1>14
    <2>2. /\ SubSeq(K \o J, 1, Len(K)) = K
          /\ SubSeq(K \o J, Len(K) + 1, Len(K \o J)) = J
      BY <2>1, CutConcat
    <2>3. QED
      BY <1>14, <1>15, <2>2
  <1>17. items[n + 1] = x
    <2>1. n + 1 \in 1..(Len(K) + Len(J)) /\ n + 1 <= Len(K)
      BY <1>8, <1>13, <1>14
    <2>2. (K \o J)[n + 1] = K[n + 1]
      BY <1>8, <1>14, <2>1, ConcatProperties
    <2>3. QED
      BY <1>14, <1>15, <2>2
  <1>18. SubSeq(b, 1, e) = FlattenSeq(K)
    <2>1. SubSeq(b, 1, p) \o SubSeq(b, p + 1, e) = SubSeq(b, 1, e)
      <3>1. 1 \in 1..(Len(b) + 1) /\ p \in (1 - 1)..Len(b) /\ e \in p..Len(b)
        BY <1>1, <1>5
      <3>2. QED
        BY <3>1, ConcatAdjacentSubSeq
    <2>2. FlattenSeq(K) = FlattenSeq(I1) \o x
      BY <1>7, <1>9, FlattenAppend DEF K
    <2>3. QED
      BY <1>1, <1>7, <2>1, <2>2 DEF I1
  <1>19. e \in 0..Len(b) /\ e \in Nat
    BY <1>1, <1>5
  <1>20. AtElement(b, e, n + 1)
    BY <1>13, <1>16, <1>18, <1>19 DEF AtElement, items, J
  <1>21. QED
    BY <1>7, <1>13, <1>17, <1>19, <1>20 DEF items, e

(* A skip that does not succeed stands after the last element.             *)
LEMMA AtEnd ==
    ASSUME NEW b \in Seq(Byte), NEW p, NEW n, AtElement(b, p, n), ElementSpan(b, p).rc # 1
    PROVE  /\ n = Len(Split[b])
           /\ From(b, p) = Residue(b)
           /\ ElementSpan(b, p).rc \in {-1, 0}
           /\ ElementSpan(b, p).rc = 0 <=> Residue(b) = <<>>
  <1> DEFINE w     == From(b, p)
             items == Split[b]
             I2    == SubSeq(items, n + 1, Len(items))
  <1>1. p \in 0..Len(b) /\ n \in 0..Len(items) /\ I2 = Split[w]
    BY DEF AtElement
  <1>2. w \in Seq(Byte)
    BY <1>1, FromProperties
  <1>3. ElementSpan(w, 0).rc = ElementSpan(b, p).rc
    BY <1>1, SpanShifted DEF Shifted
  <1>4. I2 = <<>>
    BY <1>1, <1>2, <1>3, SplitUnfold
  <1>5. n = Len(items)
    <2>1. items \in Seq(Seq(Byte)) /\ Len(items) \in Nat
      BY SplitProperties, LenProperties
    <2>2. Len(I2) = Len(items) - n
      BY <1>1, <2>1, CutAt
    <2>3. Len(I2) = 0
      BY <1>4, EmptySeq
    <2>4. n \in 0..Len(items)
      BY <1>1
    <2> HIDE DEF items, I2
    <2>5. QED
      BY <2>1, <2>2, <2>3, <2>4
  <1>6. w = Residue(b)
    <2>1. w = FlattenSeq(I2) \o Residue(b)
      BY RestOfView
    <2>2. Residue(b) \in Seq(Byte)
      BY SplitProperties
    <2>3. QED
      BY <1>4, <2>1, <2>2, FlattenEmpty, ConcatEmptySeq
  <1>7. ElementSpan(w, 0).rc \in {-1, 0, 1} /\ (ElementSpan(w, 0).rc = 0 <=> w = <<>>)
    BY <1>2, FirstSpan
  <1>8. QED
    BY <1>3, <1>5, <1>6, <1>7

-----------------------------------------------------------------------------
ScanCalls == [op : {"count"}, index : {0}] \cup [op : {"at", "nth_rest", "take"}, index : Indices]

(* The inductive invariant: a scan under way stands at an element, having  *)
(* passed no more of them than it was asked for.                           *)
IInv ==
    /\ view \in Seq(Byte)
    /\ call \in {NoCall} \cup ScanCalls
    /\ reply \in [rc : Int, bytes : Seq(Byte)]
    /\ call = NoCall => i = 0 /\ pos = 0
    /\ call # NoCall =>
         /\ AtElement(view, pos, i)
         /\ call.op # "count" => i <= call.index

LEMMA CallTypes ==
    ASSUME NEW c \in {NoCall} \cup ScanCalls
    PROVE  /\ c.op \in {"none", "count", "at", "nth_rest", "take"} /\ c.index \in Nat
           /\ c.op = "none" <=> c = NoCall
           /\ c.op # "count" => c = NoCall \/ c.index \in Indices
  <1>1. Indices \subseteq Nat
    BY ViewAssumption
  <1>2. CASE c = NoCall
    BY <1>2 DEF NoCall
  <1>3. CASE c \in [op : {"count"}, index : {0}]
    BY <1>3 DEF NoCall
  <1>4. CASE c \in [op : {"at", "nth_rest", "take"}, index : Indices]
    <2>1. c.op \in {"at", "nth_rest", "take"} /\ c.index \in Indices
      BY <1>4
    <2>2. NoCall.op = "none"
      BY DEF NoCall
    <2>3. QED
      BY <1>1, <2>1, <2>2
  <1>5. QED
    BY <1>2, <1>3, <1>4 DEF ScanCalls

LEMMA AtElementTypes ==
    ASSUME NEW b \in Seq(Byte), NEW p, NEW n, AtElement(b, p, n)
    PROVE  /\ p \in 0..Len(b) /\ n \in 0..Len(Split[b]) /\ p \in Nat /\ n \in Nat
           /\ Len(b) \in Nat /\ Len(Split[b]) \in Nat
  <1>1. p \in 0..Len(b) /\ n \in 0..Len(Split[b])
    BY DEF AtElement
  <1>2. Len(b) \in Nat /\ Len(Split[b]) \in Nat
    BY SplitProperties, LenProperties
  <1>3. QED
    BY <1>1, <1>2

(* Every view a call gives back is bytes of the view it was given.         *)
LEMMA OutcomeTypes ==
    ASSUME IInv, call # NoCall
    PROVE  Outcome(ElementSpan(view, pos)) \in [rc : Int, bytes : Seq(Byte)]
  <1> DEFINE span == ElementSpan(view, pos)
             o    == Outcome(span)
  <1> SUFFICES o \in [rc : Int, bytes : Seq(Byte)]
    OBVIOUS
  <1>1. /\ view \in Seq(Byte) /\ AtElement(view, pos, i)
        /\ call.op \in {"count", "at", "nth_rest", "take"}
    BY CallTypes DEF IInv
  <1>2. pos \in 0..Len(view) /\ i \in Nat
    BY <1>1, AtElementTypes
  <1>3. span.rc \in {-1, 0, 1}
    <2>1. span.rc # 1 => span.rc \in {-1, 0}
      BY <1>1, AtEnd
    <2>2. QED
      BY <2>1
  <1>4. Empty \in Seq(Byte)
    BY EmptySeq DEF Empty
  <1>5. CASE call.op = "count"
    <2>1. o = [rc |-> IF span.rc = 0 THEN i ELSE -1, bytes |-> Empty]
      BY <1>5 DEF Outcome
    <2> HIDE DEF span, o
    <2>2. (IF span.rc = 0 THEN i ELSE -1) \in Int
      BY <1>2
    <2>3. QED
      BY <1>4, <2>1, <2>2
  <1>6. CASE call.op = "at"
    <2>1. o = [rc |-> span.rc,
               bytes |-> IF span.rc = 1 THEN SubSeq(view, pos + 1, span.end) ELSE Empty]
      BY <1>6 DEF Outcome
    <2> HIDE DEF o, span
    <2>2. ASSUME span.rc = 1
          PROVE  SubSeq(view, pos + 1, span.end) \in Seq(Byte)
      <3>1. Split[view][i + 1] = SubSeq(view, pos + 1, span.end) /\ i < Len(Split[view])
        BY <1>1, <2>2, AtNext DEF span
      <3>2. i + 1 \in 1..Len(Split[view])
        BY <1>1, <1>2, <3>1, AtElementTypes
      <3>3. QED
        BY <1>1, <3>1, <3>2, SplitProperties, ElementOfSeq
    <2>3. QED
      BY <1>3, <1>4, <2>1, <2>2
  <1>7. CASE call.op = "nth_rest"
    <2>1. o = [rc |-> 1, bytes |-> SubSeq(view, pos + 1, Len(view))]
      BY <1>7 DEF Outcome
    <2> HIDE DEF o
    <2>2. SubSeq(view, pos + 1, Len(view)) \in Seq(Byte)
      BY <1>1, <1>2, CutAt
    <2>3. QED
      BY <2>1, <2>2
  <1>8. CASE call.op = "take"
    <2>1. o = [rc |-> 1, bytes |-> SubSeq(view, 1, pos)]
      BY <1>8 DEF Outcome
    <2> HIDE DEF o
    <2>2. SubSeq(view, 1, pos) \in Seq(Byte)
      BY <1>1, <1>2, CutAt
    <2>3. QED
      BY <2>1, <2>2
  <1>9. QED
    BY <1>1, <1>5, <1>6, <1>7, <1>8

(* What contained_items answers with.                                      *)
LEMMA ContainedTypes ==
    ASSUME NEW b \in Seq(Byte)
    PROVE  /\ Next(b, 0).rc \in {-1, 0, 1}
           /\ b = <<>> => Next(b, 0).rc = 0
  <1>1. Len(b) \in Nat /\ 0 \in 0..Len(b) /\ (b = <<>> <=> Len(b) = 0)
    BY LenProperties, EmptySeq
  <1>2. CASE 0 = Len(b)
    BY <1>1, <1>2, NextAdvances
  <1>3. CASE 0 # Len(b)
    <2>1. Advances(Next(b, 0), 0 + 1, b)
      BY <1>1, <1>3, NextAdvances
    <2>2. QED
      BY <1>1, <1>3, <2>1 DEF Advances
  <1>4. QED
    BY <1>2, <1>3

LEMMA InitHolds == Init => IInv
  <1> SUFFICES ASSUME Init PROVE IInv
    OBVIOUS
  <1>1. view \in Seq(Byte)
    BY ViewAssumption DEF Init
  <1>2. NoReply \in [rc : Int, bytes : Seq(Byte)]
    BY EmptySeq DEF NoReply, Empty
  <1>3. QED
    BY <1>1, <1>2 DEF Init, IInv

LEMMA StepHolds == IInv /\ [ViewNext]_vars => IInv'
  <1> SUFFICES ASSUME IInv, [ViewNext]_vars
               PROVE  IInv'
    OBVIOUS
  <1>1. ASSUME NEW op \in {"count", "at", "nth_rest", "take"}, NEW n \in Nat,
               [op |-> op, index |-> n] \in ScanCalls, Start(op, n)
        PROVE  IInv'
    <2>1. /\ call' = [op |-> op, index |-> n] /\ call' \in ScanCalls /\ call = NoCall
          /\ reply' = NoReply /\ view' = view /\ i' = i /\ pos' = pos
      BY <1>1 DEF Start
    <2>2. view \in Seq(Byte) /\ i = 0 /\ pos = 0
      BY <2>1 DEF IInv
    <2>3. call'.index = n /\ i' <= call'.index /\ call' # NoCall
      BY <1>1, <2>1, <2>2 DEF NoCall
    <2>4. AtElement(view', pos', i')
      BY <2>1, <2>2, AtStart
    <2>5. NoReply \in [rc : Int, bytes : Seq(Byte)]
      BY EmptySeq DEF NoReply, Empty
    <2>6. QED
      BY <2>1, <2>2, <2>3, <2>4, <2>5 DEF IInv
  <1>2. CASE Pass
    <2>1. /\ GoesOn(ElementSpan(view, pos)) /\ pos' = ElementSpan(view, pos).end /\ i' = i + 1
          /\ view' = view /\ call' = call /\ reply' = reply
      BY <1>2 DEF Pass
    <2>2. /\ call # NoCall /\ ElementSpan(view, pos).rc = 1
          /\ call.op \in {"nth_rest", "take"} => i < call.index
          /\ ~(call.op = "at" /\ i = call.index)
      BY <2>1 DEF GoesOn
    <2>3. /\ view \in Seq(Byte) /\ AtElement(view, pos, i) /\ call \in {NoCall} \cup ScanCalls
          /\ call.op # "count" => i <= call.index
      BY <2>2 DEF IInv
    <2>4. AtElement(view, ElementSpan(view, pos).end, i + 1)
      BY <2>2, <2>3, AtNext
    <2>5. call.op # "count" => i + 1 <= call.index
      <3>1. i \in Nat /\ call.index \in Nat /\ call.op \in {"none", "count", "at", "nth_rest", "take"}
            /\ call.op # "none"
        BY <2>2, <2>3, AtElementTypes, CallTypes
      <3>2. call.op # "count" => i < call.index
        BY <2>2, <2>3, <3>1
      <3>3. QED
        BY <3>1, <3>2
    <2>6. QED
      BY <2>1, <2>2, <2>3, <2>4, <2>5 DEF IInv
  <1>3. CASE Finish
    <2>1. /\ call # NoCall /\ reply' = Outcome(ElementSpan(view, pos)) /\ call' = NoCall
          /\ i' = 0 /\ pos' = 0 /\ view' = view
      BY <1>3 DEF Finish
    <2>2. QED
      BY <2>1, OutcomeTypes DEF IInv
  <1>4. CASE ViewTail
    <2> DEFINE e == ElementSpan(view, 0).end
               o == IF ElementSpan(view, 0).rc = 1 THEN SubSeq(view, e + 1, Len(view)) ELSE view
    <2>1. reply' = [rc |-> 1, bytes |-> o] /\ UNCHANGED <<view, call, i, pos>> /\ view \in Seq(Byte)
      BY <1>4 DEF ViewTail, IInv
    <2>2. o \in Seq(Byte)
      <3>1. ElementSpan(view, 0).rc = 1 => e \in 1..Len(view)
        BY <2>1, FirstSpan
      <3>2. ElementSpan(view, 0).rc = 1 => e \in 0..Len(view)
        BY <2>1, <3>1, LenProperties
      <3>3. QED
        BY <2>1, <3>2, CutAt
    <2> HIDE DEF o
    <2>3. QED
      BY <2>1, <2>2 DEF IInv
  <1>5. CASE ContainedItems
    <2> DEFINE r == Next(view, 0)
    <2>1. /\ view \in Seq(Byte) /\ UNCHANGED <<view, call, i, pos>>
          /\ reply' = IF r.rc = 1 /\ r.el.kind \in Containers
                      THEN [rc |-> 1, bytes |-> r.el.data]
                      ELSE [rc |-> IF r.rc = 1 THEN 0 ELSE r.rc, bytes |-> Empty]
      BY <1>5 DEF ContainedItems, Containers, IInv
    <2>2. r.rc \in {-1, 0, 1} /\ (r.rc = 1 /\ r.el.kind \in Containers => r.el.data \in Seq(Byte))
      BY <2>1, ContainedTypes, ContentsBytes
    <2>3. Empty \in Seq(Byte)
      BY EmptySeq DEF Empty
    <2> HIDE DEF r
    <2>4. reply' \in [rc : Int, bytes : Seq(Byte)]
      BY <2>1, <2>2, <2>3
    <2>5. QED
      BY <2>1, <2>4 DEF IInv
  <1>6. CASE Follow
    BY <1>6 DEF Follow, IInv
  <1>7. CASE UNCHANGED vars
    BY <1>7 DEF vars, IInv
  <1>8. CASE Start("count", 0)
    BY <1>1, <1>8 DEF ScanCalls
  <1>9. ASSUME NEW op \in {"at", "nth_rest", "take"}, NEW n \in Indices, Start(op, n)
        PROVE  IInv'
    <2>1. [op |-> op, index |-> n] \in ScanCalls /\ n \in Nat
      BY ViewAssumption DEF ScanCalls
    <2>2. QED
      BY <1>1, <1>9, <2>1
  <1>10. QED
    BY <1>2, <1>3, <1>4, <1>5, <1>6, <1>7, <1>8, <1>9 DEF ViewNext, LoopStep

(* The inductive invariant of the navigation loops, for every view: the    *)
(* scan of the call under way stands where i elements end, and has not     *)
(* gone past the element asked for.                                        *)
THEOREM Invariance == Spec => []IInv
  BY InitHolds, StepHolds, PTL DEF Spec

(* For every view, index and operation: the variables keep their types,    *)
(* the answers are return codes and bytes of the view.                     *)
THEOREM TypeCorrect == Spec => []TypeOK
  <1>1. IInv => TypeOK
    <2> SUFFICES ASSUME IInv PROVE TypeOK
      OBVIOUS
    <2>1. call.op \in {"none", "count", "at", "nth_rest", "take"}
      BY CallTypes DEF IInv
    <2>2. i \in Nat /\ pos \in Nat
      BY AtElementTypes DEF IInv
    <2>3. QED
      BY <2>1, <2>2 DEF IInv, TypeOK
  <1>2. QED
    BY <1>1, Invariance, PTL

(* A scan never leaves the view, however the bytes are cut or corrupted,   *)
(* and after i skips it stands exactly where i elements end.               *)
THEOREM ScansStaySynchronised == Spec => []ScanSynchronised
  <1>1. IInv => ScanSynchronised
    <2> SUFFICES ASSUME IInv, call # NoCall
                 PROVE  /\ pos <= Len(view)
                        /\ i <= Len(Split[view])
                        /\ SubSeq(view, 1, pos) = FlattenSeq(SubSeq(Split[view], 1, i))
      BY DEF ScanSynchronised
    <2>1. view \in Seq(Byte) /\ AtElement(view, pos, i)
      BY DEF IInv
    <2>2. pos <= Len(view) /\ i <= Len(Split[view])
      BY <2>1, AtElementTypes
    <2>3. QED
      BY <2>1, <2>2 DEF AtElement
  <1>2. QED
    BY <1>1, Invariance, PTL

-----------------------------------------------------------------------------
(* The refinement.                                                         *)
LEMMA SameFlatten == \A s : Abstract!FlattenSeq(s) = FlattenSeq(s)
  BY Zenon DEF FlattenSeq, Abstract!FlattenSeq

LEMMA TakenIs ==
    \A n : Abstract!Taken(n) = FlattenSeq(SubSeq(Split[view], 1, Abstract!Lesser(n, Len(Split[view]))))
  BY SameFlatten, Zenon DEF Abstract!Taken

LEMMA DroppedIs ==
    \A n : Abstract!Dropped(n) =
              FlattenSeq(SubSeq(Split[view], Abstract!Lesser(n, Len(Split[view])) + 1, Len(Split[view])))
                \o Residue(view)
  BY SameFlatten, Zenon DEF Abstract!Dropped

(* A scan that stops stands where the elements it was     *)
(* asked to pass end, or where all of them do.                             *)
LEMMA StopsAt ==
    ASSUME IInv, call # NoCall, ~GoesOn(ElementSpan(view, pos)), call.op \in {"nth_rest", "take"}
    PROVE  i = Abstract!Lesser(call.index, Len(Split[view]))
  <1>1. /\ view \in Seq(Byte) /\ AtElement(view, pos, i) /\ i <= call.index
        /\ call \in {NoCall} \cup ScanCalls
    BY DEF IInv
  <1>2. i \in 0..Len(Split[view]) /\ Len(Split[view]) \in Nat /\ i \in Nat /\ call.index \in Nat
    BY <1>1, AtElementTypes, CallTypes
  <1>3. CASE ElementSpan(view, pos).rc = 1
    <2>1. ~(i < call.index)
      BY <1>3 DEF GoesOn
    <2>2. QED
      BY <1>1, <1>2, <2>1 DEF Abstract!Lesser
  <1>4. CASE ElementSpan(view, pos).rc # 1
    <2>1. i = Len(Split[view])
      BY <1>1, <1>4, AtEnd
    <2>2. QED
      BY <1>1, <1>2, <2>1 DEF Abstract!Lesser
  <1>5. QED
    BY <1>3, <1>4

(* Every function answers from the elements and the residue alone.         *)
LEMMA OutcomeIsAnswer ==
    ASSUME IInv, call # NoCall, ~GoesOn(ElementSpan(view, pos))
    PROVE  Outcome(ElementSpan(view, pos)) = Abstract!AnswerTo(call)
  <1> DEFINE span  == ElementSpan(view, pos)
             items == Split[view]
  <1>1. /\ view \in Seq(Byte) /\ AtElement(view, pos, i)
        /\ call.op \in {"count", "at", "nth_rest", "take"}
        /\ call \in {NoCall} \cup ScanCalls
        /\ call.op # "count" => i <= call.index
    BY CallTypes DEF IInv
  <1>2. i \in 0..Len(items) /\ Len(items) \in Nat /\ i \in Nat /\ call.index \in Nat
    BY <1>1, AtElementTypes, CallTypes
  <1>3. span.rc # 1 => /\ i = Len(items)
                       /\ span.rc \in {-1, 0}
                       /\ span.rc = 0 <=> Residue(view) = <<>>
    BY <1>1, AtEnd
  <1>4. CASE call.op = "count"
    <2>1. span.rc # 1
      BY <1>4 DEF GoesOn
    <2>2. Outcome(span) = [rc |-> IF span.rc = 0 THEN i ELSE -1, bytes |-> Empty]
      BY <1>4 DEF Outcome
    <2>3. Abstract!AnswerTo(call) = [rc |-> IF Residue(view) = <<>> THEN Len(items) ELSE -1, bytes |-> <<>>]
      BY <1>4 DEF Abstract!AnswerTo, Abstract!WellFormed
    <2>4. QED
      BY <1>3, <2>1, <2>2, <2>3 DEF Empty
  <1>5. CASE call.op = "at"
    <2>1. Outcome(span) = [rc |-> span.rc,
             bytes |-> IF span.rc = 1 THEN SubSeq(view, pos + 1, span.end) ELSE Empty]
      BY <1>5 DEF Outcome
    <2>2. Abstract!AnswerTo(call) =
            IF call.index < Len(items) THEN [rc |-> 1, bytes |-> items[call.index + 1]]
            ELSE [rc |-> IF Residue(view) = <<>> THEN 0 ELSE -1, bytes |-> <<>>]
      BY <1>5 DEF Abstract!AnswerTo, Abstract!WellFormed
    <2>3. CASE span.rc = 1
      <3>1. i = call.index
        BY <1>5, <2>3 DEF GoesOn
      <3>2. items[i + 1] = SubSeq(view, pos + 1, span.end) /\ i < Len(items)
        BY <1>1, <2>3, AtNext
      <3>3. QED
        BY <2>1, <2>2, <2>3, <3>1, <3>2
    <2>4. CASE span.rc # 1
      <3>1. ~(call.index < Len(items))
        BY <1>1, <1>2, <1>3, <1>5, <2>4
      <3>2. QED
        BY <1>3, <2>1, <2>2, <2>4, <3>1 DEF Empty
    <2>5. QED
      BY <2>3, <2>4
  <1>6. CASE call.op = "nth_rest"
    <2>1. Outcome(span) = [rc |-> 1, bytes |-> From(view, pos)]
      BY <1>6 DEF Outcome, From
    <2>2. Abstract!AnswerTo(call) = [rc |-> 1, bytes |-> Abstract!Dropped(call.index)]
      BY <1>6 DEF Abstract!AnswerTo
    <2>3. i = Abstract!Lesser(call.index, Len(items))
      BY <1>6, StopsAt
    <2>4. From(view, pos) = FlattenSeq(SubSeq(items, i + 1, Len(items))) \o Residue(view)
      BY <1>1, RestOfView
    <2>5. QED
      BY <2>1, <2>2, <2>3, <2>4, DroppedIs
  <1>7. CASE call.op = "take"
    <2>1. Outcome(span) = [rc |-> 1, bytes |-> SubSeq(view, 1, pos)]
      BY <1>7 DEF Outcome
    <2>2. Abstract!AnswerTo(call) = [rc |-> 1, bytes |-> Abstract!Taken(call.index)]
      BY <1>7 DEF Abstract!AnswerTo
    <2>3. i = Abstract!Lesser(call.index, Len(items))
      BY <1>7, StopsAt
    <2>4. SubSeq(view, 1, pos) = FlattenSeq(SubSeq(items, 1, i))
      BY <1>1 DEF AtElement
    <2>5. QED
      BY <2>1, <2>2, <2>3, <2>4, TakenIs
  <1>8. QED
    BY <1>1, <1>4, <1>5, <1>6, <1>7

(* tail() is nth_rest(1), on malformed bytes too.                          *)
LEMMA TailDropsOne ==
    ASSUME view \in Seq(Byte)
    PROVE  (IF ElementSpan(view, 0).rc = 1 THEN SubSeq(view, ElementSpan(view, 0).end + 1, Len(view)) ELSE view)
             = Abstract!Dropped(1)
  <1> DEFINE span  == ElementSpan(view, 0)
             items == Split[view]
             k     == Abstract!Lesser(1, Len(items))
  <1>1. AtElement(view, 0, 0) /\ Len(items) \in Nat
    BY AtStart, AtElementTypes
  <1>2. Abstract!Dropped(1) = FlattenSeq(SubSeq(items, k + 1, Len(items))) \o Residue(view)
    BY DroppedIs
  <1>3. k = IF 1 < Len(items) THEN 1 ELSE Len(items)
    BY DEF Abstract!Lesser
  <1>4. (0 < Len(items) => k = 1) /\ (Len(items) = 0 => k = 0)
    <2>1. \A m \in Nat : /\ 0 < m => (IF 1 < m THEN 1 ELSE m) = 1
                         /\ m = 0 => (IF 1 < m THEN 1 ELSE m) = 0
      OBVIOUS
    <2> HIDE DEF items, k
    <2>2. Len(items) \in Nat
      BY <1>1
    <2>3. QED
      BY <1>3, <2>1, <2>2, Zenon
  <1>5. CASE span.rc = 1
    <2>1. AtElement(view, span.end, 0 + 1) /\ 0 < Len(items)
      BY <1>1, <1>5, AtNext
    <2>2. AtElement(view, span.end, 1)
      BY <2>1
    <2>3. k = 1
      BY <1>4, <2>1
    <2>4. From(view, span.end) = FlattenSeq(SubSeq(items, 1 + 1, Len(items))) \o Residue(view)
      BY <2>2, RestOfView
    <2>5. QED
      BY <1>2, <1>5, <2>3, <2>4 DEF From
  <1>6. CASE span.rc # 1
    <2>1. Len(items) = 0
      BY <1>1, <1>6, AtEnd
    <2>2. k = 0
      BY <1>4, <2>1
    <2>3. From(view, 0) = FlattenSeq(SubSeq(items, 0 + 1, Len(items))) \o Residue(view)
      BY <1>1, RestOfView
    <2>4. From(view, 0) = view
      <3>1. SubSeq(view, 0 + 1, Len(view)) = view
        BY SubSeqFull
      <3>2. QED
        BY <3>1 DEF From
    <2>5. QED
      BY <1>2, <1>6, <2>2, <2>3, <2>4
  <1>7. QED
    BY <1>5, <1>6

LEMMA InitMaps == Init => Abstract!Init
  BY DEF Init, Abstract!Init, NoCall, NoReply, Empty, Abstract!NoCall, Abstract!NoReply

(* Every step is a question, an answer, a step of the caller, or invisible. *)
LEMMA StepMaps == IInv /\ [ViewNext]_vars => [Abstract!Next]_(Abstract!vars)
  <1> SUFFICES ASSUME IInv, [ViewNext]_vars
               PROVE  Abstract!Next \/ UNCHANGED Abstract!vars
    OBVIOUS
  <1>1. view \in Seq(Byte)
    BY DEF IInv
  <1>2. view' = view => Split[view]' = Split[view] /\ Residue(view)' = Residue(view)
    BY DEF Residue
  <1>3. NoCall = Abstract!NoCall /\ NoReply = Abstract!NoReply /\ ScanCalls = Abstract!Calls
    <2>1. Abstract!Operations \ {"count"} = {"at", "nth_rest", "take"}
      BY DEF Abstract!Operations
    <2>2. QED
      BY <2>1 DEF NoCall, NoReply, Empty, ScanCalls, Abstract!NoCall, Abstract!NoReply, Abstract!Calls
  <1>4. ASSUME NEW op, NEW n, [op |-> op, index |-> n] \in ScanCalls, Start(op, n)
        PROVE  Abstract!Next
    BY <1>2, <1>3, <1>4 DEF Start, Abstract!Ask, Abstract!Next
  <1>5. CASE Pass
    BY <1>2, <1>5 DEF Pass, Abstract!vars
  <1>6. CASE Finish
    <2>1. /\ call # NoCall /\ ~GoesOn(ElementSpan(view, pos))
          /\ reply' = Outcome(ElementSpan(view, pos)) /\ call' = NoCall /\ view' = view
      BY <1>6 DEF Finish
    <2>2. reply' = Abstract!AnswerTo(call)
      BY <2>1, OutcomeIsAnswer
    <2>3. QED
      BY <1>2, <1>3, <2>1, <2>2 DEF Abstract!Answer, Abstract!Next
  <1>7. CASE ViewTail
    <2>1. /\ call = NoCall /\ call' = call /\ view' = view
          /\ reply' = [rc |-> 1, bytes |->
                         IF ElementSpan(view, 0).rc = 1
                         THEN SubSeq(view, ElementSpan(view, 0).end + 1, Len(view)) ELSE view]
      BY <1>7 DEF ViewTail
    <2>2. reply' = [rc |-> 1, bytes |-> Abstract!Dropped(1)]
      BY <1>1, <2>1, TailDropsOne
    <2>3. QED
      BY <1>2, <1>3, <2>1, <2>2 DEF Abstract!ViewTail, Abstract!Next
  <1>8. CASE ContainedItems
    <2> DEFINE r == Next(view, 0)
    <2>1. /\ call = NoCall /\ call' = call /\ view' = view
          /\ reply' = IF r.rc = 1 /\ r.el.kind \in Containers
                      THEN [rc |-> 1, bytes |-> r.el.data]
                      ELSE [rc |-> IF r.rc = 1 THEN 0 ELSE r.rc, bytes |-> Empty]
      BY <1>8 DEF ContainedItems, Containers
    <2>2. /\ r.rc \in {-1, 0, 1} /\ (view = <<>> => r.rc = 0)
          /\ r.rc = 1 /\ r.el.kind \in Containers => r.el.data \in Seq(Byte)
      BY <1>1, ContainedTypes, ContentsBytes
    <2>3. Empty \in Seq(Byte)
      BY EmptySeq DEF Empty
    <2> HIDE DEF r
    <2>4. reply' \in [rc : {-1, 0, 1}, bytes : Seq(Byte)] /\ (view = <<>> => reply'.rc = 0)
      BY <2>1, <2>2, <2>3
    <2>5. Split[view] = <<>> /\ Residue(view) = <<>> => view = <<>>
      <3>1. view = FlattenSeq(Split[view]) \o Residue(view)
        BY <1>1, SplitProperties
      <3>2. <<>> \o <<>> = <<>>
        BY EmptySeq, ConcatEmptySeq
      <3>3. QED
        BY <3>1, <3>2, FlattenEmpty
    <2>6. QED
      BY <1>2, <1>3, <2>1, <2>4, <2>5 DEF Byte, Abstract!WellFormed, Abstract!Contained, Abstract!Next
  <1>9. CASE Follow
    <2>1. call = NoCall /\ call' = call /\ reply' = reply /\ reply.rc = 1 /\ view' = reply.bytes
      BY <1>9 DEF Follow
    <2>2. view' \in Seq(Byte)
      BY <2>1 DEF IInv
    <2>3. view' = FlattenSeq(Split[view']) \o Residue(view')
      BY <2>2, SplitProperties
    <2>4. QED
      BY <1>3, <2>1, <2>3, SameFlatten DEF Abstract!Follow, Abstract!Next, Residue
  <1>10. CASE UNCHANGED vars
    BY <1>2, <1>10 DEF vars, Abstract!vars
  <1>11. Start("count", 0) => Abstract!Next
    <2>1. [op |-> "count", index |-> 0] \in ScanCalls
      BY DEF ScanCalls
    <2>2. QED
      BY <1>4, <2>1
  <1>12. ASSUME NEW op \in {"at", "nth_rest", "take"}, NEW n \in Indices, Start(op, n)
         PROVE  Abstract!Next
    <2>1. [op |-> op, index |-> n] \in ScanCalls
      BY DEF ScanCalls
    <2>2. QED
      BY <1>4, <1>12, <2>1
  <1>13. QED
    BY <1>5, <1>6, <1>7, <1>8, <1>9, <1>10, <1>11, <1>12 DEF ViewNext, LoopStep

(* For every view, well formed or not, and every index: count, at,         *)
(* nth_rest, take, tail and contained_items answer as if the tuple had     *)
(* been split into its elements once (the safety part of                   *)
(* AnswersFromTuple).                                                      *)
THEOREM Refinement == Spec => Abstract!SafeSpec
  BY InitMaps, StepMaps, Invariance, PTL DEF Spec, Abstract!SafeSpec
=============================================================================
