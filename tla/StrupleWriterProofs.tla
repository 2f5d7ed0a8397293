------------------------- MODULE StrupleWriterProofs -------------------------
(***************************************************************************)
(* The writers of StrupleWriter: what every mix of append, reset and free  *)
(* calls keeps true of the buffers and their allocations; that the scanner *)
(* of decimal strings accepts the texts the grammar of StrupleDecimalText  *)
(* accepts, and reads what they denote; that the writers implement         *)
(* TupleStore, call by call, when their bytes are read back; and that the  *)
(* order of their bytes is the order of the values they hold.              *)
(***************************************************************************)
EXTENDS StrupleOrder, StrupleCodecProofs, FiniteSetTheorems

(* The scanner of number texts: its state after each character.            *)
ScanState ==
    [part : {"start", "mantissa", "mark", "exponent", "bad"}, neg : BOOLEAN, digits : Seq(0..9),
     point : BOOLEAN, exp : Int, eneg : BOOLEAN, edigit : BOOLEAN, ev : Nat]

LEMMA ScanCharState ==
    ASSUME NEW s \in ScanState, NEW c
    PROVE  ScanChar(s, c) \in ScanState
  <1>1. c \in Digit => Append(s.digits, c) \in Seq(0..9)
    <2>1. s.digits \in Seq(0..9)
      BY DEF ScanState
    <2>2. QED
      BY <2>1, AppendProperties DEF Digit
  <1>2. [s EXCEPT !.part = "mantissa", !.neg = c = MINUS] \in ScanState
    BY DEF ScanState
  <1>3. c \in Digit => [s EXCEPT !.part = "mantissa", !.digits = Append(@, c),
                                 !.exp = IF s.point THEN @ - 1 ELSE @] \in ScanState
    <2>1. ASSUME NEW d \in Seq(0..9), NEW x \in Int
          PROVE  [s EXCEPT !.part = "mantissa", !.digits = d, !.exp = x] \in ScanState
      BY DEF ScanState
    <2>2. (IF s.point THEN s.exp - 1 ELSE s.exp) \in Int
      BY DEF ScanState
    <2> HIDE DEF ScanState
    <2>3. QED
      BY <1>1, <2>1, <2>2
  <1>4. [s EXCEPT !.part = "mantissa", !.point = TRUE] \in ScanState
    BY DEF ScanState
  <1>5. [s EXCEPT !.part = "mark"] \in ScanState
    BY DEF ScanState
  <1>6. [s EXCEPT !.part = "exponent", !.eneg = c = MINUS] \in ScanState
    BY DEF ScanState
  <1>7. c \in Digit => [s EXCEPT !.part = "exponent", !.edigit = TRUE, !.ev = @ * 10 + c] \in ScanState
    <2>1. ASSUME NEW x \in Nat
          PROVE  [s EXCEPT !.part = "exponent", !.edigit = TRUE, !.ev = x] \in ScanState
      BY DEF ScanState
    <2>2. c \in Digit => s.ev * 10 + c \in Nat
      BY DEF ScanState, Digit
    <2> HIDE DEF ScanState
    <2>3. QED
      BY <2>1, <2>2
  <1>8. [s EXCEPT !.part = "bad"] \in ScanState
    BY DEF ScanState
  <1> HIDE DEF ScanState
  <1>9. QED
    BY <1>2, <1>3, <1>4, <1>5, <1>6, <1>7, <1>8 DEF ScanChar

IsScan(f, text, n) ==
    f = [k \in 0..n |-> IF k = 0 THEN ScanStart ELSE ScanChar(f[k - 1], text[k])]

LEMMA ScanExists ==
    ASSUME NEW text
    PROVE  \A n \in Nat : \E f : IsScan(f, text, n)
  <1> DEFINE S == {n \in Nat : \E f : IsScan(f, text, n)}
  <1>1. 0 \in S
    <2> DEFINE f == [k \in 0..0 |-> ScanStart]
    <2>1. f = [k \in 0..0 |-> IF k = 0 THEN ScanStart ELSE ScanChar(f[k - 1], text[k])]
      OBVIOUS
    <2> HIDE DEF f
    <2>2. QED
      BY <2>1 DEF IsScan
  <1>2. ASSUME NEW n \in Nat, n \in S
        PROVE  n + 1 \in S
    <2>1. PICK f : IsScan(f, text, n)
      BY <1>2
    <2> DEFINE next == [k \in 0..(n + 1) |-> IF k = n + 1 THEN ScanChar(f[n], text[n + 1]) ELSE f[k]]
    <2>2. \A k \in 0..n : f[k] = IF k = 0 THEN ScanStart ELSE ScanChar(f[k - 1], text[k])
      BY <2>1, Zenon DEF IsScan
    <2>3. ASSUME NEW k \in 0..(n + 1)
          PROVE  next[k] = IF k = 0 THEN ScanStart ELSE ScanChar(next[k - 1], text[k])
      <3>1. CASE k = n + 1
        <4>1. next[k] = ScanChar(f[n], text[n + 1]) /\ k # 0 /\ k - 1 = n /\ n # n + 1 /\ n \in 0..(n + 1)
          BY <3>1
        <4>2. next[n] = f[n]
          BY <4>1
        <4> HIDE DEF next
        <4>3. QED
          BY <3>1, <4>1, <4>2
      <3>2. CASE k # n + 1 /\ k # 0
        <4>1. k \in 0..n /\ k - 1 \in 0..n /\ k - 1 # n + 1 /\ k - 1 \in 0..(n + 1)
          BY <3>2
        <4>2. next[k] = f[k] /\ next[k - 1] = f[k - 1]
          BY <3>2, <4>1
        <4> HIDE DEF next
        <4>3. QED
          BY <2>2, <3>2, <4>1, <4>2
      <3>3. CASE k = 0
        BY <2>2, <3>3
      <3>4. QED
        BY <3>1, <3>2, <3>3
    <2>4. next = [k \in 0..(n + 1) |-> next[k]]
      BY Zenon
    <2> HIDE DEF next
    <2>5. next = [k \in 0..(n + 1) |-> IF k = 0 THEN ScanStart ELSE ScanChar(next[k - 1], text[k])]
      BY <2>3, <2>4
    <2>6. QED
      BY <2>5 DEF IsScan
  <1> HIDE DEF S
  <1>3. \A n \in Nat : n \in S
    BY <1>1, <1>2, NatSetInduction
  <1>4. QED
    BY <1>3 DEF S

LEMMA ScannedState ==
    ASSUME NEW text, Len(text) \in Nat
    PROVE  Scanned(text) \in ScanState
  <1> DEFINE n == Len(text)
             f == CHOOSE f : f = [k \in 0..n |-> IF k = 0 THEN ScanStart ELSE ScanChar(f[k - 1], text[k])]
  <1>1. Scanned(text) = f[n]
    BY Zenon DEF Scanned
  <1>2. \E g : g = [k \in 0..n |-> IF k = 0 THEN ScanStart ELSE ScanChar(g[k - 1], text[k])]
    BY ScanExists DEF IsScan
  <1>3. f = [k \in 0..n |-> IF k = 0 THEN ScanStart ELSE ScanChar(f[k - 1], text[k])]
    BY <1>2, Zenon
  <1>4. n \in Nat
    OBVIOUS
  <1> HIDE DEF f, n
  <1>5. \A k \in 0..n : f[k] = IF k = 0 THEN ScanStart ELSE ScanChar(f[k - 1], text[k])
    BY <1>3, Zenon
  <1> DEFINE S == {k \in Nat : k <= n => f[k] \in ScanState}
  <1>6. 0 \in S
    <2>1. ScanStart \in ScanState
      BY EmptySeq DEF ScanStart, ScanState
    <2>2. QED
      BY <1>4, <1>5, <2>1
  <1>7. ASSUME NEW k \in Nat, k \in S
        PROVE  k + 1 \in S
    <2>1. ASSUME k + 1 <= n
          PROVE  f[k + 1] \in ScanState
      <3>1. k + 1 \in 0..n /\ k + 1 # 0 /\ (k + 1) - 1 = k /\ k <= n
        BY <1>4, <2>1
      <3>2. f[k + 1] = ScanChar(f[k], text[k + 1])
        BY <1>5, <3>1
      <3>3. QED
        BY <1>7, <3>1, <3>2, ScanCharState
    <2>2. QED
      BY <2>1
  <1> HIDE DEF S
  <1>8. n \in S
    BY <1>4, <1>6, <1>7, NatSetInduction
  <1>9. QED
    BY <1>1, <1>4, <1>8 DEF S

LEMMA EncDecimalTextBytes ==
    ASSUME NEW text, Len(text) \in Nat
    PROVE  EncDecimalText(text) \in Seq(Byte)
  <1> DEFINE s == Scanned(text)
  <1>1. s \in ScanState
    BY ScannedState
  <1> HIDE DEF s
  <1>2. s.digits \in Seq(0..9) /\ s.exp \in Int /\ s.ev \in Nat
    BY <1>1 DEF ScanState
  <1>3. ScannedExp(s) \in Int
    BY <1>2 DEF ScannedExp
  <1>4. EncDecimal(s.neg, s.digits, ScannedExp(s)) \in Seq(Byte) /\ <<>> \in Seq(Byte)
    BY <1>2, <1>3, EncDecimalBytes, EmptySeq
  <1>5. QED
    BY <1>4, Zenon DEF EncDecimalText, s

-----------------------------------------------------------------------------
(* The scanner of struple_append_decimal_string against the grammar of     *)
(* number texts.                                                           *)
(* The scanner's state after one more character.                           *)
LEMMA ScanUnfold ==
    ASSUME NEW text, Len(text) \in Nat
    PROVE  \E f : IsScan(f, text, Len(text)) /\ Scanned(text) = f[Len(text)]
  <1> DEFINE n == Len(text)
             f == CHOOSE f : f = [k \in 0..n |-> IF k = 0 THEN ScanStart ELSE ScanChar(f[k - 1], text[k])]
  <1>1. Scanned(text) = f[n]
    BY Zenon DEF Scanned
  <1>2. \E g : g = [k \in 0..n |-> IF k = 0 THEN ScanStart ELSE ScanChar(g[k - 1], text[k])]
    BY ScanExists DEF IsScan
  <1>3. f = [k \in 0..n |-> IF k = 0 THEN ScanStart ELSE ScanChar(f[k - 1], text[k])]
    BY <1>2, Zenon
  <1> HIDE DEF f
  <1>4. QED
    BY <1>1, <1>3, Zenon DEF IsScan

LEMMA ScannedAppend ==
    /\ Scanned(<<>>) = ScanStart
    /\ \A S : \A t \in Seq(S), c \in S : Scanned(Append(t, c)) = ScanChar(Scanned(t), c)
  <1>1. Scanned(<<>>) = ScanStart
    <2>1. Len(<<>>) = 0
      OBVIOUS
    <2>2. PICK f : IsScan(f, <<>>, 0) /\ Scanned(<<>>) = f[0]
      BY <2>1, ScanUnfold
    <2>3. f = [k \in 0..0 |-> IF k = 0 THEN ScanStart ELSE ScanChar(f[k - 1], <<>>[k])]
      BY <2>2 DEF IsScan
    <2>4. QED
      BY <2>2, <2>3
  <1>2. ASSUME NEW S, NEW t \in Seq(S), NEW c \in S
        PROVE  Scanned(Append(t, c)) = ScanChar(Scanned(t), c)
    <2> DEFINE u == Append(t, c)
               n == Len(t)
    <2>1. n \in Nat /\ Len(u) = n + 1 /\ (\A i \in 1..n : u[i] = t[i]) /\ u[n + 1] = c
      BY AppendProperties, LenProperties
    <2> HIDE DEF u
    <2>2. PICK f : IsScan(f, t, n) /\ Scanned(t) = f[n]
      BY <2>1, ScanUnfold
    <2>3. PICK g : IsScan(g, u, n + 1) /\ Scanned(u) = g[n + 1]
      BY <2>1, ScanUnfold
    <2> HIDE DEF n
    <2>4. \A k \in 0..n : f[k] = IF k = 0 THEN ScanStart ELSE ScanChar(f[k - 1], t[k])
      BY <2>2, Zenon DEF IsScan
    <2>5. \A k \in 0..(n + 1) : g[k] = IF k = 0 THEN ScanStart ELSE ScanChar(g[k - 1], u[k])
      BY <2>3, Zenon DEF IsScan
    <2> DEFINE P == {k \in Nat : k <= n => g[k] = f[k]}
    <2>6. 0 \in P
      BY <2>1, <2>4, <2>5
    <2>7. ASSUME NEW k \in Nat, k \in P
          PROVE  k + 1 \in P
      <3>1. ASSUME k + 1 <= n
            PROVE  g[k + 1] = f[k + 1]
        <4>1. k + 1 \in 0..n /\ k + 1 \in 0..(n + 1) /\ k + 1 \in 1..n /\ k + 1 # 0 /\ (k + 1) - 1 = k /\ k <= n
          BY <2>1, <3>1
        <4>2. f[k + 1] = ScanChar(f[k], t[k + 1]) /\ g[k + 1] = ScanChar(g[k], u[k + 1])
          BY <2>4, <2>5, <4>1
        <4>3. QED
          BY <2>1, <2>7, <4>1, <4>2
      <3>2. QED
        BY <3>1
    <2> HIDE DEF P
    <2>8. \A k \in Nat : k \in P
      BY <2>6, <2>7, NatSetInduction
    <2>9. g[n] = f[n]
      BY <2>1, <2>8 DEF P
    <2>10. n + 1 \in 0..(n + 1) /\ n + 1 # 0 /\ (n + 1) - 1 = n
      BY <2>1
    <2>11. g[n + 1] = ScanChar(g[n], u[n + 1])
      BY <2>5, <2>10
    <2>12. QED
      BY <2>1, <2>2, <2>3, <2>9, <2>11 DEF u
  <1>3. QED
    BY <1>1, <1>2

(* The number that a sequence of digits writes.                            *)
IsNumber(f, ds, n) ==
    f = [k \in 0..n |-> IF k = 0 THEN 0 ELSE 10 * f[k - 1] + ds[k]]

LEMMA NumberExists ==
    ASSUME NEW ds
    PROVE  \A n \in Nat : \E f : IsNumber(f, ds, n)
  <1> DEFINE S == {n \in Nat : \E f : IsNumber(f, ds, n)}
  <1>1. 0 \in S
    <2> DEFINE f == [k \in 0..0 |-> 0]
    <2>1. f = [k \in 0..0 |-> IF k = 0 THEN 0 ELSE 10 * f[k - 1] + ds[k]]
      OBVIOUS
    <2> HIDE DEF f
    <2>2. QED
      BY <2>1 DEF IsNumber
  <1>2. ASSUME NEW n \in Nat, n \in S
        PROVE  n + 1 \in S
    <2>1. PICK f : IsNumber(f, ds, n)
      BY <1>2
    <2> DEFINE next == [k \in 0..(n + 1) |-> IF k = n + 1 THEN 10 * f[n] + ds[n + 1] ELSE f[k]]
    <2>2. \A k \in 0..n : f[k] = IF k = 0 THEN 0 ELSE 10 * f[k - 1] + ds[k]
      BY <2>1, Zenon DEF IsNumber
    <2>3. ASSUME NEW k \in 0..(n + 1)
          PROVE  next[k] = IF k = 0 THEN 0 ELSE 10 * next[k - 1] + ds[k]
      <3>1. CASE k = n + 1
        <4>1. next[k] = 10 * f[n] + ds[n + 1] /\ k # 0 /\ k - 1 = n /\ n # n + 1 /\ n \in 0..(n + 1)
          BY <3>1
        <4>2. next[n] = f[n]
          BY <4>1
        <4> HIDE DEF next
        <4>3. QED
          BY <3>1, <4>1, <4>2
      <3>2. CASE k # n + 1 /\ k # 0
        <4>1. k \in 0..n /\ k - 1 \in 0..n /\ k - 1 # n + 1 /\ k - 1 \in 0..(n + 1)
          BY <3>2
        <4>2. next[k] = f[k] /\ next[k - 1] = f[k - 1]
          BY <3>2, <4>1
        <4> HIDE DEF next
        <4>3. QED
          BY <2>2, <3>2, <4>1, <4>2
      <3>3. CASE k = 0
        BY <2>2, <3>3
      <3>4. QED
        BY <3>1, <3>2, <3>3
    <2>4. next = [k \in 0..(n + 1) |-> next[k]]
      BY Zenon
    <2> HIDE DEF next
    <2>5. next = [k \in 0..(n + 1) |-> IF k = 0 THEN 0 ELSE 10 * next[k - 1] + ds[k]]
      BY <2>3, <2>4
    <2>6. QED
      BY <2>5 DEF IsNumber
  <1> HIDE DEF S
  <1>3. \A n \in Nat : n \in S
    BY <1>1, <1>2, NatSetInduction
  <1>4. QED
    BY <1>3 DEF S

LEMMA NumberUnfold ==
    ASSUME NEW ds, Len(ds) \in Nat
    PROVE  \E f : IsNumber(f, ds, Len(ds)) /\ NumberOf(ds) = f[Len(ds)]
  <1> DEFINE n == Len(ds)
             f == CHOOSE f : f = [k \in 0..n |-> IF k = 0 THEN 0 ELSE 10 * f[k - 1] + ds[k]]
  <1>1. NumberOf(ds) = f[n]
    BY Zenon DEF NumberOf
  <1>2. \E g : g = [k \in 0..n |-> IF k = 0 THEN 0 ELSE 10 * g[k - 1] + ds[k]]
    BY NumberExists DEF IsNumber
  <1>3. f = [k \in 0..n |-> IF k = 0 THEN 0 ELSE 10 * f[k - 1] + ds[k]]
    BY <1>2, Zenon
  <1> HIDE DEF f
  <1>4. QED
    BY <1>1, <1>3, Zenon DEF IsNumber

LEMMA NumberAppend ==
    /\ NumberOf(<<>>) = 0
    /\ \A S : \A t \in Seq(S), c \in S : NumberOf(Append(t, c)) = 10 * NumberOf(t) + c
  <1>1. NumberOf(<<>>) = 0
    <2>1. Len(<<>>) = 0
      OBVIOUS
    <2>2. PICK f : IsNumber(f, <<>>, 0) /\ NumberOf(<<>>) = f[0]
      BY <2>1, NumberUnfold
    <2>3. f = [k \in 0..0 |-> IF k = 0 THEN 0 ELSE 10 * f[k - 1] + <<>>[k]]
      BY <2>2 DEF IsNumber
    <2>4. QED
      BY <2>2, <2>3
  <1>2. ASSUME NEW S, NEW t \in Seq(S), NEW c \in S
        PROVE  NumberOf(Append(t, c)) = 10 * NumberOf(t) + c
    <2> DEFINE u == Append(t, c)
               n == Len(t)
    <2>1. n \in Nat /\ Len(u) = n + 1 /\ (\A i \in 1..n : u[i] = t[i]) /\ u[n + 1] = c
      BY AppendProperties, LenProperties
    <2> HIDE DEF u
    <2>2. PICK f : IsNumber(f, t, n) /\ NumberOf(t) = f[n]
      BY <2>1, NumberUnfold
    <2>3. PICK g : IsNumber(g, u, n + 1) /\ NumberOf(u) = g[n + 1]
      BY <2>1, NumberUnfold
    <2> HIDE DEF n
    <2>4. \A k \in 0..n : f[k] = IF k = 0 THEN 0 ELSE 10 * f[k - 1] + t[k]
      BY <2>2, Zenon DEF IsNumber
    <2>5. \A k \in 0..(n + 1) : g[k] = IF k = 0 THEN 0 ELSE 10 * g[k - 1] + u[k]
      BY <2>3, Zenon DEF IsNumber
    <2> DEFINE P == {k \in Nat : k <= n => g[k] = f[k]}
    <2>6. 0 \in P
      BY <2>1, <2>4, <2>5
    <2>7. ASSUME NEW k \in Nat, k \in P
          PROVE  k + 1 \in P
      <3>1. ASSUME k + 1 <= n
            PROVE  g[k + 1] = f[k + 1]
        <4>1. k + 1 \in 0..n /\ k + 1 \in 0..(n + 1) /\ k + 1 \in 1..n /\ k + 1 # 0 /\ (k + 1) - 1 = k /\ k <= n
          BY <2>1, <3>1
        <4>2. f[k + 1] = 10 * f[k] + t[k + 1] /\ g[k + 1] = 10 * g[k] + u[k + 1]
          BY <2>4, <2>5, <4>1
        <4>3. QED
          BY <2>1, <2>7, <4>1, <4>2
      <3>2. QED
        BY <3>1
    <2> HIDE DEF P
    <2>8. \A k \in Nat : k \in P
      BY <2>6, <2>7, NatSetInduction
    <2>9. g[n] = f[n]
      BY <2>1, <2>8 DEF P
    <2>10. n + 1 \in 0..(n + 1) /\ n + 1 # 0 /\ (n + 1) - 1 = n
      BY <2>1
    <2>11. g[n + 1] = 10 * g[n] + u[n + 1]
      BY <2>5, <2>10
    <2>12. QED
      BY <2>1, <2>2, <2>3, <2>9, <2>11 DEF u
  <1>3. QED
    BY <1>1, <1>2

LEMMA NumberNat ==
    \A d \in Seq(Nat) : NumberOf(d) \in Nat
  <1> DEFINE P == {d \in Seq(Nat) : NumberOf(d) \in Nat}
  <1>1. <<>> \in P
    BY NumberAppend, EmptySeq
  <1>2. ASSUME NEW d \in Seq(Nat), NEW c \in Nat, d \in P
        PROVE  Append(d, c) \in P
    <2>1. NumberOf(Append(d, c)) = 10 * NumberOf(d) + c
      BY NumberAppend
    <2>2. Append(d, c) \in Seq(Nat)
      BY AppendProperties
    <2>3. QED
      BY <1>2, <2>1, <2>2
  <1> HIDE DEF P
  <1>3. Seq(Nat) \subseteq P
    BY <1>1, <1>2, SeqSetInduction
  <1>4. QED
    BY <1>3 DEF P

(* What the grammar's parts become with one more character.                *)
HasPoint(s) == \E k \in DOMAIN s : s[k] = POINT

LEMMA OnlyDigitsAppend ==
    /\ OnlyDigits(<<>>) = <<>>
    /\ \A t \in Seq(Characters), c \in Characters :
          OnlyDigits(Append(t, c)) = IF c \in Digit THEN Append(OnlyDigits(t), c) ELSE OnlyDigits(t)
    /\ \A t \in Seq(Characters) : OnlyDigits(t) \in Seq(Digit)
  <1> DEFINE Piece(s) == [k \in DOMAIN s |-> IF s[k] \in Digit THEN <<s[k]>> ELSE <<>>]
  <1>1. \A s : OnlyDigits(s) = FlattenSeq(Piece(s))
    BY Zenon DEF OnlyDigits
  <1>2. OnlyDigits(<<>>) = <<>>
    <2>1. Piece(<<>>) = <<>>
      OBVIOUS
    <2>2. QED
      BY <1>1, <2>1, FlattenEmpty
  <1>3. ASSUME NEW t \in Seq(Characters)
        PROVE  Piece(t) \in Seq(Seq(Digit)) /\ Len(Piece(t)) = Len(t)
    <2>1. \A x \in Digit : <<x>> \in Seq(Digit)
      OBVIOUS
    <2>2. Len(t) \in Nat /\ DOMAIN t = 1..Len(t) /\ <<>> \in Seq(Digit)
      BY LenProperties, EmptySeq
    <2>3. Piece(t) \in [1..Len(t) -> Seq(Digit)]
      BY <2>1, <2>2
    <2> HIDE DEF Piece
    <2>4. QED
      BY <2>2, <2>3
  <1>4. \A t \in Seq(Characters) : OnlyDigits(t) \in Seq(Digit)
    <2> HIDE DEF Piece
    <2>1. QED
      BY <1>1, <1>3, FlattenType
  <1>5. ASSUME NEW t \in Seq(Characters), NEW c \in Characters
        PROVE  OnlyDigits(Append(t, c)) = IF c \in Digit THEN Append(OnlyDigits(t), c) ELSE OnlyDigits(t)
    <2> DEFINE u == Append(t, c)
               n == Len(t)
               last == IF c \in Digit THEN <<c>> ELSE <<>>
    <2>1. /\ n \in Nat /\ Len(u) = n + 1 /\ (\A i \in 1..n : u[i] = t[i]) /\ u[n + 1] = c
          /\ u \in Seq(Characters)
      BY AppendProperties, LenProperties
    <2>2. DOMAIN u = 1..(n + 1) /\ DOMAIN t = 1..n
      BY <2>1, LenProperties
    <2>3. last \in Seq(Digit)
      BY EmptySeq
    <2>4. /\ Piece(t) \in Seq(Seq(Digit)) /\ Len(Piece(t)) = n
          /\ Piece(u) \in Seq(Seq(Digit)) /\ Len(Piece(u)) = n + 1
      BY <1>3, <2>1
    <2>5. /\ \A i \in 1..(n + 1) : Piece(u)[i] = IF u[i] \in Digit THEN <<u[i]>> ELSE <<>>
          /\ \A i \in 1..n : Piece(t)[i] = IF t[i] \in Digit THEN <<t[i]>> ELSE <<>>
      BY <2>2
    <2> HIDE DEF Piece, u, n
    <2>6. \A i \in 1..n : i \in 1..(n + 1)
      BY <2>1
    <2>7. n + 1 \in 1..(n + 1)
      BY <2>1
    <2>8. \A i \in 1..n : Piece(u)[i] = Piece(t)[i]
      BY <2>1, <2>5, <2>6
    <2>9. Piece(u)[n + 1] = last
      BY <2>1, <2>5, <2>7
    <2> HIDE DEF last
    <2>10. Piece(u) = Append(Piece(t), last)
      <3> DEFINE h == Append(Piece(t), last)
      <3>1. /\ h \in Seq(Seq(Digit)) /\ Len(h) = n + 1
            /\ (\A i \in 1..n : h[i] = Piece(t)[i]) /\ h[n + 1] = last
        BY <2>3, <2>4, AppendProperties
      <3> HIDE DEF h
      <3>2. \A i \in 1..(n + 1) : i \in 1..n \/ i = n + 1
        BY <2>1
      <3>3. \A i \in 1..(n + 1) : Piece(u)[i] = h[i]
        BY <2>8, <2>9, <3>1, <3>2
      <3>4. Piece(u) = h
        BY <2>4, <3>1, <3>3, SeqEqual
      <3>5. QED
        BY <3>4 DEF h
    <2>11. OnlyDigits(u) = OnlyDigits(t) \o last
      BY <1>1, <2>3, <2>4, <2>10, FlattenAppend
    <2>12. OnlyDigits(t) \in Seq(Digit)
      BY <1>4
    <2>13. CASE c \in Digit
      BY <2>11, <2>12, <2>13, AppendIsConcat DEF last, u
    <2>14. CASE c \notin Digit
      BY <2>11, <2>12, <2>14, ConcatEmptySeq DEF last, u
    <2>15. QED
      BY <2>13, <2>14
  <1>6. QED
    BY <1>2, <1>4, <1>5

LEMMA HasPointAppend ==
    /\ ~HasPoint(<<>>)
    /\ \A t \in Seq(Characters), c \in Characters : HasPoint(Append(t, c)) <=> HasPoint(t) \/ c = POINT
  <1>1. ASSUME NEW t \in Seq(Characters), NEW c \in Characters
        PROVE  HasPoint(Append(t, c)) <=> HasPoint(t) \/ c = POINT
    <2> DEFINE u == Append(t, c)
               n == Len(t)
    <2>1. /\ n \in Nat /\ Len(u) = n + 1 /\ (\A i \in 1..n : u[i] = t[i]) /\ u[n + 1] = c
          /\ u \in Seq(Characters)
      BY AppendProperties, LenProperties
    <2>2. DOMAIN u = 1..(n + 1) /\ DOMAIN t = 1..n
      BY <2>1, LenProperties
    <2> HIDE DEF u, n
    <2>3. \A i : i \in 1..(n + 1) <=> i \in 1..n \/ i = n + 1
      BY <2>1
    <2>4. QED
      BY <2>1, <2>2, <2>3 DEF HasPoint, u
  <1>2. QED
    BY <1>1 DEF HasPoint

LEMMA AfterPointAppend ==
    /\ AfterPoint(<<>>) = {}
    /\ \A t \in Seq(Characters), c \in Characters :
          Cardinality(AfterPoint(Append(t, c))) =
              IF c \in Digit /\ HasPoint(t) THEN Cardinality(AfterPoint(t)) + 1 ELSE Cardinality(AfterPoint(t))
    /\ \A t \in Seq(Characters) : Cardinality(AfterPoint(t)) \in Nat
  <1>1. AfterPoint(<<>>) = {}
    BY DEF AfterPoint
  <1>2. ASSUME NEW t \in Seq(Characters)
        PROVE  IsFiniteSet(AfterPoint(t)) /\ Cardinality(AfterPoint(t)) \in Nat
    <2>1. Len(t) \in Nat /\ DOMAIN t = 1..Len(t)
      BY LenProperties
    <2>2. IsFiniteSet(1..Len(t))
      BY <2>1, FS_Interval
    <2>3. AfterPoint(t) \subseteq 1..Len(t)
      BY <2>1 DEF AfterPoint
    <2>4. IsFiniteSet(AfterPoint(t))
      BY <2>2, <2>3, FS_Subset
    <2>5. QED
      BY <2>4, FS_CardinalityType
  <1>3. ASSUME NEW t \in Seq(Characters), NEW c \in Characters
        PROVE  Cardinality(AfterPoint(Append(t, c))) =
                  IF c \in Digit /\ HasPoint(t) THEN Cardinality(AfterPoint(t)) + 1 ELSE Cardinality(AfterPoint(t))
    <2> DEFINE u == Append(t, c)
               n == Len(t)
    <2>1. /\ n \in Nat /\ Len(u) = n + 1 /\ (\A i \in 1..n : u[i] = t[i]) /\ u[n + 1] = c
          /\ u \in Seq(Characters)
      BY AppendProperties, LenProperties
    <2>2. DOMAIN u = 1..(n + 1) /\ DOMAIN t = 1..n
      BY <2>1, LenProperties
    <2> HIDE DEF u, n
    <2>3. \A i : i \in 1..(n + 1) <=> i \in 1..n \/ i = n + 1
      BY <2>1
    <2>4. (n + 1) - 1 = n /\ n + 1 \notin 1..n /\ \A i \in 1..n : \A j \in 1..(i - 1) : j \in 1..n
      BY <2>1
    <2>5. \A i \in 1..n : i \in AfterPoint(u) <=> i \in AfterPoint(t)
      BY <2>1, <2>2, <2>3, <2>4 DEF AfterPoint
    <2>6. n + 1 \in AfterPoint(u) <=> c \in Digit /\ HasPoint(t)
      BY <2>1, <2>2, <2>3, <2>4 DEF AfterPoint, HasPoint
    <2>7. AfterPoint(u) \subseteq 1..(n + 1) /\ AfterPoint(t) \subseteq 1..n
      BY <2>2 DEF AfterPoint
    <2>8. CASE c \in Digit /\ HasPoint(t)
      <3>1. AfterPoint(u) = AfterPoint(t) \cup {n + 1} /\ n + 1 \notin AfterPoint(t)
        BY <2>3, <2>4, <2>5, <2>6, <2>7, <2>8
      <3>2. QED
        BY <1>2, <2>8, <3>1, FS_AddElement DEF u
    <2>9. CASE ~(c \in Digit /\ HasPoint(t))
      <3>1. AfterPoint(u) = AfterPoint(t)
        BY <2>3, <2>4, <2>5, <2>6, <2>7, <2>9
      <3>2. QED
        BY <2>9, <3>1 DEF u
    <2>10. QED
      BY <2>8, <2>9
  <1>4. QED
    BY <1>1, <1>2, <1>3

(* A mantissa: an optional sign, digits, at most one point.                *)
GoodMantissa(m) ==
    LET u == Unsigned(m)
    IN  /\ \A k \in DOMAIN u : u[k] \in Digit \cup {POINT}
        /\ \A j, k \in DOMAIN u : u[j] = POINT /\ u[k] = POINT => j = k

(* An exponent: an optional sign and digits, in range.                     *)
GoodScale(x) ==
    LET u == Unsigned(x)
    IN  (\A k \in DOMAIN u : u[k] \in Digit) /\ NumberOf(u) <= MaxExp

LEMMA UnsignedAppend ==
    /\ Unsigned(<<>>) = <<>>
    /\ \A c : Unsigned(<<c>>) = IF c \in {PLUS, MINUS} THEN <<>> ELSE <<c>>
    /\ \A t \in Seq(Characters), c \in Characters :
          t # <<>> => Unsigned(Append(t, c)) = Append(Unsigned(t), c)
    /\ \A t \in Seq(Characters) : Unsigned(t) \in Seq(Characters)
  <1>1. Unsigned(<<>>) = <<>>
    BY DEF Unsigned
  <1>2. ASSUME NEW c
        PROVE  Unsigned(<<c>>) = IF c \in {PLUS, MINUS} THEN <<>> ELSE <<c>>
    <2>1. <<c>>[1] = c /\ <<c>> # <<>> /\ Tail(<<c>>) = <<>>
      OBVIOUS
    <2>2. QED
      BY <2>1 DEF Unsigned
  <1>3. ASSUME NEW t \in Seq(Characters), NEW c \in Characters, t # <<>>
        PROVE  Unsigned(Append(t, c)) = Append(Unsigned(t), c)
    <2> DEFINE u == Append(t, c)
    <2>1. u \in Seq(Characters) /\ u # <<>> /\ (\A i \in 1..Len(t) : u[i] = t[i])
      BY AppendProperties
    <2>2. 1 \in 1..Len(t)
      BY <1>3, EmptySeq
    <2>3. u[1] = t[1]
      BY <2>1, <2>2
    <2>4. Tail(u) = Append(Tail(t), c)
      <3>1. t \in Seq(Characters) /\ t # <<>>
        BY <1>3
      <3>2. QED
        BY <3>1, SMTT(30)
    <2> HIDE DEF u
    <2>5. QED
      BY <1>3, <2>1, <2>3, <2>4 DEF Unsigned, u
  <1>4. ASSUME NEW t \in Seq(Characters)
        PROVE  Unsigned(t) \in Seq(Characters)
    <2>1. t # <<>> => Tail(t) \in Seq(Characters)
      OBVIOUS
    <2>2. QED
      BY <2>1 DEF Unsigned
  <1>5. QED
    BY <1>1, <1>2, <1>3, <1>4

LEMMA GoodAppend ==
    ASSUME NEW t \in Seq(Characters), NEW c \in Characters
    PROVE  /\ (\A k \in DOMAIN Append(t, c) : Append(t, c)[k] \in Digit \cup {POINT})
                 <=> (\A k \in DOMAIN t : t[k] \in Digit \cup {POINT}) /\ c \in Digit \cup {POINT}
           /\ (\A k \in DOMAIN Append(t, c) : Append(t, c)[k] \in Digit)
                 <=> (\A k \in DOMAIN t : t[k] \in Digit) /\ c \in Digit
           /\ (\A j, k \in DOMAIN Append(t, c) : Append(t, c)[j] = POINT /\ Append(t, c)[k] = POINT => j = k)
                 <=> /\ \A j, k \in DOMAIN t : t[j] = POINT /\ t[k] = POINT => j = k
                     /\ HasPoint(t) => c # POINT
  <1> DEFINE u == Append(t, c)
             n == Len(t)
  <1>1. /\ n \in Nat /\ Len(u) = n + 1 /\ (\A i \in 1..n : u[i] = t[i]) /\ u[n + 1] = c
        /\ u \in Seq(Characters)
    BY AppendProperties, LenProperties
  <1>2. DOMAIN u = 1..(n + 1) /\ DOMAIN t = 1..n
    BY <1>1, LenProperties
  <1> HIDE DEF u, n
  <1>3. (\A i : i \in 1..(n + 1) <=> i \in 1..n \/ i = n + 1) /\ n + 1 \notin 1..n
    BY <1>1
  <1>4. \A i \in 1..(n + 1) : u[i] = IF i = n + 1 THEN c ELSE t[i]
    BY <1>1, <1>3
  <1>5. (\A k \in DOMAIN u : u[k] \in Digit \cup {POINT})
           <=> (\A k \in DOMAIN t : t[k] \in Digit \cup {POINT}) /\ c \in Digit \cup {POINT}
    BY <1>2, <1>3, <1>4
  <1>6. (\A k \in DOMAIN u : u[k] \in Digit) <=> (\A k \in DOMAIN t : t[k] \in Digit) /\ c \in Digit
    BY <1>2, <1>3, <1>4
  <1>7. (\A j, k \in DOMAIN u : u[j] = POINT /\ u[k] = POINT => j = k)
           <=> /\ \A j, k \in DOMAIN t : t[j] = POINT /\ t[k] = POINT => j = k
               /\ HasPoint(t) => c # POINT
    BY <1>2, <1>3, <1>4 DEF HasPoint
  <1>8. QED
    BY <1>5, <1>6, <1>7 DEF u

(* The scanner over a text without an exponent mark.                       *)
MantissaRead(m) ==
    [part |-> IF m = <<>> THEN "start" ELSE "mantissa", neg |-> IsNegative(m), digits |-> OnlyDigits(m),
     point |-> HasPoint(m), exp |-> -Cardinality(AfterPoint(m)), eneg |-> FALSE, edigit |-> FALSE, ev |-> 0]

LEMMA CharacterCodes ==
    /\ POINT \notin Digit /\ EXPONENT \notin Digit /\ PLUS \notin Digit /\ MINUS \notin Digit /\ OTHER_CHAR \notin Digit
    /\ POINT # EXPONENT /\ POINT # PLUS /\ POINT # MINUS /\ EXPONENT # PLUS /\ EXPONENT # MINUS /\ PLUS # MINUS
    /\ OTHER_CHAR \notin {POINT, EXPONENT, PLUS, MINUS}
  BY DEF Digit, POINT, EXPONENT, PLUS, MINUS, OTHER_CHAR

LEMMA IsNegativeAppend ==
    /\ ~IsNegative(<<>>)
    /\ \A c : IsNegative(<<c>>) <=> c = MINUS
    /\ \A t \in Seq(Characters), c \in Characters : t # <<>> => (IsNegative(Append(t, c)) <=> IsNegative(t))
  <1>1. \A c : IsNegative(<<c>>) <=> c = MINUS
    <2>1. \A c : <<c>>[1] = c /\ <<c>> # <<>>
      OBVIOUS
    <2>2. QED
      BY <2>1 DEF IsNegative
  <1>2. ASSUME NEW t \in Seq(Characters), NEW c \in Characters, t # <<>>
        PROVE  IsNegative(Append(t, c)) <=> IsNegative(t)
    <2> DEFINE u == Append(t, c)
    <2>1. u \in Seq(Characters) /\ u # <<>> /\ (\A i \in 1..Len(t) : u[i] = t[i])
      BY AppendProperties
    <2>2. 1 \in 1..Len(t)
      BY <1>2, EmptySeq
    <2>3. u[1] = t[1]
      BY <2>1, <2>2
    <2> HIDE DEF u
    <2>4. QED
      BY <1>2, <2>1, <2>3 DEF IsNegative, u
  <1>3. QED
    BY <1>1, <1>2 DEF IsNegative

LEMMA ScanCharCases ==
    ASSUME NEW s, NEW c \in Characters
    PROVE  /\ s.part = "start" /\ c \in {PLUS, MINUS} =>
                ScanChar(s, c) = [s EXCEPT !.part = "mantissa", !.neg = c = MINUS]
           /\ InMantissa(s) /\ c \in Digit =>
                ScanChar(s, c) = [s EXCEPT !.part = "mantissa", !.digits = Append(@, c),
                                           !.exp = IF s.point THEN @ - 1 ELSE @]
           /\ InMantissa(s) /\ c = POINT /\ ~s.point =>
                ScanChar(s, c) = [s EXCEPT !.part = "mantissa", !.point = TRUE]
           /\ InMantissa(s) /\ c = EXPONENT /\ s.digits # <<>> => ScanChar(s, c) = [s EXCEPT !.part = "mark"]
           /\ s.part = "mark" /\ c \in {PLUS, MINUS} =>
                ScanChar(s, c) = [s EXCEPT !.part = "exponent", !.eneg = c = MINUS]
           /\ InExponent(s) /\ c \in Digit /\ s.ev * 10 + c <= MaxExp =>
                ScanChar(s, c) = [s EXCEPT !.part = "exponent", !.edigit = TRUE, !.ev = @ * 10 + c]
           /\ s.part = "bad" => ScanChar(s, c) = [s EXCEPT !.part = "bad"]
           /\ s.part = "start" /\ c \notin Digit \cup {PLUS, MINUS, POINT, EXPONENT} =>
                ScanChar(s, c) = [s EXCEPT !.part = "bad"]
           /\ InMantissa(s) /\ c = EXPONENT /\ s.digits = <<>> => ScanChar(s, c) = [s EXCEPT !.part = "bad"]
           /\ InMantissa(s) /\ c = POINT /\ s.point => ScanChar(s, c) = [s EXCEPT !.part = "bad"]
           /\ s.part = "mantissa" /\ c \notin Digit \cup {POINT, EXPONENT} =>
                ScanChar(s, c) = [s EXCEPT !.part = "bad"]
           /\ InExponent(s) /\ c \in Digit /\ ~(s.ev * 10 + c <= MaxExp) =>
                ScanChar(s, c) = [s EXCEPT !.part = "bad"]
           /\ s.part = "mark" /\ c \notin Digit \cup {PLUS, MINUS} =>
                ScanChar(s, c) = [s EXCEPT !.part = "bad"]
           /\ s.part = "exponent" /\ c \notin Digit => ScanChar(s, c) = [s EXCEPT !.part = "bad"]
  <1> USE CharacterCodes
  <1>1. s.part = "start" /\ c \in {PLUS, MINUS} =>
          ScanChar(s, c) = [s EXCEPT !.part = "mantissa", !.neg = c = MINUS]
    BY DEF ScanChar, InMantissa, InExponent
  <1>2. InMantissa(s) /\ c \in Digit =>
          ScanChar(s, c) = [s EXCEPT !.part = "mantissa", !.digits = Append(@, c),
                                     !.exp = IF s.point THEN @ - 1 ELSE @]
    BY DEF ScanChar, InMantissa, InExponent
  <1>3. InMantissa(s) /\ c = POINT /\ ~s.point =>
          ScanChar(s, c) = [s EXCEPT !.part = "mantissa", !.point = TRUE]
    BY DEF ScanChar, InMantissa, InExponent
  <1>4. InMantissa(s) /\ c = EXPONENT /\ s.digits # <<>> => ScanChar(s, c) = [s EXCEPT !.part = "mark"]
    BY DEF ScanChar, InMantissa, InExponent
  <1>5. s.part = "mark" /\ c \in {PLUS, MINUS} =>
          ScanChar(s, c) = [s EXCEPT !.part = "exponent", !.eneg = c = MINUS]
    BY DEF ScanChar, InMantissa, InExponent
  <1>6. InExponent(s) /\ c \in Digit /\ s.ev * 10 + c <= MaxExp =>
          ScanChar(s, c) = [s EXCEPT !.part = "exponent", !.edigit = TRUE, !.ev = @ * 10 + c]
    BY DEF ScanChar, InMantissa, InExponent
  <1>7. s.part = "bad" => ScanChar(s, c) = [s EXCEPT !.part = "bad"]
    BY DEF ScanChar, InMantissa, InExponent
  <1>8. s.part = "start" /\ c \notin Digit \cup {PLUS, MINUS, POINT, EXPONENT} =>
          ScanChar(s, c) = [s EXCEPT !.part = "bad"]
    BY DEF ScanChar, InMantissa, InExponent
  <1>9. InMantissa(s) /\ c = EXPONENT /\ s.digits = <<>> => ScanChar(s, c) = [s EXCEPT !.part = "bad"]
    BY DEF ScanChar, InMantissa, InExponent
  <1>10. InMantissa(s) /\ c = POINT /\ s.point => ScanChar(s, c) = [s EXCEPT !.part = "bad"]
    BY DEF ScanChar, InMantissa, InExponent
  <1>11. s.part = "mantissa" /\ c \notin Digit \cup {POINT, EXPONENT} =>
           ScanChar(s, c) = [s EXCEPT !.part = "bad"]
    BY DEF ScanChar, InMantissa, InExponent
  <1>12. InExponent(s) /\ c \in Digit /\ ~(s.ev * 10 + c <= MaxExp) =>
           ScanChar(s, c) = [s EXCEPT !.part = "bad"]
    BY DEF ScanChar, InMantissa, InExponent
  <1>13. s.part = "mark" /\ c \notin Digit \cup {PLUS, MINUS} => ScanChar(s, c) = [s EXCEPT !.part = "bad"]
    BY DEF ScanChar, InMantissa, InExponent
  <1>14. s.part = "exponent" /\ c \notin Digit => ScanChar(s, c) = [s EXCEPT !.part = "bad"]
    BY DEF ScanChar, InMantissa, InExponent
  <1>15. QED
    BY <1>1, <1>2, <1>3, <1>4, <1>5, <1>6, <1>7, <1>8, <1>9, <1>10, <1>11, <1>12, <1>13, <1>14, Zenon

LEMMA GoodMantissaAppend ==
    /\ GoodMantissa(<<>>) /\ ~HasPoint(Unsigned(<<>>))
    /\ \A c \in Characters : /\ GoodMantissa(<<c>>) <=> c \in Digit \cup {POINT, PLUS, MINUS}
                             /\ HasPoint(Unsigned(<<c>>)) <=> c = POINT
    /\ \A t \in Seq(Characters), c \in Characters :
          t # <<>> => /\ GoodMantissa(Append(t, c)) <=>
                            GoodMantissa(t) /\ c \in Digit \cup {POINT} /\ (HasPoint(Unsigned(t)) => c # POINT)
                      /\ HasPoint(Unsigned(Append(t, c))) <=> HasPoint(Unsigned(t)) \/ c = POINT
  <1>1. GoodMantissa(<<>>) /\ ~HasPoint(Unsigned(<<>>))
    BY UnsignedAppend, HasPointAppend DEF GoodMantissa
  <1>2. ASSUME NEW c \in Characters
        PROVE  /\ GoodMantissa(<<c>>) <=> c \in Digit \cup {POINT, PLUS, MINUS}
               /\ HasPoint(Unsigned(<<c>>)) <=> c = POINT
    <2>1. CASE c \in {PLUS, MINUS}
      <3>1. Unsigned(<<c>>) = <<>>
        BY <2>1, UnsignedAppend
      <3>2. QED
        BY <2>1, <3>1, HasPointAppend, CharacterCodes DEF GoodMantissa
    <2>2. CASE c \notin {PLUS, MINUS}
      <3>1. Unsigned(<<c>>) = <<c>>
        BY <2>2, UnsignedAppend
      <3>2. DOMAIN <<c>> = {1} /\ <<c>>[1] = c
        OBVIOUS
      <3> DEFINE u == <<c>>
      <3>3. DOMAIN u = {1} /\ u[1] = c
        BY <3>2
      <3> HIDE DEF u
      <3>4. (\A k \in DOMAIN u : u[k] \in Digit \cup {POINT}) <=> c \in Digit \cup {POINT}
        BY <3>3
      <3>5. \A j, k \in DOMAIN u : u[j] = POINT /\ u[k] = POINT => j = k
        BY <3>3
      <3>6. HasPoint(u) <=> c = POINT
        BY <3>3 DEF HasPoint
      <3>7. Unsigned(u) = u
        BY <3>1 DEF u
      <3>8. GoodMantissa(u) <=> c \in Digit \cup {POINT}
        BY <3>4, <3>5, <3>7 DEF GoodMantissa
      <3>9. QED
        BY <2>2, <3>6, <3>7, <3>8 DEF u
    <2>3. QED
      BY <2>1, <2>2
  <1>3. ASSUME NEW t \in Seq(Characters), NEW c \in Characters, t # <<>>
        PROVE  /\ GoodMantissa(Append(t, c)) <=>
                     GoodMantissa(t) /\ c \in Digit \cup {POINT} /\ (HasPoint(Unsigned(t)) => c # POINT)
               /\ HasPoint(Unsigned(Append(t, c))) <=> HasPoint(Unsigned(t)) \/ c = POINT
    <2> DEFINE u == Unsigned(t)
    <2>1. Unsigned(Append(t, c)) = Append(u, c) /\ u \in Seq(Characters)
      BY <1>3, UnsignedAppend
    <2>2. GoodMantissa(t) <=> /\ \A k \in DOMAIN u : u[k] \in Digit \cup {POINT}
                              /\ \A j, k \in DOMAIN u : u[j] = POINT /\ u[k] = POINT => j = k
      BY DEF GoodMantissa
    <2> DEFINE v == Append(u, c)
    <2>3. GoodMantissa(Append(t, c)) <=> /\ \A k \in DOMAIN v : v[k] \in Digit \cup {POINT}
                                         /\ \A j, k \in DOMAIN v : v[j] = POINT /\ v[k] = POINT => j = k
      BY <2>1 DEF GoodMantissa
    <2> HIDE DEF u
    <2>4. /\ (\A k \in DOMAIN v : v[k] \in Digit \cup {POINT})
                 <=> (\A k \in DOMAIN u : u[k] \in Digit \cup {POINT}) /\ c \in Digit \cup {POINT}
          /\ (\A j, k \in DOMAIN v : v[j] = POINT /\ v[k] = POINT => j = k)
                 <=> /\ \A j, k \in DOMAIN u : u[j] = POINT /\ u[k] = POINT => j = k
                     /\ HasPoint(u) => c # POINT
      BY <2>1, GoodAppend
    <2>5. HasPoint(v) <=> HasPoint(u) \/ c = POINT
      BY <2>1, HasPointAppend
    <2> HIDE DEF v
    <2>6. GoodMantissa(Append(t, c)) <=>
             GoodMantissa(t) /\ c \in Digit \cup {POINT} /\ (HasPoint(u) => c # POINT)
      BY <2>2, <2>3, <2>4, Zenon
    <2>7. QED
      BY <2>1, <2>5, <2>6 DEF u, v
  <1>4. QED
    BY <1>1, <1>2, <1>3

LEMMA HasPointUnsigned ==
    \A t \in Seq(Characters) : HasPoint(Unsigned(t)) <=> HasPoint(t)
  <1> DEFINE P == {t \in Seq(Characters) : HasPoint(Unsigned(t)) <=> HasPoint(t)}
  <1>1. <<>> \in P
    BY UnsignedAppend, EmptySeq
  <1>2. ASSUME NEW t \in Seq(Characters), NEW c \in Characters, t \in P
        PROVE  Append(t, c) \in P
    <2>1. Append(t, c) \in Seq(Characters)
      BY AppendProperties
    <2>2. HasPoint(Append(t, c)) <=> HasPoint(t) \/ c = POINT
      BY HasPointAppend
    <2>3. CASE t = <<>>
      <3>1. Append(t, c) = <<c>>
        BY <2>3
      <3>2. HasPoint(Unsigned(Append(t, c))) <=> c = POINT
        BY <3>1, GoodMantissaAppend
      <3>3. QED
        BY <2>1, <2>2, <2>3, <3>2, HasPointAppend
    <2>4. CASE t # <<>>
      <3>1. HasPoint(Unsigned(Append(t, c))) <=> HasPoint(Unsigned(t)) \/ c = POINT
        BY <2>4, GoodMantissaAppend
      <3>2. QED
        BY <1>2, <2>1, <2>2, <3>1
    <2>5. QED
      BY <2>3, <2>4
  <1> HIDE DEF P
  <1>3. Seq(Characters) \subseteq P
    BY <1>1, <1>2, SeqSetInduction
  <1>4. QED
    BY <1>3 DEF P

(* The scanner accepts the characters of a mantissa, and no others, and    *)
(* its state is what the grammar says of them.                             *)
ReadsMantissa(m) ==
    IF GoodMantissa(m) THEN Scanned(m) = MantissaRead(m) ELSE Scanned(m).part = "bad"

LEMMA MantissaScanned ==
    \A m \in Seq(Characters \ {EXPONENT}) : ReadsMantissa(m)
  <1> DEFINE C == Characters \ {EXPONENT}
             P == {m \in Seq(C) : ReadsMantissa(m)}
  <1>1. C \subseteq Characters
    OBVIOUS
  <1>2. Seq(C) \subseteq Seq(Characters)
    BY <1>1
  <1>3. <<>> \in P
    <2>1. MantissaRead(<<>>) = ScanStart
      <3>1. -Cardinality({}) = 0
        BY FS_EmptySet
      <3>2. HasPoint(<<>>) = FALSE /\ IsNegative(<<>>) = FALSE
        BY DEF HasPoint, IsNegative
      <3>3. QED
        BY <3>1, <3>2, OnlyDigitsAppend, AfterPointAppend DEF MantissaRead, ScanStart
    <2>2. QED
      BY <2>1, GoodMantissaAppend, ScannedAppend, EmptySeq DEF ReadsMantissa
  <1>4. ASSUME NEW t \in Seq(C), NEW c \in C, t \in P
        PROVE  Append(t, c) \in P
    <2> DEFINE u == Append(t, c)
               s == Scanned(t)
               n == Cardinality(AfterPoint(t))
    <2>1. u \in Seq(C) /\ u # <<>> /\ t \in Seq(Characters) /\ c \in Characters /\ c # EXPONENT
      BY <1>2, AppendProperties
    <2>2. Scanned(u) = ScanChar(s, c)
      BY <2>1, ScannedAppend
    <2>3. /\ OnlyDigits(u) = (IF c \in Digit THEN Append(OnlyDigits(t), c) ELSE OnlyDigits(t))
          /\ HasPoint(u) <=> HasPoint(t) \/ c = POINT
          /\ Cardinality(AfterPoint(u)) = (IF c \in Digit /\ HasPoint(t) THEN n + 1 ELSE n)
          /\ n \in Nat
      BY <2>1, OnlyDigitsAppend, HasPointAppend, AfterPointAppend
    <2>4. IsNegative(u) <=> (IF t = <<>> THEN c = MINUS ELSE IsNegative(t))
      <3>1. t = <<>> => u = <<c>>
        OBVIOUS
      <3>2. CASE t = <<>>
        BY <3>1, <3>2, IsNegativeAppend
      <3>3. CASE t # <<>>
        BY <2>1, <3>3, IsNegativeAppend
      <3>4. QED
        BY <3>2, <3>3
    <2>5. GoodMantissa(u) <=> /\ GoodMantissa(t)
                              /\ \/ c \in Digit
                                 \/ c = POINT /\ ~HasPoint(t)
                                 \/ t = <<>> /\ c \in {PLUS, MINUS}
      <3>1. t = <<>> => u = <<c>>
        OBVIOUS
      <3>2. t = <<>> => (GoodMantissa(u) <=> c \in Digit \cup {POINT, PLUS, MINUS}) /\ GoodMantissa(t) /\ ~HasPoint(t)
        BY <2>1, <3>1, GoodMantissaAppend, HasPointAppend
      <3>3. t # <<>> => (GoodMantissa(u) <=> /\ GoodMantissa(t) /\ c \in Digit \cup {POINT}
                                             /\ HasPoint(t) => c # POINT)
        BY <2>1, GoodMantissaAppend, HasPointUnsigned
      <3>4. CASE t = <<>>
        BY <3>2, <3>4
      <3>5. CASE t # <<>>
        BY <3>3, <3>5, CharacterCodes
      <3>6. QED
        BY <3>4, <3>5
    <2>6. ReadsMantissa(t)
      BY <1>4
    <2>7. IsNegative(u) \in BOOLEAN /\ IsNegative(t) \in BOOLEAN /\ HasPoint(u) \in BOOLEAN /\ HasPoint(t) \in BOOLEAN
      BY DEF IsNegative, HasPoint
    <2> HIDE DEF u, s, n, C
    <2>8. CASE ~GoodMantissa(t)
      <3>1. s.part = "bad"
        BY SMTT(30), <2>6, <2>8 DEF ReadsMantissa, s
      <3>2. ScanChar(s, c) = [s EXCEPT !.part = "bad"]
        BY <2>1, <3>1, ScanCharCases
      <3>3. s \in ScanState
        <4>1. Len(t) \in Nat
          BY <2>1, LenProperties
        <4>2. QED
          BY <4>1, ScannedState DEF s
      <3>4. ScanChar(s, c).part = "bad"
        BY <3>2, <3>3 DEF ScanState
      <3>5. QED
        BY <2>1, <2>2, <2>5, <2>8, <3>4 DEF ReadsMantissa, u
    <2>9. CASE GoodMantissa(t)
      <3>1. s = MantissaRead(t)
        BY <2>6, <2>9 DEF ReadsMantissa, s
      <3>2. /\ s.part = (IF t = <<>> THEN "start" ELSE "mantissa") /\ s.neg = IsNegative(t)
            /\ s.digits = OnlyDigits(t) /\ s.point = HasPoint(t) /\ s.exp = -n
            /\ s.eneg = FALSE /\ s.edigit = FALSE /\ s.ev = 0
        BY <3>1 DEF MantissaRead, n
      <3>3. InMantissa(s)
        BY <3>2 DEF InMantissa
      <3> DEFINE p == s.part
                 ng == s.neg
                 ds == s.digits
                 pt == s.point
                 x == s.exp
      <3>4. s = [part |-> p, neg |-> ng, digits |-> ds, point |-> pt, exp |-> x,
                 eneg |-> FALSE, edigit |-> FALSE, ev |-> 0]
        BY <3>1, <3>2 DEF MantissaRead
      <3>11. p = s.part /\ ng = s.neg /\ ds = s.digits /\ pt = s.point /\ x = s.exp
        OBVIOUS
      <3> HIDE DEF p, ng, ds, pt, x
      <3>5. MantissaRead(u) =
               [part |-> "mantissa", neg |-> IsNegative(u), digits |-> OnlyDigits(u), point |-> HasPoint(u),
                exp |-> -Cardinality(AfterPoint(u)), eneg |-> FALSE, edigit |-> FALSE, ev |-> 0]
        BY <2>1 DEF MantissaRead, u
      <3> DEFINE r == [part |-> "mantissa", neg |-> IsNegative(u), digits |-> OnlyDigits(u), point |-> HasPoint(u),
                       exp |-> -Cardinality(AfterPoint(u)), eneg |-> FALSE, edigit |-> FALSE, ev |-> 0]
      <3>6. CASE c \in Digit
        <4>1. ScanChar(s, c) = [s EXCEPT !.part = "mantissa", !.digits = Append(@, c),
                                         !.exp = IF s.point THEN @ - 1 ELSE @]
          BY <2>1, <3>3, <3>6, ScanCharCases
        <4>2. ScanChar(s, c) =
                 [part |-> "mantissa", neg |-> ng, digits |-> Append(ds, c), point |-> pt,
                  exp |-> IF pt THEN x - 1 ELSE x, eneg |-> FALSE, edigit |-> FALSE, ev |-> 0]
          BY <3>4, <4>1
        <4>3. /\ IsNegative(u) = s.neg /\ OnlyDigits(u) = Append(s.digits, c) /\ HasPoint(u) = s.point
              /\ -Cardinality(AfterPoint(u)) = IF s.point THEN s.exp - 1 ELSE s.exp
          <5>1. c # POINT /\ c # MINUS
            BY <3>6, CharacterCodes
          <5>2. IsNegative(u) = s.neg
            BY <2>4, <2>7, <3>2, <5>1, IsNegativeAppend
          <5>3. HasPoint(u) = s.point
            BY <2>3, <2>7, <3>2, <5>1
          <5>4. -(n + 1) = (-n) - 1
            BY <2>3
          <5>5. QED
            BY <2>3, <3>2, <3>6, <5>2, <5>3, <5>4
        <4>4. ScanChar(s, c) = r
          BY <3>11, <4>2, <4>3
        <4>5. QED
          BY <2>1, <2>2, <2>5, <2>9, <3>5, <3>6, <4>4 DEF ReadsMantissa, u
      <3>7. CASE c = POINT /\ ~HasPoint(t)
        <4>1. ScanChar(s, c) = [s EXCEPT !.part = "mantissa", !.point = TRUE]
          BY <2>1, <3>2, <3>3, <3>7, ScanCharCases
        <4>2. ScanChar(s, c) =
                 [part |-> "mantissa", neg |-> ng, digits |-> ds, point |-> TRUE, exp |-> x,
                  eneg |-> FALSE, edigit |-> FALSE, ev |-> 0]
          BY <3>4, <4>1
        <4>3. /\ IsNegative(u) = s.neg /\ OnlyDigits(u) = s.digits /\ HasPoint(u) = TRUE
              /\ -Cardinality(AfterPoint(u)) = s.exp
          <5>1. c # MINUS /\ c \notin Digit
            BY <3>7, CharacterCodes
          <5>2. IsNegative(u) = s.neg
            BY <2>4, <2>7, <3>2, <5>1, IsNegativeAppend
          <5>3. QED
            BY <2>3, <2>7, <3>2, <3>7, <5>1, <5>2
        <4>4. ScanChar(s, c) = r
          BY <3>11, <4>2, <4>3
        <4>5. QED
          BY <2>1, <2>2, <2>5, <2>9, <3>5, <3>7, <4>4 DEF ReadsMantissa, u
      <3>8. CASE t = <<>> /\ c \in {PLUS, MINUS}
        <4>1. ScanChar(s, c) = [s EXCEPT !.part = "mantissa", !.neg = c = MINUS]
          BY <2>1, <3>2, <3>8, ScanCharCases
        <4>2. ScanChar(s, c) =
                 [part |-> "mantissa", neg |-> c = MINUS, digits |-> ds, point |-> pt, exp |-> x,
                  eneg |-> FALSE, edigit |-> FALSE, ev |-> 0]
          BY <3>4, <4>1
        <4>3. /\ IsNegative(u) = (c = MINUS) /\ OnlyDigits(u) = s.digits /\ HasPoint(u) = s.point
              /\ -Cardinality(AfterPoint(u)) = s.exp
          <5>1. c # POINT /\ c \notin Digit
            BY <3>8, CharacterCodes
          <5>2. IsNegative(u) = (c = MINUS)
            BY <2>4, <2>7, <3>8
          <5>3. QED
            BY <2>3, <2>7, <3>2, <5>1, <5>2
        <4>4. ScanChar(s, c) = r
          BY <3>11, <4>2, <4>3
        <4>5. QED
          BY <2>1, <2>2, <2>5, <2>9, <3>5, <3>8, <4>4 DEF ReadsMantissa, u
      <3>9. CASE ~(c \in Digit \/ (c = POINT /\ ~HasPoint(t)) \/ (t = <<>> /\ c \in {PLUS, MINUS}))
        <4>1. ~GoodMantissa(u)
          BY <2>5, <3>9
        <4>2. ScanChar(s, c) = [s EXCEPT !.part = "bad"]
          <5>1. CASE c = POINT
            BY ZenonT(40), <2>1, <3>2, <3>3, <3>9, <5>1, ScanCharCases
          <5>2. CASE c # POINT /\ t = <<>>
            <6>1. c \notin Digit \cup {PLUS, MINUS, POINT, EXPONENT} /\ s.part = "start"
              BY <2>1, <3>2, <3>9, <5>2
            <6>2. QED
              BY ZenonT(40), <2>1, <6>1, ScanCharCases
          <5>3. CASE c # POINT /\ t # <<>>
            <6>1. c \notin Digit \cup {POINT, EXPONENT} /\ s.part = "mantissa"
              BY <2>1, <3>2, <3>9, <5>3
            <6>2. QED
              BY <2>1, <6>1, ScanCharCases
          <5>4. QED
            BY SMTT(30), <5>1, <5>2, <5>3
        <4>3. ScanChar(s, c).part = "bad"
          BY <3>4, <4>2
        <4>4. QED
          BY <2>1, <2>2, <4>1, <4>3 DEF ReadsMantissa, u
      <3>10. QED
        BY <3>6, <3>7, <3>8, <3>9
    <2>10. QED
      BY <2>8, <2>9
  <1> HIDE DEF P
  <1>5. Seq(C) \subseteq P
    BY <1>3, <1>4, SeqSetInduction
  <1>6. QED
    BY <1>5 DEF P

(* The scanner after the exponent mark of a good mantissa m.               *)
ScaleRead(m, x) ==
    [part |-> IF x = <<>> THEN "mark" ELSE "exponent", neg |-> IsNegative(m), digits |-> OnlyDigits(m),
     point |-> HasPoint(m), exp |-> -Cardinality(AfterPoint(m)), eneg |-> IsNegative(x),
     edigit |-> Unsigned(x) # <<>>, ev |-> NumberOf(Unsigned(x))]

Marked(m, x) == (m \o <<EXPONENT>>) \o x

LEMMA MarkedAppend ==
    ASSUME NEW m \in Seq(Characters)
    PROVE  /\ Marked(m, <<>>) = Append(m, EXPONENT)
           /\ \A x \in Seq(Characters), c \in Characters : Marked(m, Append(x, c)) = Append(Marked(m, x), c)
           /\ \A x \in Seq(Characters) : Marked(m, x) \in Seq(Characters)
  <1>1. EXPONENT \in Characters
    BY DEF Characters
  <1> DEFINE h == m \o <<EXPONENT>>
  <1>2. h = Append(m, EXPONENT) /\ h \in Seq(Characters)
    BY <1>1, AppendIsConcat, AppendProperties
  <1>3. \A x : Marked(m, x) = h \o x
    BY DEF Marked
  <1> HIDE DEF h
  <1>4. ASSUME NEW x \in Seq(Characters), NEW c \in Characters
        PROVE  h \o Append(x, c) = Append(h \o x, c)
    <2>1. Append(x, c) = x \o <<c>> /\ <<c>> \in Seq(Characters)
      BY AppendIsConcat
    <2>2. h \o x \in Seq(Characters)
      BY <1>2, ConcatProperties
    <2>3. Append(h \o x, c) = (h \o x) \o <<c>>
      BY <2>2, AppendIsConcat
    <2>4. QED
      BY <1>2, <2>1, <2>3, ConcatAssociative
  <1>5. \A x \in Seq(Characters) : h \o x \in Seq(Characters)
    BY <1>2, ConcatProperties
  <1>6. h \o <<>> = h
    BY <1>2, ConcatEmptySeq
  <1>7. \A x \in Seq(Characters), c \in Characters : Marked(m, Append(x, c)) = Append(Marked(m, x), c)
    BY <1>3, <1>4, Zenon
  <1>8. Marked(m, <<>>) = Append(m, EXPONENT)
    BY <1>2, <1>3, <1>6
  <1>9. \A x \in Seq(Characters) : Marked(m, x) \in Seq(Characters)
    BY <1>3, <1>5, Zenon
  <1>10. QED
    BY <1>7, <1>8, <1>9

LEMMA BadStays ==
    ASSUME NEW t \in Seq(Characters), NEW c \in Characters, Scanned(t).part = "bad"
    PROVE  Scanned(Append(t, c)).part = "bad"
  <1>1. Len(t) \in Nat
    BY LenProperties
  <1> DEFINE s == Scanned(t)
  <1>2. s \in ScanState
    BY <1>1, ScannedState
  <1>3. Scanned(Append(t, c)) = ScanChar(s, c)
    BY ScannedAppend
  <1> HIDE DEF s
  <1>4. s.part = "bad"
    BY SMTT(30) DEF s
  <1>5. ScanChar(s, c) = [s EXCEPT !.part = "bad"]
    BY <1>4, ScanCharCases
  <1>6. QED
    BY <1>2, <1>3, <1>5 DEF ScanState

LEMMA GoodScaleAppend ==
    /\ GoodScale(<<>>)
    /\ \A c \in Characters : GoodScale(<<c>>) <=> c \in {PLUS, MINUS} \/ (c \in Digit /\ c <= MaxExp)
    /\ \A x \in Seq(Characters), c \in Characters :
          x # <<>> => (GoodScale(Append(x, c)) <=> /\ GoodScale(x) /\ c \in Digit
                                                   /\ NumberOf(Unsigned(x)) * 10 + c <= MaxExp)
    /\ \A x \in Seq(Characters) : GoodScale(x) => Unsigned(x) \in Seq(Digit) /\ NumberOf(Unsigned(x)) \in Nat
  <1>1. MaxExp \in Nat
    BY WidthAssumption
  <1>2. GoodScale(<<>>)
    <2>1. Unsigned(<<>>) = <<>> /\ NumberOf(<<>>) = 0 /\ DOMAIN <<>> = {}
      BY UnsignedAppend, NumberAppend
    <2>2. QED
      BY <1>1, <2>1 DEF GoodScale
  <1>3. \A t \in Seq(Characters) : (\A k \in DOMAIN t : t[k] \in Digit) => t \in Seq(Digit)
    <2>1. ASSUME NEW t \in Seq(Characters), \A k \in DOMAIN t : t[k] \in Digit
          PROVE  t \in Seq(Digit)
      <3>1. Len(t) \in Nat /\ DOMAIN t = 1..Len(t) /\ t = [k \in 1..Len(t) |-> t[k]]
        BY LenProperties
      <3>2. t \in [1..Len(t) -> Digit]
        BY <2>1, <3>1
      <3>3. QED
        BY <3>1, <3>2
    <2>2. QED
      BY <2>1
  <1>4. \A t \in Seq(Digit) : NumberOf(t) \in Nat
    <2>1. Seq(Digit) \subseteq Seq(Nat)
      BY DEF Digit
    <2>2. QED
      BY <2>1, NumberNat
  <1>5. ASSUME NEW c \in Characters
        PROVE  GoodScale(<<c>>) <=> c \in {PLUS, MINUS} \/ (c \in Digit /\ c <= MaxExp)
    <2>1. CASE c \in {PLUS, MINUS}
      <3>1. Unsigned(<<c>>) = <<>> /\ Unsigned(<<>>) = <<>>
        BY <2>1, UnsignedAppend
      <3>2. QED
        BY <1>2, <2>1, <3>1 DEF GoodScale
    <2>2. CASE c \notin {PLUS, MINUS}
      <3> DEFINE u == <<c>>
      <3>1. Unsigned(u) = u
        BY <2>2, UnsignedAppend
      <3>2. DOMAIN u = {1} /\ u[1] = c /\ u = Append(<<>>, c)
        OBVIOUS
      <3>3. c \in Digit => NumberOf(u) = c
        <4>1. <<>> \in Seq(Digit)
          BY EmptySeq
        <4>2. c \in Digit => NumberOf(Append(<<>>, c)) = 10 * 0 + c
          BY <4>1, NumberAppend
        <4>3. c \in Digit => 10 * 0 + c = c
          BY DEF Digit
        <4>4. QED
          BY <3>2, <4>2, <4>3
      <3> HIDE DEF u
      <3>4. GoodScale(u) <=> (\A k \in DOMAIN u : u[k] \in Digit) /\ NumberOf(u) <= MaxExp
        BY <3>1 DEF GoodScale
      <3>5. QED
        BY <2>2, <3>2, <3>3, <3>4 DEF u
    <2>3. QED
      BY <2>1, <2>2
  <1>6. ASSUME NEW x \in Seq(Characters), NEW c \in Characters, x # <<>>
        PROVE  GoodScale(Append(x, c)) <=> /\ GoodScale(x) /\ c \in Digit
                                           /\ NumberOf(Unsigned(x)) * 10 + c <= MaxExp
    <2> DEFINE u == Unsigned(x)
               v == Append(u, c)
    <2>1. Unsigned(Append(x, c)) = v /\ u \in Seq(Characters)
      BY <1>6, UnsignedAppend
    <2>2. GoodScale(Append(x, c)) <=> (\A k \in DOMAIN v : v[k] \in Digit) /\ NumberOf(v) <= MaxExp
      BY <2>1 DEF GoodScale
    <2>3. GoodScale(x) <=> (\A k \in DOMAIN u : u[k] \in Digit) /\ NumberOf(u) <= MaxExp
      BY DEF GoodScale
    <2> HIDE DEF u
    <2>4. (\A k \in DOMAIN v : v[k] \in Digit) <=> (\A k \in DOMAIN u : u[k] \in Digit) /\ c \in Digit
      BY <2>1, GoodAppend
    <2>5. NumberOf(v) = 10 * NumberOf(u) + c
      BY <2>1, NumberAppend
    <2> HIDE DEF v
    <2>6. ASSUME \A k \in DOMAIN u : u[k] \in Digit, c \in Digit
          PROVE  /\ NumberOf(u) \in Nat /\ NumberOf(v) = NumberOf(u) * 10 + c
                 /\ NumberOf(v) <= MaxExp => NumberOf(u) <= MaxExp
      <3>1. NumberOf(u) \in Nat
        BY <1>3, <1>4, <2>1, <2>6
      <3>2. c \in Nat
        BY <2>6 DEF Digit
      <3>3. QED
        BY <1>1, <2>5, <3>1, <3>2
    <2>7. QED
      BY <2>2, <2>3, <2>4, <2>6 DEF u
  <1>7. ASSUME NEW x \in Seq(Characters), GoodScale(x)
        PROVE  Unsigned(x) \in Seq(Digit) /\ NumberOf(Unsigned(x)) \in Nat
    <2>1. Unsigned(x) \in Seq(Characters) /\ \A k \in DOMAIN Unsigned(x) : Unsigned(x)[k] \in Digit
      BY <1>7, UnsignedAppend DEF GoodScale
    <2>2. QED
      BY <1>3, <1>4, <2>1
  <1>8. QED
    BY <1>2, <1>5, <1>6, <1>7

ReadsScale(m, x) ==
    IF GoodScale(x) THEN Scanned(Marked(m, x)) = ScaleRead(m, x) ELSE Scanned(Marked(m, x)).part = "bad"

LEMMA ScaleScanned ==
    ASSUME NEW m \in Seq(Characters \ {EXPONENT}), GoodMantissa(m), OnlyDigits(m) # <<>>
    PROVE  \A x \in Seq(Characters) : ReadsScale(m, x)
  <1> DEFINE P == {x \in Seq(Characters) : ReadsScale(m, x)}
  <1>1. m \in Seq(Characters)
    OBVIOUS
  <1>2. EXPONENT \in Characters
    BY DEF Characters
  <1>3. <<>> \in P
    <2> DEFINE s == Scanned(m)
    <2>1. s = MantissaRead(m)
      BY MantissaScanned DEF ReadsMantissa
    <2>2. Scanned(Marked(m, <<>>)) = ScanChar(s, EXPONENT)
      BY <1>1, <1>2, MarkedAppend, ScannedAppend
    <2>3. InMantissa(s) /\ s.digits # <<>>
      BY <2>1 DEF InMantissa, MantissaRead
    <2> HIDE DEF s
    <2>4. ScanChar(s, EXPONENT) = [s EXCEPT !.part = "mark"]
      BY <1>2, <2>3, ScanCharCases
    <2>5. Unsigned(<<>>) = <<>> /\ NumberOf(<<>>) = 0 /\ IsNegative(<<>>) = FALSE
      BY UnsignedAppend, NumberAppend DEF IsNegative
    <2>6. ScaleRead(m, <<>>) =
             [part |-> "mark", neg |-> IsNegative(m), digits |-> OnlyDigits(m), point |-> HasPoint(m),
              exp |-> -Cardinality(AfterPoint(m)), eneg |-> FALSE, edigit |-> FALSE, ev |-> 0]
      BY <2>5 DEF ScaleRead
    <2> DEFINE p == IF m = <<>> THEN "start" ELSE "mantissa"
               ng == IsNegative(m)
               ds == OnlyDigits(m)
               pt == HasPoint(m)
               e == -Cardinality(AfterPoint(m))
    <2>7. s = [part |-> p, neg |-> ng, digits |-> ds, point |-> pt, exp |-> e,
               eneg |-> FALSE, edigit |-> FALSE, ev |-> 0]
      BY <2>1 DEF MantissaRead
    <2> HIDE DEF p, ng, ds, pt, e
    <2>8. ScanChar(s, EXPONENT) =
             [part |-> "mark", neg |-> ng, digits |-> ds, point |-> pt, exp |-> e,
              eneg |-> FALSE, edigit |-> FALSE, ev |-> 0]
      BY <2>4, <2>7
    <2>9. Scanned(Marked(m, <<>>)) = ScaleRead(m, <<>>)
      BY <2>2, <2>6, <2>8 DEF ng, ds, pt, e
    <2>10. QED
      BY <2>9, GoodScaleAppend, EmptySeq DEF ReadsScale
  <1>4. ASSUME NEW x \in Seq(Characters), NEW c \in Characters, x \in P
        PROVE  Append(x, c) \in P
    <2> DEFINE y == Append(x, c)
               s == Scanned(Marked(m, x))
    <2>1. y \in Seq(Characters) /\ y # <<>> /\ (x = <<>> => y = <<c>>)
      <3>1. x = <<>> => y = <<c>>
        OBVIOUS
      <3> HIDE DEF s, P
      <3>2. y \in Seq(Characters) /\ y # <<>>
        BY AppendProperties
      <3>3. QED
        BY <3>1, <3>2
    <2>2. Marked(m, x) \in Seq(Characters) /\ Marked(m, y) = Append(Marked(m, x), c)
      BY <1>1, MarkedAppend
    <2>3. Scanned(Marked(m, y)) = ScanChar(s, c)
      BY <2>2, ScannedAppend
    <2>4. ReadsScale(m, x)
      BY <1>4
    <2>5. GoodScale(y) <=> /\ GoodScale(x)
                           /\ \/ x = <<>> /\ c \in {PLUS, MINUS}
                              \/ c \in Digit /\ NumberOf(Unsigned(x)) * 10 + c <= MaxExp
      <3>1. CASE x = <<>>
        <4>1. Unsigned(x) = <<>> /\ NumberOf(<<>>) = 0
          BY <3>1, UnsignedAppend, NumberAppend
        <4>2. c \in Digit => NumberOf(Unsigned(x)) * 10 + c = c
          BY <4>1 DEF Digit
        <4>3. GoodScale(y) <=> c \in {PLUS, MINUS} \/ (c \in Digit /\ c <= MaxExp)
          BY <2>1, <3>1, GoodScaleAppend
        <4>4. GoodScale(x)
          BY <3>1, GoodScaleAppend
        <4> HIDE DEF y
        <4>5. QED
          BY <3>1, <4>2, <4>3, <4>4
      <3>2. CASE x # <<>>
        <4>1. GoodScale(y) <=> /\ GoodScale(x) /\ c \in Digit /\ NumberOf(Unsigned(x)) * 10 + c <= MaxExp
          BY <3>2, GoodScaleAppend
        <4> HIDE DEF y
        <4>2. QED
          BY <3>2, <4>1
      <3>3. QED
        BY <3>1, <3>2
    <2> DEFINE u == Unsigned(x)
    <2>6. x # <<>> => Unsigned(y) = Append(u, c) /\ (IsNegative(y) <=> IsNegative(x))
      BY UnsignedAppend, IsNegativeAppend
    <2>7. x = <<>> => /\ Unsigned(y) = (IF c \in {PLUS, MINUS} THEN <<>> ELSE <<c>>) /\ u = <<>>
                      /\ IsNegative(y) <=> c = MINUS
                      /\ ~IsNegative(x)
      BY <2>1, UnsignedAppend, IsNegativeAppend
    <2>8. u \in Seq(Characters)
      BY UnsignedAppend
    <2>9. IsNegative(y) \in BOOLEAN /\ IsNegative(x) \in BOOLEAN
      BY DEF IsNegative
    <2>10. Append(x, c) = y
      OBVIOUS
    <2> HIDE DEF y, s, P
    <2>11. CASE ~GoodScale(x)
      <3>1. s.part = "bad"
        BY <2>4, <2>11 DEF ReadsScale, s
      <3>2. Scanned(Marked(m, y)).part = "bad"
        BY <2>2, <3>1, BadStays DEF s
      <3>3. ReadsScale(m, y)
        BY <2>5, <2>11, <3>2 DEF ReadsScale
      <3>4. QED
        BY <2>1, <2>10, <3>3 DEF P
    <2>12. CASE GoodScale(x)
      <3> DEFINE p == IF x = <<>> THEN "mark" ELSE "exponent"
                 ng == IsNegative(m)
                 ds == OnlyDigits(m)
                 pt == HasPoint(m)
                 e == -Cardinality(AfterPoint(m))
                 en == IsNegative(x)
                 ed == u # <<>>
                 ev == NumberOf(u)
      <3>1. s = ScaleRead(m, x)
        BY <2>4, <2>12 DEF ReadsScale, s
      <3>2. s = [part |-> p, neg |-> ng, digits |-> ds, point |-> pt, exp |-> e,
                 eneg |-> en, edigit |-> ed, ev |-> ev]
        BY <3>1 DEF ScaleRead
      <3>3. ScaleRead(m, y) =
               [part |-> "exponent", neg |-> ng, digits |-> ds, point |-> pt, exp |-> e,
                eneg |-> IsNegative(y), edigit |-> Unsigned(y) # <<>>, ev |-> NumberOf(Unsigned(y))]
        BY <2>1 DEF ScaleRead
      <3>4. p = (IF x = <<>> THEN "mark" ELSE "exponent") /\ en = IsNegative(x) /\ ev = NumberOf(u) /\ ed = (u # <<>>)
        OBVIOUS
      <3>5. ev \in Nat
        BY <2>12, GoodScaleAppend
      <3> HIDE DEF p, ng, ds, pt, e, en, ed, ev
      <3>6. s.part = p /\ s.ev = ev
        BY <3>2
      <3>7. InExponent(s)
        BY SMTT(30), <3>4, <3>6 DEF InExponent
      <3>8. CASE x = <<>> /\ c \in {PLUS, MINUS}
        <4>1. ScanChar(s, c) = [s EXCEPT !.part = "exponent", !.eneg = c = MINUS]
          <5>1. s.part = "mark"
            BY <3>4, <3>6, <3>8
          <5>2. QED
            BY ZenonT(40), <3>8, <5>1, ScanCharCases
        <4>2. ScanChar(s, c) =
                 [part |-> "exponent", neg |-> ng, digits |-> ds, point |-> pt, exp |-> e,
                  eneg |-> c = MINUS, edigit |-> ed, ev |-> ev]
          BY <3>2, <4>1
        <4>3. Unsigned(y) = u /\ IsNegative(y) = (c = MINUS)
          BY <2>7, <2>9, <3>8
        <4>4. ScanChar(s, c) = ScaleRead(m, y)
          BY <3>3, <3>4, <4>2, <4>3
        <4>5. ReadsScale(m, y)
          BY <2>3, <2>5, <2>12, <3>8, <4>4 DEF ReadsScale
        <4>6. QED
          BY <2>1, <2>10, <4>5 DEF P
      <3>9. CASE c \in Digit /\ ev * 10 + c <= MaxExp
        <4>1. ScanChar(s, c) = [s EXCEPT !.part = "exponent", !.edigit = TRUE, !.ev = @ * 10 + c]
          BY ZenonT(40), <3>6, <3>7, <3>9, ScanCharCases
        <4>2. ScanChar(s, c) =
                 [part |-> "exponent", neg |-> ng, digits |-> ds, point |-> pt, exp |-> e,
                  eneg |-> en, edigit |-> TRUE, ev |-> ev * 10 + c]
          BY <3>2, <4>1
        <4>3. c \notin {PLUS, MINUS}
          BY <3>9, CharacterCodes
        <4>4. Unsigned(y) = Append(u, c)
          <5>1. x = <<>> => <<c>> = Append(u, c)
            BY <2>7
          <5>2. QED
            BY <2>6, <2>7, <4>3, <5>1
        <4>5. IsNegative(y) = en
          BY <2>6, <2>7, <2>9, <3>4, <4>3
        <4>6. Unsigned(y) # <<>>
          BY <2>8, <4>4, AppendProperties
        <4>7. NumberOf(Unsigned(y)) = ev * 10 + c
          <5>1. NumberOf(Append(u, c)) = 10 * NumberOf(u) + c
            BY <2>8, NumberAppend
          <5>2. 10 * ev = ev * 10
            BY <3>5
          <5>3. QED
            BY <3>4, <4>4, <5>1, <5>2
        <4>8. ScanChar(s, c) = ScaleRead(m, y)
          BY <3>3, <4>2, <4>5, <4>6, <4>7
        <4>9. ReadsScale(m, y)
          BY <2>3, <2>5, <2>12, <3>4, <3>9, <4>8 DEF ReadsScale
        <4>10. QED
          BY <2>1, <2>10, <4>9 DEF P
      <3>10. CASE ~((x = <<>> /\ c \in {PLUS, MINUS}) \/ (c \in Digit /\ ev * 10 + c <= MaxExp))
        <4>1. ScanChar(s, c) = [s EXCEPT !.part = "bad"]
          <5>1. CASE c \in Digit
            BY ZenonT(40), <3>6, <3>7, <3>10, <5>1, ScanCharCases
          <5>2. CASE c \notin Digit /\ x = <<>>
            <6>1. s.part = "mark" /\ c \notin Digit \cup {PLUS, MINUS}
              BY SMTT(30), <3>4, <3>6, <3>10, <5>2
            <6>2. QED
              BY ZenonT(40), <6>1, ScanCharCases
          <5>3. CASE c \notin Digit /\ x # <<>>
            <6>1. s.part = "exponent"
              BY <3>4, <3>6, <5>3
            <6>2. QED
              BY <5>3, <6>1, ScanCharCases
          <5>4. QED
            BY SMTT(30), <5>1, <5>2, <5>3
        <4>2. ScanChar(s, c).part = "bad"
          BY <3>2, <4>1
        <4>3. ReadsScale(m, y)
          BY <2>3, <2>5, <3>4, <3>10, <4>2 DEF ReadsScale
        <4>4. QED
          BY <2>1, <2>10, <4>3 DEF P
      <3>11. QED
        BY <3>8, <3>9, <3>10
    <2>13. QED
      BY <2>11, <2>12
  <1> HIDE DEF P
  <1>5. Seq(Characters) \subseteq P
    BY <1>3, <1>4, SeqSetInduction
  <1>6. QED
    BY <1>5 DEF P

LEMMA BadMark ==
    ASSUME NEW m \in Seq(Characters \ {EXPONENT}), ~GoodMantissa(m) \/ OnlyDigits(m) = <<>>
    PROVE  \A x \in Seq(Characters) : Scanned(Marked(m, x)).part = "bad"
  <1> DEFINE P == {x \in Seq(Characters) : Scanned(Marked(m, x)).part = "bad"}
  <1>1. m \in Seq(Characters) /\ EXPONENT \in Characters
    BY DEF Characters
  <1>2. <<>> \in P
    <2>1. Marked(m, <<>>) = Append(m, EXPONENT)
      BY <1>1, MarkedAppend
    <2>2. CASE ~GoodMantissa(m)
      <3>1. Scanned(m).part = "bad"
        BY <2>2, MantissaScanned DEF ReadsMantissa
      <3>2. QED
        BY <1>1, <2>1, <3>1, BadStays, EmptySeq
    <2>3. CASE GoodMantissa(m)
      <3> DEFINE s == Scanned(m)
      <3>1. s = MantissaRead(m)
        BY <2>3, MantissaScanned DEF ReadsMantissa
      <3>2. InMantissa(s) /\ s.digits = <<>>
        BY <2>3, <3>1 DEF InMantissa, MantissaRead
      <3>3. s \in ScanState
        <4>1. Len(m) \in Nat
          BY LenProperties
        <4>2. QED
          BY <4>1, ScannedState
      <3>4. Scanned(Marked(m, <<>>)) = ScanChar(s, EXPONENT)
        BY <1>1, <2>1, ScannedAppend
      <3> HIDE DEF s
      <3>5. ScanChar(s, EXPONENT) = [s EXCEPT !.part = "bad"]
        BY <1>1, <3>2, ScanCharCases
      <3>6. ScanChar(s, EXPONENT).part = "bad"
        BY <3>3, <3>5 DEF ScanState
      <3>7. QED
        BY <3>4, <3>6, EmptySeq
    <2>4. QED
      BY <2>2, <2>3
  <1>3. ASSUME NEW x \in Seq(Characters), NEW c \in Characters, x \in P
        PROVE  Append(x, c) \in P
    <2>1. Append(x, c) \in Seq(Characters) /\ Marked(m, x) \in Seq(Characters)
          /\ Marked(m, Append(x, c)) = Append(Marked(m, x), c)
      BY <1>1, MarkedAppend, AppendProperties
    <2>2. QED
      BY <1>3, <2>1, BadStays
  <1> HIDE DEF P
  <1>4. Seq(Characters) \subseteq P
    BY <1>2, <1>3, SeqSetInduction
  <1>5. QED
    BY <1>4 DEF P

LEMMA OnlyDigitsUnsigned ==
    \A t \in Seq(Characters) : OnlyDigits(Unsigned(t)) = OnlyDigits(t)
  <1> DEFINE P == {t \in Seq(Characters) : OnlyDigits(Unsigned(t)) = OnlyDigits(t)}
  <1>1. <<>> \in P
    BY UnsignedAppend, EmptySeq
  <1>2. ASSUME NEW t \in Seq(Characters), NEW c \in Characters, t \in P
        PROVE  Append(t, c) \in P
    <2>1. Append(t, c) \in Seq(Characters)
      BY AppendProperties
    <2>2. OnlyDigits(Append(t, c)) = IF c \in Digit THEN Append(OnlyDigits(t), c) ELSE OnlyDigits(t)
      BY OnlyDigitsAppend
    <2>3. CASE t = <<>>
      <3>1. Append(t, c) = <<c>>
        BY <2>3
      <3>2. Unsigned(<<c>>) = IF c \in {PLUS, MINUS} THEN <<>> ELSE <<c>>
        BY UnsignedAppend
      <3>3. c \in {PLUS, MINUS} => OnlyDigits(Append(t, c)) = <<>>
        BY <2>2, <2>3, CharacterCodes, OnlyDigitsAppend
      <3>4. QED
        BY <2>1, <3>1, <3>2, <3>3, OnlyDigitsAppend
    <2>4. CASE t # <<>>
      <3>1. Unsigned(Append(t, c)) = Append(Unsigned(t), c) /\ Unsigned(t) \in Seq(Characters)
        BY <2>4, UnsignedAppend
      <3>2. OnlyDigits(Append(Unsigned(t), c)) =
               IF c \in Digit THEN Append(OnlyDigits(Unsigned(t)), c) ELSE OnlyDigits(Unsigned(t))
        BY <3>1, OnlyDigitsAppend
      <3>3. OnlyDigits(Unsigned(t)) = OnlyDigits(t)
        BY <1>2
      <3>4. OnlyDigits(Unsigned(Append(t, c))) = OnlyDigits(Append(t, c))
        BY <2>2, <3>1, <3>2, <3>3
      <3>5. QED
        BY <2>1, <3>4
    <2>5. QED
      BY <2>3, <2>4
  <1> HIDE DEF P
  <1>3. Seq(Characters) \subseteq P
    BY <1>1, <1>2, SeqSetInduction
  <1>4. QED
    BY <1>3 DEF P

(* Where the grammar takes a text apart.                                   *)
LEMMA TextParts ==
    ASSUME NEW text \in Seq(Characters)
    PROVE  /\ Mantissa(text) \in Seq(Characters \ {EXPONENT}) /\ Scale(text) \in Seq(Characters)
           /\ \/ Mark(text) <= Len(text) /\ text = Marked(Mantissa(text), Scale(text))
              \/ ~(Mark(text) <= Len(text)) /\ text = Mantissa(text) /\ Scale(text) = <<>>
  <1> DEFINE n == Len(text)
             at == {k \in DOMAIN text : text[k] = EXPONENT}
             C == Characters \ {EXPONENT}
             m == Mantissa(text)
             x == Scale(text)
             mark == Mark(text)
  <1>1. n \in Nat /\ DOMAIN text = 1..n /\ \A i \in 1..n : text[i] \in Characters
    BY LenProperties, ElementOfSeq
  <1>2. mark = IF at = {} THEN n + 1 ELSE FirstOf(at)
    BY DEF Mark
  <1>3. m = SubSeq(text, 1, mark - 1) /\ x = SubSeq(text, mark + 1, n)
    BY DEF Mantissa, Scale
  <1> HIDE DEF m, x, mark, n
  <1>4. CASE at = {}
    <2>1. mark = n + 1 /\ ~(mark <= n) /\ mark - 1 = n
      BY <1>1, <1>2, <1>4
    <2>2. \A i \in 1..n : text[i] \in C
      BY <1>1, <1>4
    <2>3. 1 \in Int /\ n \in Int /\ mark + 1 \in Int /\ mark + 1 > n
      BY <1>1, <2>1
    <2>4. /\ m \in Seq(C) /\ Len(m) = (IF 1 <= n THEN n - 1 + 1 ELSE 0)
          /\ \A i \in 1..(n - 1 + 1) : m[i] = text[1 + i - 1]
      BY <1>3, <2>1, <2>2, <2>3, SubSeqProperties
    <2>5. Len(m) = n /\ \A i \in 1..n : m[i] = text[i]
      <3>1. n - 1 + 1 = n /\ \A i \in 1..n : 1 + i - 1 = i
        BY <1>1
      <3>2. QED
        BY <1>1, <2>4, <3>1
    <2>6. m = text
      BY <2>4, <2>5, SeqEqual DEF n
    <2>7. x = <<>>
      <3>1. \A i \in (mark + 1)..n : text[i] \in Characters
        BY <2>3
      <3>2. x \in Seq(Characters) /\ Len(x) = 0
        BY <1>3, <2>3, <3>1, SubSeqProperties
      <3>3. QED
        BY <3>2, EmptySeq
    <2>8. x \in Seq(Characters)
      BY <2>7, EmptySeq
    <2>9. QED
      BY <2>1, <2>4, <2>6, <2>7, <2>8 DEF m, x, mark, n
  <1>5. CASE at # {}
    <2>1. mark \in at /\ \A j \in at : mark <= j
      <3>1. at \in SUBSET Nat
        BY <1>1
      <3> HIDE DEF at
      <3>2. QED
        BY <1>2, <1>5, <3>1, FirstOfProperties
    <2>2. mark \in 1..n /\ text[mark] = EXPONENT /\ \A i \in 1..(mark - 1) : text[i] \in C
      <3>1. mark \in 1..n /\ text[mark] = EXPONENT
        BY <1>1, <2>1
      <3>2. ASSUME NEW i \in 1..(mark - 1)
            PROVE  text[i] \in C
        <4>1. i \in 1..n /\ ~(mark <= i)
          BY <1>1, <3>1
        <4>2. i \notin at
          BY <2>1, <4>1
        <4>3. QED
          BY <1>1, <4>1, <4>2
      <3>3. QED
        BY <3>1, <3>2
    <2> HIDE DEF at
    <2>3. /\ 1 \in Int /\ mark - 1 \in Int /\ mark + 1 \in Int /\ n \in Int
          /\ (mark - 1) - 1 + 1 = mark - 1 /\ n - (mark + 1) + 1 = n - mark
          /\ mark - 1 \in Nat /\ n - mark \in Nat /\ mark \in Nat
      BY <1>1, <2>2
    <2>4. /\ m \in Seq(C) /\ Len(m) = (IF 1 <= mark - 1 THEN (mark - 1) - 1 + 1 ELSE 0)
          /\ \A i \in 1..((mark - 1) - 1 + 1) : m[i] = text[1 + i - 1]
      BY <1>3, <2>2, <2>3, SubSeqProperties
    <2>5. Len(m) = mark - 1 /\ \A i \in 1..(mark - 1) : m[i] = text[i]
      <3>1. \A i \in 1..(mark - 1) : 1 + i - 1 = i
        BY <2>3
      <3>2. QED
        BY <2>3, <2>4, <3>1
    <2>6. \A i \in (mark + 1)..n : text[i] \in Characters
      <3>1. \A i \in (mark + 1)..n : i \in 1..n
        BY <2>3
      <3>2. QED
        BY <1>1, <3>1
    <2>7. /\ x \in Seq(Characters) /\ Len(x) = (IF mark + 1 <= n THEN n - (mark + 1) + 1 ELSE 0)
          /\ \A i \in 1..(n - (mark + 1) + 1) : x[i] = text[(mark + 1) + i - 1]
      BY <1>3, <2>3, <2>6, SubSeqProperties
    <2>8. Len(x) = n - mark /\ \A i \in 1..(n - mark) : x[i] = text[mark + i]
      <3>1. \A i \in 1..(n - mark) : (mark + 1) + i - 1 = mark + i
        BY <2>3
      <3>2. QED
        BY SMTT(30), <2>3, <2>7, <3>1
    <2> DEFINE h == m \o <<EXPONENT>>
               y == h \o x
    <2>9. m \in Seq(Characters) /\ <<EXPONENT>> \in Seq(Characters)
      <3>1. EXPONENT \in Characters
        BY DEF Characters
      <3>2. QED
        BY <2>4, <3>1
    <2>10. Len(<<EXPONENT>>) = 1 /\ <<EXPONENT>>[1] = EXPONENT
      OBVIOUS
    <2>11. /\ h \in Seq(Characters) /\ Len(h) = mark
           /\ \A i \in 1..mark : h[i] = text[i]
      <3>1. /\ h \in Seq(Characters) /\ Len(h) = Len(m) + Len(<<EXPONENT>>)
            /\ \A i \in 1..(Len(m) + Len(<<EXPONENT>>)) :
                  h[i] = IF i <= Len(m) THEN m[i] ELSE <<EXPONENT>>[i - Len(m)]
        BY <2>9, ConcatProperties
      <3>2. Len(m) + Len(<<EXPONENT>>) = mark
        BY <2>3, <2>5, <2>10
      <3> HIDE DEF h
      <3>3. ASSUME NEW i \in 1..mark
            PROVE  h[i] = text[i]
        <4>1. CASE i <= mark - 1
          <5>1. i \in 1..(mark - 1)
            BY <2>3, <4>1
          <5>2. QED
            BY <2>5, <3>1, <3>2, <4>1, <5>1
        <4>2. CASE ~(i <= mark - 1)
          <5>1. i = mark /\ i - Len(m) = 1
            BY <2>3, <2>5, <4>2
          <5>2. QED
            BY <2>2, <2>5, <2>10, <3>1, <3>2, <4>2, <5>1
        <4>3. QED
          BY <4>1, <4>2
      <3>4. QED
        BY <3>1, <3>2, <3>3
    <2> HIDE DEF h
    <2>12. /\ y \in Seq(Characters) /\ Len(y) = mark + Len(x)
           /\ \A i \in 1..(mark + Len(x)) : y[i] = IF i <= mark THEN h[i] ELSE x[i - mark]
      BY <2>7, <2>11, ConcatProperties
    <2> HIDE DEF y
    <2>13. Len(y) = n
      BY <2>3, <2>8, <2>12
    <2>14. ASSUME NEW i \in 1..n
           PROVE  y[i] = text[i]
      <3>1. CASE i <= mark
        <4>1. i \in 1..mark /\ i \in 1..(mark + Len(x))
          BY <1>1, <2>3, <2>8, <3>1
        <4>2. QED
          BY <2>11, <2>12, <3>1, <4>1
      <3>2. CASE ~(i <= mark)
        <4>1. i - mark \in 1..(n - mark) /\ mark + (i - mark) = i /\ i \in 1..(mark + Len(x))
          BY <1>1, <2>3, <2>8, <3>2
        <4>2. QED
          BY <2>8, <2>12, <3>2, <4>1
      <3>3. QED
        BY <3>1, <3>2
    <2>15. y = text
      BY <2>12, <2>13, <2>14, SeqEqual DEF n
    <2>16. Marked(m, x) = text
      BY <2>15 DEF Marked, y, h
    <2>17. mark <= n
      BY <1>1, <2>2
    <2>18. QED
      BY <2>4, <2>7, <2>16, <2>17 DEF m, x, mark, n
  <1>6. QED
    BY <1>4, <1>5

(* The scanner accepts exactly the texts the grammar gives a decimal, and  *)
(* reads that decimal.                                                     *)
LEMMA TextRead ==
    ASSUME NEW text \in Seq(Characters)
    PROVE  /\ TextRejected(text) <=> ~DenotesDecimal(text)
           /\ ~TextRejected(text) =>
                /\ InExpRange(LiteralExp(text)) /\ LiteralExp(text) \in Int
                /\ OnlyDigits(Mantissa(text)) \in Seq(0..9)
                /\ ~DecimalRejected(OnlyDigits(Mantissa(text)), LiteralExp(text))
                /\ EncDecimalText(text) =
                     EncDecimal(IsNegative(Mantissa(text)), OnlyDigits(Mantissa(text)), LiteralExp(text))
           /\ TextRejected(text) => EncDecimalText(text) = <<>>
  <1> DEFINE m == Mantissa(text)
             x == Scale(text)
             s == Scanned(text)
             ds == OnlyDigits(m)
             n == NumberOf(Unsigned(x))
             e == LiteralExp(text)
             k == Cardinality(AfterPoint(m))
             later == Mark(text) <= Len(text)
  <1>1. /\ m \in Seq(Characters \ {EXPONENT}) /\ m \in Seq(Characters) /\ x \in Seq(Characters)
        /\ later => text = Marked(m, x)
        /\ ~later => text = m /\ x = <<>>
    <2>1. Seq(Characters \ {EXPONENT}) \subseteq Seq(Characters)
      OBVIOUS
    <2>2. QED
      BY <2>1, TextParts
  <1>2. e = (IF IsNegative(x) THEN -n ELSE n) - k
    BY DEF LiteralExp
  <1>3. /\ IsLiteral(text) <=> /\ GoodMantissa(m) /\ OnlyDigits(Unsigned(m)) # <<>>
                               /\ later => Unsigned(x) # <<>> /\ \A i \in DOMAIN Unsigned(x) : Unsigned(x)[i] \in Digit
    BY Zenon DEF IsLiteral, GoodMantissa
  <1>4. DenotesDecimal(text) <=> IsLiteral(text) /\ n <= MaxExp /\ InExpRange(e) /\ ~DecimalRejected(ds, e)
    BY DEF DenotesDecimal
  <1>5. TextRejected(text) <=> \/ s.part = "bad" \/ s.digits = <<>> \/ (InExponent(s) /\ ~s.edigit)
                               \/ ~InExpRange(ScannedExp(s)) \/ DecimalRejected(s.digits, ScannedExp(s))
    BY DEF TextRejected
  <1>6. EncDecimalText(text) = IF TextRejected(text) THEN <<>> ELSE EncDecimal(s.neg, s.digits, ScannedExp(s))
    BY DEF EncDecimalText
  <1>7. ds \in Seq(0..9) /\ k \in Nat
    BY <1>1, OnlyDigitsAppend, AfterPointAppend DEF Digit
  <1>8. GoodScale(x) <=> (\A i \in DOMAIN Unsigned(x) : Unsigned(x)[i] \in Digit) /\ n <= MaxExp
    BY DEF GoodScale
  <1>9. GoodScale(x) => n \in Nat
    BY <1>1, GoodScaleAppend
  <1>10. OnlyDigits(Unsigned(m)) = ds
    BY <1>1, OnlyDigitsUnsigned
  <1>11. MaxExp \in Nat
    BY WidthAssumption
  <1>12. (IsNegative(x) => x # <<>>) /\ (x = <<>> => Unsigned(x) = <<>> /\ n = 0)
    BY UnsignedAppend, NumberAppend DEF IsNegative
  <1>13. x = <<>> => GoodScale(x)
    BY GoodScaleAppend
  <1>14. e \in Int \/ ~GoodScale(x)
    BY <1>2, <1>7, <1>9
  <1> DEFINE good == GoodMantissa(m) /\ GoodScale(x) /\ (later => ds # <<>>)
  <1>15. CASE ~good
    <2>1. ~DenotesDecimal(text)
      <3>1. later => ~(GoodMantissa(m) /\ ds # <<>> /\ GoodScale(x))
        BY <1>15
      <3>2. ~later => ~GoodMantissa(m)
        BY <1>1, <1>13, <1>15
      <3>3. QED
        BY <1>3, <1>4, <1>8, <1>10, <3>1, <3>2
    <2>2. s.part = "bad"
      <3>1. CASE later /\ ~(GoodMantissa(m) /\ ds # <<>>)
        <4>1. Scanned(Marked(m, x)).part = "bad"
          BY <1>1, <3>1, BadMark
        <4>2. QED
          BY <1>1, <3>1, <4>1
      <3>2. CASE later /\ GoodMantissa(m) /\ ds # <<>>
        <4>1. ReadsScale(m, x)
          BY <1>1, <3>2, ScaleScanned
        <4>2. ~GoodScale(x)
          BY <1>15, <3>2
        <4>3. QED
          BY <1>1, <3>2, <4>1, <4>2 DEF ReadsScale
      <3>3. CASE ~later
        <4>1. ReadsMantissa(m) /\ ~GoodMantissa(m)
          BY <1>1, <1>13, <1>15, <3>3, MantissaScanned
        <4>2. QED
          BY <1>1, <3>3, <4>1 DEF ReadsMantissa
      <3>4. QED
        BY <3>1, <3>2, <3>3
    <2> HIDE DEF s, e, ds, n, m, x, k, later
    <2>3. TextRejected(text)
      BY <1>5, <2>2
    <2>4. QED
      BY <1>6, <2>1, <2>3
  <1>16. CASE good
    <2>1. /\ s.part # "bad" /\ s.neg = IsNegative(m) /\ s.digits = ds
          /\ s.exp = -k /\ s.ev = n /\ s.eneg = IsNegative(x)
          /\ later => InExponent(s) /\ s.edigit = (Unsigned(x) # <<>>)
          /\ ~later => ~InExponent(s)
      <3>1. CASE later
        <4>1. s = ScaleRead(m, x)
          BY <1>1, <1>16, <3>1, ScaleScanned DEF ReadsScale
        <4>2. QED
          BY <3>1, <4>1 DEF ScaleRead, InExponent
      <3>2. CASE ~later
        <4>1. ReadsMantissa(m) /\ text = m
          BY <1>1, <3>2, MantissaScanned
        <4>2. s = MantissaRead(m)
          BY <1>16, <4>1 DEF ReadsMantissa
        <4>3. IsNegative(x) = FALSE /\ n = 0
          BY <1>1, <1>12, <3>2 DEF IsNegative
        <4> HIDE DEF s, m, x, n, later
        <4>4. QED
          BY <3>2, <4>2, <4>3 DEF MantissaRead, InExponent
      <3>3. QED
        BY <3>1, <3>2
    <2>2. GoodMantissa(m) /\ GoodScale(x) /\ n \in Nat /\ e \in Int
      BY <1>9, <1>14, <1>16
    <2>3. IsNegative(x) \in BOOLEAN
      BY DEF IsNegative
    <2> HIDE DEF s, e, ds, n, m, x, k, later, good
    <2>4. ScannedExp(s) = e
      <3>1. ScannedExp(s) = IF IsNegative(x) THEN (-k) - n ELSE (-k) + n
        BY <2>1 DEF ScannedExp
      <3>2. QED
        BY <1>2, <1>7, <2>2, <3>1
    <2>5. IsLiteral(text) <=> ds # <<>> /\ (later => Unsigned(x) # <<>>)
      BY <1>3, <1>8, <1>10, <2>2
    <2>6. TextRejected(text) <=> \/ ds = <<>> \/ (later /\ ~(Unsigned(x) # <<>>))
                                 \/ ~InExpRange(e) \/ DecimalRejected(ds, e)
      BY <1>5, <2>1, <2>4
    <2>7. DenotesDecimal(text) <=> /\ ds # <<>> /\ (later => Unsigned(x) # <<>>)
                                   /\ InExpRange(e) /\ ~DecimalRejected(ds, e)
      BY <1>4, <1>8, <2>2, <2>5
    <2>8. TextRejected(text) <=> ~DenotesDecimal(text)
      BY <2>6, <2>7
    <2>9. ~TextRejected(text) => InExpRange(e) /\ ~DecimalRejected(ds, e)
      BY <2>6
    <2>10. EncDecimalText(text) = IF TextRejected(text) THEN <<>> ELSE EncDecimal(IsNegative(m), ds, e)
      BY <1>6, <2>1, <2>4
    <2>11. QED
      BY <1>7, <2>2, <2>8, <2>9, <2>10 DEF ds, e, m
  <1>17. QED
    BY <1>15, <1>16

-----------------------------------------------------------------------------
(* The doubling loop of sw_reserve, as a chain of sizes.                   *)
IsDoubling(f, needed) ==
    f = [n \in Nat \ {0} |-> IF n >= needed THEN n ELSE f[2 * n]]

LEMMA DoublingExists ==
    ASSUME NEW needed \in Nat
    PROVE  \E f : IsDoubling(f, needed)
  <1> DEFINE D == Nat \ {0}
             Twice(n) == 2 * n
             Gap(n) == IF n >= needed THEN 0 ELSE needed - n
             size == [n \in D |-> Gap(n)]
             stop == [n \in D |-> n >= needed]
             base == [n \in D |-> <<n>>]
             head == [n \in D |-> <<>>]
             rest == [n \in D |-> Twice(n)]
  <1>1. \A n \in D : Gap(n) \in Nat /\ Twice(n) \in D /\ (~(n >= needed) => Gap(Twice(n)) < Gap(n))
    OBVIOUS
  <1> HIDE DEF D, Twice, Gap
  <1>2. size \in [D -> Nat]
    BY <1>1
  <1>3. ASSUME NEW n \in D
        PROVE  /\ size[n] = Gap(n)
               /\ stop[n] <=> n >= needed
               /\ base[n] = <<n>>
               /\ head[n] = <<>>
               /\ rest[n] = Twice(n)
    BY Zenon
  <1> HIDE DEF size, stop, base, head, rest
  <1>4. ASSUME NEW n \in D, ~stop[n]
        PROVE  rest[n] \in D /\ size[rest[n]] < size[n]
    BY <1>1, <1>3, <1>4
  <1>5. Shrinks(D, size, stop, rest)
    BY <1>2, <1>4, Zenon DEF Shrinks
  <1>6. PICK g : IsWalk(g, D, stop, base, head, rest)
    BY <1>5, WalkExists
  <1>7. \A n \in D : g[n] = IF stop[n] THEN base[n] ELSE head[n] \o g[rest[n]]
    BY <1>6, Zenon DEF IsWalk
  <1>8. \A n \in D : g[n] = IF n >= needed THEN <<n>> ELSE <<>> \o g[Twice(n)]
    BY <1>3, <1>7, Zenon
  <1> DEFINE S == {k \in Nat : \A n \in D : Gap(n) <= k => g[n] \in Seq(D)}
  <1>9. 0 \in S
    <2>1. ASSUME NEW n \in D, Gap(n) <= 0
          PROVE  g[n] \in Seq(D)
      <3>1. n >= needed
        BY <2>1 DEF Gap, D
      <3>2. g[n] = <<n>>
        BY <1>8, <3>1, Zenon
      <3>3. QED
        BY <3>2
    <2>2. QED
      BY <2>1
  <1>10. ASSUME NEW k \in Nat, k \in S
         PROVE  k + 1 \in S
    <2>1. ASSUME NEW n \in D, Gap(n) <= k + 1
          PROVE  g[n] \in Seq(D)
      <3>1. CASE n >= needed
        <4>1. g[n] = <<n>>
          BY <1>8, <3>1, Zenon
        <4>2. QED
          BY <4>1
      <3>2. CASE ~(n >= needed)
        <4>1. Twice(n) \in D /\ Gap(Twice(n)) <= k
          BY <1>1, <2>1, <3>2
        <4>2. g[Twice(n)] \in Seq(D)
          BY <1>10, <4>1
        <4>3. g[n] = <<>> \o g[Twice(n)]
          BY <1>8, <3>2, Zenon
        <4>4. QED
          BY <4>2, <4>3, ConcatEmptySeq
      <3>3. QED
        BY <3>1, <3>2
    <2>2. QED
      BY <2>1
  <1> HIDE DEF S
  <1>11. \A k \in Nat : k \in S
    BY <1>9, <1>10, NatSetInduction
  <1>12. ASSUME NEW n \in D
         PROVE  g[n] \in Seq(D)
    <2>1. Gap(n) \in S /\ Gap(n) <= Gap(n)
      BY <1>1, <1>11
    <2>2. QED
      BY <2>1 DEF S
  <1>13. ASSUME NEW n \in D
         PROVE  g[n][1] = IF n >= needed THEN n ELSE g[Twice(n)][1]
    <2>1. <<n>>[1] = n
      OBVIOUS
    <2>2. <<>> \o g[Twice(n)] = g[Twice(n)]
      <3>1. g[Twice(n)] \in Seq(D)
        BY <1>1, <1>12
      <3>2. QED
        BY <3>1, ConcatEmptySeq
    <2>3. QED
      BY <1>8, <2>1, <2>2, Zenon
  <1> DEFINE f == [n \in D |-> g[n][1]]
  <1>14. \A n \in D : f[n] = g[n][1]
    BY Zenon
  <1>15. f = [n \in D |-> IF n >= needed THEN n ELSE f[Twice(n)]]
    <2>1. ASSUME NEW n \in D
          PROVE  g[n][1] = IF n >= needed THEN n ELSE f[Twice(n)]
      BY <1>1, <1>13, <1>14, Zenon
    <2>2. QED
      BY <2>1, Zenon
  <1> HIDE DEF f
  <1>16. QED
    BY <1>15 DEF IsDoubling, D, Twice

(* sw_reserve makes room: the allocation it leaves holds what was asked.   *)
LEMMA GrownSuffices ==
    ASSUME NEW c \in Nat, NEW needed \in Nat
    PROVE  Grown(c, needed) \in Nat /\ Grown(c, needed) >= needed
  <1> DEFINE enough == CHOOSE f : f = [n \in Nat \ {0} |-> IF n >= needed THEN n ELSE f[2 * n]]
  <1>1. \E f : f = [n \in Nat \ {0} |-> IF n >= needed THEN n ELSE f[2 * n]]
    BY DoublingExists DEF IsDoubling
  <1>2. Grown(c, needed) = IF needed <= c THEN c ELSE enough[IF c = 0 THEN InitialCap ELSE c]
    BY Zenon DEF Grown
  <1>3. enough = [n \in Nat \ {0} |-> IF n >= needed THEN n ELSE enough[2 * n]]
    BY <1>1, Zenon
  <1> HIDE DEF enough
  <1>4. \A n \in Nat \ {0} : enough[n] = IF n >= needed THEN n ELSE enough[2 * n]
    BY <1>3, Zenon
  <1> DEFINE S == {k \in Nat : \A n \in Nat \ {0} : needed - n <= k => enough[n] \in Nat /\ enough[n] >= needed}
  <1>5. 0 \in S
    <2>1. ASSUME NEW n \in Nat \ {0}, needed - n <= 0
          PROVE  enough[n] \in Nat /\ enough[n] >= needed
      BY <1>4, <2>1
    <2>2. QED
      BY <2>1
  <1>6. ASSUME NEW k \in Nat, k \in S
        PROVE  k + 1 \in S
    <2>1. ASSUME NEW n \in Nat \ {0}, needed - n <= k + 1
          PROVE  enough[n] \in Nat /\ enough[n] >= needed
      <3>1. CASE n >= needed
        BY <1>4, <3>1
      <3>2. CASE ~(n >= needed)
        <4>1. 2 * n \in Nat \ {0} /\ needed - 2 * n <= k
          BY <2>1, <3>2
        <4>2. enough[2 * n] \in Nat /\ enough[2 * n] >= needed
          BY <1>6, <4>1
        <4>3. QED
          BY <1>4, <3>2, <4>2
      <3>3. QED
        BY <3>1, <3>2
    <2>2. QED
      BY <2>1
  <1> HIDE DEF S
  <1>7. \A k \in Nat : k \in S
    BY <1>5, <1>6, NatSetInduction
  <1>8. ASSUME NEW n \in Nat \ {0}
        PROVE  enough[n] \in Nat /\ enough[n] >= needed
    <2>1. needed \in S /\ needed - n <= needed
      BY <1>7
    <2>2. QED
      BY <2>1 DEF S
  <1>9. (IF c = 0 THEN InitialCap ELSE c) \in Nat \ {0}
    BY WriterAssumption
  <1>10. CASE needed <= c
    BY <1>2, <1>10
  <1>11. CASE ~(needed <= c)
    BY <1>2, <1>8, <1>9, <1>11
  <1>12. QED
    BY <1>10, <1>11

-----------------------------------------------------------------------------
(* What the append calls emit: an element, a framed string of bytes, or    *)
(* what another writer holds.                                              *)
Emitted == {EncElement(e) : e \in Leaves} \cup {EncDecimalText(text) : text \in Texts}
             \cup {EncFramed(t, d) : t \in Framed, d \in Seq(Byte)} \cup {data[c] : c \in Writers}

LEMMA EmittedBytes ==
    ASSUME TypeOK, NEW bytes \in Emitted
    PROVE  bytes \in Seq(Byte)
  <1>1. ASSUME NEW e \in Leaves
        PROVE  EncElement(e) \in Seq(Byte)
    BY WriterAssumption, EncElementBytes
  <1>2. ASSUME NEW text \in Texts
        PROVE  EncDecimalText(text) \in Seq(Byte)
    <2>1. text \in Seq(Characters)
      BY WriterAssumption
    <2>2. Len(text) \in Nat
      BY <2>1, LenProperties, Zenon
    <2>3. QED
      BY <2>2, EncDecimalTextBytes
  <1>3. ASSUME NEW t \in Framed, NEW d \in Seq(Byte)
        PROVE  EncFramed(t, d) \in Seq(Byte)
    <2>1. t \in Byte
      BY DEF Framed, STRING_CODE, BYTES, ARRAY, MAP, SET, Byte
    <2>2. QED
      BY <2>1, FramedBytes
  <1>4. ASSUME NEW c \in Writers
        PROVE  data[c] \in Seq(Byte)
    BY DEF TypeOK
  <1>5. QED
    BY <1>1, <1>2, <1>3, <1>4 DEF Emitted

LEMMA StepEmits ==
    ASSUME TypeOK, [WriterNext]_vars
    PROVE  \/ \E w \in Writers : \E bytes \in Emitted : Emit(w, bytes)
           \/ \E w \in Writers : Reset(w) \/ Free(w)
           \/ UNCHANGED vars
  <1>1. \A w \in Writers : data[w] \in Seq(Byte) /\ Split[data[w]] \in Seq(Seq(Byte))
    <2> TAKE w \in Writers
    <2>1. data[w] \in Seq(Byte)
      BY DEF TypeOK
    <2>2. QED
      BY <2>1, SplitDecomposes
  <1>2. ARRAY \in Framed /\ MAP \in Framed /\ SET \in Framed
    BY DEF Framed
  <1>3. /\ \A e \in Leaves : EncElement(e) \in Emitted
        /\ \A text \in Texts : EncDecimalText(text) \in Emitted
        /\ \A t \in Framed, d \in Seq(Byte) : EncFramed(t, d) \in Emitted
        /\ \A c \in Writers : data[c] \in Emitted
    BY DEF Emitted
  <1>4. ASSUME NEW w \in Writers, NEW e \in Leaves, AppendLeaf(w, e)
        PROVE  \E bytes \in Emitted : Emit(w, bytes)
    BY <1>3, <1>4, Zenon DEF AppendLeaf
  <1>5. ASSUME NEW w \in Writers, NEW text \in Texts, AppendDecimalString(w, text)
        PROVE  \E bytes \in Emitted : Emit(w, bytes)
    BY <1>3, <1>5, Zenon DEF AppendDecimalString
  <1>6. ASSUME NEW w \in Writers, NEW c \in Writers, AppendArray(w, c)
        PROVE  \E bytes \in Emitted : Emit(w, bytes)
    BY <1>1, <1>2, <1>3, <1>6, Zenon DEF AppendArray
  <1>7. ASSUME NEW w \in Writers, NEW c \in Writers, AppendSet(w, c)
        PROVE  \E bytes \in Emitted : Emit(w, bytes)
    <2> DEFINE elems == Split[data[c]]
    <2>1. PICK p \in Arrangements(elems) : Emit(w, EncFramed(SET, SetInner(elems, p)))
      BY <1>7, Zenon DEF AppendSet
    <2>2. elems \in Seq(Seq(Byte))
      BY <1>1
    <2> HIDE DEF elems
    <2>3. SetInner(elems, p) \in Seq(Byte)
      BY <2>1, <2>2, SetInnerBytes
    <2>4. QED
      BY <1>2, <1>3, <2>1, <2>3, Zenon
  <1>8. ASSUME NEW w \in Writers, NEW c \in Writers, AppendMap(w, c)
        PROVE  \E bytes \in Emitted : Emit(w, bytes)
    <2> DEFINE elems == Split[data[c]]
               n == Len(elems) \div 2
    <2>1. PICK p \in Arrangements(Keys(elems)) : Emit(w, EncFramed(MAP, MapInner(Entries(elems), p)))
      BY <1>8, Zenon DEF AppendMap
    <2>2. elems \in Seq(Seq(Byte)) /\ Len(elems) \in Nat
      BY <1>1, LenProperties
    <2> HIDE DEF elems
    <2>3. n \in Nat
      BY <2>2
    <2>4. ASSUME NEW i \in 1..n
          PROVE  2*i - 1 \in 1..Len(elems) /\ 2*i \in 1..Len(elems)
      BY <2>2
    <2>5. \A i \in 1..n : elems[2*i - 1] \in Seq(Byte) /\ elems[2*i] \in Seq(Byte)
      BY <2>2, <2>4, ElementOfSeq
    <2>6. Keys(elems) = [i \in 1..n |-> elems[2*i - 1]]
      BY DEF Keys
    <2>7. Entries(elems) = [i \in 1..n |-> [key |-> elems[2*i - 1], value |-> elems[2*i]]]
      BY DEF Entries
    <2> HIDE DEF n
    <2>8. p \in [1..n -> 1..n]
      <3>1. DOMAIN Keys(elems) = 1..n
        BY <2>6
      <3>2. QED
        BY <2>1, <3>1 DEF Arrangements
    <2>9. /\ DOMAIN Entries(elems) = 1..n
          /\ \A i \in 1..n : Entries(elems)[i].key \in Seq(Byte) /\ Entries(elems)[i].value \in Seq(Byte)
      BY <2>5, <2>7
    <2>10. MapInner(Entries(elems), p) \in Seq(Byte)
      BY <2>3, <2>8, <2>9, MapInnerBytes
    <2>11. QED
      BY <1>2, <1>3, <2>1, <2>10, Zenon
  <1>9. ASSUME NEW w \in Writers, NEW c \in Writers, Concat(w, c)
        PROVE  \E bytes \in Emitted : Emit(w, bytes)
    BY <1>3, <1>9, Zenon DEF Concat
  <1>10. QED
    BY <1>4, <1>5, <1>6, <1>7, <1>8, <1>9, Zenon DEF WriterNext

-----------------------------------------------------------------------------
(* The inductive invariant: each buffer is a string of bytes that its      *)
(* allocation holds.                                                       *)
Allocated == TypeOK /\ WithinAllocation

LEMMA EmitAllocated ==
    ASSUME Allocated, NEW w \in Writers, NEW bytes \in Seq(Byte), Emit(w, bytes)
    PROVE  Allocated'
  <1> DEFINE room == IF bytes = <<>> THEN cap[w] ELSE Grown(cap[w], Len(data[w]) + Len(bytes))
  <1>1. data \in [Writers -> Seq(Byte)] /\ cap \in [Writers -> Nat] /\ \A v \in Writers : Len(data[v]) <= cap[v]
    BY DEF Allocated, TypeOK, WithinAllocation
  <1>2. data' = [data EXCEPT ![w] = data[w] \o bytes] /\ cap' = [cap EXCEPT ![w] = room]
    BY Zenon DEF Emit
  <1>3. data[w] \in Seq(Byte) /\ Len(data[w]) \in Nat /\ cap[w] \in Nat /\ Len(bytes) \in Nat
    BY <1>1, LenProperties
  <1>4. data[w] \o bytes \in Seq(Byte) /\ Len(data[w] \o bytes) = Len(data[w]) + Len(bytes)
    BY <1>3, ConcatProperties
  <1>5. room \in Nat /\ Len(data[w] \o bytes) <= room
    <2>1. CASE bytes = <<>>
      <3>1. room = cap[w] /\ data[w] \o bytes = data[w]
        BY <1>3, <2>1, ConcatEmptySeq
      <3>2. QED
        BY <1>1, <1>3, <3>1
    <2>2. CASE bytes # <<>>
      <3> DEFINE n == Len(data[w]) + Len(bytes)
      <3>1. n \in Nat /\ room = Grown(cap[w], n)
        BY <1>3, <2>2
      <3> HIDE DEF n, room
      <3>2. Grown(cap[w], n) \in Nat /\ Grown(cap[w], n) >= n
        BY <1>3, <3>1, GrownSuffices
      <3>3. Len(data[w] \o bytes) = n
        BY <1>4 DEF n
      <3>4. QED
        BY <3>1, <3>2, <3>3
    <2>3. QED
      BY <2>1, <2>2
  <1> HIDE DEF room
  <1>6. data' \in [Writers -> Seq(Byte)] /\ cap' \in [Writers -> Nat]
    BY <1>1, <1>2, <1>4, <1>5
  <1>7. ASSUME NEW v \in Writers
        PROVE  Len(data'[v]) <= cap'[v]
    <2>1. CASE v = w
      BY <1>1, <1>2, <1>5, <2>1
    <2>2. CASE v # w
      <3>1. data'[v] = data[v] /\ cap'[v] = cap[v]
        BY <1>1, <1>2, <2>2
      <3>2. QED
        BY <1>1, <3>1
    <2>3. QED
      BY <2>1, <2>2
  <1>8. QED
    BY <1>6, <1>7 DEF Allocated, TypeOK, WithinAllocation

LEMMA ClearAllocated ==
    ASSUME Allocated, NEW w \in Writers, Reset(w) \/ Free(w)
    PROVE  Allocated'
  <1>1. data \in [Writers -> Seq(Byte)] /\ cap \in [Writers -> Nat] /\ \A v \in Writers : Len(data[v]) <= cap[v]
    BY DEF Allocated, TypeOK, WithinAllocation
  <1>2. data' = [data EXCEPT ![w] = <<>>] /\ (cap' = cap \/ cap' = [cap EXCEPT ![w] = 0])
    BY DEF Reset, Free
  <1>3. <<>> \in Seq(Byte) /\ Len(<<>>) = 0
    BY EmptySeq
  <1>4. data' \in [Writers -> Seq(Byte)] /\ cap' \in [Writers -> Nat]
    BY <1>1, <1>2, <1>3
  <1>5. ASSUME NEW v \in Writers
        PROVE  Len(data'[v]) <= cap'[v]
    <2>1. CASE v = w
      <3>1. Len(data'[v]) = 0 /\ cap'[v] \in Nat
        BY <1>1, <1>2, <1>3, <1>4, <2>1
      <3>2. QED
        BY <3>1
    <2>2. CASE v # w
      <3>1. data'[v] = data[v] /\ cap'[v] = cap[v]
        BY <1>1, <1>2, <2>2
      <3>2. QED
        BY <1>1, <3>1
    <2>3. QED
      BY <2>1, <2>2
  <1>6. QED
    BY <1>4, <1>5 DEF Allocated, TypeOK, WithinAllocation

LEMMA StepAllocated ==
    ASSUME Allocated, [WriterNext]_vars
    PROVE  Allocated'
  <1>1. TypeOK
    BY DEF Allocated
  <1>2. ASSUME NEW w \in Writers, NEW bytes \in Emitted, Emit(w, bytes)
        PROVE  Allocated'
    BY <1>1, <1>2, EmittedBytes, EmitAllocated
  <1>3. ASSUME UNCHANGED vars
        PROVE  Allocated'
    BY <1>3 DEF vars, Allocated, TypeOK, WithinAllocation
  <1>4. QED
    BY <1>1, <1>2, <1>3, StepEmits, ClearAllocated, Zenon

LEMMA AlwaysAllocated == Spec => []Allocated
  <1>1. Init => Allocated
    <2>1. <<>> \in Seq(Byte) /\ Len(<<>>) = 0
      BY EmptySeq
    <2>2. QED
      BY <2>1 DEF Init, Allocated, TypeOK, WithinAllocation
  <1>2. Allocated /\ [WriterNext]_vars => Allocated'
    BY StepAllocated, Zenon
  <1>3. QED
    BY <1>1, <1>2, PTL DEF Spec

(* Whatever values of whatever kinds are appended, and however containers  *)
(* are packed from other writers, a writer holds a string of bytes.        *)
THEOREM WritersTyped == Spec => []TypeOK
  <1>1. Allocated => TypeOK
    BY DEF Allocated
  <1>2. QED
    BY <1>1, AlwaysAllocated, PTL

(* sw_reserve is enough for every write: no mix of appends, resets and     *)
(* frees writes a byte past the allocation, whatever its first size.       *)
THEOREM WritesInAllocation == Spec => []WithinAllocation
  <1>1. Allocated => WithinAllocation
    BY DEF Allocated
  <1>2. QED
    BY <1>1, AlwaysAllocated, PTL

-----------------------------------------------------------------------------
(* The other inductive invariant: each buffer is a concatenation of bytes  *)
(* that decode and encode back to themselves.                              *)
HoldCanonical == TypeOK /\ \A w \in Writers : data[w] \in Canonicals

LEMMA EmittedCanonical ==
    ASSUME LeavesKept, HoldCanonical, NEW bytes \in Emitted
    PROVE  bytes \in Canonicals
  <1>1. ASSUME NEW e \in Leaves
        PROVE  EncElement(e) \in Canonicals
    <2>1. e \in Encodable /\ KeptElement(e)
      BY WriterAssumption DEF LeavesKept
    <2>2. QED
      BY <2>1, ElementStable, EncElementBytes, StableCanonical
  <1>2. ASSUME NEW text \in Texts
        PROVE  EncDecimalText(text) \in Canonicals
    <2> DEFINE s == Scanned(text)
               x == ScannedExp(s)
    <2>1. text \in Seq(Characters)
      BY WriterAssumption
    <2>2. Len(text) \in Nat
      BY <2>1, LenProperties, Zenon
    <2>3. s \in ScanState /\ EncDecimalText(text) \in Seq(Byte)
      BY <2>2, ScannedState, EncDecimalTextBytes
    <2>4. EncDecimalText(text) = <<>> \/ (InExpRange(x) /\ EncDecimalText(text) = EncDecimal(s.neg, s.digits, x))
      BY Zenon DEF EncDecimalText, TextRejected
    <2> HIDE DEF s
    <2>5. s.neg \in BOOLEAN /\ s.digits \in Seq(0..9) /\ s.exp \in Int /\ s.ev \in Nat
      BY <2>3 DEF ScanState
    <2>6. x \in Int
      BY <2>5 DEF ScannedExp
    <2> HIDE DEF x
    <2>7. EncDecimalText(text) = <<>> \/ Stable(EncDecimalText(text))
      BY <2>4, <2>5, <2>6, DecimalStable
    <2>8. QED
      BY <2>3, <2>7, StableCanonical
  <1>3. ASSUME NEW t \in Framed, NEW d \in Seq(Byte)
        PROVE  EncFramed(t, d) \in Canonicals
    <2>1. t \in Byte
      BY DEF Framed, STRING_CODE, BYTES, ARRAY, MAP, SET, Byte
    <2>2. EncFramed(t, d) \in Seq(Byte)
      BY <2>1, FramedBytes
    <2>3. QED
      BY <2>2, FramedStable, StableCanonical
  <1>4. ASSUME NEW c \in Writers
        PROVE  data[c] \in Canonicals
    BY DEF HoldCanonical
  <1>5. QED
    BY <1>1, <1>2, <1>3, <1>4 DEF Emitted

LEMMA StepCanonical ==
    ASSUME LeavesKept, HoldCanonical, [WriterNext]_vars
    PROVE  HoldCanonical'
  <1>1. /\ TypeOK /\ data \in [Writers -> Seq(Byte)] /\ cap \in [Writers -> Nat]
        /\ \A w \in Writers : data[w] \in Canonicals
    BY DEF HoldCanonical, TypeOK
  <1>2. ASSUME NEW w \in Writers, NEW bytes \in Emitted, Emit(w, bytes)
        PROVE  HoldCanonical'
    <2> DEFINE room == IF bytes = <<>> THEN cap[w] ELSE Grown(cap[w], Len(data[w]) + Len(bytes))
    <2>1. data' = [data EXCEPT ![w] = data[w] \o bytes] /\ cap' = [cap EXCEPT ![w] = room]
      BY <1>2, Zenon DEF Emit
    <2>2. bytes \in Canonicals /\ bytes \in Seq(Byte)
      BY <1>1, EmittedCanonical, EmittedBytes
    <2>3. data[w] \o bytes \in Canonicals /\ data[w] \o bytes \in Seq(Byte)
      BY <1>1, <2>2, CanonicalConcat, CanonicalAppend
    <2>4. room \in Nat
      <3> DEFINE n == Len(data[w]) + Len(bytes)
      <3>1. data[w] \in Seq(Byte) /\ cap[w] \in Nat
        BY <1>1
      <3>2. n \in Nat
        BY <2>2, <3>1, LenProperties
      <3> HIDE DEF n
      <3>3. Grown(cap[w], n) \in Nat
        BY <3>1, <3>2, GrownSuffices
      <3>4. QED
        BY <3>1, <3>3 DEF n
    <2> HIDE DEF room
    <2>5. data' \in [Writers -> Seq(Byte)] /\ cap' \in [Writers -> Nat]
      BY <1>1, <2>1, <2>3, <2>4
    <2>6. \A v \in Writers : data'[v] \in Canonicals
      BY <1>1, <2>1, <2>3
    <2>7. QED
      BY <2>5, <2>6 DEF HoldCanonical, TypeOK
  <1>3. ASSUME NEW w \in Writers, Reset(w) \/ Free(w)
        PROVE  HoldCanonical'
    <2>1. data' = [data EXCEPT ![w] = <<>>] /\ (cap' = cap \/ cap' = [cap EXCEPT ![w] = 0])
      BY <1>3 DEF Reset, Free
    <2>2. <<>> \in Canonicals /\ <<>> \in Seq(Byte)
      BY CanonicalAppend
    <2>3. data' \in [Writers -> Seq(Byte)] /\ cap' \in [Writers -> Nat]
      BY <1>1, <2>1, <2>2
    <2>4. \A v \in Writers : data'[v] \in Canonicals
      BY <1>1, <2>1, <2>2
    <2>5. QED
      BY <2>3, <2>4 DEF HoldCanonical, TypeOK
  <1>4. ASSUME UNCHANGED vars
        PROVE  HoldCanonical'
    BY <1>4 DEF vars, HoldCanonical, TypeOK
  <1>5. QED
    BY <1>1, <1>2, <1>3, <1>4, StepEmits, Zenon

LEMMA AlwaysCanonical == LeavesKept => (Spec => []HoldCanonical)
  <1> SUFFICES ASSUME LeavesKept PROVE Spec => []HoldCanonical
    OBVIOUS
  <1>1. Init => HoldCanonical
    <2>1. <<>> \in Seq(Byte) /\ <<>> \in Canonicals
      BY CanonicalAppend
    <2>2. QED
      BY <2>1 DEF Init, HoldCanonical, TypeOK
  <1>2. HoldCanonical /\ [WriterNext]_vars => HoldCanonical'
    BY StepCanonical, Zenon
  <1>3. QED
    BY <1>1, <1>2, PTL DEF Spec

(* Unless a negative integer of a magnitude that next() loses is appended, *)
(* a writer always holds a canonical encoding, whatever containers were    *)
(* packed from which writers: decoded and appended again, element by       *)
(* element, its bytes come out as they went in.                            *)
THEOREM WritersCanonical == LeavesKept => (Spec => []Canonical)
  <1>1. HoldCanonical => Canonical
    BY TranscodedBack DEF HoldCanonical, Canonical
  <1>2. QED
    BY <1>1, AlwaysCanonical, PTL

-----------------------------------------------------------------------------
(* The bytes of a container, as a concatenation of its elements' bytes.    *)

(* An injection of 1..n into itself reaches every index.                   *)
LEMMA Rearranged ==
    ASSUME NEW n \in Nat, NEW p \in [1..n -> 1..n], \A i, j \in 1..n : p[i] = p[j] => i = j
    PROVE  \A k \in 1..n : \E i \in 1..n : p[i] = k
  <1> DEFINE I == 1..n
             T == {p[i] : i \in I}
  <1>1. IsFiniteSet(I)
    BY FS_Interval
  <1>2. p \in Surjection(I, T)
    <2>1. p \in [I -> T]
      OBVIOUS
    <2>2. \A t \in T : \E i \in I : p[i] = t
      OBVIOUS
    <2>3. QED
      BY <2>1, <2>2 DEF Surjection
  <1>3. p \in Injection(I, T)
    <2>1. p \in [I -> T] /\ DOMAIN p = I
      OBVIOUS
    <2>2. QED
      BY <2>1 DEF Injection, IsInjective
  <1>4. T \subseteq I
    OBVIOUS
  <1> HIDE DEF I, T
  <1>5. Cardinality(T) = Cardinality(I)
    BY <1>1, <1>2, <1>3, FS_Surjection
  <1>6. T = I
    BY <1>1, <1>4, <1>5, FS_Subset
  <1>7. QED
    BY <1>6 DEF I, T

LEMMA ToSetAppend ==
    ASSUME NEW S, NEW s \in Seq(S), NEW e \in S
    PROVE  ToSet(Append(s, e)) = ToSet(s) \cup {e}
  <1> DEFINE t == Append(s, e)
             n == Len(s)
  <1>1. /\ n \in Nat /\ Len(t) = n + 1 /\ (\A i \in 1..n : t[i] = s[i]) /\ t[n + 1] = e
        /\ t \in Seq(S)
    BY AppendProperties, LenProperties
  <1>2. DOMAIN t = 1..(n + 1) /\ DOMAIN s = 1..n
    BY <1>1, LenProperties
  <1> HIDE DEF t, n
  <1>3. \A i : i \in 1..(n + 1) <=> i \in 1..n \/ i = n + 1
    BY <1>1
  <1>4. ToSet(t) = ToSet(s) \cup {e}
    BY <1>1, <1>2, <1>3 DEF ToSet
  <1>5. QED
    BY <1>4 DEF t

(* Members and keys in strictly increasing order; a sequence in such order *)
(* once its empty strings are left out, which add nothing to its bytes.    *)
Sorted(k, t) ==
    /\ k = "set" => \A i, j \in 1..Len(t) : i < j => Compare(t[i], t[j]) < 0
    /\ k = "map" => \E n \in Nat : /\ Len(t) = 2*n
                                   /\ \A i, j \in 1..n : i < j => Compare(t[2*i - 1], t[2*j - 1]) < 0

Strict(f) ==
    \A i, j \in 1..Len(f) : i < j /\ f[i] # <<>> /\ f[j] # <<>> => Compare(f[i], f[j]) < 0

LEMMA StrictAppend ==
    ASSUME NEW E, NEW f \in Seq(E), NEW e \in E, Strict(Append(f, e))
    PROVE  Strict(f) /\ (e # <<>> => \A s \in ToSet(f) \ {<<>>} : Compare(s, e) < 0)
  <1> DEFINE h == Append(f, e)
             n == Len(f)
  <1>1. n \in Nat /\ Len(h) = n + 1 /\ (\A i \in 1..n : h[i] = f[i]) /\ h[n + 1] = e
    BY AppendProperties, LenProperties
  <1>2. DOMAIN f = 1..n
    BY LenProperties
  <1>3. \A i, j \in 1..Len(h) : i < j /\ h[i] # <<>> /\ h[j] # <<>> => Compare(h[i], h[j]) < 0
    BY Zenon DEF Strict
  <1> HIDE DEF h, n
  <1>4. \A i \in 1..n : i \in 1..Len(h) /\ i < n + 1 /\ n + 1 \in 1..Len(h)
    BY <1>1
  <1>5. \A i, j \in 1..n : i < j /\ f[i] # <<>> /\ f[j] # <<>> => Compare(f[i], f[j]) < 0
    BY <1>1, <1>3, <1>4, Zenon
  <1>6. ASSUME e # <<>>, NEW s \in ToSet(f) \ {<<>>}
        PROVE  Compare(s, e) < 0
    <2>1. PICK i \in 1..n : s = f[i]
      BY <1>2, Zenon DEF ToSet
    <2>2. s # <<>>
      OBVIOUS
    <2>3. QED
      BY <1>1, <1>3, <1>4, <1>6, <2>1, <2>2, Zenon
  <1>7. QED
    BY <1>5, <1>6, Zenon DEF Strict, n

LEMMA FlattenSkips ==
    ASSUME NEW S \in SUBSET Seq(Byte), <<>> \notin S
    PROVE  \A f \in Seq(S \cup {<<>>}) :
              \E u \in Seq(S) : /\ FlattenSeq(u) = FlattenSeq(f) /\ ToSet(u) = ToSet(f) \ {<<>>}
                                /\ Strict(f) => Sorted("set", u)
  <1> DEFINE E == S \cup {<<>>}
             Same(u, f) == /\ FlattenSeq(u) = FlattenSeq(f) /\ ToSet(u) = ToSet(f) \ {<<>>}
                           /\ Strict(f) => Sorted("set", u)
             P == {f \in Seq(E) : \E u \in Seq(S) : Same(u, f)}
  <1>1. E \subseteq Seq(Byte) /\ S \subseteq Seq(Byte)
    BY EmptySeq
  <1>2. Seq(E) \subseteq Seq(Seq(Byte)) /\ Seq(S) \subseteq Seq(Seq(Byte))
    BY <1>1
  <1>3. \A V : \A s \in Seq(V), e \in V : ToSet(Append(s, e)) = ToSet(s) \cup {e}
    BY ToSetAppend
  <1>4. <<>> \in P
    <2>1. <<>> \in Seq(E) /\ <<>> \in Seq(S)
      BY EmptySeq
    <2>2. ToSet(<<>>) = ToSet(<<>>) \ {<<>>}
      BY DEF ToSet
    <2>3. Sorted("set", <<>>)
      BY DEF Sorted
    <2> HIDE DEF E
    <2>4. QED
      BY <2>1, <2>2, <2>3
  <1>5. ASSUME NEW f \in Seq(E), NEW e \in E, f \in P
        PROVE  Append(f, e) \in P
    <2>1. PICK u \in Seq(S) : Same(u, f)
      BY <1>5
    <2>2. Append(f, e) \in Seq(E) /\ ToSet(Append(f, e)) = ToSet(f) \cup {e}
      BY <1>3, AppendProperties
    <2>3. e \in Seq(Byte) /\ f \in Seq(Seq(Byte)) /\ u \in Seq(Seq(Byte))
      BY <1>1, <1>2
    <2>4. FlattenSeq(Append(f, e)) = FlattenSeq(f) \o e /\ FlattenSeq(f) \in Seq(Byte)
      BY <2>3, FlattenAppend, FlattenType
    <2>5. Strict(Append(f, e)) => Strict(f) /\ (e # <<>> => \A s \in ToSet(f) \ {<<>>} : Compare(s, e) < 0)
      <3> HIDE DEF E, P
      <3>1. QED
        BY StrictAppend
    <2> HIDE DEF P
    <2>6. CASE e = <<>>
      <3>1. FlattenSeq(Append(f, e)) = FlattenSeq(f)
        BY <2>4, <2>6, ConcatEmptySeq
      <3>2. ToSet(Append(f, e)) \ {<<>>} = ToSet(f) \ {<<>>}
        BY <2>2, <2>6
      <3>3. Same(u, Append(f, e))
        BY <2>1, <2>5, <3>1, <3>2
      <3> HIDE DEF Same, E
      <3>4. QED
        BY <2>2, <3>3 DEF P
    <2>7. CASE e # <<>>
      <3> DEFINE v == Append(u, e)
                 n == Len(u)
      <3>1. e \in S
        BY <2>7
      <3>2. v \in Seq(S) /\ ToSet(v) = ToSet(u) \cup {e}
        BY <1>3, <3>1, AppendProperties
      <3>3. FlattenSeq(v) = FlattenSeq(u) \o e
        BY <2>3, FlattenAppend
      <3>4. Strict(Append(f, e)) => Sorted("set", v)
        <4>1. SUFFICES ASSUME Strict(Append(f, e))
                       PROVE  Sorted("set", v)
          OBVIOUS
        <4>2. ToSet(u) = ToSet(f) \ {<<>>} /\ Sorted("set", u)
          BY <2>1, <2>5, <4>1, Zenon
        <4>3. \A s \in ToSet(u) : Compare(s, e) < 0
          BY <2>5, <2>7, <4>1, <4>2, Zenon
        <4>4. n \in Nat /\ Len(v) = n + 1 /\ (\A i \in 1..n : v[i] = u[i]) /\ v[n + 1] = e
          BY <3>1, AppendProperties, LenProperties
        <4>5. \A i \in 1..n : u[i] \in ToSet(u)
          BY LenProperties, Zenon DEF ToSet
        <4>6. \A i, j \in 1..n : i < j => Compare(u[i], u[j]) < 0
          BY <4>2 DEF Sorted
        <4> HIDE DEF v, n
        <4>7. ASSUME NEW i \in 1..Len(v), NEW j \in 1..Len(v), i < j
              PROVE  Compare(v[i], v[j]) < 0
          <5>1. i \in 1..n /\ (j \in 1..n \/ j = n + 1)
            BY <4>4, <4>7
          <5>2. QED
            BY <4>3, <4>4, <4>5, <4>6, <4>7, <5>1, Zenon
        <4>8. "set" # "map"
          OBVIOUS
        <4>9. QED
          BY <4>7, <4>8, Zenon DEF Sorted
      <3> HIDE DEF v
      <3>5. ToSet(v) = ToSet(Append(f, e)) \ {<<>>} /\ FlattenSeq(v) = FlattenSeq(Append(f, e))
        BY <2>1, <2>2, <2>4, <2>7, <3>2, <3>3
      <3>6. Same(v, Append(f, e))
        BY <3>4, <3>5, Zenon
      <3> HIDE DEF Same, E
      <3>7. QED
        BY <2>2, <3>2, <3>6 DEF P
    <2>8. QED
      BY <2>6, <2>7
  <1> HIDE DEF P, E
  <1>6. Seq(E) \subseteq P
    BY <1>4, <1>5, SeqSetInduction
  <1>7. QED
    BY <1>6 DEF P, E

(* A set's bytes are those of its members, each once.                      *)
LEMMA SetInnerMembers ==
    ASSUME NEW t \in Seq(StableStrings), NEW p \in Arrangements(t)
    PROVE  \E u \in Seq(StableStrings) : SetInner(t, p) = FlattenSeq(u) /\ ToSet(u) = ToSet(t)
  <1> DEFINE n == Len(t)
             f == [i \in DOMAIN t |-> IF i > 1 /\ t[p[i - 1]] = t[p[i]] THEN <<>> ELSE t[p[i]]]
  <1>1. n \in Nat /\ DOMAIN t = 1..n /\ \A i \in 1..n : t[i] \in StableStrings
    BY LenProperties, ElementOfSeq
  <1>2. p \in [1..n -> 1..n] /\ \A i, j \in 1..n : p[i] = p[j] => i = j
    BY <1>1 DEF Arrangements
  <1>3. \A i, j \in 1..n : i < j => Compare(t[p[i]], t[p[j]]) <= 0
    BY <1>1 DEF Arrangements
  <1>4. SetInner(t, p) = FlattenSeq(f)
    BY Zenon DEF SetInner
  <1>5. DOMAIN f = 1..n /\ \A i \in 1..n : f[i] = IF i > 1 /\ t[p[i - 1]] = t[p[i]] THEN <<>> ELSE t[p[i]]
    BY <1>1
  <1>6. f \in [1..n -> StableStrings \cup {<<>>}]
    BY <1>1, <1>2
  <1> HIDE DEF f
  <1>7. f \in Seq(StableStrings \cup {<<>>}) /\ Len(f) = n
    BY <1>1, <1>5, <1>6
  <1>8. StableStrings \in SUBSET Seq(Byte) /\ <<>> \notin StableStrings
    BY DEF StableStrings, Stable
  <1>9. PICK u \in Seq(StableStrings) : FlattenSeq(u) = FlattenSeq(f) /\ ToSet(u) = ToSet(f) \ {<<>>}
    BY <1>7, <1>8, FlattenSkips
  <1>10. ToSet(t) = {t[i] : i \in 1..n} /\ ToSet(f) = {f[i] : i \in 1..n}
    BY <1>1, <1>5 DEF ToSet
  <1>11. ToSet(f) \ {<<>>} \subseteq ToSet(t)
    BY <1>2, <1>5, <1>10
  <1>12. ASSUME NEW k \in 1..n
         PROVE  t[k] \in ToSet(f) \ {<<>>}
    <2> DEFINE same == {i \in 1..n : t[p[i]] = t[k]}
               i == FirstOf(same)
    <2>1. \E j \in 1..n : p[j] = k
      BY <1>1, <1>2, Rearranged
    <2>2. same # {} /\ same \in SUBSET Nat
      BY <1>1, <2>1
    <2>3. i \in same /\ \A j \in same : i <= j
      <3> HIDE DEF same
      <3>1. QED
        BY <2>2, FirstOfProperties
    <2>4. i \in 1..n /\ t[p[i]] = t[k]
      BY <2>3
    <2>5. i > 1 => t[p[i - 1]] # t[p[i]]
      <3>1. SUFFICES ASSUME i > 1 PROVE i - 1 \notin same
        <4>1. i > 1 => i - 1 \in 1..n
          BY <1>1, <2>4
        <4> HIDE DEF i
        <4>2. QED
          BY <2>4, <4>1
      <3> HIDE DEF same
      <3>2. i \in Nat
        BY <2>4
      <3> HIDE DEF i
      <3>3. QED
        BY <2>3, <3>1, <3>2
    <2> HIDE DEF i, same
    <2>6. f[i] = t[k]
      BY <1>5, <2>4, <2>5
    <2>7. t[k] # <<>>
      BY <1>1, <1>8
    <2>8. QED
      BY <1>10, <2>4, <2>6, <2>7
  <1>13. ToSet(u) = ToSet(t)
    BY ZenonT(40), <1>9, <1>10, <1>11, <1>12
  <1>14. QED
    BY <1>4, <1>9, <1>13

(* Two strings per index concatenate like twice as many strings.           *)
Coupled(g) == [i \in DOMAIN g |-> g[i][1] \o g[i][2]]

LEMMA FlattenCouples ==
    ASSUME NEW S \in SUBSET Seq(Byte)
    PROVE  \A g \in Seq(S \X S) :
              \E u \in Seq(S) : /\ FlattenSeq(u) = FlattenSeq(Coupled(g)) /\ Len(u) = 2 * Len(g)
                                /\ \A i \in 1..Len(g) : u[2*i - 1] = g[i][1] /\ u[2*i] = g[i][2]
  <1> DEFINE E == S \X S
             Same(u, g) == /\ FlattenSeq(u) = FlattenSeq(Coupled(g)) /\ Len(u) = 2 * Len(g)
                           /\ \A i \in 1..Len(g) : u[2*i - 1] = g[i][1] /\ u[2*i] = g[i][2]
             P == {g \in Seq(E) : \E u \in Seq(S) : Same(u, g)}
  <1>1. <<>> \in P
    <2>1. <<>> \in Seq(E) /\ <<>> \in Seq(S)
      BY EmptySeq
    <2>2. Coupled(<<>>) = <<>> /\ Len(<<>>) = 0
      BY DEF Coupled
    <2>3. Same(<<>>, <<>>)
      BY <2>2
    <2> HIDE DEF E, Same
    <2>4. QED
      BY <2>1, <2>3
  <1>2. ASSUME NEW g \in Seq(E)
        PROVE  Coupled(g) \in Seq(Seq(Byte)) /\ Len(Coupled(g)) = Len(g)
    <2>1. Len(g) \in Nat /\ DOMAIN g = 1..Len(g) /\ \A i \in 1..Len(g) : g[i] \in E
      BY LenProperties, ElementOfSeq
    <2>2. ASSUME NEW i \in 1..Len(g)
          PROVE  g[i][1] \o g[i][2] \in Seq(Byte)
      <3>1. g[i][1] \in Seq(Byte) /\ g[i][2] \in Seq(Byte)
        BY <2>1
      <3>2. QED
        BY <3>1, ConcatProperties
    <2> DEFINE c == Coupled(g)
               n == Len(g)
    <2>3. c \in [1..n -> Seq(Byte)] /\ n \in Nat
      BY <2>1, <2>2 DEF Coupled
    <2> HIDE DEF c, n, E
    <2>4. c \in Seq(Seq(Byte)) /\ Len(c) = n
      BY <2>3
    <2>5. QED
      BY <2>4 DEF c, n
  <1>3. ASSUME NEW g \in Seq(E), NEW e \in E, g \in P
        PROVE  Append(g, e) \in P
    <2> DEFINE n == Len(g)
               h == Append(g, e)
               x == e[1]
               y == e[2]
    <2>1. PICK u \in Seq(S) : Same(u, g)
      BY <1>3
    <2>2. /\ h \in Seq(E) /\ Len(h) = n + 1 /\ n \in Nat
          /\ (\A i \in 1..n : h[i] = g[i]) /\ h[n + 1] = e
      BY AppendProperties, LenProperties
    <2>3. x \in S /\ y \in S /\ x \in Seq(Byte) /\ y \in Seq(Byte)
      OBVIOUS
    <2>4. Coupled(h) = Append(Coupled(g), x \o y)
      <3> DEFINE a == Coupled(h)
                 b == Append(Coupled(g), x \o y)
      <3>1. a \in Seq(Seq(Byte)) /\ Len(a) = n + 1
        BY <1>2, <2>2
      <3>2. x \o y \in Seq(Byte)
        BY <2>3, ConcatProperties
      <3>3. /\ b \in Seq(Seq(Byte)) /\ Len(b) = n + 1
            /\ (\A i \in 1..n : b[i] = Coupled(g)[i]) /\ b[n + 1] = x \o y
        BY SMTT(30), <1>2, <3>2, AppendProperties
      <3>4. DOMAIN h = 1..(n + 1) /\ DOMAIN g = 1..n
        BY <2>2, LenProperties
      <3>5. /\ \A i \in 1..(n + 1) : a[i] = h[i][1] \o h[i][2]
            /\ \A i \in 1..n : Coupled(g)[i] = g[i][1] \o g[i][2]
        BY <3>4 DEF Coupled
      <3> HIDE DEF h, n, a, b
      <3>6. ASSUME NEW i \in 1..(n + 1)
            PROVE  a[i] = b[i]
        <4>1. CASE i \in 1..n
          BY ZenonT(40), <2>2, <3>3, <3>5, <4>1
        <4>2. CASE i \notin 1..n
          <5>1. i = n + 1
            BY <2>2, <4>2
          <5>2. QED
            BY <2>2, <3>3, <3>5, <5>1
        <4>3. QED
          BY <4>1, <4>2
      <3>7. a = b
        BY <3>1, <3>3, <3>6, SeqEqual
      <3>8. QED
        BY <3>7 DEF a, b
    <2> DEFINE v == Append(u, x)
               w == Append(v, y)
    <2>5. /\ v \in Seq(S) /\ Len(v) = Len(u) + 1 /\ Len(u) \in Nat
          /\ (\A i \in 1..Len(u) : v[i] = u[i]) /\ v[Len(u) + 1] = x
      BY <2>3, AppendProperties, LenProperties
    <2> HIDE DEF v
    <2>6. /\ w \in Seq(S) /\ Len(w) = Len(v) + 1
          /\ (\A i \in 1..Len(v) : w[i] = v[i]) /\ w[Len(v) + 1] = y
      BY <2>3, <2>5, AppendProperties
    <2> HIDE DEF x, y, h, n, w
    <2>7. Len(u) = 2 * n
      BY <2>1 DEF n
    <2>8. Len(w) = 2 * (n + 1)
      BY <2>2, <2>5, <2>6, <2>7
    <2>9. ASSUME NEW i \in 1..(n + 1)
          PROVE  w[2*i - 1] = h[i][1] /\ w[2*i] = h[i][2]
      <3>1. CASE i \in 1..n
        <4>1. 2*i - 1 \in 1..Len(u) /\ 2*i \in 1..Len(u) /\ 2*i - 1 \in 1..Len(v) /\ 2*i \in 1..Len(v)
          BY <2>2, <2>5, <2>7, <3>1
        <4>2. u[2*i - 1] = g[i][1] /\ u[2*i] = g[i][2]
          BY <2>1, <3>1 DEF n
        <4>3. QED
          BY <2>2, <2>5, <2>6, <3>1, <4>1, <4>2
      <3>2. CASE i \notin 1..n
        <4>1. i = n + 1 /\ 2*i - 1 = Len(u) + 1 /\ 2*i = Len(v) + 1 /\ 2*i - 1 \in 1..Len(v)
          BY <2>2, <2>5, <2>7, <3>2
        <4>2. w[2*i - 1] = x /\ w[2*i] = y
          BY <2>5, <2>6, <4>1
        <4>3. QED
          BY <2>2, <4>1, <4>2 DEF x, y
      <3>3. QED
        BY <3>1, <3>2
    <2>10. FlattenSeq(w) = FlattenSeq(Coupled(h))
      <3>1. u \in Seq(Seq(Byte)) /\ v \in Seq(Seq(Byte)) /\ Coupled(g) \in Seq(Seq(Byte))
        <4>1. Seq(S) \subseteq Seq(Seq(Byte))
          OBVIOUS
        <4>2. QED
          BY <1>2, <2>5, <4>1
      <3>2. FlattenSeq(v) = FlattenSeq(u) \o x /\ FlattenSeq(w) = FlattenSeq(v) \o y
        BY <2>3, <3>1, FlattenAppend DEF v, w
      <3>3. FlattenSeq(u) \in Seq(Byte) /\ x \o y \in Seq(Byte)
        BY <2>3, <3>1, FlattenType, ConcatProperties
      <3>4. FlattenSeq(Coupled(h)) = FlattenSeq(Coupled(g)) \o (x \o y)
        BY <2>4, <3>1, <3>3, FlattenAppend
      <3>5. FlattenSeq(Coupled(g)) = FlattenSeq(u)
        BY <2>1
      <3>6. (FlattenSeq(u) \o x) \o y = FlattenSeq(u) \o (x \o y)
        BY SMTT(30), <2>3, <3>3, ConcatAssociative
      <3>7. QED
        BY <3>2, <3>4, <3>5, <3>6
    <2>11. Same(w, h)
      BY <2>2, <2>8, <2>9, <2>10
    <2> HIDE DEF Same, E
    <2>12. QED
      BY <2>2, <2>6, <2>11 DEF h
  <1> HIDE DEF P, E
  <1>4. Seq(E) \subseteq P
    BY <1>1, <1>3, SeqSetInduction
  <1>5. QED
    BY <1>4 DEF P, E

-----------------------------------------------------------------------------
(* The values that a writer's bytes read back as.                          *)
Tuple == [w \in Writers |-> Unpack[data[w]]]

(* A call that emits canonical bytes appends the values they read as.      *)
LEMMA EmitStores ==
    ASSUME HoldCanonical, NEW w \in Writers, NEW bytes \in Canonicals, Emit(w, bytes)
    PROVE  Tuple' = [Tuple EXCEPT ![w] = Tuple[w] \o Unpack[bytes]]
  <1>1. data \in [Writers -> Seq(Byte)] /\ \A v \in Writers : data[v] \in Canonicals
    BY DEF HoldCanonical, TypeOK
  <1>2. data' = [data EXCEPT ![w] = data[w] \o bytes]
    BY Zenon DEF Emit
  <1>3. Unpack[data[w] \o bytes] = Unpack[data[w]] \o Unpack[bytes]
    BY <1>1, UnpackConcat
  <1>4. Tuple' = [v \in Writers |-> Unpack[data'[v]]]
    BY DEF Tuple
  <1>5. \A v \in Writers : data'[v] = IF v = w THEN data[w] \o bytes ELSE data[v]
    BY <1>1, <1>2
  <1>6. Tuple = [v \in Writers |-> Unpack[data[v]]]
    BY DEF Tuple
  <1>7. [Tuple EXCEPT ![w] = Tuple[w] \o Unpack[bytes]] =
           [v \in Writers |-> IF v = w THEN Unpack[data[w]] \o Unpack[bytes] ELSE Unpack[data[v]]]
    BY <1>6, Zenon
  <1>8. \A v \in Writers : Unpack[data'[v]] =
           IF v = w THEN Unpack[data[w]] \o Unpack[bytes] ELSE Unpack[data[v]]
    BY <1>3, <1>5
  <1>9. QED
    BY <1>4, <1>7, <1>8, Zenon

LEMMA ClearStores ==
    ASSUME HoldCanonical, NEW w \in Writers, data' = [data EXCEPT ![w] = <<>>]
    PROVE  Tuple' = [Tuple EXCEPT ![w] = <<>>]
  <1>1. data \in [Writers -> Seq(Byte)]
    BY DEF HoldCanonical, TypeOK
  <1>2. Tuple' = [v \in Writers |-> Unpack[data'[v]]]
    BY DEF Tuple
  <1>3. \A v \in Writers : data'[v] = IF v = w THEN <<>> ELSE data[v]
    BY <1>1
  <1>4. \A v \in Writers : Unpack[data'[v]] = IF v = w THEN <<>> ELSE Unpack[data[v]]
    BY <1>3, EmptyUnpacked
  <1>5. [Tuple EXCEPT ![w] = <<>>] = [v \in Writers |-> IF v = w THEN <<>> ELSE Unpack[data[v]]]
    BY Zenon DEF Tuple
  <1>6. QED
    BY <1>2, <1>4, <1>5, Zenon

(* A stable string adds its value at the end.                              *)
LEMMA EmitOne ==
    ASSUME HoldCanonical, NEW w \in Writers, NEW s \in StableStrings, Emit(w, s)
    PROVE  Tuple' = [Tuple EXCEPT ![w] = Append(Tuple[w], Value(s))]
  <1>1. s \in Canonicals /\ Unpack[s] = <<Value(s)>>
    BY UnpackOne
  <1>2. Tuple' = [Tuple EXCEPT ![w] = Tuple[w] \o <<Value(s)>>]
    BY <1>1, EmitStores
  <1>3. data[w] \in Canonicals
    BY DEF HoldCanonical
  <1>4. Tuple[w] \in Seq({Value(x) : x \in StableStrings})
    BY <1>3, CanonicalValues DEF Tuple
  <1>5. Value(s) \in {Value(x) : x \in StableStrings}
    OBVIOUS
  <1>6. Append(Tuple[w], Value(s)) = Tuple[w] \o <<Value(s)>>
    BY <1>4, <1>5, AppendIsConcat, Zenon
  <1>7. QED
    BY <1>2, <1>6

LEMMA EmitNothing ==
    ASSUME HoldCanonical, NEW w \in Writers, Emit(w, <<>>)
    PROVE  Tuple' = Tuple
  <1>1. <<>> \in Canonicals
    BY CanonicalAppend
  <1>2. Tuple' = [Tuple EXCEPT ![w] = Tuple[w] \o <<>>]
    BY <1>1, EmitStores, EmptyUnpacked
  <1>3. data[w] \in Canonicals
    BY DEF HoldCanonical
  <1>4. Tuple[w] \o <<>> = Tuple[w]
    <2>1. Tuple[w] \in Seq({Value(x) : x \in StableStrings})
      BY <1>3, CanonicalValues DEF Tuple
    <2>2. QED
      BY <2>1, ConcatEmptySeq
  <1>5. [Tuple EXCEPT ![w] = Tuple[w]] = Tuple
    BY DEF Tuple
  <1>6. QED
    BY <1>2, <1>4, <1>5

(* The value of a framed element.                                          *)
LEMMA FramedValue ==
    ASSUME NEW d \in Seq(Byte), NEW k \in DOMAIN FramedCode
    PROVE  /\ EncFramed(FramedCode[k], d) \in StableStrings
           /\ Value(EncFramed(FramedCode[k], d)) = ElementValue([kind |-> k, data |-> d])
  <1> DEFINE t == FramedCode[k]
  <1>1. t \in Framed /\ KindOf[t] = k
    BY FramedKinds
  <1> HIDE DEF t
  <1>2. Stable(EncFramed(t, d)) /\ Next(EncFramed(t, d), 0).el = [kind |-> KindOf[t], data |-> d]
    BY <1>1, FramedStable
  <1>3. EncFramed(t, d) \in Seq(Byte)
    BY <1>1, FramedBytes DEF Framed, STRING_CODE, BYTES, ARRAY, MAP, SET, Byte
  <1>4. EncFramed(t, d) \in StableStrings /\ Value(EncFramed(t, d)) = ElementValue([kind |-> k, data |-> d])
    BY <1>1, <1>2, <1>3 DEF StableStrings, Value
  <1>5. QED
    BY <1>4 DEF t

LEMMA ContainerValue ==
    ASSUME NEW d \in Seq(Byte)
    PROVE  /\ EncFramed(ARRAY, d) \in StableStrings /\ EncFramed(SET, d) \in StableStrings
           /\ EncFramed(MAP, d) \in StableStrings
           /\ Value(EncFramed(ARRAY, d)) = [kind |-> "array", items |-> Unpack[d]]
           /\ Value(EncFramed(SET, d)) = [kind |-> "set", members |-> ToSet(Unpack[d])]
           /\ Value(EncFramed(MAP, d)) = [kind |-> "map", entries |-> Pairs(Unpack[d])]
  <1>1. /\ {"array", "set", "map"} \subseteq DOMAIN FramedCode
        /\ FramedCode["array"] = ARRAY /\ FramedCode["set"] = SET /\ FramedCode["map"] = MAP
    BY DEF FramedCode
  <1>2. \A k \in DOMAIN FramedCode :
           /\ EncFramed(FramedCode[k], d) \in StableStrings
           /\ Value(EncFramed(FramedCode[k], d)) = ElementValue([kind |-> k, data |-> d])
    BY FramedValue
  <1>3. /\ ElementValue([kind |-> "array", data |-> d]) = [kind |-> "array", items |-> Unpack[d]]
        /\ ElementValue([kind |-> "set", data |-> d]) = [kind |-> "set", members |-> ToSet(Unpack[d])]
        /\ ElementValue([kind |-> "map", data |-> d]) = [kind |-> "map", entries |-> Pairs(Unpack[d])]
    BY ElementValueForms
  <1>4. QED
    BY <1>1, <1>2, <1>3, Zenon

(* The members of a set, and the entries of a map, survive the sort.       *)
LEMMA SetValue ==
    ASSUME NEW x \in Canonicals, NEW p \in Arrangements(Split[x])
    PROVE  /\ SetInner(Split[x], p) \in Canonicals
           /\ ToSet(Unpack[SetInner(Split[x], p)]) = ToSet(Unpack[x])
  <1> DEFINE t == Split[x]
  <1>1. t \in Seq(StableStrings) /\ Unpack[x] = Values(t)
    BY CanonicalValues
  <1>2. PICK u \in Seq(StableStrings) : SetInner(t, p) = FlattenSeq(u) /\ ToSet(u) = ToSet(t)
    BY <1>1, SetInnerMembers
  <1> HIDE DEF t
  <1>3. Unpack[SetInner(t, p)] = Values(u)
    BY <1>2, UnpackFlat
  <1>4. \A v \in Seq(StableStrings) : ToSet(Values(v)) = {Value(s) : s \in ToSet(v)}
    <2> SUFFICES ASSUME NEW v \in Seq(StableStrings)
                 PROVE  ToSet(Values(v)) = {Value(s) : s \in ToSet(v)}
      OBVIOUS
    <2>1. /\ Len(Values(v)) = Len(v) /\ \A i \in 1..Len(v) : Values(v)[i] = Value(v[i])
          /\ Values(v) \in Seq({Value(s) : s \in StableStrings})
      BY ValuesOf
    <2>2. DOMAIN v = 1..Len(v) /\ DOMAIN Values(v) = 1..Len(v)
      BY <2>1, LenProperties
    <2>3. ToSet(Values(v)) = {Value(v[i]) : i \in 1..Len(v)} /\ ToSet(v) = {v[i] : i \in 1..Len(v)}
      BY <2>1, <2>2 DEF ToSet
    <2>4. QED
      BY <2>3
  <1>5. ToSet(Unpack[SetInner(t, p)]) = ToSet(Unpack[x])
    BY <1>1, <1>2, <1>3, <1>4
  <1>6. SetInner(t, p) \in Canonicals
    BY <1>2 DEF Canonicals
  <1>7. QED
    BY <1>5, <1>6 DEF t

(* The entries of a map, in whatever order the sort left them, are the     *)
(* couples of elements the child writer held.                              *)
LEMMA MapValue ==
    ASSUME NEW x \in Canonicals, Len(Split[x]) % 2 = 0, NEW p \in Arrangements(Keys(Split[x]))
    PROVE  /\ MapInner(Entries(Split[x]), p) \in Canonicals
           /\ Pairs(Unpack[MapInner(Entries(Split[x]), p)]) = Pairs(Unpack[x])
  <1> DEFINE t == Split[x]
             n == Len(t) \div 2
             g == [i \in 1..n |-> <<t[2*p[i] - 1], t[2*p[i]]>>]
             inner == MapInner(Entries(t), p)
  <1>1. /\ t \in Seq(StableStrings) /\ Unpack[x] = Values(t) /\ Len(Values(t)) = Len(t)
        /\ \A i \in 1..Len(t) : Values(t)[i] = Value(t[i])
    BY CanonicalValues
  <1>2. StableStrings \in SUBSET Seq(Byte)
    BY DEF StableStrings
  <1>3. Len(t) \in Nat /\ n \in Nat /\ \A i \in 1..n : 2*i \in 1..Len(t) /\ 2*i - 1 \in 1..Len(t)
    <2>1. Len(t) \in Nat
      BY <1>1, LenProperties
    <2> DEFINE m == Len(t)
    <2>2. m \in Nat
      BY <2>1
    <2> HIDE DEF m
    <2>3. m \div 2 \in Nat /\ \A i \in 1..(m \div 2) : 2*i \in 1..m /\ 2*i - 1 \in 1..m
      BY <2>2
    <2>4. QED
      BY <2>2, <2>3 DEF m
  <1>4. DOMAIN Keys(t) = 1..n
    BY DEF Keys
  <1>5. p \in [1..n -> 1..n] /\ \A i, j \in 1..n : p[i] = p[j] => i = j
    BY <1>4 DEF Arrangements
  <1>6. \A k \in 1..n : \E i \in 1..n : p[i] = k
    BY <1>3, <1>5, Rearranged
  <1>7. \A i \in 1..Len(t) : t[i] \in StableStrings
    BY <1>1, ElementOfSeq
  <1>8. DOMAIN Entries(t) = 1..n /\ \A i \in 1..n : /\ Entries(t)[i].key = t[2*i - 1]
                                                    /\ Entries(t)[i].value = t[2*i]
    BY DEF Entries
  <1> HIDE DEF t, n
  <1>9. \A i \in 1..n : g[i] \in StableStrings \X StableStrings /\ g[i][1] = t[2*p[i] - 1] /\ g[i][2] = t[2*p[i]]
    BY <1>3, <1>5, <1>7
  <1>10. g \in Seq(StableStrings \X StableStrings) /\ Len(g) = n
    BY <1>3, <1>9, IsASeq
  <1>11. DOMAIN g = 1..n
    OBVIOUS
  <1> HIDE DEF g
  <1>12. inner = FlattenSeq(Coupled(g))
    <2>1. inner = FlattenSeq([i \in 1..n |-> Entries(t)[p[i]].key \o Entries(t)[p[i]].value])
      BY <1>8 DEF MapInner
    <2>2. \A i \in 1..n : Entries(t)[p[i]].key \o Entries(t)[p[i]].value = g[i][1] \o g[i][2]
      BY <1>5, <1>8, <1>9
    <2>3. [i \in 1..n |-> Entries(t)[p[i]].key \o Entries(t)[p[i]].value] = [i \in 1..n |-> g[i][1] \o g[i][2]]
      BY <2>2, Zenon
    <2>4. Coupled(g) = [i \in 1..n |-> g[i][1] \o g[i][2]]
      BY <1>11 DEF Coupled
    <2>5. QED
      BY <2>1, <2>3, <2>4
  <1> HIDE DEF inner
  <1>13. PICK u \in Seq(StableStrings) :
            /\ FlattenSeq(u) = FlattenSeq(Coupled(g)) /\ Len(u) = 2 * Len(g)
            /\ \A i \in 1..Len(g) : u[2*i - 1] = g[i][1] /\ u[2*i] = g[i][2]
    BY <1>2, <1>10, FlattenCouples
  <1>14. Unpack[inner] = Values(u)
    BY <1>12, <1>13, UnpackFlat
  <1>15. Len(Values(u)) = Len(u) /\ \A i \in 1..Len(u) : Values(u)[i] = Value(u[i])
    BY ValuesOf
  <1>16. Len(u) \div 2 = n /\ \A i \in 1..n : 2*i \in 1..Len(u) /\ 2*i - 1 \in 1..Len(u)
    BY <1>3, <1>10, <1>13
  <1>17. \A i \in 1..n : /\ Values(u)[2*i - 1] = Values(t)[2*p[i] - 1]
                         /\ Values(u)[2*i] = Values(t)[2*p[i]]
    <2> SUFFICES ASSUME NEW i \in 1..n
                 PROVE  /\ Values(u)[2*i - 1] = Values(t)[2*p[i] - 1]
                        /\ Values(u)[2*i] = Values(t)[2*p[i]]
      OBVIOUS
    <2>1. u[2*i - 1] = t[2*p[i] - 1] /\ u[2*i] = t[2*p[i]]
      BY <1>9, <1>10, <1>13
    <2>2. Values(u)[2*i - 1] = Value(u[2*i - 1]) /\ Values(u)[2*i] = Value(u[2*i])
      BY <1>15, <1>16
    <2>3. p[i] \in 1..n
      BY <1>5
    <2>4. 2*p[i] \in 1..Len(t) /\ 2*p[i] - 1 \in 1..Len(t)
      BY <1>3, <2>3
    <2>5. Values(t)[2*p[i] - 1] = Value(t[2*p[i] - 1]) /\ Values(t)[2*p[i]] = Value(t[2*p[i]])
      BY <1>1, <2>4
    <2>6. QED
      BY <2>1, <2>2, <2>5
  <1>18. Pairs(Values(u)) = {<<Values(u)[2*i - 1], Values(u)[2*i]>> : i \in 1..n}
    BY <1>15, <1>16 DEF Pairs
  <1>19. Pairs(Values(t)) = {<<Values(t)[2*i - 1], Values(t)[2*i]>> : i \in 1..n}
    BY <1>1 DEF Pairs, n
  <1>20. Pairs(Values(u)) = Pairs(Values(t))
    <2> DEFINE C(i) == <<Values(t)[2*i - 1], Values(t)[2*i]>>
    <2>1. \A i \in 1..n : <<Values(u)[2*i - 1], Values(u)[2*i]>> = C(p[i])
      BY <1>17
    <2>2. Pairs(Values(t)) = {C(i) : i \in 1..n}
      BY <1>19
    <2> HIDE DEF C
    <2>3. {<<Values(u)[2*i - 1], Values(u)[2*i]>> : i \in 1..n} = {C(p[i]) : i \in 1..n}
      BY <2>1
    <2>4. {C(p[i]) : i \in 1..n} = {C(i) : i \in 1..n}
      BY <1>5, <1>6
    <2>5. QED
      BY <1>18, <2>2, <2>3, <2>4
  <1>21. inner \in Canonicals
    BY <1>12, <1>13 DEF Canonicals
  <1>22. QED
    BY <1>1, <1>14, <1>20, <1>21 DEF inner, t

-----------------------------------------------------------------------------
(* Every call of a writer is a call of the abstract store.                 *)
LEMMA LeafStores ==
    ASSUME LeavesKept, HoldCanonical, NEW w \in Writers, NEW e \in Leaves, AppendLeaf(w, e)
    PROVE  Store!AppendLeaf(w, e)
  <1>1. e \in Encodable /\ KeptElement(e) /\ ScalarArgument(e)
    BY WriterAssumption DEF LeavesKept
  <1>2. e.kind # "text" /\ e.kind \notin {"array", "set", "map"} /\ (e.kind = "decimal" => InExpRange(e.exp))
    <2>1. e.kind # "text"
      BY <1>1 DEF Encodable, FramedCode
    <2>2. QED
      BY <1>1, <2>1 DEF ScalarArgument
  <1>3. Emit(w, EncElement(e)) /\ call' = [op |-> "leaf", w |-> w, arg |-> e,
                rc |-> IF e.kind = "decimal" /\ DecimalRejected(e.digits, e.exp) THEN -1 ELSE 0]
    BY DEF AppendLeaf
  <1>4. ArgumentRejected(e) <=> e.kind = "decimal" /\ DecimalRejected(e.digits, e.exp)
    BY <1>2 DEF ArgumentRejected
  <1>5. ArgumentValue(e) = ElementValue(e)
    BY <1>2, ElementValueForms DEF ArgumentValue
  <1>6. Tuple' = IF ArgumentRejected(e) THEN Tuple ELSE [Tuple EXCEPT ![w] = Append(Tuple[w], ArgumentValue(e))]
    <2>1. CASE ArgumentRejected(e)
      <3>1. EncElement(e) = <<>>
        BY <1>1, <1>2, <1>4, <2>1, EncodedValue
      <3>2. QED
        BY <1>3, <2>1, <3>1, EmitNothing
    <2>2. CASE ~ArgumentRejected(e)
      <3>1. EncElement(e) \in StableStrings /\ Value(EncElement(e)) = ArgumentValue(e)
        BY <1>1, <1>2, <1>4, <1>5, <2>2, EncodedValue
      <3>2. QED
        BY <1>3, <2>2, <3>1, EmitOne
    <2>3. QED
      BY <2>1, <2>2
  <1>7. call' = [op |-> "leaf", w |-> w, arg |-> e, rc |-> IF ArgumentRejected(e) THEN -1 ELSE 0]
    BY <1>3, <1>4
  <1>8. QED
    BY <1>6, <1>7, Zenon DEF Store!AppendLeaf, Tuple

LEMMA TextValue ==
    ASSUME NEW text \in Seq(Characters)
    PROVE  IF DenotesDecimal(text)
           THEN /\ EncDecimalText(text) \in StableStrings
                /\ Value(EncDecimalText(text)) = ScalarValue(LiteralDecimal(text))
           ELSE EncDecimalText(text) = <<>>
  <1> DEFINE neg == IsNegative(Mantissa(text))
             d == OnlyDigits(Mantissa(text))
             x == LiteralExp(text)
             s == EncDecimalText(text)
  <1>1. CASE ~DenotesDecimal(text)
    BY <1>1, TextRead
  <1>2. CASE DenotesDecimal(text)
    <2>1. /\ InExpRange(x) /\ x \in Int /\ d \in Seq(0..9) /\ ~DecimalRejected(d, x)
          /\ s = EncDecimal(neg, d, x)
      BY <1>2, TextRead
    <2>2. s \in Seq(Byte)
      <3>1. Len(text) \in Nat
        BY LenProperties
      <3>2. QED
        BY <3>1, EncDecimalTextBytes
    <2>3. neg \in BOOLEAN
      BY DEF IsNegative
    <2>4. LiteralDecimal(text) = [kind |-> "decimal", neg |-> neg, digits |-> d, exp |-> x]
      BY Zenon DEF LiteralDecimal
    <2> HIDE DEF neg, d, x, s
    <2>5. Stable(s) /\ Next(s, 0).el = DecimalRead(neg, d, x)
      BY <2>1, <2>3, DecimalStable
    <2> DEFINE e == [kind |-> "decimal", neg |-> neg, digits |-> d, exp |-> x]
    <2>6. e.kind = "decimal" /\ e.neg = neg /\ e.digits = d /\ e.exp = x
      OBVIOUS
    <2> HIDE DEF e
    <2>7. ElementValue(DecimalRead(neg, d, x)) = ElementValue(e)
      BY <2>1, <2>6, DecimalValue
    <2>8. ElementValue(e) = ScalarValue(e)
      BY <2>6, ElementValueForms
    <2>9. s \in StableStrings /\ Value(s) = ScalarValue(LiteralDecimal(text))
      BY <2>2, <2>4, <2>5, <2>7, <2>8 DEF StableStrings, Value, e
    <2>10. QED
      BY <1>2, <2>9 DEF s
  <1>3. QED
    BY <1>1, <1>2

LEMMA TextStores ==
    ASSUME HoldCanonical, NEW w \in Writers, NEW text \in Texts, AppendDecimalString(w, text)
    PROVE  Store!AppendLeaf(w, [kind |-> "text", chars |-> text])
  <1> DEFINE e == [kind |-> "text", chars |-> text]
  <1>1. text \in Seq(Characters)
    BY WriterAssumption
  <1>2. Emit(w, EncDecimalText(text)) /\ call' = [op |-> "leaf", w |-> w, arg |-> e,
                rc |-> IF TextRejected(text) THEN -1 ELSE 0]
    BY DEF AppendDecimalString
  <1>3. e.kind = "text" /\ e.chars = text
    OBVIOUS
  <1> HIDE DEF e
  <1>4. ArgumentRejected(e) <=> ~DenotesDecimal(text)
    BY <1>3 DEF ArgumentRejected
  <1>5. ArgumentValue(e) = ScalarValue(LiteralDecimal(text))
    BY <1>3 DEF ArgumentValue
  <1>6. TextRejected(text) <=> ArgumentRejected(e)
    BY <1>1, <1>4, TextRead
  <1>7. Tuple' = IF ArgumentRejected(e) THEN Tuple ELSE [Tuple EXCEPT ![w] = Append(Tuple[w], ArgumentValue(e))]
    <2>1. CASE ArgumentRejected(e)
      <3>1. EncDecimalText(text) = <<>>
        BY <1>1, <1>4, <2>1, TextValue
      <3>2. QED
        BY <1>2, <2>1, <3>1, EmitNothing
    <2>2. CASE ~ArgumentRejected(e)
      <3>1. EncDecimalText(text) \in StableStrings /\ Value(EncDecimalText(text)) = ArgumentValue(e)
        BY <1>1, <1>4, <1>5, <2>2, TextValue
      <3>2. QED
        BY <1>2, <2>2, <3>1, EmitOne
    <2>3. QED
      BY <2>1, <2>2
  <1>8. call' = [op |-> "leaf", w |-> w, arg |-> e, rc |-> IF ArgumentRejected(e) THEN -1 ELSE 0]
    BY <1>2, <1>6
  <1>9. Store!AppendLeaf(w, e)
    BY <1>7, <1>8, Zenon DEF Store!AppendLeaf, Tuple
  <1>10. QED
    BY <1>9 DEF e

LEMMA ArrayStores ==
    ASSUME HoldCanonical, NEW w \in Writers, NEW c \in Writers, AppendArray(w, c)
    PROVE  Store!AppendArray(w, c)
  <1>1. Emit(w, EncFramed(ARRAY, data[c])) /\ call' = [op |-> "array", w |-> w, arg |-> c]
    BY DEF AppendArray
  <1>2. data[c] \in Seq(Byte)
    BY DEF HoldCanonical, TypeOK
  <1>3. /\ EncFramed(ARRAY, data[c]) \in StableStrings
        /\ Value(EncFramed(ARRAY, data[c])) = [kind |-> "array", items |-> Tuple[c]]
    BY <1>2, ContainerValue DEF Tuple
  <1>4. Tuple' = [Tuple EXCEPT ![w] = Append(Tuple[w], [kind |-> "array", items |-> Tuple[c]])]
    BY <1>1, <1>3, EmitOne
  <1>5. QED
    BY <1>1, <1>4, Zenon DEF Store!AppendArray, Tuple

LEMMA SetStores ==
    ASSUME HoldCanonical, NEW w \in Writers, NEW c \in Writers, AppendSet(w, c)
    PROVE  Store!AppendSet(w, c)
  <1>1. call' = [op |-> "set", w |-> w, arg |-> c]
    BY DEF AppendSet
  <1>2. PICK p \in Arrangements(Split[data[c]]) : Emit(w, EncFramed(SET, SetInner(Split[data[c]], p)))
    BY DEF AppendSet
  <1> DEFINE inner == SetInner(Split[data[c]], p)
  <1>3. data[c] \in Canonicals
    BY DEF HoldCanonical
  <1>4. inner \in Canonicals /\ ToSet(Unpack[inner]) = ToSet(Tuple[c])
    BY <1>3, SetValue DEF Tuple
  <1> HIDE DEF inner
  <1>5. inner \in Seq(Byte)
    BY <1>4, CanonicalAppend
  <1>6. EncFramed(SET, inner) \in StableStrings /\ Value(EncFramed(SET, inner)) = [kind |-> "set", members |-> ToSet(Tuple[c])]
    BY <1>4, <1>5, ContainerValue
  <1>7. Emit(w, EncFramed(SET, inner))
    BY <1>2 DEF inner
  <1>8. Tuple' = [Tuple EXCEPT ![w] = Append(Tuple[w], [kind |-> "set", members |-> ToSet(Tuple[c])])]
    BY <1>6, <1>7, EmitOne
  <1>9. Store!ToSet(Tuple[c]) = ToSet(Tuple[c])
    BY DEF Store!ToSet, ToSet
  <1>10. QED
    BY <1>1, <1>8, <1>9, Zenon DEF Store!AppendSet, Tuple

LEMMA MapStores ==
    ASSUME HoldCanonical, NEW w \in Writers, NEW c \in Writers, AppendMap(w, c)
    PROVE  Store!AppendMap(w, c)
  <1> DEFINE t == Split[data[c]]
  <1>1. Len(t) % 2 = 0 /\ call' = [op |-> "map", w |-> w, arg |-> c]
    BY DEF AppendMap
  <1>2. PICK p \in Arrangements(Keys(t)) : Emit(w, EncFramed(MAP, MapInner(Entries(t), p)))
    BY DEF AppendMap
  <1> DEFINE inner == MapInner(Entries(t), p)
  <1>3. data[c] \in Canonicals
    BY DEF HoldCanonical
  <1>4. inner \in Canonicals /\ Pairs(Unpack[inner]) = Pairs(Tuple[c])
    BY <1>1, <1>3, MapValue DEF Tuple
  <1>5. Len(Tuple[c]) = Len(t)
    BY <1>3, CanonicalValues DEF Tuple
  <1>6. Emit(w, EncFramed(MAP, inner))
    BY <1>2
  <1> HIDE DEF inner, t
  <1>7. inner \in Seq(Byte)
    BY <1>4, CanonicalAppend
  <1>8. EncFramed(MAP, inner) \in StableStrings /\ Value(EncFramed(MAP, inner)) = [kind |-> "map", entries |-> Pairs(Tuple[c])]
    BY <1>4, <1>7, ContainerValue
  <1>9. Tuple' = [Tuple EXCEPT ![w] = Append(Tuple[w], [kind |-> "map", entries |-> Pairs(Tuple[c])])]
    BY <1>6, <1>8, EmitOne
  <1>10. Store!Pairs(Tuple[c]) = Pairs(Tuple[c])
    BY DEF Store!Pairs, Pairs
  <1>11. QED
    BY <1>1, <1>5, <1>9, <1>10, Zenon DEF Store!AppendMap, Tuple

LEMMA ConcatStores ==
    ASSUME HoldCanonical, NEW w \in Writers, NEW c \in Writers, Concat(w, c)
    PROVE  Store!Concat(w, c)
  <1>1. Emit(w, data[c]) /\ call' = [op |-> "concat", w |-> w, arg |-> c]
    BY DEF Concat
  <1>2. data[c] \in Canonicals
    BY DEF HoldCanonical
  <1>3. Tuple' = [Tuple EXCEPT ![w] = Tuple[w] \o Tuple[c]]
    BY <1>1, <1>2, EmitStores DEF Tuple
  <1>4. QED
    BY <1>1, <1>3, Zenon DEF Store!Concat, Tuple

LEMMA EmptiedStores ==
    ASSUME HoldCanonical, NEW w \in Writers, Reset(w) \/ Free(w)
    PROVE  Store!Clear(w)
  <1>1. data' = [data EXCEPT ![w] = <<>>] /\ call' = [op |-> "clear", w |-> w]
    BY DEF Reset, Free
  <1>2. Tuple' = [Tuple EXCEPT ![w] = <<>>]
    BY <1>1, ClearStores
  <1>3. QED
    BY <1>1, <1>2, Zenon DEF Store!Clear, Tuple

LEMMA StepStores ==
    ASSUME LeavesKept, HoldCanonical, [WriterNext]_vars
    PROVE  [Store!Next]_Store!vars
  <1> DEFINE L == Leaves \cup {[kind |-> "text", chars |-> t] : t \in Texts}
  <1>1. ASSUME NEW w \in Writers, NEW e \in Leaves, AppendLeaf(w, e)
        PROVE  Store!Next
    BY <1>1, LeafStores, Zenon DEF Store!Next
  <1>2. ASSUME NEW w \in Writers, NEW text \in Texts, AppendDecimalString(w, text)
        PROVE  Store!Next
    BY <1>2, TextStores, Zenon DEF Store!Next
  <1>3. ASSUME NEW w \in Writers, NEW c \in Writers \ {w},
               AppendArray(w, c) \/ AppendSet(w, c) \/ AppendMap(w, c) \/ Concat(w, c)
        PROVE  Store!Next
    BY <1>3, ArrayStores, SetStores, MapStores, ConcatStores, Zenon DEF Store!Next
  <1>4. ASSUME NEW w \in Writers, Reset(w) \/ Free(w)
        PROVE  Store!Next
    BY <1>4, EmptiedStores, Zenon DEF Store!Next
  <1>5. CASE UNCHANGED vars
    BY <1>5 DEF vars, Store!vars
  <1>6. CASE WriterNext
    <2>1. Store!Next
      BY <1>1, <1>2, <1>3, <1>4, <1>6, Zenon DEF WriterNext
    <2>2. QED
      BY <2>1
  <1>7. QED
    BY <1>5, <1>6

(* The writers implement the abstract store: in every run, the values that *)
(* the buffers decode to change as if the writers held those values, each  *)
(* append adding the value of its argument, a rejected one nothing, sets   *)
(* and maps as mathematical sets whatever order the sorts leave.           *)
THEOREM WritersImplementStore == LeavesKept => (Spec => ImplementsStore)
  <1> SUFFICES ASSUME LeavesKept
               PROVE  Spec => ImplementsStore
    OBVIOUS
  <1>1. Init => Store!Init
    BY EmptyUnpacked DEF Init, Store!Init
  <1>2. LeavesKept /\ HoldCanonical /\ [WriterNext]_vars => [Store!Next]_Store!vars
    BY StepStores
  <1>3. LeavesKept => (Spec => []HoldCanonical)
    BY AlwaysCanonical
  <1>4. QED
    BY <1>1, <1>2, <1>3, PTL DEF Spec, ImplementsStore, Store!Spec

-----------------------------------------------------------------------------
(* Concatenations of strings, compared by memcmp.                          *)
LEMMA BytesAssociative == \A k, l, m \in Seq(Byte) : (k \o l) \o m = k \o (l \o m)
  <1> TAKE k, l, m \in Seq(Byte)
  <1> QED
    BY ConcatAssociative

LEMMA HeadAssociative == \A h \in Byte, k, l \in Seq(Byte) : (<<h>> \o k) \o l = <<h>> \o (k \o l)
  <1> TAKE h \in Byte, k, l \in Seq(Byte)
  <1> DEFINE z == <<h>>
  <1>1. z \in Seq(Byte)
    OBVIOUS
  <1> HIDE DEF z
  <1>2. (z \o k) \o l = z \o (k \o l)
    BY <1>1, ConcatAssociative
  <1>3. QED
    BY <1>2 DEF z

(* Strings that are equal or part before either ends: what follows them    *)
(* counts only when they are equal.                                        *)
Separate(u, v) == u = v \/ \E i : PartAt(u, v, i)
Then(c, d) == IF c # 0 THEN c ELSE d

LEMMA PartConcat ==
    ASSUME NEW u \in Seq(Byte), NEW v \in Seq(Byte), NEW i, PartAt(u, v, i),
           NEW a \in Seq(Byte), NEW b \in Seq(Byte)
    PROVE  PartAt(u \o a, v \o b, i) /\ Compare(u \o a, v \o b) = Compare(u, v)
  <1>1. /\ i \in 1..Len(u) /\ i \in 1..Len(v) /\ u[i] # v[i] /\ \A j \in 1..(i - 1) : u[j] = v[j]
        /\ Len(u) \in Nat /\ Len(v) \in Nat /\ Len(a) \in Nat /\ Len(b) \in Nat
    BY LenProperties DEF PartAt
  <1>2. /\ u \o a \in Seq(Byte) /\ v \o b \in Seq(Byte)
        /\ Len(u \o a) = Len(u) + Len(a) /\ Len(v \o b) = Len(v) + Len(b)
        /\ \A j \in 1..Len(u) : (u \o a)[j] = u[j]
        /\ \A j \in 1..Len(v) : (v \o b)[j] = v[j]
    BY ConcatProperties
  <1>3. (u \o a)[i] = u[i] /\ (v \o b)[i] = v[i]
    BY <1>1, <1>2
  <1>4. \A j \in 1..(i - 1) : (u \o a)[j] = (v \o b)[j]
    BY <1>1, <1>2
  <1>5. PartAt(u \o a, v \o b, i)
    BY <1>1, <1>2, <1>3, <1>4 DEF PartAt
  <1>6. Compare(u \o a, v \o b) = SignOf((u \o a)[i] - (v \o b)[i])
    <2> DEFINE p == u \o a
               q == v \o b
    <2>1. p \in Seq(Byte) /\ q \in Seq(Byte) /\ PartAt(p, q, i)
      BY <1>2, <1>5
    <2> HIDE DEF p, q
    <2>2. Compare(p, q) = SignOf(p[i] - q[i])
      BY <2>1, CompareAt
    <2>3. QED
      BY <2>2 DEF p, q
  <1>7. Compare(u, v) = SignOf(u[i] - v[i])
    BY CompareAt
  <1>8. QED
    BY <1>3, <1>5, <1>6, <1>7

LEMMA AfterCommon ==
    ASSUME NEW x \in Seq(Byte), NEW u \in Seq(Byte), NEW v \in Seq(Byte)
    PROVE  /\ Compare(x \o u, x \o v) = Compare(u, v)
           /\ \A i : PartAt(u, v, i) => PartAt(x \o u, x \o v, Len(x) + i)
  <1>1. Len(u) \in Nat /\ Len(v) \in Nat /\ Len(x) \in Nat
    BY LenProperties
  <1>2. /\ x \o u \in Seq(Byte) /\ x \o v \in Seq(Byte)
        /\ Len(x \o u) = Len(x) + Len(u) /\ Len(x \o v) = Len(x) + Len(v)
        /\ \A j \in 1..Len(x) : (x \o u)[j] = x[j] /\ (x \o v)[j] = x[j]
        /\ \A j \in 1..Len(u) : (x \o u)[Len(x) + j] = u[j]
        /\ \A j \in 1..Len(v) : (x \o v)[Len(x) + j] = v[j]
    BY <1>1, ConcatProperties
  <1>3. ASSUME NEW i, PartAt(u, v, i)
        PROVE  PartAt(x \o u, x \o v, Len(x) + i) /\ Compare(x \o u, x \o v) = Compare(u, v)
    <2>1. i \in 1..Len(u) /\ i \in 1..Len(v) /\ u[i] # v[i] /\ \A j \in 1..(i - 1) : u[j] = v[j]
      BY <1>3 DEF PartAt
    <2>2. (x \o u)[Len(x) + i] = u[i] /\ (x \o v)[Len(x) + i] = v[i]
      BY <1>2, <2>1
    <2>3. ASSUME NEW j \in 1..(Len(x) + i - 1)
          PROVE  (x \o u)[j] = (x \o v)[j]
      <3>1. CASE j <= Len(x)
        BY <1>1, <1>2, <2>1, <3>1
      <3>2. CASE j > Len(x)
        <4>1. j - Len(x) \in 1..(i - 1) /\ j - Len(x) \in 1..Len(u) /\ j - Len(x) \in 1..Len(v)
          BY <1>1, <2>1, <3>2
        <4>2. j = Len(x) + (j - Len(x))
          BY <1>1, <2>1
        <4>3. QED
          BY <1>2, <2>1, <4>1, <4>2
      <3>3. QED
        BY <1>1, <2>1, <3>1, <3>2
    <2>4. Len(x) + i \in 1..Len(x \o u) /\ Len(x) + i \in 1..Len(x \o v)
      BY <1>1, <1>2, <2>1
    <2>5. PartAt(x \o u, x \o v, Len(x) + i)
      BY <2>1, <2>2, <2>3, <2>4 DEF PartAt
    <2>6. Compare(x \o u, x \o v) = SignOf((x \o u)[Len(x) + i] - (x \o v)[Len(x) + i])
      BY ZenonT(40), <1>2, <2>5, CompareAt
    <2>7. Compare(u, v) = SignOf(u[i] - v[i])
      BY <1>3, CompareAt
    <2>8. QED
      BY <2>2, <2>5, <2>6, <2>7
  <1>4. ASSUME NEW s \in Seq(Byte), NEW t \in Seq(Byte), StartOf(s, t)
        PROVE  StartOf(x \o s, x \o t)
    <2>1. /\ Len(x \o s) = Len(x) + Len(s) /\ Len(x \o t) = Len(x) + Len(t)
          /\ \A j \in 1..Len(x) : (x \o s)[j] = x[j] /\ (x \o t)[j] = x[j]
          /\ \A j \in 1..Len(s) : (x \o s)[Len(x) + j] = s[j]
          /\ \A j \in 1..Len(t) : (x \o t)[Len(x) + j] = t[j]
          /\ Len(s) \in Nat /\ Len(t) \in Nat
      BY <1>1, ConcatProperties, LenProperties
    <2>2. Len(s) <= Len(t) /\ \A j \in 1..Len(s) : s[j] = t[j]
      BY <1>4 DEF StartOf
    <2>3. ASSUME NEW j \in 1..(Len(x) + Len(s))
          PROVE  (x \o s)[j] = (x \o t)[j]
      <3> Len(s) \in Nat
        BY LenProperties
      <3>1. CASE j <= Len(x)
        BY <1>1, <2>1, <3>1
      <3>2. CASE j > Len(x)
        <4>1. j - Len(x) \in 1..Len(s) /\ j - Len(x) \in 1..Len(t)
          BY <1>1, <2>1, <2>2, <3>2
        <4>2. j = Len(x) + (j - Len(x))
          BY <1>1, <2>1
        <4>3. QED
          BY <2>1, <2>2, <4>1, <4>2
      <3>3. j <= Len(x) \/ j > Len(x)
        BY <1>1
      <3>4. QED
        BY <3>1, <3>2, <3>3, Zenon
    <2>4. QED
      BY <1>1, <2>1, <2>2, <2>3 DEF StartOf
  <1>5. CASE \E i : PartAt(u, v, i)
    BY <1>3, <1>5
  <1>6. CASE StartOf(u, v) \/ StartOf(v, u)
    <2>1. StartOf(x \o u, x \o v) \/ StartOf(x \o v, x \o u)
      BY <1>4, <1>6
    <2>2. Compare(u, v) = SignOf(Len(u) - Len(v))
      BY <1>6, ComparePrefix
    <2>3. Compare(x \o u, x \o v) = SignOf(Len(x \o u) - Len(x \o v))
      BY <1>2, <2>1, ComparePrefix
    <2>4. Len(x \o u) - Len(x \o v) = Len(u) - Len(v)
      BY <1>1, <1>2
    <2>5. QED
      BY <1>3, <2>2, <2>3, <2>4
  <1>7. QED
    BY <1>5, <1>6, PartOrPrefix

LEMMA ApartThen ==
    ASSUME NEW u \in Seq(Byte), NEW v \in Seq(Byte), Separate(u, v),
           NEW a \in Seq(Byte), NEW b \in Seq(Byte)
    PROVE  Compare(u \o a, v \o b) = Then(Compare(u, v), Compare(a, b))
  <1>1. CASE u = v
    <2>1. Compare(u, v) = 0
      BY <1>1, CompareOrder
    <2>2. QED
      BY <1>1, <2>1, AfterCommon DEF Then
  <1>2. CASE \E i : PartAt(u, v, i)
    <2>1. PICK i : PartAt(u, v, i)
      BY <1>2
    <2>2. Compare(u \o a, v \o b) = Compare(u, v) /\ Compare(u, v) # 0
      BY <2>1, PartConcat, CompareAt
    <2>3. QED
      BY <2>2 DEF Then
  <1>3. QED
    BY <1>1, <1>2 DEF Separate

LEMMA ApartConcat ==
    ASSUME NEW u \in Seq(Byte), NEW v \in Seq(Byte), Separate(u, v),
           NEW a \in Seq(Byte), NEW b \in Seq(Byte), u = v => Separate(a, b)
    PROVE  Separate(u \o a, v \o b)
  <1>1. CASE u = v
    <2>1. CASE a = b
      BY <1>1, <2>1 DEF Separate
    <2>2. CASE \E i : PartAt(a, b, i)
      BY <1>1, <2>2, AfterCommon DEF Separate
    <2>3. QED
      BY <1>1, <2>1, <2>2 DEF Separate
  <1>2. CASE \E i : PartAt(u, v, i)
    BY <1>2, PartConcat DEF Separate
  <1>3. QED
    BY <1>1, <1>2 DEF Separate

LEMMA SameLengthApart ==
    ASSUME NEW u \in Seq(Byte), NEW v \in Seq(Byte), Len(u) = Len(v)
    PROVE  Separate(u, v)
  BY PartOrPrefix, ComparePrefix DEF Separate

LEMMA ApartSigned ==
    ASSUME NEW u \in Seq(Byte), NEW v \in Seq(Byte), Separate(u, v), NEW negative \in BOOLEAN
    PROVE  /\ Separate(Signed(negative, u), Signed(negative, v))
           /\ Compare(Signed(negative, u), Signed(negative, v))
                 = IF negative THEN -Compare(u, v) ELSE Compare(u, v)
  <1>1. CASE ~negative
    BY <1>1 DEF Signed
  <1>2. CASE negative
    <2>1. Signed(negative, u) = Complement(u) /\ Signed(negative, v) = Complement(v)
      BY <1>2 DEF Signed
    <2>2. Complement(u) \in Seq(Byte) /\ Complement(v) \in Seq(Byte)
          /\ Len(Complement(u)) = Len(u) /\ Len(Complement(v)) = Len(v)
      BY ComplementBytes
    <2>3. CASE u = v
      <3>1. Compare(u, v) = 0 /\ Compare(Complement(u), Complement(v)) = 0
        BY <2>2, <2>3, CompareOrder
      <3>2. -Compare(u, v) = 0
        <4>1. \A c \in Int : c <= 0 /\ c >= 0 => -c = 0
          OBVIOUS
        <4>2. Compare(u, v) \in Int /\ Compare(u, v) <= 0 /\ Compare(u, v) >= 0
          BY <3>1
        <4>3. QED
          BY <4>1, <4>2
      <3>3. QED
        BY <1>2, <2>1, <2>3, <3>1, <3>2 DEF Separate
    <2>4. CASE \E i : PartAt(u, v, i)
      <3>1. PICK i : PartAt(u, v, i)
        BY <2>4
      <3>2. i \in 1..Len(u) /\ i \in 1..Len(v) /\ u[i] # v[i] /\ \A j \in 1..(i - 1) : u[j] = v[j]
        BY <3>1 DEF PartAt
      <3>3. Len(u) \in Nat /\ Len(v) \in Nat /\ DOMAIN u = 1..Len(u) /\ DOMAIN v = 1..Len(v)
        BY LenProperties
      <3>4. u[i] \in Int /\ v[i] \in Int
        BY <3>1, CompareAt, ByteInt
      <3>5. /\ \A j \in 1..Len(u) : Complement(u)[j] = 255 - u[j]
            /\ \A j \in 1..Len(v) : Complement(v)[j] = 255 - v[j]
        BY <3>3 DEF Complement
      <3>6. Complement(u)[i] # Complement(v)[i]
        BY <3>2, <3>4, <3>5
      <3>7. \A j \in 1..(i - 1) : Complement(u)[j] = Complement(v)[j]
        BY <3>2, <3>3, <3>5
      <3>8. PartAt(Complement(u), Complement(v), i)
        BY <2>2, <3>2, <3>6, <3>7 DEF PartAt
      <3>9. Compare(Complement(u), Complement(v)) = SignOf(Complement(u)[i] - Complement(v)[i])
        BY <2>2, <3>8, CompareAt
      <3>10. Complement(u)[i] - Complement(v)[i] = v[i] - u[i]
        BY <3>2, <3>4, <3>5
      <3>11. SignOf(v[i] - u[i]) = -SignOf(u[i] - v[i])
        BY <3>4, SignFacts, Zenon
      <3>12. Compare(u, v) = SignOf(u[i] - v[i])
        BY <3>1, CompareAt
      <3>13. QED
        BY <1>2, <2>1, <3>8, <3>9, <3>10, <3>11, <3>12 DEF Separate
    <2>5. QED
      BY <2>3, <2>4 DEF Separate
  <1>3. QED
    BY <1>1, <1>2

LEMMA HeadCompare ==
    ASSUME NEW x \in Byte, NEW y \in Byte, NEW u \in Seq(Byte), NEW v \in Seq(Byte)
    PROVE  /\ Compare(<<x>> \o u, <<y>> \o v) = Then(SignOf(x - y), Compare(u, v))
           /\ x # y => PartAt(<<x>> \o u, <<y>> \o v, 1)
  <1> DEFINE p == <<x>>
             q == <<y>>
  <1>1. /\ p \in Seq(Byte) /\ q \in Seq(Byte) /\ Len(p) = 1 /\ Len(q) = 1
        /\ p[1] = x /\ q[1] = y /\ (x = y => p = q)
    OBVIOUS
  <1> SUFFICES /\ Compare(p \o u, q \o v) = Then(SignOf(x - y), Compare(u, v))
               /\ x # y => PartAt(p \o u, q \o v, 1)
    OBVIOUS
  <1> HIDE DEF p, q
  <1>2. CASE x = y
    <2>1. Compare(p \o u, q \o v) = Compare(u, v)
      BY <1>1, <1>2, AfterCommon
    <2>2. SignOf(x - y) = 0
      BY <1>2, ByteInt DEF SignOf
    <2>3. QED
      BY <1>2, <2>1, <2>2 DEF Then
  <1>3. CASE x # y
    <2>1. PartAt(p, q, 1)
      BY <1>1, <1>3 DEF PartAt
    <2>2. Compare(p, q) = SignOf(x - y) /\ Compare(p, q) # 0
      BY <1>1, <2>1, CompareAt
    <2>3. PartAt(p \o u, q \o v, 1) /\ Compare(p \o u, q \o v) = Compare(p, q)
      BY <1>1, <2>1, PartConcat
    <2>4. QED
      BY <2>2, <2>3 DEF Then
  <1>4. QED
    BY <1>2, <1>3

-----------------------------------------------------------------------------
(* The escape keeps order: what follows a frame never begins with 0xFF, so *)
(* the end of the frame is below every byte the frame could go on with.    *)
Continues(a) == a \in Seq(Byte) /\ (a # <<>> => a[1] # 255)
EscapedByte(x) == IF x = 0 THEN <<0>> \o <<255>> ELSE <<x>>

LEMMA EscapedByteForm ==
    ASSUME NEW x \in Byte
    PROVE  /\ EscapedByte(x) \in Seq(Byte)
           /\ \E w \in Seq(Byte) : EscapedByte(x) = <<x>> \o w
           /\ EscapedByte(x) = IF x = 0 THEN <<0, 255>> ELSE <<x>>
  <1>1. <<0>> \in Seq(Byte) /\ <<255>> \in Seq(Byte) /\ <<x>> \in Seq(Byte) /\ <<>> \in Seq(Byte)
    BY DEF Byte
  <1>2. CASE x = 0
    <2>1. EscapedByte(x) = <<x>> \o <<255>>
      BY <1>2 DEF EscapedByte
    <2>2. <<x>> \o <<255>> \in Seq(Byte)
      BY <1>1, ConcatProperties
    <2>3. <<0>> \o <<255>> = <<0, 255>>
      <3>1. \A p, q \in Byte : <<p>> \o <<q>> = <<p, q>>
        BY PairConcat
      <3>2. 0 \in Byte /\ 255 \in Byte
        BY DEF Byte
      <3>3. QED
        BY <3>1, <3>2, Zenon
    <2>4. QED
      BY <1>1, <1>2, <2>1, <2>2, <2>3
  <1>3. CASE x # 0
    <2>1. EscapedByte(x) = <<x>>
      BY <1>3 DEF EscapedByte
    <2>2. <<x>> = <<x>> \o <<>>
      OBVIOUS
    <2>3. QED
      BY <1>1, <1>3, <2>1, <2>2
  <1>4. QED
    BY <1>2, <1>3

LEMMA EscapedFirst ==
    ASSUME NEW x \in Byte, NEW c \in Seq(Byte)
    PROVE  Escaped(<<x>> \o c) = EscapedByte(x) \o Escaped(c)
  <1> DEFINE E(y) == IF y = 0 THEN <<0, 255>> ELSE <<y>>
             d == <<x>> \o c
             f == [i \in DOMAIN c |-> E(c[i])]
             g == [i \in DOMAIN d |-> E(d[i])]
             h == <<E(x)>> \o f
  <1>1. /\ d \in Seq(Byte) /\ Len(d) = 1 + Len(c) /\ d[1] = x /\ Len(c) \in Nat
        /\ \A i \in 1..Len(c) : d[1 + i] = c[i]
        /\ DOMAIN d = 1..Len(d) /\ DOMAIN c = 1..Len(c)
    <2>1. <<x>> \in Seq(Byte) /\ Len(<<x>>) = 1 /\ <<x>>[1] = x
      OBVIOUS
    <2>2. QED
      BY <2>1, ConcatProperties, LenProperties
  <1>2. \A y \in Byte : E(y) \in Seq(Byte)
    BY EscapedByteForm
  <1> HIDE DEF E, d
  <1>3. f \in Seq(Seq(Byte)) /\ Len(f) = Len(c) /\ \A i \in 1..Len(c) : f[i] = E(c[i])
    <2>1. \A i \in 1..Len(c) : c[i] \in Byte
      BY ElementOfSeq
    <2>2. f = [i \in 1..Len(c) |-> E(c[i])]
      BY <1>1
    <2> HIDE DEF f
    <2>3. QED
      BY <1>1, <1>2, <2>1, <2>2
  <1>4. g \in Seq(Seq(Byte)) /\ Len(g) = 1 + Len(c) /\ \A i \in 1..(1 + Len(c)) : g[i] = E(d[i])
    <2>1. \A i \in 1..Len(d) : d[i] \in Byte
      BY <1>1, ElementOfSeq
    <2>2. g = [i \in 1..(1 + Len(c)) |-> E(d[i])]
      BY <1>1
    <2> HIDE DEF g
    <2>3. QED
      BY <1>1, <1>2, <2>1, <2>2
  <1>5. <<E(x)>> \in Seq(Seq(Byte)) /\ Len(<<E(x)>>) = 1 /\ <<E(x)>>[1] = E(x)
    BY <1>2
  <1> HIDE DEF f, g
  <1>6. /\ h \in Seq(Seq(Byte)) /\ Len(h) = 1 + Len(c) /\ h[1] = E(x)
        /\ \A i \in 1..Len(c) : h[1 + i] = f[i]
    BY <1>1, <1>3, <1>5, ConcatProperties
  <1> HIDE DEF h
  <1>7. \A i \in 1..(1 + Len(c)) : g[i] = h[i]
    <2> TAKE i \in 1..(1 + Len(c))
    <2>1. CASE i = 1
      BY <1>1, <1>4, <1>6, <2>1
    <2>2. CASE i # 1
      <3>1. i - 1 \in 1..Len(c) /\ i = 1 + (i - 1)
        BY <1>1, <2>2
      <3>2. d[i] = c[i - 1] /\ h[i] = f[i - 1] /\ f[i - 1] = E(c[i - 1]) /\ g[i] = E(d[i])
        BY <1>1, <1>3, <1>4, <1>6, <3>1
      <3>3. QED
        BY <3>2
    <2>3. QED
      BY <2>1, <2>2
  <1>8. g = h
    BY <1>4, <1>6, <1>7, SeqEqual
  <1>9. FlattenSeq(h) = FlattenSeq(<<E(x)>>) \o FlattenSeq(f)
    BY <1>3, <1>5, FlattenConcat DEF h
  <1>10. FlattenSeq(<<E(x)>>) = E(x)
    BY <1>2, FlattenOne
  <1>11. E(x) = EscapedByte(x)
    BY EscapedByteForm DEF E
  <1>12. Escaped(d) = FlattenSeq(g) /\ Escaped(c) = FlattenSeq(f)
    BY DEF Escaped, g, f, E
  <1>13. QED
    BY <1>8, <1>9, <1>10, <1>11, <1>12 DEF d

(* A frame that ends is below one that goes on.                            *)
LEMMA EndsFirst ==
    ASSUME NEW a, Continues(a), NEW d \in Seq(Byte), d # <<>>, NEW b \in Seq(Byte)
    PROVE  /\ Compare(<<0>> \o a, Escaped(d) \o (<<0>> \o b)) = -1
           /\ Compare(Escaped(d) \o (<<0>> \o b), <<0>> \o a) = 1
  <1> DEFINE y == Head(d)
             z == Escaped(Tail(d)) \o (<<0>> \o b)
             right == Escaped(d) \o (<<0>> \o b)
  <1>1. y \in Byte /\ Tail(d) \in Seq(Byte) /\ d = <<y>> \o Tail(d) /\ a \in Seq(Byte)
    BY HeadTail DEF Continues
  <1>2. /\ 0 \in Byte /\ 255 \in Byte /\ <<0>> \in Seq(Byte) /\ <<255>> \in Seq(Byte)
        /\ <<0>> \o b \in Seq(Byte) /\ <<0>> \o a \in Seq(Byte)
    BY <1>1, ConcatProperties DEF Byte
  <1>3. Escaped(Tail(d)) \in Seq(Byte) /\ Escaped(d) \in Seq(Byte) /\ EscapedByte(y) \in Seq(Byte)
    BY <1>1, EscapedProperties, EscapedByteForm
  <1>4. z \in Seq(Byte) /\ right \in Seq(Byte)
    BY <1>2, <1>3, ConcatProperties
  <1>5. Escaped(d) = EscapedByte(y) \o Escaped(Tail(d))
    BY <1>1, EscapedFirst
  <1> HIDE DEF y
  <1>6. right = EscapedByte(y) \o z
    BY SMTT(30), <1>2, <1>3, <1>5, ConcatAssociative
  <1> HIDE DEF z, right
  <1>7. Compare(<<0>> \o a, right) = -1
    <2>1. CASE y # 0
      <3>1. right = <<y>> \o z
        BY <1>6, <2>1 DEF EscapedByte
      <3>2. SignOf(0 - y) = -1
        BY <1>1, <2>1 DEF SignOf, Byte
      <3>3. Compare(<<0>> \o a, right) = Then(SignOf(0 - y), Compare(a, z))
        BY <1>1, <1>2, <1>4, <3>1, HeadCompare
      <3>4. QED
        BY <3>2, <3>3 DEF Then
    <2>2. CASE y = 0
      <3>1. right = <<0>> \o (<<255>> \o z)
        <4>1. right = (<<0>> \o <<255>>) \o z
          BY <1>6, <2>2 DEF EscapedByte
        <4>2. QED
          BY <1>2, <1>4, <4>1, ConcatAssociative
      <3>2. <<255>> \o z \in Seq(Byte)
        BY <1>2, <1>4, ConcatProperties
      <3>3. Compare(<<0>> \o a, right) = Compare(a, <<255>> \o z)
        <4> DEFINE p == <<0>>
                   q == <<255>> \o z
        <4>1. p \in Seq(Byte) /\ q \in Seq(Byte) /\ right = p \o q
          BY <1>2, <3>1, <3>2
        <4> HIDE DEF p, q
        <4>2. Compare(p \o a, p \o q) = Compare(a, q)
          BY <1>1, <4>1, AfterCommon, Zenon
        <4>3. QED
          BY <4>1, <4>2 DEF p, q
      <3>4. Compare(a, <<255>> \o z) = -1
        <4>1. CASE a = <<>>
          <5>1. Len(<<255>> \o z) = 1 + Len(z) /\ Len(z) \in Nat /\ Len(a) = 0
            <6>1. Len(<<255>>) = 1
              OBVIOUS
            <6>2. QED
              BY <1>2, <1>4, <4>1, <6>1, ConcatProperties, LenProperties
          <5>2. StartOf(a, <<255>> \o z)
            BY <5>1 DEF StartOf
          <5> DEFINE q == <<255>> \o z
          <5>3. q \in Seq(Byte) /\ StartOf(a, q) /\ Len(q) = 1 + Len(z) /\ Len(z) \in Nat /\ Len(a) = 0
            BY <3>2, <5>1, <5>2
          <5> HIDE DEF q
          <5>4. Compare(a, q) = SignOf(Len(a) - Len(q))
            BY <1>1, <5>3, ComparePrefix
          <5>5. Compare(a, q) = -1
            BY <5>3, <5>4 DEF SignOf
          <5>6. QED
            BY <5>5 DEF q
        <4>2. CASE a # <<>>
          <5> DEFINE x == Head(a)
                     t == Tail(a)
          <5>1. x \in Byte /\ t \in Seq(Byte) /\ a = <<x>> \o t /\ x # 255
            BY <1>1, <4>2, HeadTail DEF Continues
          <5> HIDE DEF x, t
          <5>2. Compare(a, <<255>> \o z) = Then(SignOf(x - 255), Compare(t, z))
            BY <1>2, <1>4, <5>1, HeadCompare
          <5>3. SignOf(x - 255) = -1
            BY <5>1 DEF SignOf, Byte
          <5>4. QED
            BY <5>2, <5>3 DEF Then
        <4>3. QED
          BY <4>1, <4>2
      <3>5. QED
        BY <3>3, <3>4
    <2>3. QED
      BY <2>1, <2>2
  <1>8. Compare(right, <<0>> \o a) = 1
    BY <1>2, <1>4, <1>7, CompareBack
  <1>9. QED
    BY <1>7, <1>8 DEF right

(* Escaped and terminated, two strings of bytes compare as they did before *)
(* (README.md, "escaped and 00-terminated"), and when they are equal what  *)
(* follows them decides: no content, zero bytes included, can be mistaken  *)
(* for its end.                                                            *)
THEOREM EscapeOrder ==
    ASSUME NEW c \in Seq(Byte), NEW d \in Seq(Byte), NEW a \in Seq(Byte), NEW b \in Seq(Byte), Continues(a), Continues(b)
    PROVE  Compare(Escaped(c) \o (<<0>> \o a), Escaped(d) \o (<<0>> \o b))
              = Then(Compare(c, d), Compare(a, b))
  <1> DEFINE z == <<0>>
             F(u, x) == Escaped(u) \o (z \o x)
             Ordered(u, v) == Compare(F(u, a), F(v, b)) = Then(Compare(u, v), Compare(a, b))
             S == {n \in Nat : \A u, v \in Seq(Byte) : Len(u) = n => Ordered(u, v)}
  <1>1. z \in Seq(Byte) /\ a \in Seq(Byte) /\ b \in Seq(Byte) /\ <<>> \in Seq(Byte)
    BY DEF Byte, Continues
  <1>2. z \o a \in Seq(Byte) /\ z \o b \in Seq(Byte)
    BY <1>1, ConcatProperties
  <1>3. \A u \in Seq(Byte) : F(u, a) \in Seq(Byte) /\ F(u, b) \in Seq(Byte)
    BY <1>2, EscapedProperties, ConcatProperties
  <1>4. F(<<>>, a) = z \o a /\ F(<<>>, b) = z \o b
    BY <1>2, EscapedEmpty
  <1>5. \A x \in Byte, u \in Seq(Byte) :
          /\ F(<<x>> \o u, a) = EscapedByte(x) \o F(u, a)
          /\ F(<<x>> \o u, b) = EscapedByte(x) \o F(u, b)
    <2> TAKE x \in Byte, u \in Seq(Byte)
    <2>1. Escaped(<<x>> \o u) = EscapedByte(x) \o Escaped(u)
      BY EscapedFirst
    <2>2. EscapedByte(x) \in Seq(Byte) /\ Escaped(u) \in Seq(Byte)
      BY EscapedByteForm, EscapedProperties
    <2>3. QED
      <3>1. \A r \in Seq(Byte) : Escaped(<<x>> \o u) \o r = EscapedByte(x) \o (Escaped(u) \o r)
        <4>1. \A k, l \in Seq(Byte) : \A r \in Seq(Byte) : (k \o l) \o r = k \o (l \o r)
          BY BytesAssociative
        <4>2. \A r \in Seq(Byte) : (EscapedByte(x) \o Escaped(u)) \o r = EscapedByte(x) \o (Escaped(u) \o r)
          BY <2>2, <4>1, Zenon
        <4>3. QED
          BY <2>1, <4>2
      <3>2. QED
        BY <1>2, <3>1, Zenon
  <1>6. \A u \in Seq(Byte) : u # <<>> =>
          Compare(F(<<>>, a), F(u, b)) = -1 /\ Compare(F(u, a), F(<<>>, b)) = 1
    <2> TAKE u \in Seq(Byte)
    <2> HAVE u # <<>>
    <2>1. Compare(z \o a, F(u, b)) = -1
      BY <1>1, EndsFirst
    <2>2. Compare(F(u, a), z \o b) = 1
      BY <1>1, EndsFirst
    <2>3. QED
      BY <1>4, <2>1, <2>2
  <1>7. \A u \in Seq(Byte) : u # <<>> => Compare(<<>>, u) = -1 /\ Compare(u, <<>>) = 1
    <2> TAKE u \in Seq(Byte)
    <2> HAVE u # <<>>
    <2>1. StartOf(<<>>, u) /\ Len(<<>>) = 0 /\ Len(u) \in Nat /\ Len(u) # 0
      BY LenProperties DEF StartOf
    <2> DEFINE e == <<>>
    <2>2. e \in Seq(Byte) /\ StartOf(e, u) /\ Len(e) = 0
      BY <2>1
    <2> HIDE DEF e
    <2>3. Compare(e, u) = SignOf(Len(e) - Len(u)) /\ Compare(u, e) = SignOf(Len(u) - Len(e))
      BY <2>2, ComparePrefix
    <2>4. Compare(e, u) = -1 /\ Compare(u, e) = 1
      BY <2>1, <2>2, <2>3 DEF SignOf
    <2>5. QED
      BY <2>4 DEF e
  <1>8. Ordered(<<>>, <<>>)
    <2>1. Compare(z \o a, z \o b) = Compare(a, b)
      BY <1>1, AfterCommon, ZenonT(40)
    <2>2. Compare(<<>>, <<>>) = 0
      BY <1>1, CompareOrder
    <2>3. QED
      BY <1>4, <2>1, <2>2 DEF Then
  <1>9. \A u \in Seq(Byte) : u # <<>> => Ordered(<<>>, u) /\ Ordered(u, <<>>)
    BY <1>6, <1>7 DEF Then
  <1>10. ASSUME NEW x \in Byte, NEW y \in Byte, NEW u \in Seq(Byte), NEW v \in Seq(Byte), Ordered(u, v)
         PROVE  Ordered(<<x>> \o u, <<y>> \o v)
    <2>1. Compare(<<x>> \o u, <<y>> \o v) = Then(SignOf(x - y), Compare(u, v))
      BY HeadCompare
    <2>2. CASE x = y
      <3>1. Compare(EscapedByte(x) \o F(u, a), EscapedByte(x) \o F(v, b)) = Compare(F(u, a), F(v, b))
        <4>1. EscapedByte(x) \in Seq(Byte) /\ F(u, a) \in Seq(Byte) /\ F(v, b) \in Seq(Byte)
          BY <1>3, EscapedByteForm
        <4> DEFINE w == EscapedByte(x)
                   p == F(u, a)
                   q == F(v, b)
        <4>4. w \in Seq(Byte) /\ p \in Seq(Byte) /\ q \in Seq(Byte)
          BY <4>1
        <4> HIDE DEF w, p, q
        <4>2. Compare(w \o p, w \o q) = Compare(p, q)
          BY <4>4, AfterCommon
        <4>3. QED
          BY <4>2 DEF w, p, q
      <3>2. Compare(<<x>> \o u, <<y>> \o v) = Compare(u, v)
        <4>1. SignOf(x - y) = 0
          BY <2>2, ByteInt DEF SignOf
        <4>2. QED
          BY <2>1, <4>1 DEF Then
      <3>3. QED
        BY <1>5, <1>10, <2>2, <3>1, <3>2
    <2>3. CASE x # y
      <3>1. PICK p \in Seq(Byte) : EscapedByte(x) = <<x>> \o p
        BY EscapedByteForm
      <3>2. PICK q \in Seq(Byte) : EscapedByte(y) = <<y>> \o q
        BY EscapedByteForm
      <3>3. <<x>> \in Seq(Byte) /\ <<y>> \in Seq(Byte) /\ F(u, a) \in Seq(Byte) /\ F(v, b) \in Seq(Byte)
            /\ p \o F(u, a) \in Seq(Byte) /\ q \o F(v, b) \in Seq(Byte)
        BY <1>3, ConcatProperties
      <3>4. /\ EscapedByte(x) \o F(u, a) = <<x>> \o (p \o F(u, a))
            /\ EscapedByte(y) \o F(v, b) = <<y>> \o (q \o F(v, b))
        <4>1. \A k \in Seq(Byte) : (<<x>> \o p) \o k = <<x>> \o (p \o k)
          BY HeadAssociative, Zenon
        <4>2. \A k \in Seq(Byte) : (<<y>> \o q) \o k = <<y>> \o (q \o k)
          BY HeadAssociative, Zenon
        <4>3. QED
          BY <3>1, <3>2, <3>3, <4>1, <4>2, Zenon
      <3>5. Compare(<<x>> \o (p \o F(u, a)), <<y>> \o (q \o F(v, b)))
              = Then(SignOf(x - y), Compare(p \o F(u, a), q \o F(v, b)))
        <4>1. \A k, m \in Seq(Byte) :
                 Compare(<<x>> \o k, <<y>> \o m) = Then(SignOf(x - y), Compare(k, m))
          BY HeadCompare
        <4>2. QED
          BY <3>3, <4>1, Zenon
      <3>6. SignOf(x - y) # 0
        BY <2>3, ByteInt, SignFacts
      <3>7. Compare(F(<<x>> \o u, a), F(<<y>> \o v, b)) = SignOf(x - y)
        BY <1>5, <3>4, <3>5, <3>6 DEF Then
      <3>8. QED
        BY <2>1, <3>6, <3>7 DEF Then
    <2>4. QED
      BY <2>2, <2>3
  <1> HIDE DEF F
  <1>11. 0 \in S
    <2>1. \A u \in Seq(Byte) : Len(u) = 0 => u = <<>>
      BY EmptySeq
    <2>2. QED
      BY <1>8, <1>9, <2>1
  <1>12. ASSUME NEW n \in Nat, n \in S
         PROVE  n + 1 \in S
    <2> SUFFICES ASSUME NEW u \in Seq(Byte), NEW v \in Seq(Byte), Len(u) = n + 1
                 PROVE  Ordered(u, v)
      OBVIOUS
    <2>1. u # <<>>
      BY <1>12
    <2>2. Head(u) \in Byte /\ Tail(u) \in Seq(Byte) /\ u = <<Head(u)>> \o Tail(u) /\ Len(Tail(u)) = n
      BY <2>1, <1>12, HeadTail
    <2>3. CASE v = <<>>
      BY <1>9, <2>1, <2>3
    <2>4. CASE v # <<>>
      <3>1. Head(v) \in Byte /\ Tail(v) \in Seq(Byte) /\ v = <<Head(v)>> \o Tail(v)
        BY <2>4, HeadTail
      <3>2. Ordered(Tail(u), Tail(v))
        BY <1>12, <2>2, <3>1
      <3> DEFINE x == Head(u)
                 y == Head(v)
                 s == Tail(u)
                 t == Tail(v)
      <3>3. x \in Byte /\ y \in Byte /\ s \in Seq(Byte) /\ t \in Seq(Byte) /\ Ordered(s, t)
            /\ u = <<x>> \o s /\ v = <<y>> \o t
        BY <2>2, <3>1, <3>2
      <3> HIDE DEF x, y, s, t, Ordered
      <3>4. Ordered(<<x>> \o s, <<y>> \o t)
        BY <1>10, <3>3
      <3>5. QED
        BY <3>3, <3>4
    <2>5. QED
      BY <2>3, <2>4
  <1> HIDE DEF S
  <1>13. \A n \in Nat : n \in S
    BY <1>11, <1>12, NatSetInduction
  <1>14. Len(c) \in Nat
    BY LenProperties
  <1>15. Ordered(c, d)
    BY <1>13, <1>14 DEF S
  <1>16. QED
    BY <1>15 DEF F

-----------------------------------------------------------------------------
(* Magnitudes are the numbers they are the bytes of.                       *)
LEMMA LongerMagnitude ==
    \A k, l \in Nat : (k < l => SignOf(k - l) = -1 /\ SignOf(l - k) = 1) /\ (k = l => SignOf(k - l) = 0)
                   /\ SignOf((k + 1) - (l + 1)) = SignOf(k - l)
  BY DEF SignOf

(* Magnitudes compare by all but the last byte, then by the last.          *)
LEMMA MagnitudeAppend ==
    ASSUME NEW s \in Seq(Byte), NEW t \in Seq(Byte), NEW x \in Byte, NEW y \in Byte
    PROVE  MagnitudeCompare(Append(s, x), Append(t, y)) = Then(MagnitudeCompare(s, t), SignOf(x - y))
  <1> DEFINE p == Append(s, x)
             q == Append(t, y)
  <1>1. /\ p \in Seq(Byte) /\ q \in Seq(Byte) /\ Len(p) = Len(s) + 1 /\ Len(q) = Len(t) + 1
        /\ Len(s) \in Nat /\ Len(t) \in Nat
    BY AppendProperties, LenProperties
  <1>2. CASE Len(s) # Len(t)
    <2>1. MagnitudeCompare(p, q) = SignOf(Len(p) - Len(q))
      BY <1>1, <1>2 DEF MagnitudeCompare
    <2>2. MagnitudeCompare(s, t) = SignOf(Len(s) - Len(t))
      BY <1>2 DEF MagnitudeCompare
    <2>3. SignOf(Len(p) - Len(q)) = SignOf(Len(s) - Len(t))
      BY <1>1, LongerMagnitude
    <2>4. SignOf(Len(s) - Len(t)) # 0
      BY <1>1, <1>2, SignFacts
    <2>5. QED
      BY <2>1, <2>2, <2>3, <2>4 DEF Then
  <1>3. CASE Len(s) = Len(t)
    <2> DEFINE a == <<x>>
               b == <<y>>
               e == <<>>
    <2>0. a = a \o e /\ b = b \o e
      OBVIOUS
    <2>1. a \in Seq(Byte) /\ b \in Seq(Byte) /\ e \in Seq(Byte) /\ p = s \o a /\ q = t \o b
      <3>1. p = s \o a /\ q = t \o b
        BY AppendIsConcat, Zenon
      <3>2. QED
        BY <3>1
    <2>2. Compare(e, e) = 0
      BY <2>1, CompareOrder
    <2>3. Compare(a \o e, b \o e) = Then(SignOf(x - y), Compare(e, e))
      BY <2>1, HeadCompare
    <2> HIDE DEF a, b, e, p, q
    <2>4. Compare(a, b) = SignOf(x - y)
      <3>1. Compare(a \o e, b \o e) = Compare(a, b)
        BY <2>0
      <3>2. QED
        BY <2>2, <2>3, <3>1 DEF Then
    <2>5. Separate(s, t)
      BY <1>3, SameLengthApart
    <2>6. Compare(s \o a, t \o b) = Then(Compare(s, t), Compare(a, b))
      BY <2>1, <2>5, ApartThen
    <2>7. MagnitudeCompare(p, q) = Compare(p, q) /\ MagnitudeCompare(s, t) = Compare(s, t)
      BY <1>1, <1>3 DEF MagnitudeCompare
    <2>8. QED
      BY <2>1, <2>4, <2>6, <2>7 DEF p, q
  <1>4. QED
    BY <1>2, <1>3

(* The bytes of numbers compare as the numbers.                            *)
LEMMA ToBEOrder ==
    ASSUME NEW n \in Nat, NEW m \in Nat
    PROVE  MagnitudeCompare(ToBE(n), ToBE(m)) = SignOf(n - m)
  <1> DEFINE S == {k \in Nat : \A a, b \in 0..k : MagnitudeCompare(ToBE(a), ToBE(b)) = SignOf(a - b)}
  <1>1. \A a \in Nat : ToBE(a) \in Seq(Byte) /\ Len(ToBE(a)) \in Nat
    BY ToBEBytes, LenProperties
  <1>2. ASSUME NEW a \in Nat, NEW b \in Nat, a = 0 \/ b = 0
        PROVE  MagnitudeCompare(ToBE(a), ToBE(b)) = SignOf(a - b)
    <2>1. \A c \in Nat : c # 0 => Len(ToBE(c)) > 0
      <3> TAKE c \in Nat
      <3> HAVE c # 0
      <3>0. c \in Nat \ {0}
        OBVIOUS
      <3>1. ToBE(c) = Append(ToBE(c \div 256), c % 256) /\ c \div 256 \in Nat /\ c % 256 \in Byte
        <4>1. ToBE(c) = Append(ToBE(c \div 256), c % 256)
          BY <3>0, ToBEUnfold
        <4>2. c \div 256 \in Nat /\ c % 256 \in Byte
          BY DEF Byte
        <4>3. QED
          BY <4>1, <4>2
      <3> DEFINE u == ToBE(c \div 256)
                 x == c % 256
      <3>2. u \in Seq(Byte) /\ x \in Byte /\ ToBE(c) = Append(u, x)
        BY <1>1, <3>1
      <3> HIDE DEF u, x
      <3>3. Len(Append(u, x)) = Len(u) + 1 /\ Len(u) \in Nat
        BY <3>2, AppendProperties, LenProperties
      <3>4. QED
        BY <3>2, <3>3
    <2>2. ToBE(0) = <<>> /\ Len(<<>>) = 0
      BY ToBEUnfold
    <2>3. CASE a = 0 /\ b = 0
      <3>1. ToBE(a) = ToBE(b) /\ ToBE(a) \in Seq(Byte)
        BY <1>1, <2>3
      <3>2. Compare(ToBE(a), ToBE(b)) = 0
        BY <3>1, CompareOrder
      <3>3. MagnitudeCompare(ToBE(a), ToBE(b)) = 0
        BY <3>1, <3>2 DEF MagnitudeCompare
      <3>4. QED
        BY <2>3, <3>3 DEF SignOf
    <2>4. CASE ~(a = 0 /\ b = 0)
      <3>1. Len(ToBE(a)) # Len(ToBE(b)) /\ Len(ToBE(a)) \in Nat /\ Len(ToBE(b)) \in Nat
            /\ (Len(ToBE(a)) < Len(ToBE(b)) <=> a < b)
        <4> DEFINE k == Len(ToBE(a))
                   l == Len(ToBE(b))
        <4>1. k \in Nat /\ l \in Nat /\ (a # 0 => k > 0) /\ (b # 0 => l > 0)
              /\ (a = 0 => k = 0) /\ (b = 0 => l = 0)
          BY <1>1, <2>1, <2>2
        <4> HIDE DEF k, l
        <4>2. k # l /\ k \in Nat /\ l \in Nat /\ (k < l <=> a < b)
          BY <1>2, <2>4, <4>1
        <4>3. QED
          BY <4>2 DEF k, l
      <3>2. MagnitudeCompare(ToBE(a), ToBE(b)) = SignOf(Len(ToBE(a)) - Len(ToBE(b)))
        BY <3>1 DEF MagnitudeCompare
      <3>3. QED
        BY <1>2, <2>4, <3>1, <3>2 DEF SignOf
    <2>5. QED
      BY <2>3, <2>4
  <1>3. 0 \in S
    <2>1. \A a \in 0..0 : a \in Nat /\ a = 0
      OBVIOUS
    <2>2. QED
      BY <1>2, <2>1
  <1>4. ASSUME NEW k \in Nat, k \in S
        PROVE  k + 1 \in S
    <2> SUFFICES ASSUME NEW a \in 0..(k + 1), NEW b \in 0..(k + 1)
                 PROVE  MagnitudeCompare(ToBE(a), ToBE(b)) = SignOf(a - b)
      BY <1>4
    <2>1. a \in Nat /\ b \in Nat
      BY <1>4
    <2>2. CASE a # 0 /\ b # 0
      <3> DEFINE q == a \div 256
                 r == a % 256
                 h == b \div 256
                 l == b % 256
      <3>1. q \in 0..k /\ h \in 0..k /\ r \in Byte /\ l \in Byte /\ q \in Nat /\ h \in Nat
        BY <1>4, <2>1, <2>2 DEF Byte
      <3>2. ToBE(a) = Append(ToBE(q), r) /\ ToBE(b) = Append(ToBE(h), l)
        BY <2>1, <2>2, ToBEUnfold
      <3>3. SignOf(a - b) = Then(SignOf(q - h), SignOf(r - l))
        <4>1. a = 256 * q + r /\ b = 256 * h + l /\ q \in Nat /\ h \in Nat /\ r \in 0..255 /\ l \in 0..255
          BY <2>1
        <4> HIDE DEF q, r, h, l
        <4>2. QED
          BY <4>1 DEF SignOf, Then
      <3> HIDE DEF q, r, h, l
      <3>4. MagnitudeCompare(ToBE(q), ToBE(h)) = SignOf(q - h)
        BY <1>4, <3>1
      <3>5. ToBE(q) \in Seq(Byte) /\ ToBE(h) \in Seq(Byte)
        BY <1>1, <3>1
      <3>6. MagnitudeCompare(Append(ToBE(q), r), Append(ToBE(h), l))
              = Then(MagnitudeCompare(ToBE(q), ToBE(h)), SignOf(r - l))
        BY <3>1, <3>5, MagnitudeAppend
      <3>7. QED
        BY <3>2, <3>3, <3>4, <3>6
    <2>3. QED
      BY <1>2, <2>1, <2>2
  <1> HIDE DEF S
  <1>5. \A k \in Nat : k \in S
    BY <1>3, <1>4, NatSetInduction
  <1>6. n \in 0..(n + m) /\ m \in 0..(n + m) /\ n + m \in Nat
    OBVIOUS
  <1>7. QED
    BY <1>5, <1>6 DEF S

LEMMA MagnitudeNumber ==
    ASSUME NEW m \in Seq(Byte), m # <<>> => m[1] # 0
    PROVE  \E n \in Nat : m = ToBE(n)
  <1> DEFINE Normal(s) == s # <<>> => s[1] # 0
             P == {s \in Seq(Byte) : Normal(s) => \E n \in Nat : s = ToBE(n)}
  <1>1. <<>> \in P
    <2>1. <<>> = ToBE(0) /\ 0 \in Nat /\ <<>> \in Seq(Byte)
      BY ToBEUnfold
    <2>2. QED
      BY <2>1
  <1>2. ASSUME NEW s \in Seq(Byte), NEW e \in Byte, s \in P
        PROVE  Append(s, e) \in P
    <2> DEFINE t == Append(s, e)
    <2>1. t \in Seq(Byte) /\ t # <<>> /\ (s # <<>> => t[1] = s[1]) /\ (s = <<>> => t[1] = e)
      <3>1. /\ t \in Seq(Byte) /\ Len(t) = Len(s) + 1 /\ Len(s) \in Nat
            /\ t[Len(s) + 1] = e /\ \A i \in 1..Len(s) : t[i] = s[i]
        BY AppendProperties, LenProperties
      <3>2. s # <<>> => Len(s) # 0
        BY EmptySeq
      <3>3. t # <<>>
        BY <3>1
      <3>4. QED
        BY <3>1, <3>2, <3>3
    <2> SUFFICES ASSUME Normal(t)
                 PROVE  \E n \in Nat : t = ToBE(n)
      BY <2>1
    <2>2. CASE s = <<>>
      <3>1. e # 0
        BY <2>1, <2>2
      <3>2. 256 * 0 + e # 0 /\ 256 * 0 + e = e /\ e \in Nat
        BY <3>1, ByteInt
      <3>3. ToBE(e) = Append(ToBE(0), e)
        BY SMTT(30), <3>2, AppendedNumber
      <3>4. QED
        BY <2>2, <3>2, <3>3, ToBEUnfold
    <2>3. CASE s # <<>>
      <3>1. PICK n \in Nat : s = ToBE(n)
        BY <1>2, <2>1, <2>3
      <3>2. n # 0
        BY <2>3, <3>1, ToBEUnfold
      <3>3. 256 * n + e # 0 /\ 256 * n + e \in Nat
        BY <3>2, ByteInt
      <3>4. ToBE(256 * n + e) = Append(ToBE(n), e)
        BY <3>3, AppendedNumber
      <3>5. QED
        BY <3>1, <3>3, <3>4
    <2>4. QED
      BY <2>2, <2>3
  <1> HIDE DEF P
  <1>3. Seq(Byte) \subseteq P
    BY <1>1, <1>2, SeqSetInduction
  <1>4. QED
    BY <1>3 DEF P

LEMMA MinusOneAppend ==
    ASSUME NEW s \in Seq(Byte), NEW x \in Byte
    PROVE  /\ x # 0 => MinusOne(Append(s, x)) = Append(s, x - 1)
           /\ s # <<>> /\ s[1] # 0 => MinusOne(Append(s, 0)) = Append(MinusOne(s), 255)
  <1> DEFINE n == Len(s)
  <1>1. n \in Nat /\ \A i \in 1..n : s[i] \in Byte
    BY LenProperties, ElementOfSeq
  <1>2. ASSUME NEW y \in Byte
        PROVE  /\ Append(s, y) \in Seq(Byte) /\ Len(Append(s, y)) = n + 1 /\ Append(s, y)[n + 1] = y
               /\ \A i \in 1..n : Append(s, y)[i] = s[i]
    BY AppendProperties
  <1>3. ASSUME x # 0
        PROVE  MinusOne(Append(s, x)) = Append(s, x - 1)
    <2> DEFINE t == Append(s, x)
               u == Append(s, x - 1)
    <2>1. /\ t \in Seq(Byte) /\ Len(t) = n + 1 /\ t[n + 1] = x /\ \A i \in 1..n : t[i] = s[i]
      BY <1>2
    <2>2. x - 1 \in Byte
      BY <1>3 DEF Byte
    <2>3. u \in Seq(Byte) /\ Len(u) = n + 1 /\ u[n + 1] = x - 1 /\ \A i \in 1..n : u[i] = s[i]
      BY <1>2, <2>2
    <2> HIDE DEF t, u, n
    <2>4. IsLast(t, n + 1)
      BY <1>1, <1>3, <2>1 DEF IsLast
    <2>5. MinusOne(t) = [i \in 1..Len(t) |-> IF i < n + 1 THEN t[i] ELSE IF i = n + 1 THEN t[i] - 1 ELSE 255]
      BY <2>1, <2>4, MinusOneAt
    <2>6. u = [i \in 1..(n + 1) |-> u[i]]
      BY <2>3
    <2>7. \A i \in 1..(n + 1) : u[i] = IF i < n + 1 THEN t[i] ELSE IF i = n + 1 THEN t[i] - 1 ELSE 255
      BY <1>1, <2>1, <2>3
    <2>8. MinusOne(t) = u
      BY <2>1, <2>5, <2>6, <2>7
    <2>9. QED
      BY <2>8 DEF t, u
  <1>4. ASSUME s # <<>>, s[1] # 0
        PROVE  MinusOne(Append(s, 0)) = Append(MinusOne(s), 255)
    <2> DEFINE t == Append(s, 0)
               m == MinusOne(s)
               u == Append(m, 255)
    <2>1. 0 \in Byte /\ 255 \in Byte
      BY DEF Byte
    <2>2. /\ t \in Seq(Byte) /\ Len(t) = n + 1 /\ t[n + 1] = 0 /\ \A i \in 1..n : t[i] = s[i]
      BY <1>2, <2>1
    <2>3. 1 \in 1..n
      <3>1. n # 0
        BY <1>4, EmptySeq
      <3>2. QED
        BY <1>1, <3>1
    <2>4. PICK j \in 1..n : IsLast(s, j)
      BY <1>4, <2>3, LastExists
    <2>5. m = [i \in 1..n |-> IF i < j THEN s[i] ELSE IF i = j THEN s[i] - 1 ELSE 255]
      BY <2>4, MinusOneAt
    <2>6. m \in Seq(Byte) /\ Len(m) = n
      BY <1>4, MinusOneBytes
    <2> HIDE DEF m
    <2>7. u \in Seq(Byte) /\ Len(u) = n + 1 /\ u[n + 1] = 255 /\ \A i \in 1..n : u[i] = m[i]
      BY <2>1, <2>6, AppendProperties
    <2> HIDE DEF t, u, n
    <2>8. j \in 1..n /\ s[j] # 0 /\ \A k \in (j + 1)..n : s[k] = 0
      BY <2>4 DEF IsLast, n
    <2>9. IsLast(t, j)
      <3>1. j \in 1..(n + 1) /\ t[j] # 0
        BY <1>1, <2>2, <2>8
      <3>2. \A k \in (j + 1)..(n + 1) : t[k] = 0
        <4> TAKE k \in (j + 1)..(n + 1)
        <4>1. CASE k = n + 1
          BY <2>2, <4>1
        <4>2. CASE k # n + 1
          <5>1. k \in (j + 1)..n /\ k \in 1..n
            BY <1>1, <2>8, <4>2
          <5>2. QED
            BY <2>2, <2>8, <5>1
        <4>3. QED
          BY <4>1, <4>2
      <3>3. QED
        BY <2>2, <3>1, <3>2 DEF IsLast
    <2>10. MinusOne(t) = [i \in 1..Len(t) |-> IF i < j THEN t[i] ELSE IF i = j THEN t[i] - 1 ELSE 255]
      BY <2>2, <2>9, MinusOneAt
    <2>11. \A i \in 1..(n + 1) : u[i] = IF i < j THEN t[i] ELSE IF i = j THEN t[i] - 1 ELSE 255
      <3> TAKE i \in 1..(n + 1)
      <3>1. CASE i = n + 1
        BY <1>1, <2>7, <2>8, <3>1
      <3>2. CASE i # n + 1
        <4>1. i \in 1..n
          BY <1>1, <3>2
        <4>2. u[i] = m[i] /\ t[i] = s[i]
          BY <2>2, <2>7, <4>1
        <4>3. m[i] = IF i < j THEN s[i] ELSE IF i = j THEN s[i] - 1 ELSE 255
          BY <2>5, <4>1
        <4>4. QED
          BY <4>2, <4>3
      <3>3. QED
        BY <3>1, <3>2
    <2>12. u = [i \in 1..(n + 1) |-> u[i]]
      BY <2>7
    <2>13. MinusOne(t) = u
      BY <2>2, <2>10, <2>11, <2>12
    <2>14. QED
      BY <2>13 DEF t, u, m
  <1>5. QED
    BY <1>3, <1>4

(* The borrow loop subtracts one.                                          *)
LEMMA MinusOneNumber ==
    \A n \in Nat \ {0} : Trimmed(MinusOne(ToBE(n))) = ToBE(n - 1)
  <1> DEFINE S == {k \in Nat : \A n \in 1..k : Trimmed(MinusOne(ToBE(n))) = ToBE(n - 1)}
  <1>1. 0 \in S
    OBVIOUS
  <1>2. ASSUME NEW k \in Nat, k \in S
        PROVE  k + 1 \in S
    <2> SUFFICES ASSUME NEW n \in 1..(k + 1)
                 PROVE  Trimmed(MinusOne(ToBE(n))) = ToBE(n - 1)
      BY <1>2
    <2> DEFINE q == n \div 256
               r == n % 256
               t == ToBE(q)
    <2>1. /\ n \in Nat \ {0} /\ q \in Nat /\ r \in Byte /\ n = 256 * q + r /\ q < n /\ q <= k
          /\ (q = 0 => r # 0)
      BY DEF Byte
    <2>2. ToBE(n) = Append(t, r)
      BY <2>1, ToBEUnfold
    <2>3. t \in Seq(Byte) /\ (q # 0 => t # <<>> /\ t[1] # 0) /\ (q = 0 => t = <<>>)
      <3>1. t \in Seq(Byte)
        BY <2>1, ToBEBytes
      <3>2. Trimmed(t) = t
        BY <2>1, ToBETrimmed
      <3>3. t # <<>> => t[1] # 0
        BY <3>1, <3>2, TrimmedProperties
      <3>4. q # 0 => t # <<>>
        <4>1. t = <<>> => t = ToBE(0)
          BY ToBEUnfold
        <4>2. t = ToBE(0) => q = 0
          BY <2>1, ToBEInjective
        <4>3. QED
          BY <4>1, <4>2
      <3>5. q = 0 => t = <<>>
        BY ToBEUnfold
      <3>6. QED
        BY <3>1, <3>3, <3>4, <3>5
    <2> HIDE DEF q, r, t
    <2>4. CASE r # 0
      <3>1. MinusOne(ToBE(n)) = Append(t, r - 1)
        BY <2>1, <2>2, <2>3, <2>4, MinusOneAppend
      <3>2. r - 1 \in Byte /\ n - 1 = 256 * q + (r - 1)
        BY <2>1, <2>4 DEF Byte
      <3>3. CASE n = 1
        <4>1. q = 0 /\ r = 1
          BY <2>1, <3>3, ByteInt
        <4>2. MinusOne(ToBE(n)) = Append(<<>>, 0)
          BY <2>3, <3>1, <4>1
        <4>3. \A i \in DOMAIN Append(<<>>, 0) : Append(<<>>, 0)[i] = 0
          OBVIOUS
        <4>4. Trimmed(Append(<<>>, 0)) = <<>>
          BY <4>3, TrimmedZeros
        <4>5. n - 1 = 0
          BY <3>3
        <4>6. QED
          BY <4>2, <4>4, <4>5, ToBEUnfold
      <3>4. CASE n # 1
        <4>1. 256 * q + (r - 1) # 0
          BY <2>1, <3>2, <3>4
        <4>2. ToBE(n - 1) = Append(t, r - 1)
          BY <2>1, <3>2, <4>1, AppendedNumber DEF t
        <4>3. n - 1 \in Nat
          BY <2>1
        <4>4. Trimmed(ToBE(n - 1)) = ToBE(n - 1)
          BY <4>3, ToBETrimmed
        <4>5. QED
          BY <3>1, <4>2, <4>4
      <3>5. QED
        BY <3>3, <3>4
    <2>5. CASE r = 0
      <3>1. q # 0 /\ q \in 1..k
        BY <2>1, <2>5
      <3>2. MinusOne(ToBE(n)) = Append(MinusOne(t), 255)
        BY <2>1, <2>2, <2>3, <2>5, <3>1, MinusOneAppend
      <3>3. Trimmed(MinusOne(t)) = ToBE(q - 1)
        BY <1>2, <3>1 DEF t
      <3>4. MinusOne(t) \in Seq(Byte) /\ 255 \in Byte
        BY <2>3, <3>1, MinusOneBytes DEF Byte
      <3>5. Trimmed(Append(MinusOne(t), 255)) = Append(ToBE(q - 1), 255)
        BY <3>3, <3>4, TrimmedAppend
      <3>6. q - 1 \in Nat /\ 256 * (q - 1) + 255 = n - 1 /\ 256 * (q - 1) + 255 # 0
        BY <2>1, <2>5, <3>1
      <3>7. ToBE(256 * (q - 1) + 255) = Append(ToBE(q - 1), 255)
        BY <3>4, <3>6, AppendedNumber
      <3>8. QED
        BY <3>2, <3>5, <3>6, <3>7
    <2>6. QED
      BY <2>4, <2>5
  <1> HIDE DEF S
  <1>3. \A k \in Nat : k \in S
    BY <1>1, <1>2, NatSetInduction
  <1>4. QED
    BY <1>3 DEF S

Flip(negative, c) == IF negative THEN -c ELSE c
Normal(m) == m \in Seq(Byte) /\ m # <<>> /\ m[1] # 0

LEMMA Opposite ==
    \A c, d \in Int : d = -c => /\ (c = -1 <=> d = 1) /\ (c = 1 <=> d = -1) /\ (c = 0 <=> d = 0)
                                /\ (c < 0 <=> d > 0) /\ c = -d
  OBVIOUS

LEMMA MagnitudeBack ==
    ASSUME NEW u \in Seq(Byte), NEW v \in Seq(Byte)
    PROVE  /\ MagnitudeCompare(u, v) \in {-1, 0, 1}
           /\ MagnitudeCompare(v, u) = -MagnitudeCompare(u, v)
           /\ MagnitudeCompare(u, v) = 0 <=> u = v
  <1>1. Len(u) \in Nat /\ Len(v) \in Nat
    BY LenProperties
  <1>2. CASE Len(u) = Len(v)
    BY <1>2, CompareOrder DEF MagnitudeCompare
  <1>3. CASE Len(u) # Len(v)
    <2>1. /\ MagnitudeCompare(u, v) = SignOf(Len(u) - Len(v))
          /\ MagnitudeCompare(v, u) = SignOf(Len(v) - Len(u))
      BY <1>3 DEF MagnitudeCompare
    <2>2. u # v
      BY <1>3
    <2>3. /\ SignOf(Len(u) - Len(v)) \in {-1, 0, 1} /\ SignOf(Len(v) - Len(u)) = -SignOf(Len(u) - Len(v))
          /\ (SignOf(Len(u) - Len(v)) = 0 <=> Len(u) = Len(v))
      <3> DEFINE k == Len(u)
                 l == Len(v)
      <3>1. k \in Int /\ l \in Int
        BY <1>1
      <3> HIDE DEF k, l
      <3>2. /\ SignOf(k - l) \in {-1, 0, 1} /\ SignOf(l - k) = -SignOf(k - l)
            /\ (SignOf(k - l) = 0 <=> k = l)
        BY <3>1, SignFacts, Zenon
      <3>3. QED
        BY <3>2 DEF k, l
    <2>4. QED
      BY <1>3, <2>1, <2>2, <2>3
  <1>4. QED
    BY <1>2, <1>3

(* Two strings with different first bytes.                                 *)
LEMMA HeadsApart ==
    ASSUME NEW x \in Byte, NEW y \in Byte, NEW u \in Seq(Byte), NEW v \in Seq(Byte), x # y
    PROVE  /\ Separate(<<x>> \o u, <<y>> \o v)
           /\ Compare(<<x>> \o u, <<y>> \o v) = SignOf(x - y)
  <1>1. /\ Compare(<<x>> \o u, <<y>> \o v) = Then(SignOf(x - y), Compare(u, v))
        /\ PartAt(<<x>> \o u, <<y>> \o v, 1)
    BY HeadCompare
  <1>2. SignOf(x - y) # 0
    BY ByteInt, SignFacts
  <1>3. QED
    BY <1>1, <1>2 DEF Then, Separate

LEMMA SameHead ==
    ASSUME NEW x \in Byte, NEW u \in Seq(Byte), NEW v \in Seq(Byte), Separate(u, v)
    PROVE  /\ Separate(<<x>> \o u, <<x>> \o v)
           /\ Compare(<<x>> \o u, <<x>> \o v) = Compare(u, v)
  <1> DEFINE z == <<x>>
  <1>1. z \in Seq(Byte)
    OBVIOUS
  <1> HIDE DEF z
  <1>2. Compare(z \o u, z \o v) = Compare(u, v) /\ \A i : PartAt(u, v, i) => PartAt(z \o u, z \o v, Len(z) + i)
    BY <1>1, AfterCommon
  <1>3. Separate(z \o u, z \o v)
    BY <1>2 DEF Separate
  <1>4. QED
    BY <1>2, <1>3 DEF z

(* Big-int forms: the header's length, the header, the magnitude.          *)
BigBody(mag) == <<Len(ToBE(Len(mag)))>> \o ToBE(Len(mag)) \o mag

LEMMA BigBodyOrder ==
    ASSUME NEW u \in Magnitude, NEW v \in Magnitude
    PROVE  /\ BigBody(u) \in Seq(Byte) /\ BigBody(v) \in Seq(Byte)
           /\ Separate(BigBody(u), BigBody(v))
           /\ Compare(BigBody(u), BigBody(v)) = MagnitudeCompare(u, v)
  <1> DEFINE k == ToBE(Len(u))
             l == ToBE(Len(v))
             x == Len(k)
             y == Len(l)
             g == <<x>> \o k
             h == <<y>> \o l
  <1>1. u \in Seq(Byte) /\ v \in Seq(Byte) /\ ByteLen(Len(u)) <= LenOfLen /\ ByteLen(Len(v)) <= LenOfLen
    BY DEF Magnitude
  <1>2. Len(u) \in Nat /\ Len(v) \in Nat
    BY <1>1, LenProperties
  <1>3. k \in Seq(Byte) /\ l \in Seq(Byte) /\ x = ByteLen(Len(u)) /\ y = ByteLen(Len(v)) /\ x \in Nat /\ y \in Nat
    BY <1>2, ToBEBytes
  <1>4. x \in Byte /\ y \in Byte
    <2>1. x <= LenOfLen /\ y <= LenOfLen /\ LenOfLen \in 1..8
      BY <1>1, <1>3, WidthAssumption
    <2>2. x \in Nat /\ y \in Nat
      BY <1>3
    <2> HIDE DEF x, y
    <2>3. QED
      BY <2>1, <2>2 DEF Byte
  <1>5. MagnitudeCompare(k, l) = SignOf(Len(u) - Len(v))
    BY <1>2, ToBEOrder
  <1> HIDE DEF k, l
  <1>6. Compare(g, h) = Then(SignOf(x - y), Compare(k, l)) /\ (x # y => PartAt(g, h, 1))
    <2> HIDE DEF x, y
    <2>1. QED
      BY <1>3, <1>4, HeadCompare
  <1>7. Compare(g, h) = SignOf(Len(u) - Len(v))
    <2>1. CASE x = y
      <3>1. SignOf(x - y) = 0 /\ MagnitudeCompare(k, l) = Compare(k, l)
        BY <1>3, <2>1 DEF SignOf, MagnitudeCompare
      <3>2. QED
        BY <1>5, <1>6, <3>1 DEF Then
    <2>2. CASE x # y
      <3>1. SignOf(x - y) # 0 /\ MagnitudeCompare(k, l) = SignOf(x - y)
        BY <1>3, <2>2 DEF SignOf, MagnitudeCompare
      <3>2. QED
        BY <1>5, <1>6, <3>1 DEF Then
    <2>3. QED
      BY <2>1, <2>2
  <1>8. g \in Seq(Byte) /\ h \in Seq(Byte)
    <2>1. <<x>> \in Seq(Byte) /\ <<y>> \in Seq(Byte)
      BY <1>4
    <2>2. QED
      BY <1>3, <2>1, ConcatProperties
  <1>9. Separate(g, h)
    <2>1. CASE x = y
      <3> DEFINE z == <<x>>
      <3>1. z \in Seq(Byte)
        BY <1>4
      <3>2. Separate(k, l)
        BY <1>3, <2>1, SameLengthApart
      <3> HIDE DEF z
      <3>3. Separate(z \o k, z \o l)
        BY <1>3, <3>1, <3>2, ApartConcat DEF Separate
      <3>4. QED
        BY <2>1, <3>3 DEF z
    <2>2. CASE x # y
      BY <1>6, <2>2 DEF Separate
    <2>3. QED
      BY <2>1, <2>2
  <1> HIDE DEF x, y, g, h
  <1>10. g = h => Len(u) = Len(v)
    <2>1. g = h => Compare(g, h) = 0
      BY <1>8, CompareOrder
    <2>2. SignOf(Len(u) - Len(v)) = 0 => Len(u) = Len(v)
      BY <1>2, SignFacts
    <2>3. QED
      BY <1>7, <2>1, <2>2
  <1>11. g = h => Separate(u, v)
    BY <1>1, <1>10, SameLengthApart
  <1>12. Separate(g \o u, h \o v)
    BY <1>1, <1>8, <1>9, <1>11, ApartConcat
  <1>13. Compare(g \o u, h \o v) = Then(Compare(g, h), Compare(u, v))
    BY <1>1, <1>8, <1>9, ApartThen
  <1>14. Then(SignOf(Len(u) - Len(v)), Compare(u, v)) = MagnitudeCompare(u, v)
    <2>1. CASE Len(u) = Len(v)
      BY <1>2, <2>1 DEF SignOf, Then, MagnitudeCompare
    <2>2. CASE Len(u) # Len(v)
      BY <1>2, <2>2, SignFacts DEF Then, MagnitudeCompare
    <2>3. QED
      BY <2>1, <2>2
  <1>15. g \o u \in Seq(Byte) /\ h \o v \in Seq(Byte)
    BY <1>1, <1>8, ConcatProperties
  <1>16. g \o u = BigBody(u) /\ h \o v = BigBody(v)
    BY DEF BigBody, g, h, k, l, x, y
  <1>17. QED
    BY <1>7, <1>12, <1>13, <1>14, <1>15, <1>16

(* What fits a slot is below what does not.                                *)
LEMMA SlotBelowBig ==
    ASSUME NEW negative \in BOOLEAN, NEW u, NEW v, Normal(u), Normal(v),
           FitsSigned(negative, u, FixedWidth), ~FitsSigned(negative, v, FixedWidth)
    PROVE  MagnitudeCompare(u, v) = -1 /\ MagnitudeCompare(v, u) = 1
  <1> DEFINE w == FixedWidth
  <1>1. /\ u \in Seq(Byte) /\ v \in Seq(Byte) /\ Len(u) \in Nat /\ Len(v) \in Nat /\ w \in Nat /\ w >= 2
        /\ Len(u) # 0 /\ Len(v) # 0
    BY LenProperties, EmptySeq, WidthAssumption DEF Normal
  <1>2. Len(u) <= w /\ w <= Len(v)
    BY <1>1 DEF FitsSigned
  <1>3. MagnitudeCompare(u, v) = -1
    <2>1. CASE Len(u) # Len(v)
      BY <1>1, <1>2, <2>1 DEF MagnitudeCompare, SignOf
    <2>2. CASE Len(u) = Len(v)
      <3>1. Len(u) = w /\ Len(v) = w /\ 1 \in 1..w
        BY <1>1, <1>2, <2>2
      <3>2. MagnitudeCompare(u, v) = Compare(u, v)
        BY <2>2 DEF MagnitudeCompare
      <3>3. \A i \in 1..w : u[i] \in Nat /\ v[i] \in Nat
        BY <1>1, <3>1, ElementOfSeq, ByteInt
      <3>4. u[1] < 128 \/ (negative /\ u[1] = 128 /\ \A i \in 2..w : u[i] = 0)
        BY <1>1, <3>1 DEF FitsSigned
      <3>5. v[1] >= 128 /\ ~(negative /\ v[1] = 128 /\ \A i \in 2..w : v[i] = 0)
        BY <1>1, <3>1, <3>3 DEF FitsSigned
      <3>6. ASSUME NEW i, PartAt(u, v, i)
            PROVE  u[i] < v[i]
        <4>1. i \in 1..w /\ u[i] # v[i] /\ \A j \in 1..(i - 1) : u[j] = v[j]
          BY <3>1, <3>6 DEF PartAt
        <4>2. CASE i = 1
          BY <3>3, <3>1, <3>4, <3>5, <4>1, <4>2
        <4>3. CASE i # 1
          <5>1. u[1] = v[1] /\ i \in 2..w
            BY <1>1, <4>1, <4>3
          <5>2. u[i] = 0
            BY <3>1, <3>3, <3>4, <3>5, <5>1
          <5>3. QED
            BY <3>3, <4>1, <5>2
        <4>4. QED
          BY <4>2, <4>3
      <3>7. u # v
        BY <3>1, <3>3, <3>4, <3>5
      <3>8. PICK i : PartAt(u, v, i)
        BY <1>1, <2>2, <3>7, SameLengthApart DEF Separate
      <3>9. Compare(u, v) = SignOf(u[i] - v[i]) /\ i \in 1..w /\ u[i] < v[i]
        BY <1>1, <3>1, <3>6, <3>8, CompareAt DEF PartAt
      <3>10. QED
        BY <3>2, <3>3, <3>9, LongerMagnitude
    <2>3. QED
      BY <2>1, <2>2
  <1>4. MagnitudeCompare(v, u) = 1
    <2> DEFINE c == MagnitudeCompare(u, v)
               d == MagnitudeCompare(v, u)
    <2>1. c \in Int /\ d \in Int /\ d = -c /\ c = -1
      BY <1>1, <1>3, MagnitudeBack
    <2> HIDE DEF c, d
    <2>2. d = 1
      BY <2>1, Opposite
    <2>3. QED
      BY <2>2 DEF d
  <1>5. QED
    BY <1>3, <1>4

Pad(s) == IF s = <<>> THEN <<0>> ELSE s

LEMMA PadAbove ==
    ASSUME NEW v, Normal(v)
    PROVE  MagnitudeCompare(Pad(<<>>), v) = -1 /\ MagnitudeCompare(v, Pad(<<>>)) = 1
           /\ MagnitudeCompare(<<>>, v) = -1 /\ MagnitudeCompare(v, <<>>) = 1
  <1> DEFINE z == <<0>>
             e == <<>>
  <1>1. /\ z \in Seq(Byte) /\ Len(z) = 1 /\ z[1] = 0 /\ Pad(<<>>) = z
        /\ e \in Seq(Byte) /\ Len(e) = 0
    BY DEF Pad, Byte
  <1>2. v \in Seq(Byte) /\ Len(v) \in Nat /\ Len(v) # 0 /\ v[1] # 0
    BY LenProperties, EmptySeq DEF Normal
  <1> HIDE DEF z, e
  <1>3. MagnitudeCompare(e, v) = -1 /\ MagnitudeCompare(v, e) = 1
    BY <1>1, <1>2, LongerMagnitude DEF MagnitudeCompare
  <1>4. CASE Len(v) # 1
    BY <1>1, <1>2, <1>3, <1>4, LongerMagnitude DEF MagnitudeCompare, e
  <1>5. CASE Len(v) = 1
    <2>1. PartAt(z, v, 1)
      BY <1>1, <1>2, <1>5 DEF PartAt
    <2>2. /\ Compare(z, v) = SignOf(z[1] - v[1]) /\ z[1] \in Byte /\ v[1] \in Byte
      BY <1>1, <1>2, <2>1, CompareAt
    <2>3. PartAt(v, z, 1)
      BY <1>1, <1>2, <2>1, CompareAt
    <2>4. Compare(v, z) = SignOf(v[1] - z[1])
      BY <1>1, <1>2, <2>3, CompareAt
    <2>5. z[1] \in Nat /\ v[1] \in Nat /\ z[1] < v[1]
      BY <1>1, <1>2, <2>2, ByteInt
    <2>6. Compare(z, v) = -1 /\ Compare(v, z) = 1
      BY <2>2, <2>4, <2>5, LongerMagnitude
    <2>7. MagnitudeCompare(z, v) = -1 /\ MagnitudeCompare(v, z) = 1
      BY <1>1, <1>5, <2>6 DEF MagnitudeCompare
    <2>8. QED
      BY <1>1, <1>3, <2>7 DEF e
  <1>6. QED
    BY <1>4, <1>5

LEMMA PadOrder ==
    ASSUME NEW u \in Seq(Byte), NEW v \in Seq(Byte), u # <<>> => u[1] # 0, v # <<>> => v[1] # 0
    PROVE  /\ Pad(u) \in Seq(Byte) /\ Pad(v) \in Seq(Byte)
           /\ MagnitudeCompare(Pad(u), Pad(v)) = MagnitudeCompare(u, v)
  <1>1. \A s \in Seq(Byte) : Pad(s) \in Seq(Byte) /\ (s # <<>> => Pad(s) = s)
    <2>1. <<0>> \in Seq(Byte)
      BY DEF Byte
    <2>2. QED
      BY <2>1, Zenon DEF Pad
  <1>2. CASE u # <<>> /\ v # <<>>
    BY <1>1, <1>2
  <1>3. CASE u = <<>> /\ v = <<>>
    <2>1. MagnitudeCompare(Pad(u), Pad(v)) = 0
      BY <1>1, <1>3, MagnitudeBack
    <2>2. MagnitudeCompare(u, v) = 0
      BY <1>3, MagnitudeBack
    <2>3. QED
      BY <1>1, <2>1, <2>2
  <1>4. CASE u = <<>> /\ v # <<>>
    <2>1. Normal(v) /\ Pad(v) = v /\ Pad(u) = Pad(<<>>)
      BY <1>1, <1>4 DEF Normal
    <2>2. MagnitudeCompare(Pad(<<>>), v) = -1 /\ MagnitudeCompare(<<>>, v) = -1
      BY <2>1, PadAbove
    <2>3. QED
      BY <1>1, <1>4, <2>1, <2>2
  <1>5. CASE u # <<>> /\ v = <<>>
    <2>1. Normal(u) /\ Pad(u) = u /\ Pad(v) = Pad(<<>>)
      BY <1>1, <1>5 DEF Normal
    <2>2. MagnitudeCompare(u, Pad(<<>>)) = 1 /\ MagnitudeCompare(u, <<>>) = 1
      BY <2>1, PadAbove
    <2>3. QED
      BY <1>1, <1>5, <2>1, <2>2
  <1>6. QED
    BY <1>2, <1>3, <1>4, <1>5

(* Taking one off keeps order.                                             *)
LEMMA MinusOneOrder ==
    ASSUME NEW u, NEW v, Normal(u), Normal(v)
    PROVE  /\ Trimmed(MinusOne(u)) \in Seq(Byte) /\ Trimmed(MinusOne(v)) \in Seq(Byte)
           /\ Trimmed(MinusOne(u)) # <<>> => Trimmed(MinusOne(u))[1] # 0
           /\ Trimmed(MinusOne(v)) # <<>> => Trimmed(MinusOne(v))[1] # 0
           /\ MagnitudeCompare(Trimmed(MinusOne(u)), Trimmed(MinusOne(v))) = MagnitudeCompare(u, v)
  <1>1. /\ u \in Seq(Byte) /\ v \in Seq(Byte) /\ u # <<>> /\ v # <<>> /\ u[1] # 0 /\ v[1] # 0
    BY DEF Normal
  <1>2. MinusOne(u) \in Seq(Byte) /\ MinusOne(v) \in Seq(Byte)
    BY <1>1, MinusOneBytes
  <1>3. PICK n \in Nat : u = ToBE(n)
    BY <1>1, MagnitudeNumber
  <1>4. PICK k \in Nat : v = ToBE(k)
    BY <1>1, MagnitudeNumber
  <1>5. n \in Nat \ {0} /\ k \in Nat \ {0} /\ n - 1 \in Nat /\ k - 1 \in Nat
    <2>1. ToBE(0) = <<>>
      BY ToBEUnfold
    <2>2. n # 0 /\ k # 0
      BY <1>1, <1>3, <1>4, <2>1
    <2>3. QED
      BY <2>2
  <1>6. Trimmed(MinusOne(u)) = ToBE(n - 1) /\ Trimmed(MinusOne(v)) = ToBE(k - 1)
    BY <1>3, <1>4, <1>5, MinusOneNumber
  <1>7. MagnitudeCompare(ToBE(n - 1), ToBE(k - 1)) = SignOf((n - 1) - (k - 1))
    BY <1>5, ToBEOrder
  <1>8. MagnitudeCompare(u, v) = SignOf(n - k)
    BY <1>3, <1>4, ToBEOrder
  <1>9. (n - 1) - (k - 1) = n - k
    BY <1>5
  <1>10. QED
    BY <1>2, <1>6, <1>7, <1>8, <1>9, TrimmedProperties

LEMMA ApartComplement ==
    ASSUME NEW u \in Seq(Byte), NEW v \in Seq(Byte), Separate(u, v)
    PROVE  Separate(Complement(u), Complement(v)) /\ Compare(Complement(u), Complement(v)) = -Compare(u, v)
  <1>1. /\ Separate(Signed(TRUE, u), Signed(TRUE, v))
        /\ Compare(Signed(TRUE, u), Signed(TRUE, v)) = IF TRUE THEN -Compare(u, v) ELSE Compare(u, v)
    BY ApartSigned
  <1>2. QED
    BY <1>1 DEF Signed

(* Slots of negative integers: shorter payloads have larger codes.         *)
LEMMA NegativeSlots ==
    ASSUME NEW u, NEW v, Normal(u), Normal(v),
           FitsSigned(TRUE, u, FixedWidth), FitsSigned(TRUE, v, FixedWidth)
    PROVE  /\ Separate(<<INT_ZERO - Len(Payload(u))>> \o Payload(u), <<INT_ZERO - Len(Payload(v))>> \o Payload(v))
           /\ Compare(<<INT_ZERO - Len(Payload(u))>> \o Payload(u), <<INT_ZERO - Len(Payload(v))>> \o Payload(v))
                = -MagnitudeCompare(u, v)
  <1> DEFINE p == Pad(Trimmed(MinusOne(u)))
             q == Pad(Trimmed(MinusOne(v)))
             a == Complement(p)
             b == Complement(q)
             x == INT_ZERO - Len(a)
             y == INT_ZERO - Len(b)
  <1>1. p \in Seq(Byte) /\ q \in Seq(Byte) /\ MagnitudeCompare(p, q) = MagnitudeCompare(u, v)
    BY MinusOneOrder, PadOrder
  <1>2. Payload(u) = a /\ Payload(v) = b
    BY DEF Payload, Pad
  <1> HIDE DEF p, q
  <1>3. a \in Seq(Byte) /\ b \in Seq(Byte) /\ Len(a) = Len(p) /\ Len(b) = Len(q)
    BY <1>1, ComplementBytes
  <1>4. Len(p) \in Nat /\ Len(q) \in Nat
    BY <1>1, LenProperties
  <1>5. Len(a) \in 1..FixedWidth /\ Len(b) \in 1..FixedWidth
    <2>1. u \in Seq(Byte) /\ u # <<>> /\ u[1] # 0 /\ v \in Seq(Byte) /\ v # <<>> /\ v[1] # 0
      BY DEF Normal
    <2>2. /\ Len(Payload(u)) \in 1..Len(u) /\ Len(Payload(u)) <= FixedWidth
          /\ Len(Payload(v)) \in 1..Len(v) /\ Len(Payload(v)) <= FixedWidth
      BY <2>1, NegativeSlot
    <2>3. QED
      BY <1>2, <1>3, <1>4, <2>2, WidthAssumption
  <1>6. x \in Byte /\ y \in Byte /\ x - y = Len(q) - Len(p)
    <2> DEFINE k == Len(a)
               l == Len(b)
    <2>1. k \in 1..FixedWidth /\ l \in 1..FixedWidth /\ FixedWidth \in Int /\ FixedWidth <= 16
      BY <1>5, WidthAssumption
    <2>0. k = Len(p) /\ l = Len(q)
      BY <1>3
    <2> HIDE DEF k, l
    <2>2. 32 - k \in 0..255 /\ 32 - l \in 0..255 /\ (32 - k) - (32 - l) = l - k
      BY <2>1
    <2>3. 32 - k \in 0..255 /\ 32 - l \in 0..255 /\ (32 - k) - (32 - l) = Len(q) - Len(p)
      BY <2>0, <2>1, <2>2
    <2>4. QED
      BY <2>3 DEF k, l, INT_ZERO, Byte
  <1> HIDE DEF a, b, x, y
  <1>7. CASE Len(p) = Len(q)
    <2>1. Separate(p, q)
      BY <1>1, <1>7, SameLengthApart
    <2>2. Separate(a, b) /\ Compare(a, b) = -Compare(p, q)
      BY <1>1, <2>1, ApartComplement DEF a, b
    <2>3. x = y
      BY <1>3, <1>7 DEF x, y
    <2>4. Separate(<<x>> \o a, <<x>> \o b) /\ Compare(<<x>> \o a, <<x>> \o b) = Compare(a, b)
      BY <1>3, <1>6, <2>2, SameHead
    <2>5. MagnitudeCompare(p, q) = Compare(p, q)
      BY <1>7 DEF MagnitudeCompare
    <2>6. QED
      BY <1>1, <1>2, <2>2, <2>3, <2>4, <2>5 DEF x, y
  <1>8. CASE Len(p) # Len(q)
    <2>1. x # y
      BY <1>4, <1>6, <1>8, ByteInt
    <2>2. Separate(<<x>> \o a, <<y>> \o b) /\ Compare(<<x>> \o a, <<y>> \o b) = SignOf(x - y)
      BY <1>3, <1>6, <2>1, HeadsApart
    <2>3. MagnitudeCompare(p, q) = SignOf(Len(p) - Len(q))
      BY <1>8 DEF MagnitudeCompare
    <2>4. SignOf(x - y) = -SignOf(Len(p) - Len(q))
      <3> DEFINE k == Len(p)
                 l == Len(q)
      <3>1. k \in Int /\ l \in Int /\ x - y = l - k
        BY <1>4, <1>6
      <3> HIDE DEF k, l
      <3>2. SignOf(l - k) = -SignOf(k - l)
        BY <3>1, SignFacts, Zenon
      <3>3. QED
        BY <3>1, <3>2 DEF k, l
    <2>5. QED
      BY <1>1, <1>2, <2>2, <2>3, <2>4 DEF x, y
  <1>9. QED
    BY <1>7, <1>8

LEMMA PositiveSlots ==
    ASSUME NEW u, NEW v, Normal(u), Normal(v), Len(u) \in 1..FixedWidth, Len(v) \in 1..FixedWidth
    PROVE  /\ Separate(<<INT_ZERO + Len(u)>> \o u, <<INT_ZERO + Len(v)>> \o v)
           /\ Compare(<<INT_ZERO + Len(u)>> \o u, <<INT_ZERO + Len(v)>> \o v) = MagnitudeCompare(u, v)
  <1> DEFINE x == INT_ZERO + Len(u)
             y == INT_ZERO + Len(v)
  <1>1. u \in Seq(Byte) /\ v \in Seq(Byte)
    BY DEF Normal
  <1>2. x \in Byte /\ y \in Byte /\ x - y = Len(u) - Len(v) /\ Len(u) \in Nat /\ Len(v) \in Nat
    <2> DEFINE k == Len(u)
               l == Len(v)
    <2>1. k \in 1..FixedWidth /\ l \in 1..FixedWidth /\ FixedWidth \in Int /\ FixedWidth <= 16
      BY WidthAssumption
    <2> HIDE DEF k, l
    <2>2. 32 + k \in 0..255 /\ 32 + l \in 0..255 /\ (32 + k) - (32 + l) = k - l /\ k \in Nat /\ l \in Nat
      BY <2>1
    <2>3. QED
      BY <2>2 DEF k, l, INT_ZERO, Byte
  <1> HIDE DEF x, y
  <1>3. CASE Len(u) = Len(v)
    <2>1. Separate(u, v)
      BY <1>1, <1>3, SameLengthApart
    <2>2. x = y
      BY <1>3 DEF x, y
    <2>3. Separate(<<x>> \o u, <<x>> \o v) /\ Compare(<<x>> \o u, <<x>> \o v) = Compare(u, v)
      BY <1>1, <1>2, <2>1, SameHead
    <2>4. MagnitudeCompare(u, v) = Compare(u, v)
      BY <1>3 DEF MagnitudeCompare
    <2>5. QED
      BY <2>2, <2>3, <2>4 DEF x, y
  <1>4. CASE Len(u) # Len(v)
    <2>1. x # y
      BY <1>2, <1>4, ByteInt
    <2>2. Separate(<<x>> \o u, <<y>> \o v) /\ Compare(<<x>> \o u, <<y>> \o v) = SignOf(x - y)
      BY <1>1, <1>2, <2>1, HeadsApart
    <2>3. MagnitudeCompare(u, v) = SignOf(Len(u) - Len(v))
      BY <1>4 DEF MagnitudeCompare
    <2>4. QED
      BY <1>2, <2>2, <2>3 DEF x, y
  <1>5. QED
    BY <1>3, <1>4

(* Integers of one sign; then of any.                                      *)
PositiveForm(t) ==
    IF FitsSigned(FALSE, t, FixedWidth) THEN <<INT_ZERO + Len(t)>> \o t ELSE <<INT_POS_BIG>> \o BigBody(t)
NegativeForm(t) ==
    IF FitsSigned(TRUE, t, FixedWidth) THEN <<INT_ZERO - Len(Payload(t))>> \o Payload(t)
    ELSE <<INT_NEG_BIG>> \o Complement(BigBody(t))
Significant(t) == Normal(t) /\ t \in Magnitude

(* A form is a code above (below) that of zero, and bytes.                 *)
LEMMA FormHeads ==
    ASSUME NEW t, Significant(t)
    PROVE  /\ \E x \in 33..49, u \in Seq(Byte) :
                 /\ PositiveForm(t) = <<x>> \o u
                 /\ FitsSigned(FALSE, t, FixedWidth) <=> x < 49
           /\ \E x \in 15..31, u \in Seq(Byte) :
                 /\ NegativeForm(t) = <<x>> \o u
                 /\ FitsSigned(TRUE, t, FixedWidth) <=> x > 15
  <1>1. t \in Seq(Byte) /\ t # <<>> /\ t[1] # 0 /\ t \in Magnitude /\ Len(t) \in Nat /\ Len(t) # 0
    BY LenProperties, EmptySeq DEF Significant, Normal
  <1>2. FixedWidth \in Nat /\ FixedWidth <= 16
    BY WidthAssumption
  <1>3. BigBody(t) \in Seq(Byte) /\ Complement(BigBody(t)) \in Seq(Byte)
    BY <1>1, BigBodyOrder, ComplementBytes
  <1> DEFINE Above == \E x \in 33..49, u \in Seq(Byte) :
                        PositiveForm(t) = <<x>> \o u /\ (FitsSigned(FALSE, t, FixedWidth) <=> x < 49)
             Below == \E x \in 15..31, u \in Seq(Byte) :
                        NegativeForm(t) = <<x>> \o u /\ (FitsSigned(TRUE, t, FixedWidth) <=> x > 15)
  <1>4. ASSUME FitsSigned(FALSE, t, FixedWidth)
        PROVE  Above
    <2>1. Len(t) <= FixedWidth
      BY <1>1, <1>2, <1>4 DEF FitsSigned
    <2>2. INT_ZERO + Len(t) \in 33..48
      <3> DEFINE k == Len(t)
      <3>1. k \in Nat /\ k # 0 /\ k <= 16
        BY <1>1, <1>2, <2>1
      <3> HIDE DEF k
      <3>2. 32 + k \in 33..48
        BY <3>1
      <3>3. QED
        BY <3>2 DEF k, INT_ZERO
    <2>3. PositiveForm(t) = <<INT_ZERO + Len(t)>> \o t
      BY <1>4 DEF PositiveForm
    <2> DEFINE y == INT_ZERO + Len(t)
    <2>4. y \in 33..48 /\ PositiveForm(t) = <<y>> \o t
      BY <2>2, <2>3
    <2> HIDE DEF y
    <2>5. y \in 33..49 /\ y < 49
      BY <2>4
    <2>6. QED
      BY <1>1, <1>4, <2>4, <2>5
  <1>5. ASSUME ~FitsSigned(FALSE, t, FixedWidth)
        PROVE  Above
    <2>1. PositiveForm(t) = <<49>> \o BigBody(t) /\ 49 \in 33..49 /\ ~(49 < 49)
      BY <1>5 DEF PositiveForm, INT_POS_BIG
    <2>2. QED
      BY <1>3, <1>5, <2>1
  <1>6. Above
    BY <1>4, <1>5
  <1>7. ASSUME FitsSigned(TRUE, t, FixedWidth)
        PROVE  Below
    <2>1. Payload(t) \in Seq(Byte) /\ Len(Payload(t)) \in 1..Len(t) /\ Len(Payload(t)) <= FixedWidth
      BY <1>1, <1>7, NegativeSlot
    <2> DEFINE k == Len(Payload(t))
               y == INT_ZERO - k
    <2>2. k \in Nat /\ k # 0 /\ k <= 16
      BY <1>1, <1>2, <2>1
    <2> HIDE DEF k
    <2>3. 32 - k \in 16..31
      BY <2>2
    <2>4. y \in 16..31
      BY <2>3 DEF INT_ZERO
    <2>5. NegativeForm(t) = <<y>> \o Payload(t)
      BY <1>7 DEF NegativeForm, k
    <2> HIDE DEF y
    <2>6. y \in 15..31 /\ y > 15
      BY <2>4
    <2>7. QED
      BY <1>7, <2>1, <2>5, <2>6
  <1>8. ASSUME ~FitsSigned(TRUE, t, FixedWidth)
        PROVE  Below
    <2>1. NegativeForm(t) = <<15>> \o Complement(BigBody(t)) /\ 15 \in 15..31 /\ ~(15 > 15)
      BY <1>8 DEF NegativeForm, INT_NEG_BIG
    <2>2. QED
      BY <1>3, <1>8, <2>1
  <1>9. Below
    BY <1>7, <1>8
  <1>10. QED
    BY <1>6, <1>9

LEMMA PositiveOrder ==
    ASSUME NEW u, NEW v, Significant(u), Significant(v)
    PROVE  /\ Separate(PositiveForm(u), PositiveForm(v))
           /\ Compare(PositiveForm(u), PositiveForm(v)) = MagnitudeCompare(u, v)
  <1> DEFINE F(t) == FitsSigned(FALSE, t, FixedWidth)
  <1>1. /\ Normal(u) /\ Normal(v) /\ u \in Magnitude /\ v \in Magnitude /\ u \in Seq(Byte) /\ v \in Seq(Byte)
        /\ Len(u) \in Nat \ {0} /\ Len(v) \in Nat \ {0} /\ FixedWidth \in Nat
    BY LenProperties, EmptySeq, WidthAssumption DEF Significant, Normal
  <1>2. CASE F(u) /\ F(v)
    <2>1. Len(u) \in 1..FixedWidth /\ Len(v) \in 1..FixedWidth
      BY <1>1, <1>2 DEF FitsSigned
    <2>2. PositiveForm(u) = <<INT_ZERO + Len(u)>> \o u /\ PositiveForm(v) = <<INT_ZERO + Len(v)>> \o v
      BY <1>2 DEF PositiveForm
    <2>3. QED
      BY <1>1, <2>1, <2>2, PositiveSlots
  <1>3. CASE ~F(u) /\ ~F(v)
    <2>1. PositiveForm(u) = <<49>> \o BigBody(u) /\ PositiveForm(v) = <<49>> \o BigBody(v)
      BY <1>3 DEF PositiveForm, INT_POS_BIG
    <2>2. /\ BigBody(u) \in Seq(Byte) /\ BigBody(v) \in Seq(Byte) /\ Separate(BigBody(u), BigBody(v))
          /\ Compare(BigBody(u), BigBody(v)) = MagnitudeCompare(u, v) /\ 49 \in Byte
      BY <1>1, BigBodyOrder DEF Byte
    <2>3. Separate(<<49>> \o BigBody(u), <<49>> \o BigBody(v))
          /\ Compare(<<49>> \o BigBody(u), <<49>> \o BigBody(v)) = Compare(BigBody(u), BigBody(v))
      BY <2>2, SameHead
    <2>4. QED
      BY <2>1, <2>2, <2>3
  <1>4. CASE F(u) # F(v)
    <2>1. PICK x \in 33..49, p \in Seq(Byte) : PositiveForm(u) = <<x>> \o p /\ (F(u) <=> x < 49)
      BY FormHeads
    <2>2. PICK y \in 33..49, q \in Seq(Byte) : PositiveForm(v) = <<y>> \o q /\ (F(v) <=> y < 49)
      BY FormHeads
    <2>0. x \in Byte /\ y \in Byte /\ x \in Nat /\ y \in Nat /\ x <= 49 /\ y <= 49
      BY DEF Byte
    <2>3. (F(u) /\ ~F(v) /\ x < y) \/ (~F(u) /\ F(v) /\ y < x)
      <3>1. (F(u) <=> x < 49) /\ (F(v) <=> y < 49)
        BY <2>1, <2>2
      <3>2. (F(u) /\ ~F(v)) \/ (~F(u) /\ F(v))
        BY <1>4 DEF FitsSigned
      <3> HIDE DEF F
      <3>3. QED
        BY <2>0, <3>1, <3>2
    <2>4. Separate(<<x>> \o p, <<y>> \o q) /\ Compare(<<x>> \o p, <<y>> \o q) = SignOf(x - y)
      <3>1. x # y
        <4>1. x < y \/ y < x
          BY <2>3, Zenon
        <4>2. QED
          BY <2>0, <4>1
      <3>2. QED
        BY <2>0, <3>1, HeadsApart
    <2>5. CASE F(u)
      <3>1. MagnitudeCompare(u, v) = -1
        BY <1>1, <2>3, <2>5, SlotBelowBig
      <3>2. SignOf(x - y) = -1
        BY <2>0, <2>3, <2>5, LongerMagnitude
      <3>3. QED
        BY <2>1, <2>2, <2>4, <3>1, <3>2
    <2>6. CASE F(v)
      <3>1. MagnitudeCompare(u, v) = 1
        BY <1>1, <2>3, <2>6, SlotBelowBig
      <3>2. SignOf(x - y) = 1
        BY <2>0, <2>3, <2>6, LongerMagnitude
      <3>3. QED
        BY <2>1, <2>2, <2>4, <3>1, <3>2
    <2>7. QED
      BY <2>3, <2>5, <2>6
  <1>5. QED
    BY <1>2, <1>3, <1>4 DEF FitsSigned

LEMMA NegativeOrder ==
    ASSUME NEW u, NEW v, Significant(u), Significant(v)
    PROVE  /\ Separate(NegativeForm(u), NegativeForm(v))
           /\ Compare(NegativeForm(u), NegativeForm(v)) = -MagnitudeCompare(u, v)
  <1> DEFINE F(t) == FitsSigned(TRUE, t, FixedWidth)
  <1>1. /\ Normal(u) /\ Normal(v) /\ u \in Magnitude /\ v \in Magnitude /\ u \in Seq(Byte) /\ v \in Seq(Byte)
    BY DEF Significant, Normal
  <1>2. CASE F(u) /\ F(v)
    <2>1. /\ NegativeForm(u) = <<INT_ZERO - Len(Payload(u))>> \o Payload(u)
          /\ NegativeForm(v) = <<INT_ZERO - Len(Payload(v))>> \o Payload(v)
      BY <1>2 DEF NegativeForm
    <2>2. QED
      BY <1>1, <1>2, <2>1, NegativeSlots
  <1>3. CASE ~F(u) /\ ~F(v)
    <2> DEFINE a == Complement(BigBody(u))
               b == Complement(BigBody(v))
    <2>1. NegativeForm(u) = <<15>> \o a /\ NegativeForm(v) = <<15>> \o b
      BY <1>3 DEF NegativeForm, INT_NEG_BIG
    <2>2. /\ BigBody(u) \in Seq(Byte) /\ BigBody(v) \in Seq(Byte) /\ Separate(BigBody(u), BigBody(v))
          /\ Compare(BigBody(u), BigBody(v)) = MagnitudeCompare(u, v) /\ 15 \in Byte
      BY <1>1, BigBodyOrder DEF Byte
    <2>3. Separate(a, b) /\ Compare(a, b) = -Compare(BigBody(u), BigBody(v)) /\ a \in Seq(Byte) /\ b \in Seq(Byte)
      BY <2>2, ApartComplement, ComplementBytes
    <2> HIDE DEF a, b
    <2>4. Separate(<<15>> \o a, <<15>> \o b) /\ Compare(<<15>> \o a, <<15>> \o b) = Compare(a, b)
      BY <2>2, <2>3, SameHead
    <2>5. QED
      BY <2>1, <2>2, <2>3, <2>4
  <1>4. CASE F(u) # F(v)
    <2>1. PICK x \in 15..31, p \in Seq(Byte) : NegativeForm(u) = <<x>> \o p /\ (F(u) <=> x > 15)
      BY FormHeads
    <2>2. PICK y \in 15..31, q \in Seq(Byte) : NegativeForm(v) = <<y>> \o q /\ (F(v) <=> y > 15)
      BY FormHeads
    <2>0. x \in Byte /\ y \in Byte /\ x \in Nat /\ y \in Nat /\ x >= 15 /\ y >= 15
      BY DEF Byte
    <2>3. (F(u) /\ ~F(v) /\ y < x) \/ (~F(u) /\ F(v) /\ x < y)
      <3>1. (F(u) <=> x > 15) /\ (F(v) <=> y > 15)
        BY <2>1, <2>2
      <3>2. (F(u) /\ ~F(v)) \/ (~F(u) /\ F(v))
        BY <1>4 DEF FitsSigned
      <3> HIDE DEF F
      <3>3. QED
        BY <2>0, <3>1, <3>2
    <2>4. Separate(<<x>> \o p, <<y>> \o q) /\ Compare(<<x>> \o p, <<y>> \o q) = SignOf(x - y)
      <3>1. x # y
        <4>1. x < y \/ y < x
          BY <2>3, Zenon
        <4>2. QED
          BY <2>0, <4>1
      <3>2. QED
        BY <2>0, <3>1, HeadsApart
    <2> DEFINE c == MagnitudeCompare(u, v)
               d == MagnitudeCompare(v, u)
    <2>5. c \in Int /\ d \in Int /\ d = -c
      BY <1>1, MagnitudeBack
    <2>6. CASE F(u)
      <3>1. d = 1
        BY <1>1, <2>3, <2>6, SlotBelowBig
      <3>2. SignOf(x - y) = 1
        BY <2>0, <2>3, <2>6, LongerMagnitude
      <3>3. QED
        BY <2>1, <2>2, <2>4, <2>5, <3>1, <3>2
    <2>7. CASE F(v)
      <3>1. d = -1
        BY <1>1, <2>3, <2>7, SlotBelowBig
      <3>2. SignOf(x - y) = -1
        BY <2>0, <2>3, <2>7, LongerMagnitude
      <3>3. QED
        BY <2>1, <2>2, <2>4, <2>5, <3>1, <3>2
    <2>8. QED
      BY <2>3, <2>6, <2>7
  <1>5. QED
    BY <1>2, <1>3, <1>4 DEF FitsSigned

IntForm(negative, t) ==
    IF t = <<>> THEN <<INT_ZERO>> ELSE IF negative THEN NegativeForm(t) ELSE PositiveForm(t)

LEMMA IntShape ==
    ASSUME NEW negative \in BOOLEAN, NEW m \in Magnitude
    PROVE  /\ EncInt(negative, m) = IntForm(negative, Trimmed(m))
           /\ Trimmed(m) \in Seq(Byte)
           /\ Trimmed(m) # <<>> => Significant(Trimmed(m))
  <1> DEFINE t == Trimmed(m)
  <1>1. m \in Seq(Byte) /\ ByteLen(Len(m)) <= LenOfLen
    BY DEF Magnitude
  <1>2. t \in Seq(Byte) /\ Len(t) \in Nat /\ Len(t) <= Len(m) /\ (t # <<>> => t[1] # 0) /\ Len(m) \in Nat
    BY <1>1, TrimmedProperties, LenProperties
  <1>3. t \in Magnitude
    <2>1. ByteLen(Len(t)) <= ByteLen(Len(m)) /\ ByteLen(Len(t)) \in Nat /\ ByteLen(Len(m)) \in Nat
      BY <1>2, ByteLenMonotone, ToBEBytes
    <2>2. LenOfLen \in Int
      BY WidthAssumption
    <2>3. QED
      BY <1>1, <1>2, <2>1, <2>2 DEF Magnitude
  <1>4. t # <<>> => Significant(t)
    BY <1>2, <1>3 DEF Significant, Normal
  <1>5. BigBody(t) \in Seq(Byte)
    BY <1>3, BigBodyOrder
  <1>6. CASE t = <<>>
    BY <1>2, <1>6, EncIntForms DEF IntForm
  <1>7. CASE t # <<>> /\ ~FitsSigned(negative, t, FixedWidth)
    <2>1. EncInt(negative, m) = BigForm(negative, t)
      BY <1>2, <1>7, EncIntForms
    <2>2. BigForm(negative, t) = <<IF negative THEN INT_NEG_BIG ELSE INT_POS_BIG>> \o Signed(negative, BigBody(t))
      BY DEF BigForm, BigBody
    <2>3. EncInt(negative, m) = IntForm(negative, t)
      <3>1. CASE negative = TRUE
        BY <1>7, <2>1, <2>2, <3>1 DEF IntForm, NegativeForm, Signed
      <3>2. CASE negative = FALSE
        BY <1>7, <2>1, <2>2, <3>2 DEF IntForm, PositiveForm, Signed
      <3>3. QED
        BY <3>1, <3>2
    <2>4. QED
      BY <1>2, <1>4, <2>3
  <1>8. CASE t # <<>> /\ FitsSigned(negative, t, FixedWidth) /\ ~negative
    <2>1. EncInt(negative, m) = <<INT_ZERO + Len(t)>> \o t
      BY <1>2, <1>8, EncIntForms
    <2>2. negative = FALSE
      BY <1>8
    <2>3. QED
      BY <1>2, <1>4, <1>8, <2>1, <2>2 DEF IntForm, PositiveForm
  <1>9. CASE t # <<>> /\ FitsSigned(negative, t, FixedWidth) /\ negative
    <2>1. EncInt(TRUE, t) = <<INT_ZERO - Len(Payload(t))>> \o Payload(t)
      BY <1>2, <1>9, EncIntNegative
    <2>2. EncInt(TRUE, t) = EncInt(TRUE, m)
      BY <1>1, TrimmedTwice, EncIntTrimmed
    <2>3. negative = TRUE
      BY <1>9
    <2>4. QED
      BY <1>2, <1>4, <1>9, <2>1, <2>2, <2>3 DEF IntForm, NegativeForm
  <1>10. QED
    BY <1>6, <1>7, <1>8, <1>9

(* Integers of any sign and size, in slots or big, compare as numbers: the *)
(* bytes that append_int writes order by sign and then by magnitude across *)
(* every boundary of width, and differ before either of them ends.         *)
THEOREM IntOrder ==
    ASSUME NEW n \in BOOLEAN, NEW k \in BOOLEAN, NEW m \in Magnitude, NEW o \in Magnitude
    PROVE  /\ Separate(EncInt(n, m), EncInt(k, o))
           /\ Compare(EncInt(n, m), EncInt(k, o)) =
                SignedCompare(n /\ Trimmed(m) # <<>>, k /\ Trimmed(o) # <<>>,
                              MagnitudeCompare(Trimmed(m), Trimmed(o)))
  <1> DEFINE s == Trimmed(m)
             t == Trimmed(o)
             z == <<INT_ZERO>>
             C(u, v) == Compare(u, v)
  <1>1. /\ EncInt(n, m) = IntForm(n, s) /\ EncInt(k, o) = IntForm(k, t) /\ s \in Seq(Byte) /\ t \in Seq(Byte)
        /\ (s # <<>> => Significant(s)) /\ (t # <<>> => Significant(t))
    BY IntShape
  <1> HIDE DEF s, t
  <1> SUFFICES /\ Separate(IntForm(n, s), IntForm(k, t))
               /\ Compare(IntForm(n, s), IntForm(k, t))
                    = SignedCompare(n /\ s # <<>>, k /\ t # <<>>, MagnitudeCompare(s, t))
    BY <1>1 DEF s, t
  <1>2. z = <<32>> \o <<>> /\ z \in Seq(Byte) /\ <<>> \in Seq(Byte) /\ 32 \in Byte
    BY DEF INT_ZERO, Byte
  <1> DEFINE Headed(w, low, high) == \E x \in low..high, u \in Seq(Byte) : w = <<x>> \o u
  <1>3. /\ s # <<>> => Headed(PositiveForm(s), 33, 49) /\ Headed(NegativeForm(s), 15, 31)
        /\ t # <<>> => Headed(PositiveForm(t), 33, 49) /\ Headed(NegativeForm(t), 15, 31)
    BY <1>1, FormHeads
  <1>4. Headed(z, 32, 32)
    <2>1. 32 \in 32..32
      OBVIOUS
    <2>2. QED
      BY <1>2, <2>1, Zenon
  <1>5. \A v, w : \A a, b, c, d \in 15..49 : Headed(v, a, b) /\ Headed(w, c, d) /\ b < c =>
          /\ Separate(v, w) /\ C(v, w) = -1
          /\ Separate(w, v) /\ C(w, v) = 1
    <2> TAKE v, w
    <2> TAKE a, b, c, d \in 15..49
    <2> HAVE Headed(v, a, b) /\ Headed(w, c, d) /\ b < c
    <2>1. PICK x \in a..b, p \in Seq(Byte) : v = <<x>> \o p
      OBVIOUS
    <2>2. PICK y \in c..d, q \in Seq(Byte) : w = <<y>> \o q
      OBVIOUS
    <2>3. x \in Byte /\ y \in Byte /\ x # y /\ x \in Nat /\ y \in Nat /\ x < y
      <3>1. x \in a..b /\ y \in c..d /\ b < c
        BY <2>1, <2>2
      <3> HIDE DEF Headed
      <3>2. QED
        BY <3>1 DEF Byte
    <2>4. /\ Separate(<<x>> \o p, <<y>> \o q) /\ C(<<x>> \o p, <<y>> \o q) = SignOf(x - y)
          /\ Separate(<<y>> \o q, <<x>> \o p) /\ C(<<y>> \o q, <<x>> \o p) = SignOf(y - x)
      BY <2>3, HeadsApart
    <2>5. SignOf(x - y) = -1 /\ SignOf(y - x) = 1
      BY <2>3, LongerMagnitude
    <2>6. QED
      BY <2>1, <2>2, <2>4, <2>5
  <1>6. 15 \in 15..49 /\ 31 \in 15..49 /\ 32 \in 15..49 /\ 33 \in 15..49 /\ 49 \in 15..49
        /\ 31 < 32 /\ 32 < 33 /\ 31 < 33
    OBVIOUS
  <1> HIDE DEF Headed, z
  <1>7. CASE s = <<>> /\ t = <<>>
    <2>1. IntForm(n, s) = z /\ IntForm(k, t) = z
      BY <1>7 DEF IntForm, z
    <2>2. Separate(z, z) /\ Compare(z, z) = 0
      BY <1>2, CompareOrder DEF Separate
    <2>3. MagnitudeCompare(s, t) = 0
      BY <1>1, <1>7, MagnitudeBack
    <2>4. QED
      BY <1>7, <2>1, <2>2, <2>3 DEF SignedCompare
  <1>8. CASE s = <<>> /\ t # <<>>
    <2>1. IntForm(n, s) = z
      BY <1>8 DEF IntForm, z
    <2>2. MagnitudeCompare(s, t) = -1
      BY <1>1, <1>8, PadAbove DEF Significant
    <2>3. CASE k
      <3>1. IntForm(k, t) = NegativeForm(t)
        BY <1>8, <2>3 DEF IntForm
      <3>2. Separate(z, NegativeForm(t)) /\ C(z, NegativeForm(t)) = 1
        BY ZenonT(40), <1>3, <1>4, <1>5, <1>6, <1>8
      <3>3. QED
        BY <1>8, <2>1, <2>3, <3>1, <3>2 DEF SignedCompare
    <2>4. CASE ~k
      <3>1. IntForm(k, t) = PositiveForm(t)
        BY <1>8, <2>4 DEF IntForm
      <3>2. Separate(z, PositiveForm(t)) /\ C(z, PositiveForm(t)) = -1
        BY ZenonT(40), <1>3, <1>4, <1>5, <1>6, <1>8
      <3>3. QED
        BY <1>8, <2>1, <2>2, <2>4, <3>1, <3>2 DEF SignedCompare
    <2>5. QED
      BY <2>3, <2>4
  <1>9. CASE s # <<>> /\ t = <<>>
    <2>1. IntForm(k, t) = z
      BY <1>9 DEF IntForm, z
    <2>2. MagnitudeCompare(s, t) = 1
      BY <1>1, <1>9, PadAbove DEF Significant
    <2>3. CASE n
      <3>1. IntForm(n, s) = NegativeForm(s)
        BY <1>9, <2>3 DEF IntForm
      <3>2. Separate(NegativeForm(s), z) /\ C(NegativeForm(s), z) = -1
        BY ZenonT(40), <1>3, <1>4, <1>5, <1>6, <1>9
      <3>3. QED
        BY <1>9, <2>1, <2>3, <3>1, <3>2 DEF SignedCompare
    <2>4. CASE ~n
      <3>1. IntForm(n, s) = PositiveForm(s)
        BY <1>9, <2>4 DEF IntForm
      <3>2. Separate(PositiveForm(s), z) /\ C(PositiveForm(s), z) = 1
        BY <1>3, <1>4, <1>5, <1>6, <1>9
      <3>3. QED
        BY <1>9, <2>1, <2>2, <2>4, <3>1, <3>2 DEF SignedCompare
    <2>5. QED
      BY <2>3, <2>4
  <1>10. CASE s # <<>> /\ t # <<>>
    <2>1. CASE n /\ k
      <3>1. IntForm(n, s) = NegativeForm(s) /\ IntForm(k, t) = NegativeForm(t)
        BY <1>10, <2>1 DEF IntForm
      <3>2. QED
        BY <1>1, <1>10, <2>1, <3>1, NegativeOrder DEF SignedCompare
    <2>2. CASE ~n /\ ~k
      <3>1. IntForm(n, s) = PositiveForm(s) /\ IntForm(k, t) = PositiveForm(t)
        BY <1>10, <2>2 DEF IntForm
      <3>2. QED
        BY <1>1, <1>10, <2>2, <3>1, PositiveOrder DEF SignedCompare
    <2>3. CASE n /\ ~k
      <3>1. IntForm(n, s) = NegativeForm(s) /\ IntForm(k, t) = PositiveForm(t)
        BY <1>10, <2>3 DEF IntForm
      <3>2. Separate(NegativeForm(s), PositiveForm(t)) /\ C(NegativeForm(s), PositiveForm(t)) = -1
        BY ZenonT(40), <1>3, <1>5, <1>6, <1>10
      <3>3. QED
        BY <1>10, <2>3, <3>1, <3>2 DEF SignedCompare
    <2>4. CASE ~n /\ k
      <3>1. IntForm(n, s) = PositiveForm(s) /\ IntForm(k, t) = NegativeForm(t)
        BY <1>10, <2>4 DEF IntForm
      <3>2. Separate(PositiveForm(s), NegativeForm(t)) /\ C(PositiveForm(s), NegativeForm(t)) = 1
        BY <1>3, <1>5, <1>6, <1>10
      <3>3. QED
        BY <1>10, <2>4, <3>1, <3>2 DEF SignedCompare
    <2>5. QED
      BY <2>1, <2>2, <2>3, <2>4
  <1>11. QED
    BY <1>7, <1>8, <1>9, <1>10

(* The magnitude of an exponent in range is encodable. *)
LEMMA ExponentMagnitude ==
    ASSUME NEW e \in Int, InExpRange(e)
    PROVE  ToBE(IF e < 0 THEN -e ELSE e) \in Magnitude
  <1> DEFINE a == IF e < 0 THEN -e ELSE e
             m == ToBE(a)
  <1>1. MaxExp \in Nat
    BY WidthAssumption
  <1>2. a \in Nat /\ MaxExp + 1 \in Nat /\ a <= MaxExp + 1
    BY <1>1 DEF InExpRange
  <1> HIDE DEF a
  <1>4. m \in Seq(Byte) /\ Len(m) = ByteLen(a) /\ ByteLen(a) \in Nat
    BY <1>2, ToBEBytes
  <1>5. ByteLen(a) <= 4
    <2> DEFINE x == ByteLen(a)
               y == ByteLen(MaxExp + 1)
    <2>1. x <= y /\ y <= 4 /\ x \in Nat /\ y \in Nat
      BY <1>2, ByteLenMonotone, ExponentAssumption, ToBEBytes
    <2> HIDE DEF x, y
    <2>2. x <= 4
      BY <2>1
    <2>3. QED
      BY <2>2 DEF x
  <1>6. ByteLen(a) \in Byte
    <2> DEFINE x == ByteLen(a)
    <2>1. x \in Nat /\ x <= 4
      BY <1>4, <1>5
    <2> HIDE DEF x
    <2>2. x \in Byte
      BY <2>1 DEF Byte
    <2>3. QED
      BY <2>2 DEF x
  <1>7. ByteLen(Len(m)) <= LenOfLen
    <2> DEFINE x == ByteLen(Len(m))
    <2>1. x <= 1 /\ x \in Nat
      BY <1>4, <1>6, ShortNumbers, ToBEBytes
    <2> HIDE DEF x
    <2>2. LenOfLen \in 1..8
      BY WidthAssumption
    <2>3. x <= LenOfLen
      BY <2>1, <2>2
    <2>4. QED
      BY <2>3 DEF x
  <1> HIDE DEF m
  <1>8. m \in Magnitude
    BY <1>4, <1>7 DEF Magnitude
  <1>9. QED
    BY <1>8 DEF m, a

(* Exponents sort as numbers. *)
LEMMA AdjExpOrder ==
    ASSUME NEW e \in Int, NEW f \in Int, InExpRange(e), InExpRange(f)
    PROVE  /\ Separate(EncAdjExp(e), EncAdjExp(f))
           /\ Compare(EncAdjExp(e), EncAdjExp(f)) = SignOf(e - f)
  <1> DEFINE a == IF e < 0 THEN -e ELSE e
             b == IF f < 0 THEN -f ELSE f
             m == ToBE(a)
             o == ToBE(b)
             c == MagnitudeCompare(m, o)
  <1>1. a \in Nat /\ b \in Nat /\ (e < 0) \in BOOLEAN /\ (f < 0) \in BOOLEAN
    OBVIOUS
  <1>2. EncAdjExp(e) = EncInt(e < 0, m) /\ EncAdjExp(f) = EncInt(f < 0, o)
    BY Zenon DEF EncAdjExp
  <1>3. m \in Magnitude /\ o \in Magnitude
    BY ExponentMagnitude
  <1>4. SignOf(a - b) = SignedCompare(e < 0, f < 0, SignOf(e - f)) \/ (e < 0) # (f < 0)
    BY DEF SignedCompare, SignOf
  <1>5. SignedCompare(e < 0, f < 0, SignOf(a - b)) = SignOf(e - f)
    BY DEF SignedCompare, SignOf
  <1>6. (e < 0 => a # 0) /\ (f < 0 => b # 0)
    OBVIOUS
  <1> HIDE DEF a, b
  <1>7. c = SignOf(a - b)
    BY <1>1, ToBEOrder
  <1>8. Trimmed(m) = m /\ Trimmed(o) = o
    BY <1>1, ToBETrimmed
  <1>9. \A n \in Nat : n # 0 => ToBE(n) # <<>>
    <2>1. SUFFICES ASSUME NEW n \in Nat, n # 0, ToBE(n) = <<>>
                   PROVE  FALSE
      BY Zenon
    <2>2. ToBE(0) = <<>>
      BY ToBEUnfold
    <2>3. QED
      BY <2>1, <2>2, ToBEInjective
  <1> HIDE DEF m, o
  <1>10. ((e < 0) /\ m # <<>>) = (e < 0) /\ ((f < 0) /\ o # <<>>) = (f < 0)
    BY <1>1, <1>6, <1>9 DEF m, o
  <1>11. Separate(EncInt(e < 0, m), EncInt(f < 0, o))
         /\ Compare(EncInt(e < 0, m), EncInt(f < 0, o))
              = SignedCompare((e < 0) /\ m # <<>>, (f < 0) /\ o # <<>>, c)
    <2> DEFINE n == e < 0
               k == f < 0
    <2>1. n \in BOOLEAN /\ k \in BOOLEAN
      BY <1>1
    <2> HIDE DEF n, k
    <2>2. /\ Separate(EncInt(n, m), EncInt(k, o))
          /\ Compare(EncInt(n, m), EncInt(k, o)) =
                SignedCompare(n /\ Trimmed(m) # <<>>, k /\ Trimmed(o) # <<>>,
                              MagnitudeCompare(Trimmed(m), Trimmed(o)))
      BY <2>1, <1>3, IntOrder
    <2>3. QED
      BY <2>2, <1>8, Zenon DEF n, k
  <1> HIDE DEF c
  <1>12. QED
    BY <1>2, <1>5, <1>7, <1>10, <1>11, Zenon

Terminated(d) == DigitPairs(d) \o <<TERMINATOR>>
LEMMA PairAt ==
    ASSUME NEW d \in Seq(0..9)
    PROVE  /\ Terminated(d) \in Seq(Byte)
           /\ Len(Terminated(d)) = ((Len(d) + 1) \div 2) + 1
           /\ Terminated(d)[((Len(d) + 1) \div 2) + 1] = 0
           /\ \A j \in 1..((Len(d) + 1) \div 2) :
                /\ Terminated(d)[j] = d[2*j - 1] * 10 + (IF 2*j <= Len(d) THEN d[2*j] ELSE 0) + 1
                /\ Terminated(d)[j] \in Nat /\ Terminated(d)[j] >= 1
                /\ 2*j - 1 \in 1..Len(d) /\ (2*j <= Len(d) => 2*j \in 1..Len(d))
  <1> DEFINE h == (Len(d) + 1) \div 2
             p == DigitPairs(d)
  <1>1. h \in Nat /\ Len(d) \in Nat /\ 2*h <= Len(d) + 1
    OBVIOUS
  <1>2. p \in Seq(Byte)
    BY DigitPairsBytes
  <1>3. Len(p) = h /\ \A j \in 1..h : p[j] = d[2*j - 1] * 10 + (IF 2*j <= Len(d) THEN d[2*j] ELSE 0) + 1
    <2>1. p = [k \in 1..h |-> d[2*k - 1] * 10 + (IF 2*k <= Len(d) THEN d[2*k] ELSE 0) + 1]
      BY Zenon DEF DigitPairs
    <2> HIDE DEF p, h
    <2>2. DOMAIN p = 1..h
      BY <2>1, Zenon
    <2>3. Len(p) = h
      BY <1>1, <1>2, <2>2
    <2>4. \A j \in 1..h : p[j] = d[2*j - 1] * 10 + (IF 2*j <= Len(d) THEN d[2*j] ELSE 0) + 1
      BY <2>1, Zenon
    <2>5. QED
      BY <2>3, <2>4
  <1>4. \A j \in 1..h : 2*j - 1 \in 1..Len(d) /\ (2*j <= Len(d) => 2*j \in 1..Len(d))
    BY <1>1
  <1>5. \A i \in 1..Len(d) : d[i] \in Nat
    <2>1. \A i \in 1..Len(d) : d[i] \in 0..9
      OBVIOUS
    <2>2. QED
      BY <2>1
  <1> HIDE DEF p, h
  <1>6. \A j \in 1..h : p[j] \in Nat /\ p[j] >= 1
    <2>1. SUFFICES ASSUME NEW j \in 1..h
                   PROVE  p[j] \in Nat /\ p[j] >= 1
      OBVIOUS
    <2> DEFINE x == d[2*j - 1]
               y == IF 2*j <= Len(d) THEN d[2*j] ELSE 0
    <2>2. x \in Nat /\ y \in Nat
      BY <1>4, <1>5
    <2>3. p[j] = x * 10 + y + 1
      BY <1>3, Zenon
    <2> HIDE DEF x, y
    <2>4. QED
      BY <2>2, <2>3
  <1> DEFINE z == <<TERMINATOR>>
             w == p \o z
  <1>7. z \in Seq(Byte) /\ Len(z) = 1 /\ z[1] = 0
    BY DEF TERMINATOR, Byte
  <1> HIDE DEF z
  <1>8. w \in Seq(Byte) /\ Len(w) = h + 1 /\ w[h + 1] = 0 /\ \A j \in 1..h : w[j] = p[j]
    <2> USE <1>2, <1>7
    <2>0. w \in Seq(Byte)
      OBVIOUS
    <2>1. Len(w) = Len(p) + Len(z)
      BY ConcatProperties
    <2>2. \A j \in 1..h : w[j] = p[j]
      BY <1>1, <1>2, <1>3, <1>7
    <2>3. w[h + 1] = z[1]
      <3> DEFINE i == h + 1
      <3>1. i \in 1..(Len(p) + Len(z)) /\ i > Len(p) /\ i - Len(p) = 1
        BY <1>1, <1>3
      <3> HIDE DEF i
      <3>2. w[i] = z[i - Len(p)]
        BY SMTT(30), <3>1, ConcatProperties
      <3>3. QED
        BY <3>1, <3>2 DEF i
    <2>4. QED
      BY <2>0, <2>1, <2>2, <2>3, <1>3, <1>7
  <1>9. w = Terminated(d)
    BY DEF w, z, p, Terminated
  <1> HIDE DEF w
  <1>10. /\ Terminated(d) \in Seq(Byte) /\ Len(Terminated(d)) = h + 1 /\ Terminated(d)[h + 1] = 0
         /\ \A j \in 1..h : Terminated(d)[j] = p[j]
    BY <1>8, <1>9, Zenon
  <1>11. \A j \in 1..h :
                /\ Terminated(d)[j] = d[2*j - 1] * 10 + (IF 2*j <= Len(d) THEN d[2*j] ELSE 0) + 1
                /\ Terminated(d)[j] \in Nat /\ Terminated(d)[j] >= 1
                /\ 2*j - 1 \in 1..Len(d) /\ (2*j <= Len(d) => 2*j \in 1..Len(d))
    BY <1>3, <1>4, <1>6, <1>10, Zenon
  <1>12. QED
    BY <1>10, <1>11, Zenon DEF h

(* Digits that part, part in the pair that holds them. *)
LEMMA PairsPart ==
    ASSUME NEW k \in Seq(0..9), NEW l \in Seq(0..9), NEW i, PartAt(k, l, i)
    PROVE  \E j : PartAt(Terminated(k), Terminated(l), j)
                  /\ SignOf(Terminated(k)[j] - Terminated(l)[j]) = SignOf(k[i] - l[i])
  <1> DEFINE j == (i + 1) \div 2
             m == (Len(k) + 1) \div 2
             n == (Len(l) + 1) \div 2
             u == Terminated(k)
             v == Terminated(l)
  <1>1. i \in Nat /\ i >= 1 /\ i <= Len(k) /\ i <= Len(l) /\ Len(k) \in Nat /\ Len(l) \in Nat
        /\ k[i] # l[i] /\ \A h \in 1..(i - 1) : k[h] = l[h]
    BY DEF PartAt
  <1>2. j \in Nat /\ j >= 1 /\ j <= m /\ j <= n /\ (i = 2*j - 1 \/ i = 2*j) /\ m \in Nat /\ n \in Nat
    BY <1>1
  <1>3. \A h \in 1..Len(k) : k[h] \in 0..9
    OBVIOUS
  <1>4. \A h \in 1..Len(l) : l[h] \in 0..9
    OBVIOUS
  <1>5. /\ Len(u) = m + 1
        /\ \A h \in 1..m :
             /\ u[h] = k[2*h - 1] * 10 + (IF 2*h <= Len(k) THEN k[2*h] ELSE 0) + 1
             /\ u[h] \in Nat
    BY PairAt, Zenon
  <1>6. /\ Len(v) = n + 1
        /\ \A h \in 1..n :
             /\ v[h] = l[2*h - 1] * 10 + (IF 2*h <= Len(l) THEN l[2*h] ELSE 0) + 1
             /\ v[h] \in Nat
    BY PairAt, Zenon
  <1> HIDE DEF u, v, m, n, j
  <1>7. \A h \in 1..(j - 1) : u[h] = v[h]
    <2>1. SUFFICES ASSUME NEW h \in 1..(j - 1)
                   PROVE  u[h] = v[h]
      BY Zenon
    <2>2. h \in 1..m /\ h \in 1..n /\ 2*h - 1 \in 1..(i - 1) /\ 2*h \in 1..(i - 1)
          /\ 2*h <= Len(k) /\ 2*h <= Len(l)
      BY <1>1, <1>2
    <2>3. k[2*h - 1] = l[2*h - 1] /\ k[2*h] = l[2*h]
      BY <2>2, <1>1, Zenon
    <2>4. QED
      BY <2>2, <2>3, <1>5, <1>6, Zenon
  <1>8. j \in 1..m /\ j \in 1..n
    BY <1>2
  <1> DEFINE x == k[2*j - 1]
             y == l[2*j - 1]
             s == IF 2*j <= Len(k) THEN k[2*j] ELSE 0
             t == IF 2*j <= Len(l) THEN l[2*j] ELSE 0
  <1>9. u[j] = x * 10 + s + 1 /\ v[j] = y * 10 + t + 1
    BY <1>5, <1>6, <1>8, Zenon
  <1>10. /\ x \in 0..9 /\ y \in 0..9 /\ s \in 0..9 /\ t \in 0..9
         /\ (i = 2*j - 1 => x = k[i] /\ y = l[i])
         /\ (i = 2*j => x = y /\ s = k[i] /\ t = l[i])
    BY <1>1, <1>2, <1>3, <1>4
  <1> HIDE DEF x, y, s, t
  <1>11. u[j] # v[j] /\ SignOf(u[j] - v[j]) = SignOf(k[i] - l[i])
    <2>1. ASSUME i = 2*j - 1
          PROVE  u[j] # v[j] /\ SignOf(u[j] - v[j]) = SignOf(k[i] - l[i])
      BY <2>1, <1>9, <1>10, <1>1 DEF SignOf
    <2>2. ASSUME i = 2*j
          PROVE  u[j] # v[j] /\ SignOf(u[j] - v[j]) = SignOf(k[i] - l[i])
      BY <2>2, <1>9, <1>10, <1>1 DEF SignOf
    <2>3. QED
      BY <2>1, <2>2, <1>2
  <1>12. j \in 1..Len(u) /\ j \in 1..Len(v)
    BY <1>2, <1>5, <1>6
  <1>13. PartAt(u, v, j)
    BY <1>7, <1>11, <1>12 DEF PartAt
  <1>14. QED
    BY <1>11, <1>13, Zenon DEF u, v

(* Digits that go on after those of a prefix are greater. *)
LEMMA PairsPrefix ==
    ASSUME NEW k \in Seq(0..9), NEW l \in Seq(0..9), Len(k) < Len(l), l[Len(l)] # 0,
           \A j \in 1..Len(k) : k[j] = l[j]
    PROVE  \E j : PartAt(Terminated(k), Terminated(l), j) /\ Terminated(k)[j] - Terminated(l)[j] < 0
                  /\ Terminated(k)[j] \in Int /\ Terminated(l)[j] \in Int
  <1> DEFINE a == Len(k)
             b == Len(l)
             m == (a + 1) \div 2
             n == (b + 1) \div 2
             u == Terminated(k)
             v == Terminated(l)
  <1>1. a \in Nat /\ b \in Nat /\ a < b /\ m \in Nat /\ n \in Nat
    OBVIOUS
  <1>2. \A h \in 1..a : k[h] \in Nat
    <2>1. \A h \in 1..a : k[h] \in 0..9
      OBVIOUS
    <2>2. QED
      BY <2>1
  <1>3. \A h \in 1..b : l[h] \in Nat
    <2>1. \A h \in 1..b : l[h] \in 0..9
      OBVIOUS
    <2>2. QED
      BY <2>1
  <1>5. /\ Len(u) = m + 1 /\ u[m + 1] = 0
        /\ \A h \in 1..m :
             /\ u[h] = k[2*h - 1] * 10 + (IF 2*h <= a THEN k[2*h] ELSE 0) + 1
             /\ u[h] \in Nat
    BY PairAt, Zenon
  <1>6. /\ Len(v) = n + 1
        /\ \A h \in 1..n :
             /\ v[h] = l[2*h - 1] * 10 + (IF 2*h <= b THEN l[2*h] ELSE 0) + 1
             /\ v[h] \in Nat /\ v[h] >= 1
    BY PairAt, Zenon
  <1>4. \A j \in 1..a : k[j] = l[j]
    OBVIOUS
  <1>7. l[b] # 0
    OBVIOUS
  <1> HIDE DEF u, v, a, b
  <1>8. \A h \in 1..m : 2*h <= a => h \in 1..n /\ u[h] = v[h]
    <2>1. SUFFICES ASSUME NEW h \in 1..m, 2*h <= a
                   PROVE  h \in 1..n /\ u[h] = v[h]
      BY Zenon
    <2>2. h \in 1..n /\ 2*h - 1 \in 1..a /\ 2*h \in 1..a /\ 2*h <= b
      BY <1>1, <2>1
    <2>3. k[2*h - 1] = l[2*h - 1] /\ k[2*h] = l[2*h]
      BY <2>2, <1>4, Zenon
    <2>4. QED
      BY <2>1, <2>2, <2>3, <1>5, <1>6, Zenon
  <1>9. (a = 2*m \/ a = 2*m - 1) /\ m <= n /\ (a = 2*m => m + 1 <= n) /\ (a + 2 <= b => m + 1 <= n)
    BY <1>1
  <1> HIDE DEF m, n
  <1>10. ASSUME m + 1 <= n, \A h \in 1..m : u[h] = v[h]
         PROVE  PartAt(u, v, m + 1) /\ u[m + 1] - v[m + 1] < 0 /\ u[m + 1] \in Int /\ v[m + 1] \in Int
    <2>1. m + 1 \in 1..n /\ m + 1 \in 1..(n + 1) /\ m + 1 \in 1..(m + 1) /\ (m + 1) - 1 = m
      BY <1>1, <1>10
    <2> DEFINE i == m + 1
    <2>2. v[i] \in Nat /\ v[i] >= 1 /\ u[i] = 0
      BY <2>1, <1>5, <1>6, Zenon
    <2>3. i \in 1..Len(u) /\ i \in 1..Len(v) /\ i - 1 = m
      BY <2>1, <1>5, <1>6, Zenon
    <2> HIDE DEF i
    <2>4. u[i] - v[i] < 0 /\ u[i] # v[i]
      BY <2>2
    <2>5. PartAt(u, v, i)
      BY <2>3, <2>4, <1>10, Zenon DEF PartAt
    <2>6. PartAt(u, v, i) /\ u[i] - v[i] < 0 /\ u[i] \in Int /\ v[i] \in Int
      BY <2>2, <2>4, <2>5
    <2>7. QED
      BY <2>6, Zenon DEF i
  <1>11. ASSUME a = 2*m
         PROVE  \E j : PartAt(u, v, j) /\ u[j] - v[j] < 0 /\ u[j] \in Int /\ v[j] \in Int
    <2>1. \A h \in 1..m : 2*h <= a
      BY <1>1, <1>11
    <2>2. \A h \in 1..m : u[h] = v[h]
      BY <2>1, <1>8, Zenon
    <2>3. m + 1 <= n
      BY <1>9, <1>11
    <2>4. QED
      BY <2>2, <2>3, <1>10, Zenon
  <1>12. ASSUME a = 2*m - 1
         PROVE  \E j : PartAt(u, v, j) /\ u[j] - v[j] < 0 /\ u[j] \in Int /\ v[j] \in Int
    <2>1. m \in 1..m /\ m \in 1..n /\ ~(2*m <= a) /\ a = 2*m - 1 /\ 2*m - 1 \in 1..a /\ 2*m <= b
          /\ a \in 1..a /\ a \in 1..b /\ 2*m \in 1..b
      BY <1>1, <1>9, <1>12
    <2>2. u[m] = k[a] * 10 + 0 + 1 /\ v[m] = l[a] * 10 + l[2*m] + 1 /\ u[m] \in Nat /\ v[m] \in Nat
      BY <2>1, <1>5, <1>6
    <2>3. k[a] = l[a] /\ l[a] \in Nat /\ l[2*m] \in Nat
      BY <2>1, <1>3, <1>4, Zenon
    <2>4. u[m] - v[m] = -l[2*m] /\ (l[2*m] # 0 => u[m] - v[m] < 0) /\ (l[2*m] = 0 => u[m] = v[m])
      <3> DEFINE x == u[m]
                 y == v[m]
                 s == k[a]
                 t == l[a]
                 z == l[2*m]
      <3>1. x \in Nat /\ y \in Nat /\ s = t /\ t \in Nat /\ z \in Nat /\ x = s * 10 + 0 + 1 /\ y = t * 10 + z + 1
        BY <2>2, <2>3, Zenon
      <3> HIDE DEF x, y, s, t, z
      <3>2. x - y = -z /\ (z # 0 => x - y < 0) /\ (z = 0 => x = y)
        BY <3>1
      <3>3. QED
        BY <3>2, Zenon DEF x, y, z
    <2>5. \A h \in 1..(m - 1) : h \in 1..m /\ 2*h <= a
      BY <1>1, <2>1
    <2>6. \A h \in 1..(m - 1) : u[h] = v[h]
      BY <2>5, <1>8, Zenon
    <2>7. ASSUME l[2*m] # 0
          PROVE  \E j : PartAt(u, v, j) /\ u[j] - v[j] < 0 /\ u[j] \in Int /\ v[j] \in Int
      <3>1. m \in 1..Len(u) /\ m \in 1..Len(v)
        BY <1>1, <1>5, <1>6, <2>1
      <3>2. u[m] # v[m] /\ u[m] - v[m] < 0 /\ u[m] \in Int /\ v[m] \in Int
        BY <2>4, <2>2, <2>7
      <3>3. PartAt(u, v, m)
        BY <3>1, <3>2, <2>6, Zenon DEF PartAt
      <3>4. QED
        BY <3>2, <3>3, Zenon
    <2>8. ASSUME l[2*m] = 0
          PROVE  \E j : PartAt(u, v, j) /\ u[j] - v[j] < 0 /\ u[j] \in Int /\ v[j] \in Int
      <3>1. 2*m # b
        BY <1>7, <2>8, Zenon
      <3>2. m + 1 <= n
        BY <3>1, <2>1, <1>1, <1>9
      <3>3. \A h \in 1..m : h = m \/ h \in 1..(m - 1)
        BY <1>1
      <3>4. \A h \in 1..m : u[h] = v[h]
        BY <3>3, <2>4, <2>6, <2>8, Zenon
      <3>5. QED
        BY <3>2, <3>4, <1>10, Zenon
    <2>9. QED
      BY <2>7, <2>8, Zenon
  <1>13. QED
    BY <1>9, <1>11, <1>12, Zenon DEF u, v

(* Digits after the point sort as the bytes of their pairs. *)
LEMMA PairsOrder ==
    ASSUME NEW k \in Seq(0..9), NEW l \in Seq(0..9), k # <<>>, l # <<>>, k[Len(k)] # 0, l[Len(l)] # 0
    PROVE  Separate(Terminated(k), Terminated(l)) /\ Compare(Terminated(k), Terminated(l)) = Compare(k, l)
  <1> DEFINE u == Terminated(k)
             v == Terminated(l)
  <1>1. u \in Seq(Byte) /\ v \in Seq(Byte)
    BY PairAt, Zenon
  <1>2. k \in Seq(Byte) /\ l \in Seq(Byte)
    BY DEF Byte
  <1>3. Len(k) \in Nat /\ Len(l) \in Nat
    OBVIOUS
  <1> HIDE DEF u, v
  <1>4. ASSUME NEW i, PartAt(k, l, i)
        PROVE  Separate(u, v) /\ Compare(u, v) = Compare(k, l)
    <2>1. PICK j : PartAt(u, v, j) /\ SignOf(u[j] - v[j]) = SignOf(k[i] - l[i])
      BY <1>4, PairsPart, Zenon DEF u, v
    <2>2. Compare(u, v) = SignOf(u[j] - v[j]) /\ Compare(k, l) = SignOf(k[i] - l[i])
      BY <1>1, <1>2, <1>4, <2>1, CompareAt
    <2>3. QED
      BY <2>1, <2>2, Zenon DEF Separate
  <1>5. ASSUME StartOf(k, l), Len(k) = Len(l)
        PROVE  Separate(u, v) /\ Compare(u, v) = Compare(k, l)
    <2>1. k = l
      BY <1>2, <1>5, ComparePrefix
    <2>2. u = v
      BY <2>1, Zenon DEF u, v
    <2>3. Compare(u, v) = 0 /\ Compare(k, l) = 0
      BY <2>1, <2>2, <1>1, <1>2, CompareOrder
    <2>4. QED
      BY <2>2, <2>3, Zenon DEF Separate
  <1>6. ASSUME StartOf(k, l), Len(k) < Len(l)
        PROVE  Separate(u, v) /\ Compare(u, v) = Compare(k, l)
    <2>1. \A j \in 1..Len(k) : k[j] = l[j]
      BY <1>6, Zenon DEF StartOf
    <2>2. PICK j : PartAt(u, v, j) /\ u[j] - v[j] < 0 /\ u[j] \in Int /\ v[j] \in Int
      BY <1>6, <2>1, PairsPrefix, Zenon DEF u, v
    <2>3. Compare(u, v) = SignOf(u[j] - v[j])
      BY <1>1, <2>2, CompareAt
    <2>4. Compare(k, l) = SignOf(Len(k) - Len(l))
      BY <1>2, <1>6, ComparePrefix
    <2>5. SignOf(u[j] - v[j]) = SignOf(Len(k) - Len(l))
      BY <2>2, <1>6, <1>3 DEF SignOf
    <2>6. QED
      BY <2>2, <2>3, <2>4, <2>5, Zenon DEF Separate
  <1>7. ASSUME StartOf(l, k), Len(l) < Len(k)
        PROVE  Separate(u, v) /\ Compare(u, v) = Compare(k, l)
    <2>1. \A j \in 1..Len(l) : l[j] = k[j]
      BY <1>7, Zenon DEF StartOf
    <2>2. PICK j : PartAt(v, u, j) /\ v[j] - u[j] < 0 /\ v[j] \in Int /\ u[j] \in Int
      BY <1>7, <2>1, PairsPrefix, Zenon DEF u, v
    <2>3. Compare(u, v) = SignOf(u[j] - v[j]) /\ PartAt(u, v, j)
      BY <1>1, <2>2, CompareAt
    <2>4. Compare(k, l) = SignOf(Len(k) - Len(l))
      BY <1>2, <1>7, ComparePrefix
    <2>5. SignOf(u[j] - v[j]) = SignOf(Len(k) - Len(l))
      BY <2>2, <1>7, <1>3 DEF SignOf
    <2>6. QED
      BY <2>3, <2>4, <2>5, Zenon DEF Separate
  <1>8. (\E i : PartAt(k, l, i)) \/ StartOf(k, l) \/ StartOf(l, k)
    BY <1>2, PartOrPrefix
  <1>9. (StartOf(k, l) => Len(k) = Len(l) \/ Len(k) < Len(l))
        /\ (StartOf(l, k) => Len(l) < Len(k) \/ (StartOf(k, l) /\ Len(k) = Len(l)))
    BY <1>3 DEF StartOf
  <1>10. QED
    BY <1>4, <1>5, <1>6, <1>7, <1>8, <1>9, Zenon DEF u, v

DecimalOf(negative, sig, adj) ==
    IF sig = <<>> THEN [kind |-> "decimal", neg |-> FALSE, digits |-> <<>>, adj |-> 0]
    ELSE [kind |-> "decimal", neg |-> negative, digits |-> Kept(sig), adj |-> adj]
DecimalBytes(negative, sig, adj) ==
    IF sig = <<>> THEN <<DECIMAL>> \o <<DEC_SIGN_ZERO>>
    ELSE DecimalForm(negative, adj, Kept(sig))
Fraction(k) == k \in Seq(0..9) /\ k # <<>> /\ k[Len(k)] # 0

(* Scale and digits, as they are stored. *)
LEMMA TailOrder ==
    ASSUME NEW e \in Int, NEW f \in Int, InExpRange(e), InExpRange(f),
           NEW k, NEW l, Fraction(k), Fraction(l)
    PROVE  /\ Separate(DecimalTail(e, k), DecimalTail(f, l))
           /\ Compare(DecimalTail(e, k), DecimalTail(f, l)) = Then(SignOf(e - f), Compare(k, l))
  <1> DEFINE u == EncAdjExp(e)
             v == EncAdjExp(f)
             a == Terminated(k)
             b == Terminated(l)
  <1>1. /\ u \in Seq(Byte) /\ a \in Seq(Byte) /\ DecimalTail(e, k) = u \o a
    BY DecimalTailBytes, Zenon DEF Terminated, Fraction
  <1>2. /\ v \in Seq(Byte) /\ b \in Seq(Byte) /\ DecimalTail(f, l) = v \o b
    BY DecimalTailBytes, Zenon DEF Terminated, Fraction
  <1>3. Separate(u, v) /\ Compare(u, v) = SignOf(e - f)
    BY AdjExpOrder, Zenon
  <1>4. Separate(a, b) /\ Compare(a, b) = Compare(k, l)
    BY PairsOrder, Zenon DEF Fraction
  <1> HIDE DEF u, v, a, b
  <1>5. Separate(u \o a, v \o b)
    BY <1>1, <1>2, <1>3, <1>4, ApartConcat, Zenon
  <1>6. Compare(u \o a, v \o b) = Then(Compare(u, v), Compare(a, b))
    BY <1>1, <1>2, <1>3, ApartThen, ZenonT(40)
  <1>7. QED
    BY <1>1, <1>2, <1>3, <1>4, <1>5, <1>6, Zenon

(* A decimal is a code, a sign marker and more. *)
LEMMA DecimalHead ==
    ASSUME NEW negative \in BOOLEAN, NEW e \in Int, InExpRange(e), NEW k, Fraction(k)
    PROVE  /\ Signed(negative, DecimalTail(e, k)) \in Seq(Byte)
           /\ DecimalForm(negative, e, k) =
                <<DECIMAL>> \o (<<IF negative THEN DEC_SIGN_NEG ELSE DEC_SIGN_POS>> \o Signed(negative, DecimalTail(e, k)))
  <1> DEFINE w == Signed(negative, DecimalTail(e, k))
             x == IF negative THEN DEC_SIGN_NEG ELSE DEC_SIGN_POS
  <1>1. DecimalTail(e, k) \in Seq(Byte)
    BY DecimalTailBytes, Zenon DEF Fraction
  <1>2. w \in Seq(Byte)
    BY <1>1, ComplementBytes, Zenon DEF Signed
  <1>3. x \in Byte /\ DECIMAL \in Byte
    BY DEF DEC_SIGN_NEG, DEC_SIGN_POS, DECIMAL, Byte
  <1>4. DecimalForm(negative, e, k) = <<DECIMAL, x>> \o w
    BY Zenon DEF DecimalForm
  <1> HIDE DEF w, x
  <1>5. <<DECIMAL, x>> = <<DECIMAL>> \o <<x>>
    BY <1>3
  <1>6. <<x>> \in Seq(Byte)
    BY <1>3
  <1>7. (<<DECIMAL>> \o <<x>>) \o w = <<DECIMAL>> \o (<<x>> \o w)
    BY <1>2, <1>3, <1>6, HeadAssociative, Zenon
  <1>8. QED
    BY <1>2, <1>4, <1>5, <1>7, Zenon DEF w, x

(* Decimals of any sign compare as numbers: by sign, adjusted exponent and *)
(* significant digits, whatever the lengths of exponent and digits.        *)
THEOREM DecimalBytesOrder ==
    ASSUME NEW n \in BOOLEAN, NEW m \in BOOLEAN, NEW s \in Seq(0..9), NEW t \in Seq(0..9),
           NEW e \in Int, NEW f \in Int,
           s # <<>> => s[1] # 0 /\ InExpRange(e), t # <<>> => t[1] # 0 /\ InExpRange(f)
    PROVE  /\ DecimalBytes(n, s, e) \in Seq(Byte) /\ DecimalBytes(m, t, f) \in Seq(Byte)
           /\ Separate(DecimalBytes(n, s, e), DecimalBytes(m, t, f))
           /\ Compare(DecimalBytes(n, s, e), DecimalBytes(m, t, f)) =
                SignedCompare(DecimalOf(n, s, e).neg, DecimalOf(m, t, f).neg,
                              DecimalMagnitudeCompare(DecimalOf(n, s, e), DecimalOf(m, t, f)))
  <1> DEFINE k == Kept(s)
             l == Kept(t)
             p == Signed(n, DecimalTail(e, k))
             q == Signed(m, DecimalTail(f, l))
             x == IF s = <<>> THEN 2 ELSE IF n THEN 1 ELSE 3
             y == IF t = <<>> THEN 2 ELSE IF m THEN 1 ELSE 3
             u == DecimalBytes(n, s, e)
             v == DecimalBytes(m, t, f)
             X == DecimalOf(n, s, e)
             Y == DecimalOf(m, t, f)
             z == <<>>
  <1>1. s # <<>> => /\ Fraction(k) /\ p \in Seq(Byte) /\ u = <<DECIMAL>> \o (<<x>> \o p)
                    /\ DecimalTail(e, k) \in Seq(Byte)
    <2>1. SUFFICES ASSUME s # <<>>
                   PROVE  /\ Fraction(k) /\ p \in Seq(Byte) /\ u = <<DECIMAL>> \o (<<x>> \o p)
                          /\ DecimalTail(e, k) \in Seq(Byte)
      BY Zenon
    <2>2. k \in Seq(0..9) /\ Len(k) \in 1..Len(s) /\ k[Len(k)] # 0
      BY <2>1, KeptProperties, Zenon
    <2>3. Fraction(k)
      BY <2>2 DEF Fraction
    <2>4. /\ p \in Seq(Byte)
          /\ DecimalForm(n, e, k) = <<DECIMAL>> \o (<<IF n THEN DEC_SIGN_NEG ELSE DEC_SIGN_POS>> \o p)
      BY <2>1, <2>3, DecimalHead, Zenon
    <2>5. x = IF n THEN DEC_SIGN_NEG ELSE DEC_SIGN_POS
      BY <2>1, Zenon DEF DEC_SIGN_NEG, DEC_SIGN_POS
    <2>6. u = DecimalForm(n, e, k)
      BY <2>1, Zenon DEF DecimalBytes
    <2>7. DecimalTail(e, k) \in Seq(Byte)
      BY <2>1, <2>3, DecimalTailBytes, Zenon DEF Fraction
    <2>8. QED
      BY <2>3, <2>4, <2>5, <2>6, <2>7, Zenon
  <1>2. t # <<>> => /\ Fraction(l) /\ q \in Seq(Byte) /\ v = <<DECIMAL>> \o (<<y>> \o q)
                    /\ DecimalTail(f, l) \in Seq(Byte)
    <2>1. SUFFICES ASSUME t # <<>>
                   PROVE  /\ Fraction(l) /\ q \in Seq(Byte) /\ v = <<DECIMAL>> \o (<<y>> \o q)
                          /\ DecimalTail(f, l) \in Seq(Byte)
      BY Zenon
    <2>2. l \in Seq(0..9) /\ Len(l) \in 1..Len(t) /\ l[Len(l)] # 0
      BY <2>1, KeptProperties, Zenon
    <2>3. Fraction(l)
      BY <2>2 DEF Fraction
    <2>4. /\ q \in Seq(Byte)
          /\ DecimalForm(m, f, l) = <<DECIMAL>> \o (<<IF m THEN DEC_SIGN_NEG ELSE DEC_SIGN_POS>> \o q)
      BY <2>1, <2>3, DecimalHead, Zenon
    <2>5. y = IF m THEN DEC_SIGN_NEG ELSE DEC_SIGN_POS
      BY <2>1, Zenon DEF DEC_SIGN_NEG, DEC_SIGN_POS
    <2>6. v = DecimalForm(m, f, l)
      BY <2>1, Zenon DEF DecimalBytes
    <2>7. DecimalTail(f, l) \in Seq(Byte)
      BY <2>1, <2>3, DecimalTailBytes, Zenon DEF Fraction
    <2>8. QED
      BY <2>3, <2>4, <2>5, <2>6, <2>7, Zenon
  <1>3. z \in Seq(Byte) /\ x \in Byte /\ y \in Byte /\ DECIMAL \in Byte /\ x \in Int /\ y \in Int
    BY DEF Byte, DECIMAL
  <1>4. \A h \in Byte : <<h>> \o z = <<h>>
    OBVIOUS
  <1>5. s = <<>> => u = <<DECIMAL>> \o (<<x>> \o z)
    BY <1>3, <1>4, Zenon DEF DecimalBytes, DEC_SIGN_ZERO
  <1>6. t = <<>> => v = <<DECIMAL>> \o (<<y>> \o z)
    BY <1>3, <1>4, Zenon DEF DecimalBytes, DEC_SIGN_ZERO
  <1> DEFINE a == IF s = <<>> THEN z ELSE p
             b == IF t = <<>> THEN z ELSE q
             c == IF s = <<>> \/ t = <<>> THEN 0 ELSE Then(SignOf(e - f), Compare(k, l))
  <1>7. a \in Seq(Byte) /\ b \in Seq(Byte) /\ u = <<DECIMAL>> \o (<<x>> \o a) /\ v = <<DECIMAL>> \o (<<y>> \o b)
    BY <1>1, <1>2, <1>3, <1>5, <1>6, Zenon
  <1>8. X.neg = (s # <<>> /\ n) /\ X.digits = (IF s = <<>> THEN <<>> ELSE k) /\ (s # <<>> => X.adj = e)
    BY DEF DecimalOf
  <1>9. Y.neg = (t # <<>> /\ m) /\ Y.digits = (IF t = <<>> THEN <<>> ELSE l) /\ (t # <<>> => Y.adj = f)
    BY DEF DecimalOf
  <1>10. (s # <<>> => k # <<>> /\ Len(k) \in Nat /\ Len(k) > 0) /\ (t # <<>> => l # <<>> /\ Len(l) \in Nat /\ Len(l) > 0)
    BY SMTT(30), <1>1, <1>2 DEF Fraction
  <1> DEFINE g == DecimalMagnitudeCompare(X, Y)
  <1>11. /\ s = <<>> /\ t = <<>> => g = 0
         /\ s = <<>> /\ t # <<>> => g = -1
         /\ s # <<>> /\ t = <<>> => g = 1
         /\ s # <<>> /\ t # <<>> => g = c
    <2>1. Len(z) = 0
      OBVIOUS
    <2> HIDE DEF k, l, X, Y
    <2>2. ASSUME s = <<>> \/ t = <<>>
          PROVE  g = SignOf((IF s = <<>> THEN 0 ELSE Len(k)) - (IF t = <<>> THEN 0 ELSE Len(l)))
      <3>1. X.digits = <<>> \/ Y.digits = <<>>
        BY <2>2, <1>8, <1>9, Zenon
      <3>2. g = SignOf(Len(X.digits) - Len(Y.digits))
        BY <3>1, Zenon DEF DecimalMagnitudeCompare
      <3>3. Len(X.digits) = IF s = <<>> THEN 0 ELSE Len(k)
        BY <2>1, <1>8, Zenon DEF z
      <3>4. Len(Y.digits) = IF t = <<>> THEN 0 ELSE Len(l)
        BY <2>1, <1>9, Zenon DEF z
      <3>5. QED
        BY <3>2, <3>3, <3>4, Zenon
    <2>3. ASSUME s # <<>>, t # <<>>
          PROVE  g = c
      <3>1. g = IF e # f THEN SignOf(e - f) ELSE Compare(k, l)
        BY <2>3, <1>8, <1>9, <1>10, Zenon DEF DecimalMagnitudeCompare
      <3>2. SignOf(e - f) = 0 <=> e = f
        BY DEF SignOf
      <3>3. QED
        BY <3>1, <3>2, <2>3, Zenon DEF Then
    <2> DEFINE i == Len(k)
               j == Len(l)
               A == s = <<>>
               B == t = <<>>
    <2>4. (~A => i \in Nat /\ i > 0) /\ (~B => j \in Nat /\ j > 0)
          /\ (A \/ B => g = SignOf((IF A THEN 0 ELSE i) - (IF B THEN 0 ELSE j)))
      BY <1>10, <2>2, Zenon
    <2>5. ~A /\ ~B => g = c
      BY <2>3, Zenon
    <2> HIDE DEF g, c, i, j, A, B
    <2>8. SignOf(0 - 0) = 0 /\ \A h \in Nat : h > 0 => SignOf(0 - h) = -1 /\ SignOf(h - 0) = 1
      BY DEF SignOf
    <2>6. (A /\ B => g = 0) /\ (A /\ ~B => g = -1) /\ (~A /\ B => g = 1)
      BY <2>4, <2>8, Zenon
    <2>7. QED
      BY <2>5, <2>6, Zenon DEF A, B
  <1>12. s # <<>> /\ t # <<>> /\ n = m => Separate(a, b) /\ Compare(a, b) = IF n THEN -c ELSE c
    <2>1. SUFFICES ASSUME s # <<>>, t # <<>>, n = m
                   PROVE  Separate(p, q) /\ Compare(p, q) = IF n THEN -c ELSE c
      BY Zenon
    <2> DEFINE P == DecimalTail(e, k)
               Q == DecimalTail(f, l)
    <2>2. Fraction(k) /\ Fraction(l) /\ P \in Seq(Byte) /\ Q \in Seq(Byte) /\ InExpRange(e) /\ InExpRange(f)
      BY <2>1, <1>1, <1>2, Zenon
    <2>4. c = Then(SignOf(e - f), Compare(k, l))
      BY <2>1, Zenon
    <2> HIDE DEF c, k, l
    <2>3. Separate(P, Q) /\ Compare(P, Q) = Then(SignOf(e - f), Compare(k, l))
      BY <2>2, TailOrder
    <2> HIDE DEF P, Q
    <2>5. /\ Separate(Signed(n, P), Signed(n, Q))
          /\ Compare(Signed(n, P), Signed(n, Q)) = IF n THEN -Compare(P, Q) ELSE Compare(P, Q)
      BY <2>2, <2>3, ApartSigned, Zenon
    <2>6. QED
      BY <2>1, <2>3, <2>4, <2>5, Zenon DEF P, Q
  <1>13. s = <<>> /\ t = <<>> => a = z /\ b = z
    BY Zenon
  <1>14. /\ (x = y <=> (s = <<>> /\ t = <<>>) \/ (s # <<>> /\ t # <<>> /\ n = m))
         /\ (s = <<>> /\ t # <<>> => SignOf(x - y) = IF m THEN 1 ELSE -1)
         /\ (s # <<>> /\ t = <<>> => SignOf(x - y) = IF n THEN -1 ELSE 1)
         /\ (s # <<>> /\ t # <<>> /\ n # m => SignOf(x - y) = IF n THEN -1 ELSE 1)
    BY DEF SignOf
  <1> HIDE DEF a, b, x, y, u, v, X, Y, g, c, k, l, z
  <1> DEFINE uu == <<x>> \o a
             vv == <<y>> \o b
             sc == SignedCompare(X.neg, Y.neg, g)
  <1>15. uu \in Seq(Byte) /\ vv \in Seq(Byte)
    BY <1>3, <1>7
  <1>16. ASSUME x # y
         PROVE  Separate(uu, vv) /\ Compare(uu, vv) = SignOf(x - y)
    BY <1>3, <1>7, <1>16, HeadsApart
  <1>17. ASSUME x = y, Separate(a, b)
         PROVE  Separate(uu, vv) /\ Compare(uu, vv) = Compare(a, b)
    BY <1>3, <1>7, <1>17, SameHead
  <1>18. x # y => sc = SignOf(x - y)
    <2>1. SUFFICES ASSUME x # y
                   PROVE  sc = SignOf(x - y)
      BY Zenon
    <2>2. CASE s = <<>>
      <3>1. t # <<>>
        BY <2>1, <2>2, <1>14, Zenon
      <3>2. X.neg = FALSE /\ Y.neg = m /\ g = -1 /\ SignOf(x - y) = IF m THEN 1 ELSE -1
        BY <2>2, <3>1, <1>8, <1>9, <1>11, <1>14, Zenon
      <3>3. QED
        BY <3>2, Zenon DEF SignedCompare
    <2>3. CASE s # <<>> /\ t = <<>>
      <3>1. X.neg = n /\ Y.neg = FALSE /\ g = 1 /\ SignOf(x - y) = IF n THEN -1 ELSE 1
        BY <2>3, <1>8, <1>9, <1>11, <1>14, Zenon
      <3>2. QED
        BY <3>1, Zenon DEF SignedCompare
    <2>4. CASE s # <<>> /\ t # <<>>
      <3>1. n # m
        BY <2>1, <2>4, <1>14, Zenon
      <3>2. X.neg = n /\ Y.neg = m /\ SignOf(x - y) = IF n THEN -1 ELSE 1
        BY <2>4, <3>1, <1>8, <1>9, <1>14, Zenon
      <3>3. QED
        BY <3>1, <3>2, Zenon DEF SignedCompare
    <2>5. QED
      BY <2>2, <2>3, <2>4, Zenon
  <1>19. s = <<>> /\ t = <<>> => sc = 0
    BY <1>8, <1>9, <1>11 DEF SignedCompare
  <1>20. s # <<>> /\ t # <<>> /\ n = m => sc = IF n THEN -c ELSE c
    BY <1>8, <1>9, <1>11, Zenon DEF SignedCompare
  <1>21. Compare(z, z) = 0 /\ Separate(z, z)
    BY <1>3, CompareOrder DEF Separate
  <1>22. Separate(uu, vv) /\ Compare(uu, vv) = sc
    <2>1. x = y => Separate(a, b) /\ Compare(a, b) = sc
      <3>1. s = <<>> /\ t = <<>> => Separate(a, b) /\ Compare(a, b) = sc
        BY <1>13, <1>19, <1>21, Zenon
      <3>2. s # <<>> /\ t # <<>> /\ n = m => Separate(a, b) /\ Compare(a, b) = sc
        BY <1>12, <1>20, Zenon
      <3>3. QED
        BY <3>1, <3>2, <1>14, Zenon
    <2>2. QED
      BY <2>1, <1>16, <1>17, <1>18, Zenon
  <1> HIDE DEF uu, vv, sc
  <1>23. Separate(<<DECIMAL>> \o uu, <<DECIMAL>> \o vv) /\ Compare(<<DECIMAL>> \o uu, <<DECIMAL>> \o vv) = sc
    BY <1>3, <1>15, <1>22, SameHead
  <1>24. u = <<DECIMAL>> \o uu /\ v = <<DECIMAL>> \o vv
    BY <1>7, Zenon DEF uu, vv
  <1>25. u \in Seq(Byte) /\ v \in Seq(Byte)
    <2> DEFINE h == DECIMAL
    <2>1. h \in Byte
      BY <1>3
    <2> HIDE DEF h
    <2>2. <<h>> \o uu \in Seq(Byte) /\ <<h>> \o vv \in Seq(Byte)
      BY <2>1, <1>15
    <2>3. QED
      BY <2>2, <1>24 DEF h
  <1>26. Separate(u, v) /\ Compare(u, v) = sc
    BY <1>23, <1>24, Zenon
  <1>27. QED
    BY <1>25, <1>26, Zenon DEF u, v, sc, X, Y, g

(* Flipping the top bit keeps the order of patterns that agree on it.      *)
LEMMA FlipOrder ==
    ASSUME NEW n \in Nat \ {0}, NEW x \in [1..n -> Byte], NEW y \in [1..n -> Byte],
           x[1] >= 128 <=> y[1] >= 128
    PROVE  Compare(FlipSign(x), FlipSign(y)) = Compare(x, y)
  <1> DEFINE u == FlipSign(x)
             v == FlipSign(y)
  <1>1. x \in Seq(Byte) /\ y \in Seq(Byte) /\ Len(x) = n /\ Len(y) = n
    OBVIOUS
  <1>2. u \in [1..n -> Byte] /\ v \in [1..n -> Byte]
    BY FlipSignLen
  <1>3. /\ \A i \in 1..n : u[i] = IF i = 1 THEN (x[1] + 128) % 256 ELSE x[i]
        /\ \A i \in 1..n : v[i] = IF i = 1 THEN (y[1] + 128) % 256 ELSE y[i]
    BY DEF FlipSign
  <1>4. (\A i \in 1..n : x[i] \in Byte /\ y[i] \in Byte) /\ 1 \in 1..n
    OBVIOUS
  <1> HIDE DEF u, v
  <1>5. /\ u[1] \in Byte /\ v[1] \in Byte /\ (x[1] = y[1] => u[1] = v[1])
        /\ (x[1] # y[1] => u[1] # v[1]) /\ SignOf(u[1] - v[1]) = SignOf(x[1] - y[1])
    <2> DEFINE p == x[1]
               q == y[1]
    <2>1. p \in 0..255 /\ q \in 0..255 /\ (p >= 128 <=> q >= 128) /\ u[1] = (p + 128) % 256 /\ v[1] = (q + 128) % 256
      BY <1>3, <1>4 DEF Byte
    <2> HIDE DEF p, q
    <2>2. u[1] = (IF p >= 128 THEN p - 128 ELSE p + 128) /\ v[1] = (IF q >= 128 THEN q - 128 ELSE q + 128)
      BY SMTT(30), <2>1
    <2>3. /\ u[1] \in Byte /\ v[1] \in Byte /\ (p = q => u[1] = v[1])
          /\ (p # q => u[1] # v[1]) /\ SignOf(u[1] - v[1]) = SignOf(p - q)
      BY <2>1, <2>2 DEF Byte, SignOf
    <2>4. QED
      BY <2>3 DEF p, q
  <1>6. u \in Seq(Byte) /\ v \in Seq(Byte) /\ Len(u) = n /\ Len(v) = n
    BY <1>2
  <1>7. ASSUME NEW i, PartAt(x, y, i)
        PROVE  Compare(u, v) = Compare(x, y)
    <2>1. i \in 1..n /\ x[i] # y[i] /\ \A j \in 1..(i - 1) : x[j] = y[j]
      BY <1>1, <1>7, Zenon DEF PartAt
    <2>2. u[i] # v[i] /\ SignOf(u[i] - v[i]) = SignOf(x[i] - y[i])
      <3>1. CASE i = 1
        BY <2>1, <3>1, <1>5, Zenon
      <3>2. CASE i # 1
        BY <2>1, <3>2, <1>3, Zenon
      <3>3. QED
        BY <3>1, <3>2, Zenon
    <2>3. \A j \in 1..(i - 1) : j \in 1..n
      BY <2>1
    <2>4. \A j \in 1..(i - 1) : u[j] = v[j]
      BY <2>1, <2>3, <1>3, <1>5, Zenon
    <2>5. PartAt(u, v, i)
      BY <2>1, <2>2, <2>4, <1>6, Zenon DEF PartAt
    <2>6. Compare(u, v) = SignOf(u[i] - v[i]) /\ Compare(x, y) = SignOf(x[i] - y[i])
      BY <1>1, <1>6, <1>7, <2>5, CompareAt
    <2>7. QED
      BY <2>2, <2>6, Zenon
  <1>8. ASSUME StartOf(x, y) \/ StartOf(y, x)
        PROVE  Compare(u, v) = Compare(x, y)
    <2>1. x = y
      BY <1>1, <1>8, ComparePrefix
    <2>2. Compare(x, y) = 0 /\ u = v /\ Compare(u, v) = 0
      BY <2>1, <1>1, <1>6, CompareOrder DEF u, v
    <2>3. QED
      BY <2>2, Zenon
  <1>9. QED
    BY <1>1, <1>7, <1>8, PartOrPrefix, Zenon DEF u, v

StoredPattern(b, inverted) == IF b[1] >= 128 /\ inverted THEN Complement(b) ELSE FlipSign(b)

(* Sign bits and patterns, for floats (inverted) and timestamps.           *)
LEMMA PatternOrder ==
    ASSUME NEW n \in Nat \ {0}, NEW x \in [1..n -> Byte], NEW y \in [1..n -> Byte], NEW inverted \in BOOLEAN
    PROVE  /\ StoredPattern(x, inverted) \in Seq(Byte) /\ Len(StoredPattern(x, inverted)) = n
           /\ StoredPattern(y, inverted) \in Seq(Byte) /\ Len(StoredPattern(y, inverted)) = n
           /\ Compare(StoredPattern(x, inverted), StoredPattern(y, inverted)) = PatternCompare(x, y, inverted)
  <1> DEFINE u == StoredPattern(x, inverted)
             v == StoredPattern(y, inverted)
             p == x[1] >= 128
             q == y[1] >= 128
             c == Compare(x, y)
             d == Compare(u, v)
  <1>1. x \in Seq(Byte) /\ y \in Seq(Byte) /\ Len(x) = n /\ Len(y) = n
    OBVIOUS
  <1>2. /\ FlipSign(x) \in [1..n -> Byte] /\ FlipSign(y) \in [1..n -> Byte]
        /\ Complement(x) \in [1..n -> Byte] /\ Complement(y) \in [1..n -> Byte]
    BY FlipSignLen
  <1>3. u \in [1..n -> Byte] /\ v \in [1..n -> Byte]
    BY <1>2, Zenon DEF StoredPattern
  <1>4. u \in Seq(Byte) /\ v \in Seq(Byte) /\ Len(u) = n /\ Len(v) = n
    <2> HIDE DEF u, v
    <2>1. QED
      BY <1>3
  <1>5. p \in BOOLEAN /\ q \in BOOLEAN /\ 1 \in 1..n /\ x[1] \in 0..255 /\ y[1] \in 0..255
    BY DEF Byte
  <1>6. PatternCompare(x, y, inverted) = SignedCompare(p, q, IF p /\ q /\ ~inverted THEN -c ELSE c)
    BY Zenon DEF PatternCompare
  <1>7. c \in Int
    BY <1>1, CompareOrder
  <1>8. ASSUME p, q, ~inverted
        PROVE  d = PatternCompare(x, y, inverted)
    <2>1. d = c
      BY <1>8, FlipOrder, Zenon DEF StoredPattern
    <2>2. PatternCompare(x, y, inverted) = -(-c)
      BY <1>6, <1>8, Zenon DEF SignedCompare
    <2> HIDE DEF c, d
    <2>3. QED
      BY <2>1, <2>2, <1>7
  <1>9. ASSUME p, q, inverted
        PROVE  d = PatternCompare(x, y, inverted)
    <2>1. Separate(x, y)
      BY <1>1, SameLengthApart
    <2>2. Compare(Complement(x), Complement(y)) = -c
      BY <1>1, <2>1, ApartComplement, Zenon
    <2>3. d = -c
      BY <2>2, <1>9, Zenon DEF StoredPattern
    <2>4. QED
      BY <1>6, <1>9, <2>3, Zenon DEF SignedCompare
  <1>10. ASSUME ~p, ~q
         PROVE  d = PatternCompare(x, y, inverted)
    <2>1. d = c
      BY <1>10, FlipOrder, Zenon DEF StoredPattern
    <2>2. QED
      <3>1. p = FALSE /\ q = FALSE
        BY <1>10
      <3> HIDE DEF c, d, p, q
      <3>2. QED
        BY <1>6, <2>1, <3>1, Zenon DEF SignedCompare
  <1>11. /\ u[1] = IF p /\ inverted THEN 255 - x[1] ELSE (x[1] + 128) % 256
         /\ v[1] = IF q /\ inverted THEN 255 - y[1] ELSE (y[1] + 128) % 256
    BY <1>5 DEF StoredPattern, Complement, FlipSign
  <1>12. ASSUME ~(p <=> q)
         PROVE  d = PatternCompare(x, y, inverted)
    <2>1. PatternCompare(x, y, inverted) = IF p THEN -1 ELSE 1
      <3>1. p # q
        BY <1>12, Zenon
      <3>2. QED
        BY <1>6, <3>1, Zenon DEF SignedCompare
    <2> DEFINE g == x[1]
               h == y[1]
               r == u[1]
               s == v[1]
    <2>2. /\ g \in 0..255 /\ h \in 0..255
          /\ ((r = 255 - g /\ g >= 128) \/ r = (g + 128) % 256)
          /\ ((s = 255 - h /\ h >= 128) \/ s = (h + 128) % 256)
      BY <1>5, <1>11
    <2>3. (p <=> g >= 128) /\ ~(g >= 128 <=> h >= 128)
      BY <1>12, Zenon
    <2> HIDE DEF g, h, r, s, d, u, v
    <2>8. /\ ((r = 255 - g /\ g >= 128) \/ r = IF g >= 128 THEN g - 128 ELSE g + 128)
          /\ ((s = 255 - h /\ h >= 128) \/ s = IF h >= 128 THEN h - 128 ELSE h + 128)
      BY <2>2
    <2>4. (g >= 128 => r < s /\ SignOf(r - s) = -1) /\ (~(g >= 128) => s < r /\ SignOf(r - s) = 1)
          /\ r # s
      <3>1. g \in 0..255 /\ h \in 0..255 /\ ~(g >= 128 <=> h >= 128)
        BY <2>2, <2>3
      <3>2. CASE g >= 128
        <4>1. r <= 127 /\ s >= 128 /\ r \in Int /\ s \in Int
          BY <2>8, <3>1, <3>2
        <4>2. QED
          BY <4>1, <3>2 DEF SignOf
      <3>3. CASE ~(g >= 128)
        <4>1. s <= 127 /\ r >= 128 /\ r \in Int /\ s \in Int
          BY <2>8, <3>1, <3>3
        <4>2. QED
          BY <4>1, <3>3 DEF SignOf
      <3>4. QED
        BY <3>2, <3>3
    <2>5. PartAt(u, v, 1)
      BY <2>4, <1>4 DEF PartAt, r, s
    <2>6. d = SignOf(r - s)
      BY <1>4, <2>5, CompareAt DEF r, s, d
    <2>7. QED
      BY <2>1, <2>3, <2>4, <2>6, Zenon
  <1>13. d = PatternCompare(x, y, inverted)
    BY <1>5, <1>8, <1>9, <1>10, <1>12, Zenon
  <1>14. QED
    BY <1>4, <1>13, Zenon

-----------------------------------------------------------------------------
(* Two scalars compare as their bytes do, and those end before they stop   *)
(* differing.                                                              *)
OrderedAs(e, f, c) ==
    /\ EncElement(e) \in Seq(Byte) /\ EncElement(f) \in Seq(Byte)
    /\ Separate(EncElement(e), EncElement(f)) /\ Compare(EncElement(e), EncElement(f)) = c

(* The type codes in their order, gaps filled.                             *)
RankAt(x) ==
    IF x <= 1 THEN 1 ELSE IF x <= 2 THEN 2 ELSE IF x <= 6 THEN 3 ELSE IF x <= 49 THEN 4
    ELSE IF x <= 52 THEN 5 ELSE IF x <= 53 THEN 6 ELSE IF x <= 56 THEN 7 ELSE IF x <= 64 THEN 8
    ELSE IF x <= 68 THEN 9 ELSE IF x <= 72 THEN 10 ELSE IF x <= 73 THEN 11 ELSE IF x <= 80 THEN 12
    ELSE IF x <= 82 THEN 13 ELSE 14

LEMMA RankMonotone ==
    \A x, y \in Byte : /\ RankAt(x) \in Int /\ RankAt(y) \in Int
                       /\ RankAt(x) # RankAt(y) => x # y /\ SignOf(x - y) = SignOf(RankAt(x) - RankAt(y))
  <1>1. SUFFICES ASSUME NEW x \in 0..255, NEW y \in 0..255
                 PROVE  /\ RankAt(x) \in Int /\ RankAt(y) \in Int
                        /\ RankAt(x) # RankAt(y) => x # y /\ SignOf(x - y) = SignOf(RankAt(x) - RankAt(y))
    BY DEF Byte
  <1>2. RankAt(x) \in Int /\ RankAt(y) \in Int
    BY DEF RankAt
  <1>3. (x <= y => RankAt(x) <= RankAt(y)) /\ (y <= x => RankAt(y) <= RankAt(x))
    BY DEF RankAt
  <1> DEFINE r == RankAt(x)
             s == RankAt(y)
  <1> HIDE DEF r, s
  <1>4. r # s => x # y /\ SignOf(x - y) = SignOf(r - s)
    <2>1. r \in Int /\ s \in Int /\ (x <= y => r <= s) /\ (y <= x => s <= r)
      BY <1>2, <1>3 DEF r, s
    <2>2. QED
      BY <2>1 DEF SignOf
  <1>5. QED
    BY SMTT(30), <1>2, <1>4 DEF r, s

LEMMA BoolOrder ==
    ASSUME NEW e \in [kind : {"bool"}, val : BOOLEAN], NEW f \in [kind : {"bool"}, val : BOOLEAN]
    PROVE  OrderedAs(e, f, ScalarCompare(ElementValue(e), ElementValue(f)))
  <1>1. e.kind = "bool" /\ f.kind = "bool" /\ e.val \in BOOLEAN /\ f.val \in BOOLEAN
    OBVIOUS
  <1>2. ElementValue(e) = ScalarValue(e) /\ ElementValue(f) = ScalarValue(f)
    BY <1>1, ElementValueForms
  <1>3. ScalarValue(e) = e /\ ScalarValue(f) = f
    BY <1>1 DEF ScalarValue
  <1>4. EncElement(e) = <<IF e.val THEN 6 ELSE 5>> /\ EncElement(f) = <<IF f.val THEN 6 ELSE 5>>
    BY <1>1, FramedCodes DEF EncElement, BOOL_TRUE, BOOL_FALSE
  <1> DEFINE x == IF e.val THEN 6 ELSE 5
             y == IF f.val THEN 6 ELSE 5
             c == ScalarCompare(e, f)
             z == <<>>
  <1>5. x \in Byte /\ y \in Byte /\ z \in Seq(Byte)
    BY DEF Byte
  <1>6. c = IF e.val = f.val THEN 0 ELSE IF e.val THEN 1 ELSE -1
    BY <1>1 DEF ScalarCompare
  <1>7. SignOf(x - y) = c
    BY <1>1, <1>6 DEF SignOf
  <1> HIDE DEF x, y, c, z
  <1>8. Compare(<<x>> \o z, <<y>> \o z) = Then(SignOf(x - y), Compare(z, z)) /\ Compare(z, z) = 0
    BY <1>5, HeadCompare, CompareOrder
  <1>9. <<x>> \o z = <<x>> /\ <<y>> \o z = <<y>>
    BY <1>5 DEF z
  <1>10. Compare(<<x>>, <<y>>) = c
    <2>1. Then(c, 0) = c
      BY Zenon DEF Then
    <2>2. QED
      BY <1>7, <1>8, <1>9, <2>1, Zenon
  <1>11. <<x>> \in Seq(Byte) /\ <<y>> \in Seq(Byte) /\ Len(<<x>>) = Len(<<y>>)
    BY <1>5
  <1>12. Separate(<<x>>, <<y>>)
    BY <1>11, SameLengthApart
  <1>13. EncElement(e) = <<x>> /\ EncElement(f) = <<y>>
    BY <1>4, Zenon DEF x, y
  <1>14. OrderedAs(e, f, c)
    BY <1>10, <1>11, <1>12, <1>13, Zenon DEF OrderedAs
  <1>15. QED
    BY <1>2, <1>3, <1>14, Zenon DEF c

LEMMA IntElementOrder ==
    ASSUME NEW e \in [kind : {"int", "bigint"}, neg : BOOLEAN, mag : Magnitude],
           NEW f \in [kind : {"int", "bigint"}, neg : BOOLEAN, mag : Magnitude]
    PROVE  OrderedAs(e, f, ScalarCompare(ElementValue(e), ElementValue(f)))
  <1> DEFINE X == ElementValue(e)
             Y == ElementValue(f)
  <1>1. /\ e.kind \in {"int", "bigint"} /\ e.neg \in BOOLEAN /\ e.mag \in Magnitude
        /\ f.kind \in {"int", "bigint"} /\ f.neg \in BOOLEAN /\ f.mag \in Magnitude
    OBVIOUS
  <1>2. X = ScalarValue(e) /\ Y = ScalarValue(f)
    BY <1>1, ElementValueForms
  <1>3. /\ X = [kind |-> "int", neg |-> e.neg /\ Trimmed(e.mag) # <<>>, mag |-> Trimmed(e.mag)]
        /\ Y = [kind |-> "int", neg |-> f.neg /\ Trimmed(f.mag) # <<>>, mag |-> Trimmed(f.mag)]
    BY <1>1, <1>2 DEF ScalarValue
  <1>4. EncElement(e) = EncInt(e.neg, e.mag) /\ EncElement(f) = EncInt(f.neg, f.mag)
    BY <1>1, EncElementInt
  <1>5. EncInt(e.neg, e.mag) \in Seq(Byte) /\ EncInt(f.neg, f.mag) \in Seq(Byte)
    BY <1>1, EncIntBytes
  <1> HIDE DEF X, Y
  <1>6. X.kind = "int" /\ X.neg = (e.neg /\ Trimmed(e.mag) # <<>>) /\ X.mag = Trimmed(e.mag)
    BY <1>3
  <1>7. Y.kind = "int" /\ Y.neg = (f.neg /\ Trimmed(f.mag) # <<>>) /\ Y.mag = Trimmed(f.mag)
    BY <1>3
  <1>8. ScalarCompare(X, Y) = SignedCompare(X.neg, Y.neg, MagnitudeCompare(X.mag, Y.mag))
    BY <1>6, <1>7 DEF ScalarCompare
  <1>9. /\ Separate(EncInt(e.neg, e.mag), EncInt(f.neg, f.mag))
        /\ Compare(EncInt(e.neg, e.mag), EncInt(f.neg, f.mag)) = ScalarCompare(X, Y)
    <2> DEFINE n == e.neg
               k == f.neg
               m == e.mag
               o == f.mag
    <2>1. n \in BOOLEAN /\ k \in BOOLEAN /\ m \in Magnitude /\ o \in Magnitude
      BY <1>1
    <2> HIDE DEF n, k, m, o
    <2>2. /\ Separate(EncInt(n, m), EncInt(k, o))
          /\ Compare(EncInt(n, m), EncInt(k, o)) =
                SignedCompare(n /\ Trimmed(m) # <<>>, k /\ Trimmed(o) # <<>>,
                              MagnitudeCompare(Trimmed(m), Trimmed(o)))
      BY <2>1, IntOrder
    <2>3. QED
      BY <2>2, <1>6, <1>7, <1>8, Zenon DEF n, k, m, o
  <1>10. QED
    BY <1>4, <1>5, <1>9, Zenon DEF OrderedAs, X, Y

LEMMA FloatElementOrder ==
    ASSUME NEW n \in Nat \ {0}, NEW k \in {"f32", "f64"},
           NEW e \in [kind : {k}, bits : [1..n -> Byte]], NEW f \in [kind : {k}, bits : [1..n -> Byte]]
    PROVE  OrderedAs(e, f, ScalarCompare(ElementValue(e), ElementValue(f)))
  <1> DEFINE x == CanonicalBits(e.bits)
             y == CanonicalBits(f.bits)
             h == IF k = "f32" THEN FLOAT32 ELSE FLOAT64
             u == StoredPattern(x, TRUE)
             v == StoredPattern(y, TRUE)
             c == PatternCompare(x, y, TRUE)
  <1>1. e.kind = k /\ f.kind = k /\ e.bits \in [1..n -> Byte] /\ f.bits \in [1..n -> Byte]
    OBVIOUS
  <1>2. ElementValue(e) = ScalarValue(e) /\ ElementValue(f) = ScalarValue(f)
    BY <1>1, ElementValueForms
  <1>3. ScalarValue(e) = [kind |-> k, bits |-> x] /\ ScalarValue(f) = [kind |-> k, bits |-> y]
    BY <1>1 DEF ScalarValue
  <1>4. EncElement(e) = <<h>> \o EncFloatBits(e.bits) /\ EncElement(f) = <<h>> \o EncFloatBits(f.bits)
    BY <1>1, FramedCodes DEF EncElement
  <1>5. EncFloatBits(e.bits) = u /\ EncFloatBits(f.bits) = v
    BY Zenon DEF EncFloatBits, StoredPattern
  <1>6. x \in [1..n -> Byte] /\ y \in [1..n -> Byte]
    BY <1>1, CanonicalTwice
  <1>7. h \in Byte
    BY DEF FLOAT32, FLOAT64, Byte
  <1> HIDE DEF x, y, h
  <1>8. u \in Seq(Byte) /\ v \in Seq(Byte) /\ Len(u) = n /\ Len(v) = n /\ Compare(u, v) = c
    BY <1>6, PatternOrder
  <1>9. ScalarCompare(ElementValue(e), ElementValue(f)) = c
    <2> DEFINE X == ElementValue(e)
               Y == ElementValue(f)
    <2>1. X.kind = k /\ Y.kind = k /\ X.bits = x /\ Y.bits = y
      BY <1>2, <1>3
    <2> HIDE DEF X, Y
    <2>2. ScalarCompare(X, Y) = PatternCompare(X.bits, Y.bits, TRUE)
      BY <2>1 DEF ScalarCompare
    <2>3. QED
      BY <2>1, <2>2, Zenon DEF X, Y
  <1> HIDE DEF u, v, c
  <1>10. Separate(u, v)
    BY <1>8, SameLengthApart
  <1>11. Separate(<<h>> \o u, <<h>> \o v) /\ Compare(<<h>> \o u, <<h>> \o v) = c
    BY <1>7, <1>8, <1>10, SameHead
  <1>12. <<h>> \o u \in Seq(Byte) /\ <<h>> \o v \in Seq(Byte)
    BY <1>7, <1>8
  <1>13. QED
    BY <1>4, <1>5, <1>9, <1>11, <1>12, Zenon DEF OrderedAs

LEMMA TimestampOrder ==
    ASSUME NEW e \in [kind : {"timestamp"}, data : [1..NativeWidth -> Byte]],
           NEW f \in [kind : {"timestamp"}, data : [1..NativeWidth -> Byte]]
    PROVE  OrderedAs(e, f, ScalarCompare(ElementValue(e), ElementValue(f)))
  <1> DEFINE x == e.data
             y == f.data
             h == TIMESTAMP
             u == StoredPattern(x, FALSE)
             v == StoredPattern(y, FALSE)
             c == PatternCompare(x, y, FALSE)
             n == NativeWidth
  <1>1. e.kind = "timestamp" /\ f.kind = "timestamp" /\ x \in [1..n -> Byte] /\ y \in [1..n -> Byte]
    OBVIOUS
  <1>2. ElementValue(e) = ScalarValue(e) /\ ElementValue(f) = ScalarValue(f)
    BY <1>1, ElementValueForms
  <1>3. ScalarValue(e) = e /\ ScalarValue(f) = f
    BY <1>1 DEF ScalarValue
  <1>4. EncElement(e) = <<h>> \o FlipSign(x) /\ EncElement(f) = <<h>> \o FlipSign(y)
    BY <1>1, FramedCodes DEF EncElement
  <1>5. FlipSign(x) = u /\ FlipSign(y) = v
    BY Zenon DEF StoredPattern
  <1>6. h \in Byte /\ n \in Nat \ {0}
    BY WidthAssumption DEF TIMESTAMP, Byte
  <1>9. ScalarCompare(ElementValue(e), ElementValue(f)) = c
    BY <1>1, <1>2, <1>3 DEF ScalarCompare
  <1> HIDE DEF x, y, h, n
  <1>8. u \in Seq(Byte) /\ v \in Seq(Byte) /\ Len(u) = n /\ Len(v) = n /\ Compare(u, v) = c
    BY <1>1, <1>6, PatternOrder
  <1> HIDE DEF u, v, c
  <1>10. Separate(u, v)
    BY <1>8, SameLengthApart
  <1>11. Separate(<<h>> \o u, <<h>> \o v) /\ Compare(<<h>> \o u, <<h>> \o v) = c
    BY <1>6, <1>8, <1>10, SameHead
  <1>12. <<h>> \o u \in Seq(Byte) /\ <<h>> \o v \in Seq(Byte)
    BY <1>6, <1>8
  <1>13. QED
    BY <1>4, <1>5, <1>9, <1>11, <1>12, Zenon DEF OrderedAs

LEMMA UuidOrder ==
    ASSUME NEW e \in [kind : {"uuid"}, data : [1..UuidWidth -> Byte]],
           NEW f \in [kind : {"uuid"}, data : [1..UuidWidth -> Byte]]
    PROVE  OrderedAs(e, f, ScalarCompare(ElementValue(e), ElementValue(f)))
  <1> DEFINE x == e.data
             y == f.data
             h == UUID
             c == Compare(x, y)
             n == UuidWidth
  <1>1. e.kind = "uuid" /\ f.kind = "uuid" /\ x \in [1..n -> Byte] /\ y \in [1..n -> Byte]
    OBVIOUS
  <1>2. ElementValue(e) = ScalarValue(e) /\ ElementValue(f) = ScalarValue(f)
    BY <1>1, ElementValueForms
  <1>3. ScalarValue(e) = e /\ ScalarValue(f) = f
    BY <1>1 DEF ScalarValue
  <1>4. EncElement(e) = <<h>> \o x /\ EncElement(f) = <<h>> \o y
    BY <1>1, FramedCodes DEF EncElement
  <1>6. h \in Byte /\ n \in Nat
    BY WidthAssumption DEF UUID, Byte
  <1>9. ScalarCompare(ElementValue(e), ElementValue(f)) = c
    BY <1>1, <1>2, <1>3 DEF ScalarCompare
  <1> HIDE DEF x, y, h, n
  <1>8. x \in Seq(Byte) /\ y \in Seq(Byte) /\ Len(x) = n /\ Len(y) = n
    BY <1>1, <1>6
  <1> HIDE DEF c
  <1>10. Separate(x, y)
    BY <1>8, SameLengthApart
  <1>11. Separate(<<h>> \o x, <<h>> \o y) /\ Compare(<<h>> \o x, <<h>> \o y) = c
    BY <1>6, <1>8, <1>10, SameHead DEF c
  <1>12. <<h>> \o x \in Seq(Byte) /\ <<h>> \o y \in Seq(Byte)
    BY <1>6, <1>8
  <1>13. QED
    BY <1>4, <1>9, <1>11, <1>12, Zenon DEF OrderedAs

(* A decimal's bytes and its value, from its significant digits.           *)
LEMMA DecimalShape ==
    ASSUME NEW e \in [kind : {"decimal"}, neg : BOOLEAN, digits : Seq(0..9), exp : Int],
           InExpRange(e.exp), EncElement(e) # <<>>
    PROVE  LET sig == Trimmed(e.digits)
           IN  /\ sig \in Seq(0..9) /\ Len(sig) + e.exp \in Int
               /\ sig # <<>> => sig[1] # 0 /\ InExpRange(Len(sig) + e.exp)
               /\ EncElement(e) = DecimalBytes(e.neg, sig, Len(sig) + e.exp)
               /\ ElementValue(e) = DecimalOf(e.neg, sig, Len(sig) + e.exp)
  <1> DEFINE sig == Trimmed(e.digits)
             adj == Len(sig) + e.exp
  <1>1. e.kind = "decimal" /\ e.neg \in BOOLEAN /\ e.digits \in Seq(0..9) /\ e.exp \in Int
    OBVIOUS
  <1>2. WrapExp(e.exp) = e.exp
    BY <1>1, WrapExpRange
  <1>3. EncElement(e) = EncDecimal(e.neg, e.digits, e.exp)
    BY <1>1, <1>2, FramedCodes DEF EncElement
  <1>4. sig \in Seq(0..9) /\ Len(sig) \in Nat /\ (sig # <<>> => sig[1] # 0)
    BY <1>1, TrimmedProperties
  <1>5. adj \in Int
    BY <1>1, <1>4
  <1>6. ElementValue(e) = ScalarValue(e)
    BY <1>1, ElementValueForms
  <1>7. sig = <<>> => ScalarValue(e) = [kind |-> "decimal", neg |-> FALSE, digits |-> <<>>, adj |-> 0]
    BY <1>1 DEF ScalarValue
  <1>8. sig # <<>> => ScalarValue(e) = [kind |-> "decimal", neg |-> e.neg, digits |-> NoTrailingZeros(sig), adj |-> adj]
    BY <1>1 DEF ScalarValue
  <1>9. NoTrailingZeros(sig) = Kept(sig)
    BY Zenon DEF NoTrailingZeros, Kept
  <1>10. ElementValue(e) = DecimalOf(e.neg, sig, adj)
    <2> HIDE DEF sig, adj
    <2>1. QED
      BY <1>6, <1>7, <1>8, <1>9, Zenon DEF DecimalOf
  <1>11. /\ sig = <<>> => EncDecimal(e.neg, e.digits, e.exp) = <<DECIMAL, DEC_SIGN_ZERO>>
         /\ sig # <<>> /\ DecimalRejected(e.digits, e.exp) => EncDecimal(e.neg, e.digits, e.exp) = <<>>
         /\ sig # <<>> /\ ~DecimalRejected(e.digits, e.exp) =>
                /\ InExpRange(adj)
                /\ EncDecimal(e.neg, e.digits, e.exp) = DecimalForm(e.neg, adj, Kept(sig))
    BY <1>1, EncDecimalForms
  <1>12. ~(sig # <<>> /\ DecimalRejected(e.digits, e.exp))
    BY <1>3, <1>11
  <1>13. <<DECIMAL, DEC_SIGN_ZERO>> = <<DECIMAL>> \o <<DEC_SIGN_ZERO>>
    OBVIOUS
  <1> HIDE DEF sig, adj
  <1>14. EncElement(e) = DecimalBytes(e.neg, sig, adj) /\ (sig # <<>> => InExpRange(adj))
    BY <1>3, <1>11, <1>12, <1>13, Zenon DEF DecimalBytes
  <1>15. QED
    BY <1>4, <1>5, <1>10, <1>14, Zenon DEF sig, adj

LEMMA DecimalElementOrder ==
    ASSUME NEW e \in [kind : {"decimal"}, neg : BOOLEAN, digits : Seq(0..9), exp : Int],
           NEW f \in [kind : {"decimal"}, neg : BOOLEAN, digits : Seq(0..9), exp : Int],
           InExpRange(e.exp), EncElement(e) # <<>>, InExpRange(f.exp), EncElement(f) # <<>>
    PROVE  OrderedAs(e, f, ScalarCompare(ElementValue(e), ElementValue(f)))
  <1> DEFINE s == Trimmed(e.digits)
             i == Len(s) + e.exp
             t == Trimmed(f.digits)
             j == Len(t) + f.exp
             n == e.neg
             m == f.neg
  <1>1. /\ s \in Seq(0..9) /\ i \in Int
        /\ s # <<>> => s[1] # 0 /\ InExpRange(i)
        /\ EncElement(e) = DecimalBytes(n, s, i)
        /\ ElementValue(e) = DecimalOf(n, s, i)
    BY DecimalShape
  <1>2. /\ t \in Seq(0..9) /\ j \in Int
        /\ t # <<>> => t[1] # 0 /\ InExpRange(j)
        /\ EncElement(f) = DecimalBytes(m, t, j)
        /\ ElementValue(f) = DecimalOf(m, t, j)
    BY DecimalShape
  <1>3. n \in BOOLEAN /\ m \in BOOLEAN
    OBVIOUS
  <1> HIDE DEF s, i, t, j, n, m
  <1> DEFINE X == DecimalOf(n, s, i)
             Y == DecimalOf(m, t, j)
  <1>4. /\ DecimalBytes(n, s, i) \in Seq(Byte) /\ DecimalBytes(m, t, j) \in Seq(Byte)
        /\ Separate(DecimalBytes(n, s, i), DecimalBytes(m, t, j))
        /\ Compare(DecimalBytes(n, s, i), DecimalBytes(m, t, j)) =
                SignedCompare(X.neg, Y.neg, DecimalMagnitudeCompare(X, Y))
    BY SMTT(30), <1>1, <1>2, <1>3, DecimalBytesOrder
  <1>5. X.kind = "decimal"
    BY DEF DecimalOf
  <1> HIDE DEF X, Y
  <1>6. ScalarCompare(X, Y) = SignedCompare(X.neg, Y.neg, DecimalMagnitudeCompare(X, Y))
    BY <1>5 DEF ScalarCompare
  <1>7. ElementValue(e) = X /\ ElementValue(f) = Y
    BY <1>1, <1>2 DEF X, Y
  <1>8. QED
    BY <1>1, <1>2, <1>4, <1>6, <1>7, Zenon DEF OrderedAs

(* Frames of one kind: their contents, then what follows.                  *)
LEMMA FrameForm ==
    ASSUME NEW h \in Byte, NEW c \in Seq(Byte), NEW a \in Seq(Byte)
    PROVE  /\ EncFramed(h, c) \o a = <<h>> \o (Escaped(c) \o (<<0>> \o a))
           /\ Escaped(c) \o (<<0>> \o a) \in Seq(Byte)
           /\ \E u \in Seq(Byte) : EncFramed(h, c) = <<h>> \o u
  <1> DEFINE E == Escaped(c)
             z == <<TERMINATOR>>
  <1>1. E \in Seq(Byte)
    BY EscapedProperties
  <1>2. z \in Seq(Byte) /\ z = <<0>>
    BY DEF TERMINATOR, Byte
  <1>3. EncFramed(h, c) = (<<h>> \o E) \o z
    BY Zenon DEF EncFramed
  <1> HIDE DEF E, z
  <1>4. z \o a \in Seq(Byte) /\ E \o (z \o a) \in Seq(Byte) /\ E \o z \in Seq(Byte) /\ <<h>> \in Seq(Byte)
        /\ <<h>> \o E \in Seq(Byte)
    BY <1>1, <1>2
  <1>5. (<<h>> \o E) \o z = <<h>> \o (E \o z)
    BY <1>1, <1>2, HeadAssociative, Zenon
  <1>6. ((<<h>> \o E) \o z) \o a = (<<h>> \o E) \o (z \o a)
    <2> DEFINE k == <<h>> \o E
    <2>1. k \in Seq(Byte)
      BY <1>4
    <2> HIDE DEF k
    <2>2. (k \o z) \o a = k \o (z \o a)
      BY <1>2, <2>1, BytesAssociative, Zenon
    <2>3. QED
      BY <2>2 DEF k
  <1>7. (<<h>> \o E) \o (z \o a) = <<h>> \o (E \o (z \o a))
    BY <1>1, <1>4, HeadAssociative, Zenon
  <1>8. QED
    BY <1>2, <1>3, <1>4, <1>5, <1>6, <1>7, Zenon DEF E

LEMMA FrameOrder ==
    ASSUME NEW h \in Byte, NEW c \in Seq(Byte), NEW d \in Seq(Byte), NEW a \in Seq(Byte), NEW b \in Seq(Byte), Continues(a), Continues(b)
    PROVE  Compare(EncFramed(h, c) \o a, EncFramed(h, d) \o b) = Then(Compare(c, d), Compare(a, b))
  <1> DEFINE u == Escaped(c) \o (<<0>> \o a)
             v == Escaped(d) \o (<<0>> \o b)
  <1>2. EncFramed(h, c) \o a = <<h>> \o u /\ u \in Seq(Byte)
    BY FrameForm
  <1>3. EncFramed(h, d) \o b = <<h>> \o v /\ v \in Seq(Byte)
    BY FrameForm
  <1>4. Compare(u, v) = Then(Compare(c, d), Compare(a, b))
    BY EscapeOrder
  <1> HIDE DEF u, v
  <1>5. Compare(<<h>> \o u, <<h>> \o v) = Then(SignOf(h - h), Compare(u, v))
    BY <1>2, <1>3, HeadCompare
  <1>6. SignOf(h - h) = 0
    BY ByteInt DEF SignOf
  <1>7. QED
    BY <1>2, <1>3, <1>4, <1>5, <1>6, Zenon DEF Then

(* Every element begins with a code of the rank of its value.              *)
Begins(s, r) == \E x \in 1..84 : RankAt(x) = r /\ \E u \in Seq(Byte) : s = <<x>> \o u

LEMMA BeginsWith ==
    ASSUME NEW x \in 1..84, NEW r, RankAt(x) = r
    PROVE  Begins(<<x>>, r) /\ \A u \in Seq(Byte) : Begins(<<x>> \o u, r)
  <1> DEFINE z == <<>>
  <1>1. z \in Seq(Byte) /\ <<x>> \o z = <<x>>
    BY DEF Byte
  <1> HIDE DEF z
  <1>2. QED
    BY <1>1, Zenon DEF Begins

LEMMA ElementHead ==
    ASSUME NEW e \in Encodable, e.kind = "decimal" => InExpRange(e.exp), EncElement(e) # <<>>
    PROVE  /\ ElementValue(e).kind = IF e.kind = "bigint" THEN "int" ELSE e.kind
           /\ ElementValue(e).kind \in DOMAIN Rank
           /\ Begins(EncElement(e), Rank[ElementValue(e).kind])
  <1> DEFINE z == <<>>
             k == ElementValue(e).kind
  <1>0. z \in Seq(Byte) /\ \A x \in 1..84 : <<x>> \o z = <<x>> /\ x \in Byte
    BY DEF Byte
  <1>1. CASE e \in [kind : {"nil", "undef"}]
    <2>1. e.kind \in {"nil", "undef"}
      BY <1>1
    <2>2. k = e.kind
      BY <2>1, ElementValueForms DEF ScalarValue
    <2>4. RankAt(1) = 1 /\ RankAt(2) = 2 /\ 1 \in 1..84 /\ 2 \in 1..84
      BY DEF RankAt
    <2>5. Begins(<<1>>, 1) /\ Begins(<<2>>, 2)
      BY <2>4, BeginsWith, Zenon
    <2>6. CASE e.kind = "nil"
      <3>1. EncElement(e) = <<1>>
        BY <2>6, FramedCodes DEF EncElement, NIL
      <3>2. Rank["nil"] = 1 /\ "nil" \in DOMAIN Rank
        BY DEF Rank
      <3>3. k = IF e.kind = "bigint" THEN "int" ELSE e.kind
        BY <2>2, <2>6
      <3>4. QED
        BY <2>2, <2>5, <2>6, <3>1, <3>2, <3>3, Zenon
    <2>7. CASE e.kind = "undef"
      <3>1. EncElement(e) = <<2>>
        BY <2>7, FramedCodes DEF EncElement, UNDEF
      <3>2. Rank["undef"] = 2 /\ "undef" \in DOMAIN Rank
        BY DEF Rank
      <3>3. k = IF e.kind = "bigint" THEN "int" ELSE e.kind
        BY <2>2, <2>7
      <3>4. QED
        BY <2>2, <2>5, <2>7, <3>1, <3>2, <3>3, Zenon
    <2>8. QED
      BY <2>1, <2>6, <2>7
  <1>2. CASE e \in [kind : {"bool"}, val : BOOLEAN]
    <2>1. e.kind = "bool" /\ e.val \in BOOLEAN
      BY <1>2
    <2>2. k = "bool"
      BY <2>1, ElementValueForms DEF ScalarValue
    <2> DEFINE x == IF e.val THEN 6 ELSE 5
    <2>3. EncElement(e) = <<x>>
      BY <2>1, FramedCodes DEF EncElement, BOOL_TRUE, BOOL_FALSE
    <2>4. RankAt(x) = 3 /\ x \in 1..84
      BY DEF RankAt
    <2> HIDE DEF x
    <2>5. Begins(EncElement(e), 3)
      BY <2>3, <2>4, BeginsWith
    <2>6. QED
      BY <2>1, <2>2, <2>5 DEF Rank
  <1>3. CASE e \in [kind : {"int", "bigint"}, neg : BOOLEAN, mag : Magnitude]
    <2>1. e.kind \in {"int", "bigint"} /\ e.neg \in BOOLEAN /\ e.mag \in Magnitude
      BY <1>3
    <2>2. k = "int"
      BY <2>1, ElementValueForms DEF ScalarValue
    <2>3. EncElement(e) = EncInt(e.neg, e.mag)
      BY <2>1, EncElementInt
    <2> DEFINE t == Trimmed(e.mag)
    <2>4. EncInt(e.neg, e.mag) = IntForm(e.neg, t) /\ (t # <<>> => Significant(t))
      BY <2>1, IntShape
    <2>5. \A x \in 15..49 : x \in 1..84 /\ RankAt(x) = 4
      BY DEF RankAt
    <2> HIDE DEF t
    <2>6. \E x \in 15..49, u \in Seq(Byte) : IntForm(e.neg, t) = <<x>> \o u
      <3>1. CASE t = <<>>
        <4>1. IntForm(e.neg, t) = <<32>> \o z /\ 32 \in 15..49
          BY <3>1, <1>0 DEF IntForm, INT_ZERO
        <4>2. QED
          BY <4>1, <1>0, Zenon
      <3>2. CASE t # <<>>
        <4>1. (\A x \in 33..49 : x \in 15..49) /\ \A x \in 15..31 : x \in 15..49
          OBVIOUS
        <4>2. Significant(t)
          BY <2>4, <3>2
        <4>3. \E x \in 33..49, u \in Seq(Byte) : PositiveForm(t) = <<x>> \o u
          BY <4>2, FormHeads, Zenon
        <4>4. \E x \in 15..31, u \in Seq(Byte) : NegativeForm(t) = <<x>> \o u
          BY <4>2, FormHeads, Zenon
        <4>5. QED
          BY <3>2, <4>1, <4>3, <4>4, Zenon DEF IntForm
      <3>3. QED
        BY <3>1, <3>2
    <2>7. Begins(EncElement(e), 4)
      BY <2>3, <2>4, <2>5, <2>6, Zenon DEF Begins
    <2>8. e.kind = "int" \/ e.kind = "bigint"
      BY <2>1
    <2>9. k = IF e.kind = "bigint" THEN "int" ELSE e.kind
      BY <2>2, <2>8
    <2>10. QED
      BY <2>2, <2>7, <2>9 DEF Rank
  <1>4. CASE e \in [kind : {"f32"}, bits : [1..F32Width -> Byte]]
    <2>1. e.kind = "f32" /\ e.bits \in [1..F32Width -> Byte]
      BY <1>4
    <2>2. k = "f32"
      BY <2>1, ElementValueForms DEF ScalarValue
    <2>3. EncElement(e) = <<52>> \o EncFloatBits(e.bits)
      BY <2>1, FramedCodes DEF EncElement, FLOAT32
    <2>4. RankAt(52) = 5 /\ 52 \in 1..84 /\ F32Width \in Nat
      BY WidthAssumption DEF RankAt
    <2>5. EncFloatBits(e.bits) \in Seq(Byte)
      BY <2>1, <2>4, WidthAssumption, EncFloatBytes
    <2>6. Begins(EncElement(e), 5)
      BY <2>3, <2>4, <2>5, BeginsWith
    <2>7. QED
      BY <2>1, <2>2, <2>6 DEF Rank
  <1>5. CASE e \in [kind : {"f64"}, bits : [1..F64Width -> Byte]]
    <2>1. e.kind = "f64" /\ e.bits \in [1..F64Width -> Byte]
      BY <1>5
    <2>2. k = "f64"
      BY <2>1, ElementValueForms DEF ScalarValue
    <2>3. EncElement(e) = <<53>> \o EncFloatBits(e.bits)
      BY <2>1, FramedCodes DEF EncElement, FLOAT64
    <2>4. RankAt(53) = 6 /\ 53 \in 1..84 /\ F64Width \in Nat
      BY WidthAssumption DEF RankAt
    <2>5. EncFloatBits(e.bits) \in Seq(Byte)
      BY <2>1, <2>4, WidthAssumption, EncFloatBytes
    <2>6. Begins(EncElement(e), 6)
      BY <2>3, <2>4, <2>5, BeginsWith
    <2>7. QED
      BY <2>1, <2>2, <2>6 DEF Rank
  <1>6. CASE e \in [kind : {"decimal"}, neg : BOOLEAN, digits : Seq(0..9), exp : Int]
    <2>1. e.kind = "decimal" /\ e.neg \in BOOLEAN /\ InExpRange(e.exp)
      BY <1>6
    <2> DEFINE s == Trimmed(e.digits)
               i == Len(s) + e.exp
    <2>2. /\ s \in Seq(0..9) /\ i \in Int
          /\ s # <<>> => s[1] # 0 /\ InExpRange(i)
          /\ EncElement(e) = DecimalBytes(e.neg, s, i)
          /\ ElementValue(e) = DecimalOf(e.neg, s, i)
      BY <1>6, <2>1, DecimalShape
    <2> HIDE DEF s, i
    <2>3. k = "decimal"
      BY <2>2 DEF DecimalOf
    <2>4. RankAt(56) = 7 /\ 56 \in 1..84
      BY DEF RankAt
    <2>5. \E u \in Seq(Byte) : DecimalBytes(e.neg, s, i) = <<56>> \o u
      <3>1. CASE s = <<>>
        <4>1. DecimalBytes(e.neg, s, i) = <<56>> \o <<2>> /\ <<2>> \in Seq(Byte)
          BY <3>1 DEF DecimalBytes, DECIMAL, DEC_SIGN_ZERO, Byte
        <4>2. QED
          BY <4>1, Zenon
      <3>2. CASE s # <<>>
        <4>1. Kept(s) \in Seq(0..9) /\ Len(Kept(s)) \in 1..Len(s) /\ Kept(s)[Len(Kept(s))] # 0
          BY <2>2, <3>2, KeptProperties
        <4>2. Fraction(Kept(s))
          BY <4>1 DEF Fraction
        <4> DEFINE w == Signed(e.neg, DecimalTail(i, Kept(s)))
                   y == IF e.neg THEN DEC_SIGN_NEG ELSE DEC_SIGN_POS
        <4>3. w \in Seq(Byte) /\ DecimalForm(e.neg, i, Kept(s)) = <<DECIMAL>> \o (<<y>> \o w)
          BY <2>1, <2>2, <3>2, <4>2, DecimalHead
        <4>4. y \in Byte
          BY DEF DEC_SIGN_NEG, DEC_SIGN_POS, Byte
        <4> HIDE DEF w, y
        <4>5. <<y>> \o w \in Seq(Byte)
          BY <4>3, <4>4
        <4>6. QED
          BY <3>2, <4>3, <4>5, Zenon DEF DecimalBytes, DECIMAL
      <3>3. QED
        BY <3>1, <3>2
    <2>6. Begins(EncElement(e), 7)
      BY <2>2, <2>4, <2>5, BeginsWith
    <2>7. QED
      BY <2>1, <2>3, <2>6 DEF Rank
  <1>7. CASE e \in [kind : {"timestamp"}, data : [1..NativeWidth -> Byte]]
    <2>1. e.kind = "timestamp" /\ e.data \in [1..NativeWidth -> Byte]
      BY <1>7
    <2>2. k = "timestamp"
      BY <2>1, ElementValueForms DEF ScalarValue
    <2>3. EncElement(e) = <<64>> \o FlipSign(e.data)
      BY <2>1, FramedCodes DEF EncElement, TIMESTAMP
    <2>4. RankAt(64) = 8 /\ 64 \in 1..84 /\ NativeWidth \in Nat
      BY WidthAssumption DEF RankAt
    <2>5. FlipSign(e.data) \in Seq(Byte)
      BY <2>1, <2>4, FlipSignBytes
    <2>6. Begins(EncElement(e), 8)
      BY <2>3, <2>4, <2>5, BeginsWith
    <2>7. QED
      BY <2>1, <2>2, <2>6 DEF Rank
  <1>8. CASE e \in [kind : {"uuid"}, data : [1..UuidWidth -> Byte]]
    <2>1. e.kind = "uuid" /\ e.data \in [1..UuidWidth -> Byte]
      BY <1>8
    <2>2. k = "uuid"
      BY <2>1, ElementValueForms DEF ScalarValue
    <2>3. EncElement(e) = <<68>> \o e.data
      BY <2>1, FramedCodes DEF EncElement, UUID
    <2>4. RankAt(68) = 9 /\ 68 \in 1..84 /\ UuidWidth \in Nat
      BY WidthAssumption DEF RankAt
    <2>5. e.data \in Seq(Byte)
      BY <2>1, <2>4
    <2>6. Begins(EncElement(e), 9)
      BY <2>3, <2>4, <2>5, BeginsWith
    <2>7. QED
      BY <2>1, <2>2, <2>6 DEF Rank
  <1>9. CASE e \in [kind : DOMAIN FramedCode, data : Seq(Byte)]
    <2>1. e.kind \in {"string", "bytes", "array", "map", "set"} /\ e.data \in Seq(Byte)
      BY <1>9, FramedCodes
    <2>2. k = e.kind
      BY <2>1, ElementValueForms DEF ScalarValue
    <2>3. EncElement(e) = EncFramed(FramedCode[e.kind], e.data)
      BY <2>1, FramedCodes DEF EncElement
    <2>4. /\ FramedCode[e.kind] \in 1..84 /\ FramedCode[e.kind] \in Byte
          /\ RankAt(FramedCode[e.kind]) = Rank[e.kind] /\ e.kind \in DOMAIN Rank
      <3> DEFINE g == FramedCode[e.kind]
                 r == Rank[e.kind]
      <3>1. CASE e.kind = "string"
        <4>1. g = 72 /\ r = 10 /\ e.kind \in DOMAIN Rank
          BY <3>1 DEF FramedCode, Rank, STRING_CODE
        <4> HIDE DEF g, r
        <4>2. g \in 1..84 /\ g \in Byte /\ RankAt(g) = r
          BY <4>1 DEF RankAt, Byte
        <4>3. QED
          BY <4>1, <4>2, Zenon DEF g, r
      <3>2. CASE e.kind = "bytes"
        <4>1. g = 73 /\ r = 11 /\ e.kind \in DOMAIN Rank
          BY <3>2 DEF FramedCode, Rank, BYTES
        <4> HIDE DEF g, r
        <4>2. g \in 1..84 /\ g \in Byte /\ RankAt(g) = r
          BY <4>1 DEF RankAt, Byte
        <4>3. QED
          BY <4>1, <4>2, Zenon DEF g, r
      <3>3. CASE e.kind = "array"
        <4>1. g = 80 /\ r = 12 /\ e.kind \in DOMAIN Rank
          BY <3>3 DEF FramedCode, Rank, ARRAY
        <4> HIDE DEF g, r
        <4>2. g \in 1..84 /\ g \in Byte /\ RankAt(g) = r
          BY <4>1 DEF RankAt, Byte
        <4>3. QED
          BY <4>1, <4>2, Zenon DEF g, r
      <3>4. CASE e.kind = "map"
        <4>1. g = 82 /\ r = 13 /\ e.kind \in DOMAIN Rank
          BY <3>4 DEF FramedCode, Rank, MAP
        <4> HIDE DEF g, r
        <4>2. g \in 1..84 /\ g \in Byte /\ RankAt(g) = r
          BY <4>1 DEF RankAt, Byte
        <4>3. QED
          BY <4>1, <4>2, Zenon DEF g, r
      <3>5. CASE e.kind = "set"
        <4>1. g = 84 /\ r = 14 /\ e.kind \in DOMAIN Rank
          BY <3>5 DEF FramedCode, Rank, SET
        <4> HIDE DEF g, r
        <4>2. g \in 1..84 /\ g \in Byte /\ RankAt(g) = r
          BY <4>1 DEF RankAt, Byte
        <4>3. QED
          BY <4>1, <4>2, Zenon DEF g, r
      <3>6. QED
        BY <2>1, <3>1, <3>2, <3>3, <3>4, <3>5, Zenon
    <2>5. \E u \in Seq(Byte) : EncElement(e) = <<FramedCode[e.kind]>> \o u
      <3> DEFINE g == FramedCode[e.kind]
                 d == e.data
      <3>1. g \in Byte /\ d \in Seq(Byte) /\ z \in Seq(Byte)
        BY <2>1, <2>4, <1>0
      <3> HIDE DEF g, d, z
      <3>2. \E u \in Seq(Byte) : EncFramed(g, d) = <<g>> \o u
        BY <3>1, FrameForm
      <3>3. QED
        BY <2>3, <3>2 DEF g, d
    <2>6. Begins(EncElement(e), Rank[e.kind])
      BY <2>4, <2>5, Zenon DEF Begins
    <2>7. e.kind # "bigint"
      BY <2>1
    <2>8. QED
      BY <2>2, <2>4, <2>6, <2>7, Zenon
  <1>10. QED
    BY <1>1, <1>2, <1>3, <1>4, <1>5, <1>6, <1>7, <1>8, <1>9 DEF Encodable

Kinds == {"nil", "undef", "bool", "int", "f32", "f64", "decimal", "timestamp", "uuid", "string",
          "bytes", "array", "map", "set"}
LEMMA RankApart ==
    /\ DOMAIN Rank = Kinds
    /\ \A k, l \in Kinds : k # l => Rank[k] # Rank[l]
    /\ \A k \in Kinds : Rank[k] \in Int
  <1>1. DOMAIN Rank = Kinds
    BY DEF Rank, Kinds
  <1>2. /\ Rank["nil"] = 1 /\ Rank["undef"] = 2 /\ Rank["bool"] = 3 /\ Rank["int"] = 4 /\ Rank["f32"] = 5
        /\ Rank["f64"] = 6 /\ Rank["decimal"] = 7 /\ Rank["timestamp"] = 8 /\ Rank["uuid"] = 9
        /\ Rank["string"] = 10 /\ Rank["bytes"] = 11 /\ Rank["array"] = 12 /\ Rank["map"] = 13
        /\ Rank["set"] = 14
    BY DEF Rank
  <1>3. \A k \in Kinds : Rank[k] \in Int
    BY <1>2 DEF Kinds
  <1>4. \A k, l \in Kinds : k # l => Rank[k] # Rank[l]
    BY <1>2 DEF Kinds
  <1>5. QED
    BY <1>1, <1>3, <1>4

(* Elements of different kinds compare as their kinds rank.                *)
LEMMA KindOrder ==
    ASSUME NEW s \in Seq(Byte), NEW t \in Seq(Byte), NEW k \in Kinds, NEW l \in Kinds, k # l,
           Begins(s, Rank[k]), Begins(t, Rank[l]), NEW a \in Seq(Byte), NEW b \in Seq(Byte)
    PROVE  Compare(s \o a, t \o b) = SignOf(Rank[k] - Rank[l])
  <1>1. PICK x \in 1..84, u \in Seq(Byte) : RankAt(x) = Rank[k] /\ s = <<x>> \o u
    BY Zenon DEF Begins
  <1>2. PICK y \in 1..84, v \in Seq(Byte) : RankAt(y) = Rank[l] /\ t = <<y>> \o v
    BY Zenon DEF Begins
  <1>3. x \in Byte /\ y \in Byte
    BY DEF Byte
  <1>4. Rank[k] # Rank[l]
    BY RankApart, Zenon
  <1>5. x # y /\ SignOf(x - y) = SignOf(Rank[k] - Rank[l])
    <2>1. RankAt(x) # RankAt(y) => x # y /\ SignOf(x - y) = SignOf(RankAt(x) - RankAt(y))
      BY <1>3, RankMonotone
    <2>2. QED
      BY <1>1, <1>2, <1>4, <2>1, Zenon
  <1>6. (<<x>> \o u) \o a = <<x>> \o (u \o a) /\ (<<y>> \o v) \o b = <<y>> \o (v \o b)
    BY <1>3, HeadAssociative, Zenon
  <1>7. u \o a \in Seq(Byte) /\ v \o b \in Seq(Byte)
    OBVIOUS
  <1> DEFINE p == u \o a
             q == v \o b
             g == SignOf(x - y)
  <1>8. p \in Seq(Byte) /\ q \in Seq(Byte) /\ s \o a = <<x>> \o p /\ t \o b = <<y>> \o q
    BY <1>1, <1>2, <1>6, <1>7
  <1>9. g # 0
    BY <1>3, <1>5, ByteInt DEF SignOf
  <1> HIDE DEF p, q
  <1>10. Compare(<<x>> \o p, <<y>> \o q) = Then(g, Compare(p, q))
    BY <1>3, <1>8, HeadCompare
  <1>11. QED
    BY <1>5, <1>8, <1>9, <1>10, Zenon DEF Then

LEMMA OrderedThen ==
    \A e, f, c : OrderedAs(e, f, c) => \A a, b \in Seq(Byte) :
        Compare(EncElement(e) \o a, EncElement(f) \o b) = Then(c, Compare(a, b))
  <1>0. SUFFICES ASSUME NEW e, NEW f, NEW c, OrderedAs(e, f, c), NEW a \in Seq(Byte), NEW b \in Seq(Byte)
                 PROVE  Compare(EncElement(e) \o a, EncElement(f) \o b) = Then(c, Compare(a, b))
    BY Zenon
  <1> DEFINE u == EncElement(e)
             v == EncElement(f)
  <1>1. u \in Seq(Byte) /\ v \in Seq(Byte) /\ Separate(u, v) /\ Compare(u, v) = c
    BY <1>0, Zenon DEF OrderedAs
  <1> HIDE DEF u, v
  <1>2. Compare(u \o a, v \o b) = Then(Compare(u, v), Compare(a, b))
    BY <1>1, ApartThen
  <1>3. QED
    BY <1>1, <1>2, Zenon DEF u, v

(* What may be appended: elements that leave bytes, and whose exponent     *)
(* is not wrapped.                                                         *)
Appended(e) == e \in Encodable /\ (e.kind = "decimal" => InExpRange(e.exp)) /\ EncElement(e) # <<>>

(* Two elements of one kind compare as their values, containers as their   *)
(* contents; equal ones as what follows them.                              *)
THEOREM SameKindOrder ==
    ASSUME NEW e, NEW f, Appended(e), Appended(f), ElementValue(e).kind = ElementValue(f).kind,
           NEW a \in Seq(Byte), NEW b \in Seq(Byte), Continues(a), Continues(b)
    PROVE  Compare(EncElement(e) \o a, EncElement(f) \o b) =
             IF e.kind \in {"array", "set", "map"} THEN Then(Compare(e.data, f.data), Compare(a, b))
             ELSE Then(ScalarCompare(ElementValue(e), ElementValue(f)), Compare(a, b))
  <1> DEFINE c == ScalarCompare(ElementValue(e), ElementValue(f))
             Scalar(x) == x.kind \notin {"array", "set", "map"}
  <1>0. e \in Encodable /\ f \in Encodable /\ EncElement(e) # <<>> /\ EncElement(f) # <<>>
        /\ (e.kind = "decimal" => InExpRange(e.exp)) /\ (f.kind = "decimal" => InExpRange(f.exp))
    BY Zenon DEF Appended
  <1>1. /\ ElementValue(e).kind = (IF e.kind = "bigint" THEN "int" ELSE e.kind)
        /\ ElementValue(f).kind = (IF f.kind = "bigint" THEN "int" ELSE f.kind)
    BY <1>0, ElementHead
  <1>2. (IF e.kind = "bigint" THEN "int" ELSE e.kind) = (IF f.kind = "bigint" THEN "int" ELSE f.kind)
    BY <1>1
  <1>3. \/ f \in [kind : {"nil", "undef"}]
        \/ f \in [kind : {"bool"}, val : BOOLEAN]
        \/ f \in [kind : {"int", "bigint"}, neg : BOOLEAN, mag : Magnitude]
        \/ f \in [kind : {"f32"}, bits : [1..F32Width -> Byte]]
        \/ f \in [kind : {"f64"}, bits : [1..F64Width -> Byte]]
        \/ f \in [kind : {"decimal"}, neg : BOOLEAN, digits : Seq(0..9), exp : Int]
        \/ f \in [kind : {"timestamp"}, data : [1..NativeWidth -> Byte]]
        \/ f \in [kind : {"uuid"}, data : [1..UuidWidth -> Byte]]
        \/ f \in [kind : DOMAIN FramedCode, data : Seq(Byte)]
    BY <1>0 DEF Encodable
  <1> HIDE DEF c
  <1>4. OrderedAs(e, f, c) => Compare(EncElement(e) \o a, EncElement(f) \o b) = Then(c, Compare(a, b))
    <2>1. ASSUME NEW g, OrderedAs(e, f, g)
          PROVE  Compare(EncElement(e) \o a, EncElement(f) \o b) = Then(g, Compare(a, b))
      BY <2>1, OrderedThen
    <2>2. QED
      BY <2>1, Zenon
  <1>5. Scalar(e) /\ OrderedAs(e, f, c) => Compare(EncElement(e) \o a, EncElement(f) \o b) =
             IF e.kind \in {"array", "set", "map"} THEN Then(Compare(e.data, f.data), Compare(a, b))
             ELSE Then(c, Compare(a, b))
    BY <1>4, Zenon
  <1>6. SUFFICES \/ Scalar(e) /\ OrderedAs(e, f, c)
                 \/ /\ e.kind \in DOMAIN FramedCode /\ e.kind = f.kind
                    /\ e.data \in Seq(Byte) /\ f.data \in Seq(Byte)
    <2>1. ASSUME e.kind \in DOMAIN FramedCode, e.kind = f.kind, e.data \in Seq(Byte), f.data \in Seq(Byte)
          PROVE  Compare(EncElement(e) \o a, EncElement(f) \o b) =
             IF e.kind \in {"array", "set", "map"} THEN Then(Compare(e.data, f.data), Compare(a, b))
             ELSE Then(c, Compare(a, b))
      <3> DEFINE h == FramedCode[e.kind]
                 p == e.data
                 q == f.data
      <3>1. EncElement(e) = EncFramed(h, p) /\ EncElement(f) = EncFramed(h, q)
        BY <2>1, FramedCodes DEF EncElement
      <3>2. h \in Byte /\ p \in Seq(Byte) /\ q \in Seq(Byte)
        BY <2>1, FramedCodes
      <3>3. ASSUME Scalar(e)
            PROVE  c = Compare(p, q)
        <4>1. e.kind \in {"string", "bytes"}
          BY <2>1, <3>3, FramedCodes
        <4>2. ElementValue(e) = e /\ ElementValue(f) = f
          BY <2>1, <4>1, ElementValueForms DEF ScalarValue
        <4>3. ScalarCompare(e, f) = Compare(e.data, f.data)
          BY <4>1 DEF ScalarCompare
        <4>4. QED
          BY <4>2, <4>3, Zenon DEF c
      <3> HIDE DEF h, p, q
      <3>4. Compare(EncFramed(h, p) \o a, EncFramed(h, q) \o b) = Then(Compare(p, q), Compare(a, b))
        BY <3>2, FrameOrder
      <3>5. QED
        BY <3>1, <3>3, <3>4, Zenon DEF p, q
    <2>2. QED
      BY <1>5, <2>1, Zenon DEF c
  <1>7. CASE e \in [kind : {"nil", "undef"}]
    <2>1. e.kind \in {"nil", "undef"}
      BY <1>7
    <2>2. f.kind = e.kind
      BY <1>2, <2>1
    <2>3. e = [kind |-> e.kind]
      BY <1>7
    <2>4. f = [kind |-> f.kind]
      BY <1>3, <2>1, <2>2, FramedCodes
    <2>5. e = f
      BY <2>2, <2>3, <2>4, Zenon
    <2>6. EncElement(e) \in Seq(Byte)
      BY <1>0, EncElementBytes
    <2>7. ElementValue(e).kind \in {"nil", "undef"}
      BY <1>1, <2>1
    <2>8. c = 0
      BY <2>5, <2>7 DEF ScalarCompare, c
    <2>9. Compare(EncElement(e), EncElement(e)) = 0
      BY <2>6, CompareOrder
    <2>10. OrderedAs(e, f, c)
      BY <2>5, <2>6, <2>8, <2>9, Zenon DEF OrderedAs, Separate
    <2>11. Scalar(e)
      BY <2>1
    <2>12. QED
      BY <2>10, <2>11, Zenon
  <1>8. CASE e \in [kind : {"bool"}, val : BOOLEAN]
    <2>1. e.kind = "bool"
      BY <1>8
    <2>2. f.kind = "bool"
      BY <1>2, <2>1
    <2>3. f \in [kind : {"bool"}, val : BOOLEAN]
      BY <1>3, <2>2, FramedCodes
    <2>4. OrderedAs(e, f, c) /\ Scalar(e)
      BY <1>8, <2>1, <2>3, BoolOrder DEF c
    <2>5. QED
      BY <2>4, Zenon
  <1>9. CASE e \in [kind : {"int", "bigint"}, neg : BOOLEAN, mag : Magnitude]
    <2>1. e.kind \in {"int", "bigint"}
      BY <1>9
    <2>2. f.kind \in {"int", "bigint"}
      BY <1>2, <2>1
    <2>3. f \in [kind : {"int", "bigint"}, neg : BOOLEAN, mag : Magnitude]
      BY <1>3, <2>2, FramedCodes
    <2>4. OrderedAs(e, f, c)
      BY <1>9, <2>3, IntElementOrder DEF c
    <2>5. Scalar(e)
      BY <2>1
    <2>6. QED
      BY <2>4, <2>5, Zenon
  <1>10. CASE e \in [kind : {"f32"}, bits : [1..F32Width -> Byte]]
    <2>1. e.kind = "f32" /\ F32Width \in Nat \ {0}
      BY <1>10, WidthAssumption
    <2>2. f.kind = "f32"
      BY <1>2, <2>1
    <2>3. f \in [kind : {"f32"}, bits : [1..F32Width -> Byte]]
      BY <1>3, <2>2, FramedCodes
    <2>4. OrderedAs(e, f, c)
      BY <1>10, <2>1, <2>3, FloatElementOrder DEF c
    <2>5. Scalar(e)
      BY <2>1
    <2>6. QED
      BY <2>4, <2>5, Zenon
  <1>11. CASE e \in [kind : {"f64"}, bits : [1..F64Width -> Byte]]
    <2>1. e.kind = "f64" /\ F64Width \in Nat \ {0}
      BY <1>11, WidthAssumption
    <2>2. f.kind = "f64"
      BY <1>2, <2>1
    <2>3. f \in [kind : {"f64"}, bits : [1..F64Width -> Byte]]
      BY <1>3, <2>2, FramedCodes
    <2>4. OrderedAs(e, f, c)
      BY <1>11, <2>1, <2>3, FloatElementOrder DEF c
    <2>5. Scalar(e)
      BY <2>1
    <2>6. QED
      BY <2>4, <2>5, Zenon
  <1>12. CASE e \in [kind : {"decimal"}, neg : BOOLEAN, digits : Seq(0..9), exp : Int]
    <2>1. e.kind = "decimal"
      BY <1>12
    <2>2. f.kind = "decimal"
      BY <1>2, <2>1
    <2>3. f \in [kind : {"decimal"}, neg : BOOLEAN, digits : Seq(0..9), exp : Int]
      BY <1>3, <2>2, FramedCodes
    <2>4. OrderedAs(e, f, c)
      BY <1>0, <1>12, <2>1, <2>2, <2>3, DecimalElementOrder DEF c
    <2>5. Scalar(e)
      BY <2>1
    <2>6. QED
      BY <2>4, <2>5, Zenon
  <1>13. CASE e \in [kind : {"timestamp"}, data : [1..NativeWidth -> Byte]]
    <2>1. e.kind = "timestamp"
      BY <1>13
    <2>2. f.kind = "timestamp"
      BY <1>2, <2>1
    <2>3. f \in [kind : {"timestamp"}, data : [1..NativeWidth -> Byte]]
      BY <1>3, <2>2, FramedCodes
    <2>4. OrderedAs(e, f, c)
      BY <1>13, <2>3, TimestampOrder DEF c
    <2>5. Scalar(e)
      BY <2>1
    <2>6. QED
      BY <2>4, <2>5, Zenon
  <1>14. CASE e \in [kind : {"uuid"}, data : [1..UuidWidth -> Byte]]
    <2>1. e.kind = "uuid"
      BY <1>14
    <2>2. f.kind = "uuid"
      BY <1>2, <2>1
    <2>3. f \in [kind : {"uuid"}, data : [1..UuidWidth -> Byte]]
      BY <1>3, <2>2, FramedCodes
    <2>4. OrderedAs(e, f, c)
      BY <1>14, <2>3, UuidOrder DEF c
    <2>5. Scalar(e)
      BY <2>1
    <2>6. QED
      BY <2>4, <2>5, Zenon
  <1>15. CASE e \in [kind : DOMAIN FramedCode, data : Seq(Byte)]
    <2>1. e.kind \in {"string", "bytes", "array", "map", "set"} /\ e.data \in Seq(Byte)
      BY <1>15, FramedCodes
    <2>2. f.kind = e.kind
      BY <1>2, <2>1
    <2>3. f \in [kind : DOMAIN FramedCode, data : Seq(Byte)]
      BY <1>3, <2>1, <2>2
    <2>4. QED
      BY <2>1, <2>2, <2>3, FramedCodes
  <1>16. QED
    BY <1>0, <1>7, <1>8, <1>9, <1>10, <1>11, <1>12, <1>13, <1>14, <1>15 DEF Encodable

(* TupleCompare's local definitions. *)
Shorter(s, t) == IF Len(s) < Len(t) THEN Len(s) ELSE Len(t)
Differ(order, s, t) == {i \in 1..Shorter(s, t) : order[<<s[i], t[i]>>] # 0}

LEMMA TupleForm ==
    \A order, s, t :
        /\ Differ(order, s, t) # {} => TupleCompare(order, s, t) = order[<<s[FirstOf(Differ(order, s, t))], t[FirstOf(Differ(order, s, t))]>>]
        /\ Differ(order, s, t) = {} => TupleCompare(order, s, t) = SignOf(Len(s) - Len(t))
  <1>1. ASSUME NEW order, NEW s, NEW t
        PROVE  TupleCompare(order, s, t) =
                 IF Differ(order, s, t) # {}
                 THEN order[<<s[FirstOf(Differ(order, s, t))], t[FirstOf(Differ(order, s, t))]>>]
                 ELSE SignOf(Len(s) - Len(t))
    BY Zenon DEF TupleCompare, Differ, Shorter
  <1>2. QED
    BY <1>1, Zenon

LEMMA TupleEmpty ==
    \A order, S : /\ TupleCompare(order, <<>>, <<>>) = 0
                  /\ \A s \in Seq(S) : s # <<>> => /\ TupleCompare(order, <<>>, s) = -1
                                                   /\ TupleCompare(order, s, <<>>) = 1
  <1>1. SUFFICES ASSUME NEW order, NEW S
                 PROVE  /\ TupleCompare(order, <<>>, <<>>) = 0
                        /\ \A s \in Seq(S) : s # <<>> => /\ TupleCompare(order, <<>>, s) = -1
                                                         /\ TupleCompare(order, s, <<>>) = 1
    BY Zenon
  <1> DEFINE z == <<>>
  <1>2. Len(z) = 0
    OBVIOUS
  <1>3. \A s \in Seq(S) : Len(s) \in Nat /\ (s # z => Len(s) > 0)
    OBVIOUS
  <1> HIDE DEF z
  <1>4. Differ(order, z, z) = {}
    BY <1>2 DEF Differ, Shorter
  <1>5. TupleCompare(order, z, z) = SignOf(Len(z) - Len(z))
    BY <1>4, TupleForm
  <1>6. SignOf(Len(z) - Len(z)) = 0
    BY <1>2 DEF SignOf
  <1>7. ASSUME NEW s \in Seq(S), s # z
        PROVE  TupleCompare(order, z, s) = -1 /\ TupleCompare(order, s, z) = 1
    <2>1. Len(s) \in Nat /\ Len(s) > 0
      BY <1>3, <1>7
    <2> DEFINE n == Len(s)
    <2>2. Differ(order, z, s) = {} /\ Differ(order, s, z) = {}
      <3>1. Shorter(z, s) = 0 /\ Shorter(s, z) = 0
        BY <2>1, <1>2 DEF Shorter
      <3>2. 1..0 = {}
        OBVIOUS
      <3>3. QED
        BY <3>1, <3>2, Zenon DEF Differ
    <2>3. TupleCompare(order, z, s) = SignOf(Len(z) - n) /\ TupleCompare(order, s, z) = SignOf(n - Len(z))
      BY <2>2, TupleForm
    <2> HIDE DEF n
    <2>4. SignOf(Len(z) - n) = -1 /\ SignOf(n - Len(z)) = 1
      BY <2>1, <1>2 DEF SignOf, n
    <2>5. QED
      BY <2>3, <2>4, Zenon
  <1>8. QED
    BY <1>5, <1>6, <1>7, Zenon DEF z

LEMMA TupleFirst ==
    ASSUME NEW S, NEW x \in S, NEW y \in S, NEW s \in Seq(S), NEW t \in Seq(S), NEW order
    PROVE  TupleCompare(order, <<x>> \o s, <<y>> \o t) = Then(order[<<x, y>>], TupleCompare(order, s, t))
  <1> DEFINE u == <<x>> \o s
             v == <<y>> \o t
             D == Differ(order, s, t)
             E == Differ(order, u, v)
             m == Shorter(s, t)
             n == Shorter(u, v)
  <1>1. /\ Len(s) \in Nat /\ Len(t) \in Nat /\ Len(u) = Len(s) + 1 /\ Len(v) = Len(t) + 1
        /\ u[1] = x /\ v[1] = y
        /\ \A i \in 1..Len(s) : u[i + 1] = s[i]
        /\ \A i \in 1..Len(t) : v[i + 1] = t[i]
    OBVIOUS
  <1> HIDE DEF u, v
  <1>2. m \in Nat /\ n = m + 1 /\ m <= Len(s) /\ m <= Len(t)
    BY <1>1 DEF Shorter
  <1>3. D = {i \in 1..m : order[<<s[i], t[i]>>] # 0} /\ E = {i \in 1..n : order[<<u[i], v[i]>>] # 0}
    BY Zenon DEF Differ
  <1> HIDE DEF D, E, m, n
  <1>10. D \subseteq 1..m /\ E \subseteq 1..n
    BY <1>3, Zenon
  <1>11. D \in SUBSET Nat /\ E \in SUBSET Nat
    BY <1>2, <1>10
  <1>4. \A i \in 1..m : u[i + 1] = s[i] /\ v[i + 1] = t[i]
    BY <1>1, <1>2
  <1>5. /\ 1 \in E <=> order[<<x, y>>] # 0
        /\ \A i \in 1..m : i + 1 \in E <=> i \in D
    <2>1. 1 \in 1..n /\ \A i \in 1..m : i + 1 \in 1..n
      BY <1>2
    <2>2. QED
      BY <1>1, <1>3, <1>4, <2>1, Zenon
  <1>6. CASE order[<<x, y>>] # 0
    <2>1. 1 \in E /\ E \in SUBSET Nat /\ \A i \in E : 1 <= i
      <3>1. 1 \in E
        BY <1>5, <1>6, Zenon
      <3>2. \A i \in 1..n : 1 <= i
        BY <1>2
      <3>3. QED
        BY <3>1, <3>2, <1>10, <1>11
    <2>2. FirstOf(E) = 1
      BY <2>1, FirstOfIs
    <2>3. TupleCompare(order, u, v) = order[<<u[FirstOf(E)], v[FirstOf(E)]>>]
      <3>1. E # {}
        BY <2>1, Zenon
      <3>2. QED
        BY <3>1, TupleForm, Zenon DEF E
    <2>4. QED
      BY <1>1, <1>6, <2>2, <2>3, Zenon DEF Then, u, v
  <1>7. CASE order[<<x, y>>] = 0 /\ D = {}
    <2>1. E = {}
      <3>1. SUFFICES ASSUME NEW i \in E
                     PROVE  FALSE
        BY Zenon
      <3>2. i \in 1..n /\ i # 1
        BY <1>3, <1>5, <1>7, Zenon
      <3>3. i - 1 \in 1..m /\ (i - 1) + 1 = i
        BY <1>2, <3>2
      <3>4. i - 1 \in D
        BY <1>5, <3>3
      <3>5. QED
        BY <1>7, <3>4
    <2>2. TupleCompare(order, u, v) = SignOf(Len(u) - Len(v))
      BY <2>1, TupleForm, Zenon DEF E
    <2>3. TupleCompare(order, s, t) = SignOf(Len(s) - Len(t))
      BY <1>7, TupleForm, Zenon DEF D
    <2>4. SignOf(Len(u) - Len(v)) = SignOf(Len(s) - Len(t))
      BY <1>1 DEF SignOf
    <2>5. QED
      BY <1>7, <2>2, <2>3, <2>4, Zenon DEF Then, u, v
  <1>8. CASE order[<<x, y>>] = 0 /\ D # {}
    <2> DEFINE f == FirstOf(D)
    <2>1. D \in SUBSET Nat
      BY <1>11
    <2>2. f \in D /\ \A i \in D : f <= i
      <3>1. \E i \in D : \A j \in D : i <= j
        BY <1>8, <2>1, FirstOfProperties
      <3>2. QED
        BY <3>1, Zenon DEF FirstOf
    <2> HIDE DEF f
    <2>3. f \in 1..m /\ f \in Nat
      BY <1>10, <1>11, <2>2
    <2>4. f + 1 \in E
      BY <1>5, <2>2, <2>3
    <2>5. \A i \in E : f + 1 <= i
      <3>1. SUFFICES ASSUME NEW i \in E
                     PROVE  f + 1 <= i
        BY Zenon
      <3>2. i \in 1..n /\ i # 1
        BY <1>3, <1>5, <1>8, Zenon
      <3>3. i - 1 \in 1..m /\ (i - 1) + 1 = i /\ i \in Nat
        BY <1>2, <3>2
      <3>4. i - 1 \in D
        BY <1>5, <3>3
      <3>5. f <= i - 1
        BY <2>2, <3>4
      <3>6. QED
        BY <2>3, <3>3, <3>5
    <2>6. E \in SUBSET Nat
      BY <1>11
    <2>7. FirstOf(E) = f + 1
      BY <2>4, <2>5, <2>6, FirstOfIs
    <2>8. TupleCompare(order, u, v) = order[<<u[f + 1], v[f + 1]>>]
      <3>1. E # {}
        BY <2>4, Zenon
      <3>2. QED
        BY <2>7, <3>1, TupleForm, ZenonT(40) DEF E
    <2>9. TupleCompare(order, s, t) = order[<<s[f], t[f]>>]
      BY <1>8, TupleForm, Zenon DEF D, f
    <2>10. u[f + 1] = s[f] /\ v[f + 1] = t[f]
      BY <1>4, <2>3
    <2>11. QED
      BY <1>8, <2>8, <2>9, <2>10, Zenon DEF Then, u, v
  <1>9. QED
    BY <1>6, <1>7, <1>8, Zenon

-----------------------------------------------------------------------------
(* The two recursive functions of the order, unfolded.                     *)
WithinStep(V, d) == IF d = 0 THEN {} ELSE ScalarValues \cup ContainersOf(V)

LEMMA WithinFirst == \A V, W : WithinStep(V, 0) = WithinStep(W, 0)
  BY Zenon DEF WithinStep

IsWithin(f, n) == \A d \in 0..n : f[d] = WithinStep(f[d - 1], d)

LEMMA WithinExists == \A n \in Nat : \E f : IsWithin(f, n)
  <1> DEFINE S == {n \in Nat : \E f : IsWithin(f, n)}
  <1>1. 0 \in S
    <2> DEFINE g == [d \in {0} |-> WithinStep(0, d)]
    <2>1. g[0] = WithinStep(0, 0)
      BY Zenon
    <2> HIDE DEF g
    <2>2. g[0] = WithinStep(g[0 - 1], 0)
      BY <2>1, WithinFirst, Zenon
    <2>3. \A d \in 0..0 : d = 0
      OBVIOUS
    <2>4. IsWithin(g, 0)
      BY <2>2, <2>3, Zenon DEF IsWithin
    <2>5. QED
      BY <2>4, Zenon
  <1>2. ASSUME NEW n \in Nat, n \in S
        PROVE  n + 1 \in S
    <2>1. PICK f : IsWithin(f, n)
      BY <1>2, Zenon
    <2> DEFINE g == [d \in 0..(n + 1) |-> IF d <= n THEN f[d] ELSE WithinStep(f[n], d)]
    <2>2. \A d \in 0..(n + 1) : g[d] = IF d <= n THEN f[d] ELSE WithinStep(f[n], d)
      BY Zenon
    <2> HIDE DEF g
    <2>3. ASSUME NEW d \in 0..(n + 1)
          PROVE  g[d] = WithinStep(g[d - 1], d)
      <3>1. CASE d = 0
        <4>1. 0 \in 0..n /\ 0 <= n /\ 0 \in 0..(n + 1)
          BY <1>2
        <4>2. g[0] = WithinStep(f[0 - 1], 0)
          BY <2>1, <2>2, <4>1, Zenon DEF IsWithin
        <4>3. QED
          BY <3>1, <4>2, WithinFirst, Zenon
      <3>2. CASE d # 0 /\ d <= n
        <4>1. d \in 0..n /\ d - 1 \in 0..(n + 1) /\ d - 1 <= n
          BY <1>2, <3>2
        <4>2. g[d] = f[d] /\ g[d - 1] = f[d - 1]
          BY <2>2, <3>2, <4>1, Zenon
        <4>3. f[d] = WithinStep(f[d - 1], d)
          BY <2>1, <4>1, Zenon DEF IsWithin
        <4>4. QED
          BY <4>2, <4>3, Zenon
      <3>3. CASE ~(d <= n)
        <4>1. d - 1 = n /\ n \in 0..(n + 1) /\ n <= n
          BY <1>2, <3>3
        <4>2. g[d] = WithinStep(f[n], d) /\ g[n] = f[n]
          BY <2>2, <3>3, <4>1, Zenon
        <4>3. QED
          BY <4>1, <4>2, Zenon
      <3>4. QED
        BY <3>1, <3>2, <3>3, Zenon
    <2>4. n + 1 \in Nat
      BY <1>2
    <2>5. QED
      BY <2>3, <2>4, Zenon DEF IsWithin
  <1> HIDE DEF S
  <1>3. \A n \in Nat : n \in S
    BY <1>1, <1>2, NatSetInduction
  <1>4. QED
    BY <1>3, Zenon DEF S

LEMMA WithinUnique ==
    ASSUME NEW f, NEW g, NEW n \in Nat, NEW m \in Nat, IsWithin(f, n), IsWithin(g, m)
    PROVE  \A d \in Nat : d <= n /\ d <= m => f[d] = g[d]
  <1> DEFINE S == {d \in Nat : d <= n /\ d <= m => f[d] = g[d]}
  <1>1. 0 \in S
    <2>1. 0 \in 0..n /\ 0 \in 0..m
      OBVIOUS
    <2>2. f[0] = WithinStep(f[0 - 1], 0) /\ g[0] = WithinStep(g[0 - 1], 0)
      BY <2>1, Zenon DEF IsWithin
    <2>3. f[0] = g[0]
      BY <2>2, WithinFirst, Zenon
    <2>4. QED
      BY <2>3
  <1>2. ASSUME NEW d \in Nat, d \in S
        PROVE  d + 1 \in S
    <2>1. SUFFICES ASSUME d + 1 <= n, d + 1 <= m
                   PROVE  f[d + 1] = g[d + 1]
      BY <1>2
    <2>2. d <= n /\ d <= m /\ d + 1 \in 0..n /\ d + 1 \in 0..m /\ (d + 1) - 1 = d
      BY <1>2, <2>1
    <2>3. f[d] = g[d]
      BY <1>2, <2>2, Zenon
    <2>4. f[d + 1] = WithinStep(f[(d + 1) - 1], d + 1) /\ g[d + 1] = WithinStep(g[(d + 1) - 1], d + 1)
      BY <2>2, Zenon DEF IsWithin
    <2>5. QED
      BY <2>2, <2>3, <2>4, Zenon
  <1> HIDE DEF S
  <1>3. \A d \in Nat : d \in S
    BY <1>1, <1>2, NatSetInduction
  <1>4. QED
    BY <1>3, Zenon DEF S

LEMMA WithinWalk == \E f : f = [d \in Nat |-> WithinStep(f[d - 1], d)]
  <1> DEFINE To(n) == CHOOSE f : IsWithin(f, n)
             walk  == [d \in Nat |-> To(d)[d]]
  <1>1. \A n \in Nat : IsWithin(To(n), n)
    BY WithinExists, Zenon
  <1>2. \A d \in Nat : walk[d] = To(d)[d]
    BY Zenon
  <1> HIDE DEF To
  <1>3. walk = [d \in Nat |-> walk[d]]
    OBVIOUS
  <1> HIDE DEF walk
  <1>4. ASSUME NEW d \in Nat
        PROVE  walk[d] = WithinStep(walk[d - 1], d)
    <2>1. IsWithin(To(d), d) /\ walk[d] = To(d)[d] /\ d \in 0..d
      BY <1>1, <1>2
    <2>2. walk[d] = WithinStep(To(d)[d - 1], d)
      BY <2>1, Zenon DEF IsWithin
    <2>3. CASE d = 0
      BY <2>2, <2>3, WithinFirst, Zenon
    <2>4. CASE d # 0
      <3> DEFINE e == d - 1
      <3>1. e \in Nat /\ e <= d /\ e <= e
        BY <2>4
      <3> HIDE DEF e
      <3>2. IsWithin(To(e), e) /\ walk[e] = To(e)[e]
        BY <1>1, <1>2, <3>1, Zenon
      <3>3. To(d)[e] = To(e)[e]
        BY <2>1, <3>1, <3>2, WithinUnique
      <3>4. QED
        BY <2>2, <3>2, <3>3, Zenon DEF e
    <2>5. QED
      BY <2>3, <2>4, Zenon
  <1>5. walk = [d \in Nat |-> WithinStep(walk[d - 1], d)]
    BY <1>3, <1>4, Zenon
  <1>6. QED
    BY <1>5, Zenon

LEMMA WithinUnfold ==
    /\ ValuesWithin[0] = {}
    /\ \A d \in Nat \ {0} : ValuesWithin[d] = ScalarValues \cup ContainersOf(ValuesWithin[d - 1])
  <1>1. \E f : f = [d \in Nat |-> IF d = 0 THEN {} ELSE ScalarValues \cup ContainersOf(f[d - 1])]
    BY WithinWalk, Zenon DEF WithinStep
  <1>2. ValuesWithin = [d \in Nat |-> IF d = 0 THEN {} ELSE ScalarValues \cup ContainersOf(ValuesWithin[d - 1])]
    BY <1>1, Zenon DEF ValuesWithin
  <1>3. \A d \in Nat : ValuesWithin[d] = IF d = 0 THEN {} ELSE ScalarValues \cup ContainersOf(ValuesWithin[d - 1])
    BY <1>2, Zenon
  <1>4. QED
    BY <1>3

OrderStep(g, d) ==
    [p \in ValuesWithin[d] \X ValuesWithin[d] |-> ElementCompare(g, p[1], p[2])]

LEMMA OrderFirst == \A g, h : OrderStep(g, 0) = OrderStep(h, 0)
  <1>1. ASSUME NEW g, NEW h
        PROVE  OrderStep(g, 0) = OrderStep(h, 0)
    <2>1. \A p \in ValuesWithin[0] \X ValuesWithin[0] : ElementCompare(g, p[1], p[2]) = ElementCompare(h, p[1], p[2])
      BY WithinUnfold
    <2>2. QED
      BY <2>1, Zenon DEF OrderStep
  <1>2. QED
    BY <1>1, Zenon

IsOrder(f, n) == \A d \in 0..n : f[d] = OrderStep(f[d - 1], d)

LEMMA OrderExists == \A n \in Nat : \E f : IsOrder(f, n)
  <1> DEFINE S == {n \in Nat : \E f : IsOrder(f, n)}
  <1>1. 0 \in S
    <2> DEFINE g == [d \in {0} |-> OrderStep(0, d)]
    <2>1. g[0] = OrderStep(0, 0)
      BY Zenon
    <2> HIDE DEF g
    <2>2. g[0] = OrderStep(g[0 - 1], 0)
      BY <2>1, OrderFirst, Zenon
    <2>3. \A d \in 0..0 : d = 0
      OBVIOUS
    <2>4. IsOrder(g, 0)
      BY <2>2, <2>3, Zenon DEF IsOrder
    <2>5. QED
      BY <2>4, Zenon
  <1>2. ASSUME NEW n \in Nat, n \in S
        PROVE  n + 1 \in S
    <2>1. PICK f : IsOrder(f, n)
      BY <1>2, Zenon
    <2> DEFINE g == [d \in 0..(n + 1) |-> IF d <= n THEN f[d] ELSE OrderStep(f[n], d)]
    <2>2. \A d \in 0..(n + 1) : g[d] = IF d <= n THEN f[d] ELSE OrderStep(f[n], d)
      BY Zenon
    <2> HIDE DEF g
    <2>3. ASSUME NEW d \in 0..(n + 1)
          PROVE  g[d] = OrderStep(g[d - 1], d)
      <3>1. CASE d = 0
        <4>1. 0 \in 0..n /\ 0 <= n /\ 0 \in 0..(n + 1)
          BY <1>2
        <4>2. g[0] = OrderStep(f[0 - 1], 0)
          BY <2>1, <2>2, <4>1, Zenon DEF IsOrder
        <4>3. QED
          BY <3>1, <4>2, OrderFirst, Zenon
      <3>2. CASE d # 0 /\ d <= n
        <4>1. d \in 0..n /\ d - 1 \in 0..(n + 1) /\ d - 1 <= n
          BY <1>2, <3>2
        <4>2. g[d] = f[d] /\ g[d - 1] = f[d - 1]
          BY <2>2, <3>2, <4>1, Zenon
        <4>3. f[d] = OrderStep(f[d - 1], d)
          BY <2>1, <4>1, Zenon DEF IsOrder
        <4>4. QED
          BY <4>2, <4>3, Zenon
      <3>3. CASE ~(d <= n)
        <4>1. d - 1 = n /\ n \in 0..(n + 1) /\ n <= n
          BY <1>2, <3>3
        <4>2. g[d] = OrderStep(f[n], d) /\ g[n] = f[n]
          BY <2>2, <3>3, <4>1, Zenon
        <4>3. QED
          BY <4>1, <4>2, Zenon
      <3>4. QED
        BY <3>1, <3>2, <3>3, Zenon
    <2>4. n + 1 \in Nat
      BY <1>2
    <2>5. QED
      BY <2>3, <2>4, Zenon DEF IsOrder
  <1> HIDE DEF S
  <1>3. \A n \in Nat : n \in S
    BY <1>1, <1>2, NatSetInduction
  <1>4. QED
    BY <1>3, Zenon DEF S

LEMMA OrderUnique ==
    ASSUME NEW f, NEW g, NEW n \in Nat, NEW m \in Nat, IsOrder(f, n), IsOrder(g, m)
    PROVE  \A d \in Nat : d <= n /\ d <= m => f[d] = g[d]
  <1> DEFINE S == {d \in Nat : d <= n /\ d <= m => f[d] = g[d]}
  <1>1. 0 \in S
    <2>1. 0 \in 0..n /\ 0 \in 0..m
      OBVIOUS
    <2>2. f[0] = OrderStep(f[0 - 1], 0) /\ g[0] = OrderStep(g[0 - 1], 0)
      BY <2>1, Zenon DEF IsOrder
    <2>3. f[0] = g[0]
      BY <2>2, OrderFirst, Zenon
    <2>4. QED
      BY <2>3
  <1>2. ASSUME NEW d \in Nat, d \in S
        PROVE  d + 1 \in S
    <2>1. SUFFICES ASSUME d + 1 <= n, d + 1 <= m
                   PROVE  f[d + 1] = g[d + 1]
      BY <1>2
    <2>2. d <= n /\ d <= m /\ d + 1 \in 0..n /\ d + 1 \in 0..m /\ (d + 1) - 1 = d
      BY <1>2, <2>1
    <2>3. f[d] = g[d]
      BY <1>2, <2>2, Zenon
    <2>4. f[d + 1] = OrderStep(f[(d + 1) - 1], d + 1) /\ g[d + 1] = OrderStep(g[(d + 1) - 1], d + 1)
      BY <2>2, Zenon DEF IsOrder
    <2>5. QED
      BY <2>2, <2>3, <2>4, Zenon
  <1> HIDE DEF S
  <1>3. \A d \in Nat : d \in S
    BY <1>1, <1>2, NatSetInduction
  <1>4. QED
    BY <1>3, Zenon DEF S

LEMMA OrderWalk == \E f : f = [d \in Nat |-> OrderStep(f[d - 1], d)]
  <1> DEFINE To(n) == CHOOSE f : IsOrder(f, n)
             walk  == [d \in Nat |-> To(d)[d]]
  <1>1. \A n \in Nat : IsOrder(To(n), n)
    BY OrderExists, Zenon
  <1>2. \A d \in Nat : walk[d] = To(d)[d]
    BY Zenon
  <1> HIDE DEF To
  <1>3. walk = [d \in Nat |-> walk[d]]
    OBVIOUS
  <1> HIDE DEF walk
  <1>4. ASSUME NEW d \in Nat
        PROVE  walk[d] = OrderStep(walk[d - 1], d)
    <2>1. IsOrder(To(d), d) /\ walk[d] = To(d)[d] /\ d \in 0..d
      BY <1>1, <1>2
    <2>2. walk[d] = OrderStep(To(d)[d - 1], d)
      BY <2>1, Zenon DEF IsOrder
    <2>3. CASE d = 0
      BY <2>2, <2>3, OrderFirst, Zenon
    <2>4. CASE d # 0
      <3> DEFINE e == d - 1
      <3>1. e \in Nat /\ e <= d /\ e <= e
        BY <2>4
      <3> HIDE DEF e
      <3>2. IsOrder(To(e), e) /\ walk[e] = To(e)[e]
        BY <1>1, <1>2, <3>1, Zenon
      <3>3. To(d)[e] = To(e)[e]
        BY <2>1, <3>1, <3>2, OrderUnique
      <3>4. QED
        BY <2>2, <3>2, <3>3, Zenon DEF e
    <2>5. QED
      BY <2>3, <2>4, Zenon
  <1>5. walk = [d \in Nat |-> OrderStep(walk[d - 1], d)]
    BY <1>3, <1>4, Zenon
  <1>6. QED
    BY <1>5, Zenon

LEMMA OrderUnfold ==
    \A d \in Nat : \A x, y \in ValuesWithin[d] :
        ValueOrder[d][<<x, y>>] = ElementCompare(ValueOrder[d - 1], x, y)
  <1>1. \E f : f = [d \in Nat |-> [p \in ValuesWithin[d] \X ValuesWithin[d] |-> ElementCompare(f[d - 1], p[1], p[2])]]
    BY OrderWalk, Zenon DEF OrderStep
  <1>2. ValueOrder = [d \in Nat |-> [p \in ValuesWithin[d] \X ValuesWithin[d] |-> ElementCompare(ValueOrder[d - 1], p[1], p[2])]]
    BY <1>1, Zenon DEF ValueOrder
  <1>3. ASSUME NEW d \in Nat, NEW x \in ValuesWithin[d], NEW y \in ValuesWithin[d]
        PROVE  ValueOrder[d][<<x, y>>] = ElementCompare(ValueOrder[d - 1], x, y)
    <2> DEFINE q == <<x, y>>
    <2>1. q \in ValuesWithin[d] \X ValuesWithin[d] /\ q[1] = x /\ q[2] = y
      BY Zenon
    <2>2. ValueOrder[d] = [p \in ValuesWithin[d] \X ValuesWithin[d] |-> ElementCompare(ValueOrder[d - 1], p[1], p[2])]
      BY <1>2, Zenon
    <2> HIDE DEF q
    <2>3. ValueOrder[d][q] = ElementCompare(ValueOrder[d - 1], q[1], q[2])
      BY <2>1, <2>2, Zenon
    <2>4. QED
      BY <2>1, <2>3, Zenon DEF q
  <1>4. QED
    BY <1>3, Zenon

-----------------------------------------------------------------------------
(* A set whose members a sequence lists in strictly increasing order,      *)
(* listed again.                                                           *)
Rising(v, order) ==
    \A i, j \in 1..Len(v) : order[<<v[i], v[j]>>] < 0 <=> i < j

LEMMA CountPrefix ==
    ASSUME NEW V, NEW v \in Seq(V), NEW k \in 0..Len(v), \A i, j \in 1..Len(v) : v[i] = v[j] => i = j
    PROVE  \A T : T = {v[j] : j \in 1..k} => IsFiniteSet(T) /\ Cardinality(T) = k
  <1> DEFINE I == 1..k
             T == {v[j] : j \in I}
             f == [j \in I |-> v[j]]
  <1>1. Len(v) \in Nat /\ k \in Nat /\ I \subseteq 1..Len(v)
    BY LenProperties
  <1>2. IsFiniteSet(I) /\ Cardinality(I) = k
    BY <1>1, FS_Interval
  <1>3. f \in Bijection(I, T)
    <2> HIDE DEF I
    <2>1. f \in [I -> T] /\ DOMAIN f = I /\ \A j \in I : f[j] = v[j]
      BY Zenon
    <2>2. \A a, b \in I : f[a] = f[b] => a = b
      BY <1>1, <2>1
    <2>3. \A t \in T : \E a \in I : f[a] = t
      BY <2>1
    <2> HIDE DEF f, T
    <2>4. QED
      BY <2>1, <2>2, <2>3 DEF Bijection, Injection, Surjection, IsInjective
  <1> HIDE DEF f, I, T
  <1>4. IsFiniteSet(T) /\ Cardinality(T) = k
    BY <1>2, <1>3, FS_Bijection DEF ExistsBijection
  <1>5. QED
    BY <1>4 DEF T, I

LEMMA RankedIs ==
    ASSUME NEW V, NEW v \in Seq(V), NEW order, Rising(v, order)
    PROVE  Ranked(ToSet(v), order) = v
  <1> DEFINE n == Len(v)
             S == ToSet(v)
             Below(x) == {y \in S : order[<<y, x>>] < 0}
  <1>1. n \in Nat /\ DOMAIN v = 1..n
    BY LenProperties
  <1>2. S = {v[j] : j \in 1..n}
    BY <1>1 DEF ToSet
  <1> HIDE DEF S, n
  <1>3. \A i, j \in 1..n : order[<<v[i], v[j]>>] < 0 <=> i < j
    BY Zenon DEF Rising, n
  <1>4. \A i, j \in 1..n : v[i] = v[j] => i = j
    <2>1. SUFFICES ASSUME NEW i \in 1..n, NEW j \in 1..n, v[i] = v[j]
                   PROVE  i = j
      BY Zenon
    <2>2. order[<<v[i], v[j]>>] < 0 <=> order[<<v[j], v[i]>>] < 0
      BY <2>1, Zenon
    <2>3. i < j <=> j < i
      BY <1>3, <2>2, Zenon
    <2>4. QED
      BY <1>1, <2>3
  <1>5. ASSUME NEW k \in 0..n
        PROVE  Cardinality({v[j] : j \in 1..k}) = k
    <2>1. k \in 0..Len(v) /\ \A i, j \in 1..Len(v) : v[i] = v[j] => i = j
      BY <1>4 DEF n
    <2>2. QED
      BY <2>1, CountPrefix
  <1>6. Cardinality(S) = n
    <2>1. n \in 0..n
      BY <1>1
    <2>2. QED
      BY <1>2, <1>5, <2>1, Zenon
  <1>7. ASSUME NEW i \in 1..n
        PROVE  Cardinality(Below(v[i])) = i - 1
    <2>1. i - 1 \in 0..n
      BY <1>1
    <2>2. \A j \in 1..n : j < i <=> j \in 1..(i - 1)
      BY <1>1
    <2>3. \A j \in 1..(i - 1) : j \in 1..n
      BY <1>1
    <2>4. Below(v[i]) = {v[j] : j \in 1..(i - 1)}
      <3>1. ASSUME NEW y \in Below(v[i])
            PROVE  y \in {v[j] : j \in 1..(i - 1)}
        <4>1. y \in S /\ order[<<y, v[i]>>] < 0
          BY Zenon
        <4>2. PICK j \in 1..n : y = v[j]
          BY <1>2, <4>1, Zenon
        <4>3. j < i
          BY <1>3, <4>1, <4>2, Zenon
        <4>4. QED
          BY <2>2, <4>2, <4>3, Zenon
      <3>2. ASSUME NEW j \in 1..(i - 1)
            PROVE  v[j] \in Below(v[i])
        <4>1. j \in 1..n /\ j < i
          BY <2>2, <2>3, Zenon
        <4>2. v[j] \in S /\ order[<<v[j], v[i]>>] < 0
          BY <1>2, <1>3, <4>1, Zenon
        <4>3. QED
          BY <4>2, Zenon
      <3> HIDE DEF Below
      <3>3. QED
        BY <3>1, <3>2, Zenon
    <2>5. QED
      BY <1>5, <2>1, <2>4, Zenon
  <1>8. ASSUME NEW i \in 1..n
        PROVE  (CHOOSE x \in S : Cardinality(Below(x)) = i - 1) = v[i]
    <2> HIDE DEF Below
    <2> DEFINE P(x) == Cardinality(Below(x)) = i - 1
    <2>1. v[i] \in S /\ P(v[i])
      BY <1>2, <1>7, Zenon
    <2>2. ASSUME NEW x \in S, P(x)
          PROVE  x = v[i]
      <3>1. PICK j \in 1..n : x = v[j]
        BY <1>2, Zenon
      <3>2. j - 1 = i - 1
        BY <1>7, <2>2, <3>1, Zenon
      <3>3. j = i
        BY <3>2, <1>1
      <3>4. QED
        BY <3>1, <3>3, Zenon
    <2> HIDE DEF P
    <2>3. \E x \in S : P(x)
      BY <2>1, Zenon
    <2>4. (CHOOSE x \in S : P(x)) \in S /\ P(CHOOSE x \in S : P(x))
      BY <2>3, Zenon
    <2>5. (CHOOSE x \in S : P(x)) = v[i]
      BY <2>2, <2>4, Zenon
    <2>6. QED
      BY <2>5, Zenon DEF P
  <1>9. Ranked(S, order) = [i \in 1..n |-> CHOOSE x \in S : Cardinality(Below(x)) = i - 1]
    BY <1>6, Zenon DEF Ranked
  <1> HIDE DEF Below
  <1>10. [i \in 1..n |-> CHOOSE x \in S : Cardinality(Below(x)) = i - 1] = [i \in 1..n |-> v[i]]
    BY <1>8, Zenon
  <1>11. v = [i \in 1..n |-> v[i]]
    BY <1>1
  <1>12. QED
    BY <1>9, <1>10, <1>11, Zenon DEF S

(* The entries of a sequence of couples, one after the other.              *)
Couples(v) == [i \in 1..(Len(v) \div 2) |-> <<v[2*i - 1], v[2*i]>>]

LEMMA CouplesFlat ==
    ASSUME NEW V
    PROVE  \A n \in Nat : \A v \in Seq(V) : Len(v) = 2*n => FlattenSeq(Couples(v)) = v
  <1> DEFINE N == {n \in Nat : \A v \in Seq(V) : Len(v) = 2*n => FlattenSeq(Couples(v)) = v}
  <1>1. 0 \in N
    <2>1. ASSUME NEW v \in Seq(V), Len(v) = 2*0
          PROVE  FlattenSeq(Couples(v)) = v
      <3>1. v = <<>> /\ Len(v) \div 2 = 0
        BY <2>1
      <3>2. Couples(v) = <<>>
        BY <3>1 DEF Couples
      <3>3. QED
        BY <3>1, <3>2, FlattenEmpty
    <2>2. QED
      BY <2>1
  <1>2. ASSUME NEW n \in Nat, n \in N
        PROVE  n + 1 \in N
    <2>1. ASSUME NEW v \in Seq(V), Len(v) = 2*(n + 1)
          PROVE  FlattenSeq(Couples(v)) = v
      <3> DEFINE u == SubSeq(v, 1, 2*n)
                 x == v[2*n + 1]
                 y == v[2*n + 2]
                 c == <<x, y>>
                 p == Couples(u)
      <3>1. Len(v) \in Nat /\ Len(v) = 2*n + 2 /\ 2*n \in Nat /\ 2*n <= Len(v)
        BY <1>2, <2>1
      <3>2. x \in V /\ y \in V
        BY <3>1, ElementOfSeq
      <3>3. /\ u \in Seq(V) /\ Len(u) = 2*n /\ \A i \in 1..(2*n) : u[i] = v[i]
        BY <3>1
      <3>4. c \in Seq(V) /\ Len(c) = 2 /\ c[1] = x /\ c[2] = y
        BY <3>2
      <3> HIDE DEF u, x, y, c
      <3>5. FlattenSeq(p) = u
        BY <1>2, <3>3, Zenon
      <3>6. (2*n) \div 2 = n /\ (2*(n + 1)) \div 2 = n + 1
        BY <1>2
      <3>7. p = [i \in 1..n |-> <<u[2*i - 1], u[2*i]>>] /\ Couples(v) = [i \in 1..(n + 1) |-> <<v[2*i - 1], v[2*i]>>]
        BY <2>1, <3>3, <3>6, Zenon DEF Couples
      <3>8. p \in Seq(Seq(V)) /\ Len(p) = n
        <4>1. \A i \in 1..n : 2*i - 1 \in 1..(2*n) /\ 2*i \in 1..(2*n)
          BY <1>2
        <4>2. \A i \in 1..n : u[2*i - 1] \in V /\ u[2*i] \in V
          BY <3>3, <4>1, ElementOfSeq
        <4>3. \A a, b \in V : <<a, b>> \in Seq(V)
          OBVIOUS
        <4>4. \A i \in 1..n : <<u[2*i - 1], u[2*i]>> \in Seq(V)
          BY <4>2, <4>3
        <4>5. p \in [1..n -> Seq(V)]
          BY <3>7, <4>4, Zenon
        <4> HIDE DEF p
        <4>6. QED
          BY <1>2, <4>5
      <3>9. Couples(v) = Append(p, c)
        <4> DEFINE a == Couples(v)
                   b == Append(p, c)
        <4>1. b = [i \in 1..(n + 1) |-> IF i <= n THEN p[i] ELSE c]
          <5> HIDE DEF p
          <5>1. /\ b \in Seq(Seq(V)) /\ Len(b) = n + 1 /\ b[n + 1] = c
                /\ \A i \in 1..n : b[i] = p[i]
            BY <3>4, <3>8, AppendProperties
          <5> HIDE DEF b
          <5>2. b = [i \in 1..(n + 1) |-> b[i]]
            BY <5>1
          <5>3. ASSUME NEW i \in 1..(n + 1)
                PROVE  b[i] = IF i <= n THEN p[i] ELSE c
            <6>1. i <= n => i \in 1..n
              BY <1>2
            <6>2. ~(i <= n) => i = n + 1
              BY <1>2
            <6>3. QED
              BY <5>1, <6>1, <6>2, Zenon
          <5>4. QED
            BY <5>2, <5>3, Zenon
        <4>2. ASSUME NEW i \in 1..(n + 1)
              PROVE  <<v[2*i - 1], v[2*i]>> = IF i <= n THEN p[i] ELSE c
          <5>1. CASE i <= n
            <6>1. i \in 1..n /\ 2*i - 1 \in 1..(2*n) /\ 2*i \in 1..(2*n)
              BY <1>2, <5>1
            <6>2. p[i] = <<u[2*i - 1], u[2*i]>>
              BY <3>7, <6>1, Zenon
            <6>3. u[2*i - 1] = v[2*i - 1] /\ u[2*i] = v[2*i]
              BY <3>3, <6>1, Zenon
            <6>4. QED
              BY <5>1, <6>2, <6>3, Zenon
          <5>2. CASE ~(i <= n)
            <6>1. 2*i - 1 = 2*n + 1 /\ 2*i = 2*n + 2
              BY <1>2, <5>2
            <6>2. QED
              BY <5>2, <6>1, Zenon DEF c, x, y
          <5>3. QED
            BY <5>1, <5>2, Zenon
        <4>3. QED
          BY <3>7, <4>1, <4>2, Zenon
      <3> HIDE DEF p
      <3>10. FlattenSeq(Append(p, c)) = u \o c
        BY <3>4, <3>5, <3>8, FlattenAppend
      <3>11. u \o c = v
        <4> DEFINE w == u \o c
        <4>1. w \in Seq(V) /\ Len(w) = Len(v) /\ \A i \in 1..Len(v) : w[i] = IF i <= 2*n THEN u[i] ELSE c[i - 2*n]
          <5>1. w \in Seq(V) /\ Len(w) = Len(u) + Len(c)
                /\ \A i \in 1..(Len(u) + Len(c)) : w[i] = IF i <= Len(u) THEN u[i] ELSE c[i - Len(u)]
            BY <3>3, <3>4, ConcatProperties
          <5>2. Len(u) + Len(c) = Len(v)
            BY <3>1, <3>3, <3>4
          <5>3. QED
            BY <3>3, <5>1, <5>2, Zenon
        <4>2. ASSUME NEW i \in 1..Len(v)
              PROVE  w[i] = v[i]
          <5>1. CASE i <= 2*n
            <6>1. i \in 1..(2*n)
              BY <3>1, <5>1
            <6>2. QED
              BY <3>3, <4>1, <5>1, <6>1, Zenon
          <5>2. CASE i = 2*n + 1
            <6>1. ~(i <= 2*n) /\ i - 2*n = 1
              BY <3>1, <5>2
            <6>2. QED
              BY <3>4, <4>1, <5>2, <6>1, Zenon DEF x
          <5>3. CASE i = 2*n + 2
            <6>1. ~(i <= 2*n) /\ i - 2*n = 2
              BY <3>1, <5>3
            <6>2. QED
              BY <3>4, <4>1, <5>3, <6>1, Zenon DEF y
          <5>4. QED
            <6>1. i <= 2*n \/ i = 2*n + 1 \/ i = 2*n + 2
              BY <1>2, <3>1
            <6>2. QED
              BY <5>1, <5>2, <5>3, <6>1, Zenon
        <4> HIDE DEF w
        <4>3. w = v
          BY <4>1, <4>2, SeqEqual
        <4>4. QED
          BY <4>3 DEF w
      <3>12. QED
        BY <3>9, <3>10, <3>11, Zenon
    <2>2. n + 1 \in Nat
      BY <1>2
    <2>3. QED
      BY <2>1, <2>2, Zenon
  <1> HIDE DEF N
  <1>3. \A n \in Nat : n \in N
    BY <1>1, <1>2, NatSetInduction
  <1>4. QED
    BY <1>3, Zenon DEF N

-----------------------------------------------------------------------------
(* The elements that the append calls leave: members and keys in strictly  *)
(* increasing order, at every depth.                                       *)
ShapedBy(s, T, e) ==
    /\ Appended(e) /\ KeptElement(e) /\ s = EncElement(e)
    /\ e.kind \in Containers => \E t \in Seq(T) : e.data = FlattenSeq(t) /\ Sorted(e.kind, t)

Shaped(s, T) == \E e : ShapedBy(s, T, e)
Proper == UNION {T \in SUBSET StableStrings : \A s \in T : Shaped(s, T)}

LEMMA ShapedWider == \A T, U : T \subseteq U => \A s : Shaped(s, T) => Shaped(s, U)
  <1>1. ASSUME NEW T, NEW U, T \subseteq U, NEW s, NEW e, ShapedBy(s, T, e)
        PROVE  ShapedBy(s, U, e)
    <2>1. Seq(T) \subseteq Seq(U)
      BY <1>1
    <2>2. QED
      BY <1>1, <2>1, Zenon DEF ShapedBy
  <1>2. QED
    BY <1>1, Zenon DEF Shaped

LEMMA ProperShaped == Proper \subseteq StableStrings /\ \A s \in Proper : Shaped(s, Proper)
  <1>1. ASSUME NEW s \in Proper
        PROVE  s \in StableStrings /\ Shaped(s, Proper)
    <2>1. PICK T \in SUBSET StableStrings : s \in T /\ \A r \in T : Shaped(r, T)
      BY Zenon DEF Proper
    <2>2. T \subseteq Proper
      BY <2>1, Zenon DEF Proper
    <2>3. QED
      BY <2>1, <2>2, ShapedWider, Zenon
  <1>2. QED
    BY <1>1, Zenon

LEMMA ProperClosed == \A s \in StableStrings : Shaped(s, Proper) => s \in Proper
  <1>1. ASSUME NEW s \in StableStrings, Shaped(s, Proper)
        PROVE  s \in Proper
    <2> DEFINE T == Proper \cup {s}
    <2>1. T \in SUBSET StableStrings /\ Proper \subseteq T /\ s \in T
      BY ProperShaped, Zenon
    <2>2. \A r \in T : Shaped(r, Proper)
      BY <1>1, ProperShaped, Zenon
    <2> HIDE DEF T
    <2>3. \A r \in T : Shaped(r, T)
      BY <2>1, <2>2, ShapedWider, Zenon
    <2>4. QED
      BY <2>1, <2>3, Zenon DEF Proper
  <1>2. QED
    BY <1>1, Zenon

(* A part is no longer than the whole.                                     *)
LEMMA PartsShorter ==
    \A t \in Seq(Seq(Byte)) : \A i \in 1..Len(t) : Len(t[i]) <= Len(FlattenSeq(t))
  <1> DEFINE P == {t \in Seq(Seq(Byte)) : \A i \in 1..Len(t) : Len(t[i]) <= Len(FlattenSeq(t))}
  <1>1. <<>> \in P
    BY EmptySeq
  <1>2. ASSUME NEW t \in Seq(Seq(Byte)), NEW x \in Seq(Byte), t \in P
        PROVE  Append(t, x) \in P
    <2> DEFINE u == Append(t, x)
               f == FlattenSeq(t)
               n == Len(t)
    <2>1. /\ u \in Seq(Seq(Byte)) /\ Len(u) = n + 1 /\ n \in Nat /\ u[n + 1] = x
          /\ \A i \in 1..n : u[i] = t[i]
      BY AppendProperties, LenProperties
    <2>2. FlattenSeq(u) = f \o x /\ f \in Seq(Byte)
      BY FlattenAppend, FlattenType
    <2>3. \A i \in 1..n : t[i] \in Seq(Byte) /\ Len(t[i]) <= Len(f)
      BY <1>2, ElementOfSeq
    <2> HIDE DEF u, f, n
    <2>4. Len(f \o x) = Len(f) + Len(x) /\ Len(f) \in Nat /\ Len(x) \in Nat
      BY <2>2, ConcatProperties, LenProperties
    <2>5. ASSUME NEW i \in 1..(n + 1)
          PROVE  Len(u[i]) <= Len(FlattenSeq(u))
      <3>1. CASE i \in 1..n
        <4> DEFINE k == Len(t[i])
        <4>1. k \in Nat /\ k <= Len(f) /\ u[i] = t[i]
          BY <2>1, <2>3, <3>1, LenProperties
        <4> HIDE DEF k
        <4>2. k <= Len(f) + Len(x)
          BY <2>4, <4>1
        <4>3. QED
          BY <2>2, <2>4, <4>1, <4>2 DEF k
      <3>2. CASE i \notin 1..n
        <4>1. i = n + 1
          BY <2>1, <3>2
        <4>2. Len(x) <= Len(f) + Len(x)
          BY <2>4
        <4>3. QED
          BY <2>1, <2>2, <2>4, <4>1, <4>2
      <3>3. QED
        BY <3>1, <3>2
    <2>6. QED
      BY <2>1, <2>5 DEF u
  <1> HIDE DEF P
  <1>3. Seq(Seq(Byte)) \subseteq P
    BY <1>1, <1>2, SeqSetInduction
  <1>4. QED
    BY <1>3 DEF P

(* What a container holds is shorter than the container.                   *)
Small(d) == {s \in Proper : Len(s) <= d}

LEMMA ContentsSmall ==
    ASSUME NEW d \in Nat, NEW e, Appended(e), e.kind \in Containers, Len(EncElement(e)) <= d + 1,
           NEW t \in Seq(Proper), e.data = FlattenSeq(t)
    PROVE  t \in Seq(Small(d)) /\ e.data \in Seq(Byte)
  <1> DEFINE h == FramedCode[e.kind]
             c == e.data
             s == EncFramed(h, c)
  <1>1. Proper \subseteq Seq(Byte) /\ Seq(Proper) \subseteq Seq(Seq(Byte))
    <2>1. Proper \subseteq Seq(Byte)
      BY ProperShaped DEF StableStrings
    <2>2. QED
      BY <2>1
  <1>2. t \in Seq(Seq(Byte)) /\ c \in Seq(Byte)
    BY <1>1, FlattenType
  <1>3. e.kind \in DOMAIN FramedCode /\ EncElement(e) = s
    BY FramedCodes DEF Containers, EncElement
  <1>4. h \in Framed /\ KindOf[h] = e.kind /\ h \in Byte
    BY <1>3, FramedKinds, FramedCodes
  <1> HIDE DEF h, c
  <1>5. s \in Seq(Byte) /\ Stable(s) /\ Next(s, 0).el = [kind |-> e.kind, data |-> c]
    BY <1>2, <1>4, FramedStable, FramedBytes
  <1> HIDE DEF s
  <1>6. Next(s, 0).rc = 1 /\ Next(s, 0).pos = Len(s) /\ 0 \in 0..Len(s)
    BY <1>5, SelfAt DEF Stable
  <1>7. Next(s, 0).el.kind \in Containers /\ Next(s, 0).el.data = c
    BY <1>5
  <1>8. Len(c) + 2 <= Len(s) - 0
    BY <1>5, <1>6, <1>7, ContentsShorter
  <1>9. Len(c) <= d
    <2>1. Len(c) \in Nat /\ Len(s) \in Nat /\ Len(s) <= d + 1
      BY <1>2, <1>3, <1>5, LenProperties
    <2>2. QED
      BY <1>8, <2>1
  <1>10. \A i \in 1..Len(t) : t[i] \in Small(d)
    <2>1. SUFFICES ASSUME NEW i \in 1..Len(t)
                   PROVE  t[i] \in Proper /\ Len(t[i]) <= d
      BY Zenon DEF Small
    <2>2. t[i] \in Proper
      BY ElementOfSeq
    <2>3. Len(t[i]) <= Len(c)
      BY <1>2, PartsShorter DEF c
    <2>4. Len(t[i]) \in Nat /\ Len(c) \in Nat
      BY <1>1, <1>2, <2>2, LenProperties
    <2>5. QED
      BY <1>9, <2>2, <2>3, <2>4
  <1>11. Len(t) \in Nat /\ t = [i \in 1..Len(t) |-> t[i]]
    OBVIOUS
  <1>12. t \in Seq(Small(d))
    BY <1>10, <1>11, IsASeq
  <1>13. QED
    BY <1>2, <1>12 DEF c

-----------------------------------------------------------------------------
(* The values of elements nested less than d deep.                         *)
LEMMA ScalarValueShape ==
    ASSUME NEW e, Appended(e), e.kind \notin Containers
    PROVE  ElementValue(e) \in ScalarValues
  <1>0. e \in Encodable /\ (e.kind = "decimal" => InExpRange(e.exp)) /\ EncElement(e) # <<>>
    BY Zenon DEF Appended
  <1>1. ElementValue(e) = ScalarValue(e)
    BY ElementValueForms DEF Containers
  <1>2. CASE e \in [kind : {"nil", "undef"}]
    <2>1. ScalarValue(e) = e
      BY <1>2 DEF ScalarValue
    <2>2. QED
      BY <1>1, <1>2, <2>1 DEF ScalarValues
  <1>3. CASE e \in [kind : {"bool"}, val : BOOLEAN]
    <2>1. ScalarValue(e) = e
      BY <1>3 DEF ScalarValue
    <2>2. QED
      BY <1>1, <1>3, <2>1 DEF ScalarValues
  <1>4. CASE e \in [kind : {"int", "bigint"}, neg : BOOLEAN, mag : Magnitude]
    <2> DEFINE m == Trimmed(e.mag)
               s == e.neg /\ m # <<>>
    <2>1. e.kind \in {"int", "bigint"} /\ e.neg \in BOOLEAN /\ e.mag \in Seq(Byte)
      BY <1>4 DEF Magnitude
    <2>2. m \in Seq(Byte)
      BY <2>1, TrimmedProperties
    <2>3. s \in BOOLEAN
      BY <2>1
    <2>4. ScalarValue(e) = [kind |-> "int", neg |-> s, mag |-> m]
      BY <2>1 DEF ScalarValue
    <2> HIDE DEF s, m
    <2>5. [kind |-> "int", neg |-> s, mag |-> m] \in [kind : {"int"}, neg : BOOLEAN, mag : Seq(Byte)]
      BY <2>2, <2>3
    <2>6. QED
      BY <1>1, <2>4, <2>5 DEF ScalarValues
  <1>5. CASE e \in [kind : {"f32"}, bits : [1..F32Width -> Byte]] \/ e \in [kind : {"f64"}, bits : [1..F64Width -> Byte]]
    <2>1. e.kind \in {"f32", "f64"} /\ \E n \in Nat \ {0} : e.bits \in [1..n -> Byte]
      <3>1. F32Width \in Nat \ {0} /\ F64Width \in Nat \ {0}
        BY WidthAssumption
      <3>2. QED
        BY <1>5, <3>1
    <2>2. PICK n \in Nat \ {0} : e.bits \in [1..n -> Byte]
      BY <2>1
    <2>3. CanonicalBits(e.bits) \in [1..n -> Byte]
      BY <2>2, CanonicalTwice
    <2> DEFINE b == CanonicalBits(e.bits)
    <2>4. ScalarValue(e) = [kind |-> e.kind, bits |-> b]
      BY <2>1 DEF ScalarValue
    <2>5. b \in Seq(Byte)
      BY <2>3
    <2> HIDE DEF b
    <2>6. [kind |-> e.kind, bits |-> b] \in [kind : {"f32", "f64"}, bits : Seq(Byte)]
      BY <2>1, <2>5
    <2>7. QED
      BY <1>1, <2>4, <2>6 DEF ScalarValues
  <1>6. CASE e \in [kind : {"decimal"}, neg : BOOLEAN, digits : Seq(0..9), exp : Int]
    <2> DEFINE sig == Trimmed(e.digits)
               adj == Len(sig) + e.exp
    <2>1. e.kind = "decimal" /\ e.neg \in BOOLEAN
      BY <1>6
    <2>2. sig \in Seq(0..9) /\ adj \in Int /\ (sig # <<>> => sig[1] # 0) /\ ElementValue(e) = DecimalOf(e.neg, sig, adj)
      BY <1>0, <1>6, <2>1, DecimalShape
    <2> HIDE DEF sig, adj
    <2>3. sig # <<>> => Kept(sig) \in Seq(0..9)
      BY <2>2, KeptProperties
    <2> DEFINE k == Kept(sig)
    <2>4. ElementValue(e) = IF sig = <<>> THEN [kind |-> "decimal", neg |-> FALSE, digits |-> <<>>, adj |-> 0]
                            ELSE [kind |-> "decimal", neg |-> e.neg, digits |-> k, adj |-> adj]
      BY <2>2, Zenon DEF DecimalOf
    <2> HIDE DEF k
    <2>5. sig # <<>> => [kind |-> "decimal", neg |-> e.neg, digits |-> k, adj |-> adj] \in
                            [kind : {"decimal"}, neg : BOOLEAN, digits : Seq(0..9), adj : Int]
      BY <2>1, <2>2, <2>3 DEF k
    <2>6. [kind |-> "decimal", neg |-> FALSE, digits |-> <<>>, adj |-> 0] \in
                            [kind : {"decimal"}, neg : BOOLEAN, digits : Seq(0..9), adj : Int]
      OBVIOUS
    <2>7. ElementValue(e) \in [kind : {"decimal"}, neg : BOOLEAN, digits : Seq(0..9), adj : Int]
      BY <2>4, <2>5, <2>6, Zenon
    <2>8. QED
      BY <2>7, Zenon DEF ScalarValues
  <1>7. CASE \/ e \in [kind : {"timestamp"}, data : [1..NativeWidth -> Byte]]
             \/ e \in [kind : {"uuid"}, data : [1..UuidWidth -> Byte]]
             \/ e \in [kind : DOMAIN FramedCode, data : Seq(Byte)]
    <2>1. NativeWidth \in Nat /\ UuidWidth \in Nat
      BY WidthAssumption
    <2>2. [1..NativeWidth -> Byte] \subseteq Seq(Byte) /\ [1..UuidWidth -> Byte] \subseteq Seq(Byte)
      BY <2>1
    <2>3. e.kind \in {"timestamp", "uuid", "string", "bytes"}
      BY <1>7, FramedCodes DEF Containers
    <2>4. e \in [kind : {"timestamp", "uuid", "string", "bytes"}, data : Seq(Byte)]
      BY <1>7, <2>2, <2>3
    <2>5. ScalarValue(e) = e
      BY <2>3 DEF ScalarValue
    <2>6. QED
      BY <1>1, <2>4, <2>5, Zenon DEF ScalarValues
  <1>8. QED
    BY <1>0, <1>2, <1>3, <1>4, <1>5, <1>6, <1>7 DEF Encodable

Level(d) ==
    \A t, u \in Seq(Small(d)) :
        /\ Values(t) \in Seq(ValuesWithin[d])
        /\ Compare(FlattenSeq(t), FlattenSeq(u)) = TupleCompare(ValueOrder[d], Values(t), Values(u))

(* A container's value, listed in order, is what its bytes hold.           *)
LEMMA ContentsValues ==
    ASSUME NEW d \in Nat, Level(d), NEW t \in Seq(Small(d)), NEW e, e.data = FlattenSeq(t)
    PROVE  Unpack[e.data] = Values(t) /\ Values(t) \in Seq(ValuesWithin[d])
  <1>1. t \in Seq(StableStrings)
    <2>1. Small(d) \subseteq StableStrings
      BY ProperShaped DEF Small
    <2>2. QED
      BY <2>1
  <1>2. Unpack[FlattenSeq(t)] = Values(t)
    BY <1>1, UnpackFlat
  <1>3. Values(t) \in Seq(ValuesWithin[d])
    BY Zenon DEF Level
  <1>4. QED
    BY <1>2, <1>3, Zenon

LEMMA ContainerWithin ==
    ASSUME NEW d \in Nat, Level(d), NEW t \in Seq(Small(d)), NEW e, e.data = FlattenSeq(t),
           e.kind \in Containers, Sorted(e.kind, t)
    PROVE  ElementValue(e) \in ContainersOf(ValuesWithin[d])
  <1> DEFINE W == ValuesWithin[d]
             v == Values(t)
  <1>1. Unpack[e.data] = v /\ v \in Seq(W)
    BY ContentsValues
  <1>2. /\ e.kind = "array" => ElementValue(e) = [kind |-> "array", items |-> v]
        /\ e.kind = "set" => ElementValue(e) = [kind |-> "set", members |-> ToSet(v)]
        /\ e.kind = "map" => ElementValue(e) = [kind |-> "map", entries |-> Pairs(v)]
    BY <1>1, ElementValueForms, Zenon
  <1> HIDE DEF W, v
  <1>3. CASE e.kind = "array"
    <2>1. [kind |-> "array", items |-> v] \in [kind : {"array"}, items : Seq(W)]
      BY <1>1
    <2>2. QED
      BY <1>2, <1>3, <2>1, Zenon DEF ContainersOf, W
  <1>4. CASE e.kind = "set"
    <2>1. ToSet(v) \in SUBSET W
      <3>1. DOMAIN v = 1..Len(v) /\ \A i \in 1..Len(v) : v[i] \in W
        BY <1>1, LenProperties, ElementOfSeq
      <3>2. QED
        BY <3>1 DEF ToSet
    <2> DEFINE M == ToSet(v)
    <2> HIDE DEF M
    <2>2. [kind |-> "set", members |-> M] \in [kind : {"set"}, members : SUBSET W]
      BY <2>1 DEF M
    <2>3. QED
      BY <1>2, <1>4, <2>2, Zenon DEF ContainersOf, W, M
  <1>5. CASE e.kind = "map"
    <2>1. PICK n \in Nat : Len(t) = 2*n
      BY <1>5, Zenon DEF Sorted
    <2>2. Len(v) = 2*n
      BY <2>1, ValuesOf DEF v
    <2>3. (2*n) \div 2 = n /\ \A i \in 1..n : 2*i - 1 \in 1..(2*n) /\ 2*i \in 1..(2*n)
      OBVIOUS
    <2>4. \A i \in 1..n : v[2*i - 1] \in W /\ v[2*i] \in W
      BY <1>1, <2>2, <2>3, ElementOfSeq
    <2>5. \A a, b \in W : <<a, b>> \in Seq(W)
      OBVIOUS
    <2>6. Pairs(v) = {<<v[2*i - 1], v[2*i]>> : i \in 1..n}
      BY <2>2, <2>3, Zenon DEF Pairs
    <2>7. Pairs(v) \in SUBSET Seq(W)
      BY <2>4, <2>5, <2>6
    <2> DEFINE M == Pairs(v)
    <2> HIDE DEF M
    <2>8. [kind |-> "map", entries |-> M] \in [kind : {"map"}, entries : SUBSET Seq(W)]
      BY <2>7 DEF M
    <2>9. QED
      BY <1>2, <1>5, <2>8, Zenon DEF ContainersOf, W, M
  <1>6. QED
    BY <1>3, <1>4, <1>5 DEF Containers

-----------------------------------------------------------------------------
(* A container's value, listed in the order of the values inside it, is    *)
(* the sequence its bytes hold.                                            *)
LEMMA SmallFacts ==
    ASSUME NEW d \in Nat, Level(d)
    PROVE  \A s \in Small(d) : /\ s \in Seq(Byte) /\ s \in StableStrings /\ s # <<>>
                               /\ Value(s) \in ValuesWithin[d]
  <1>1. SUFFICES ASSUME NEW s \in Small(d)
                 PROVE  s \in Seq(Byte) /\ s \in StableStrings /\ s # <<>> /\ Value(s) \in ValuesWithin[d]
    BY Zenon
  <1>2. s \in StableStrings
    BY ProperShaped, Zenon DEF Small
  <1>3. s \in Seq(Byte) /\ s # <<>>
    BY <1>2 DEF StableStrings, Stable
  <1> DEFINE t == <<s>>
  <1>4. t \in Seq(Small(d)) /\ Len(t) = 1 /\ t[1] = s
    OBVIOUS
  <1> HIDE DEF t
  <1>5. Values(t) \in Seq(ValuesWithin[d])
    BY <1>4, Zenon DEF Level
  <1>6. Len(Values(t)) = 1 /\ Values(t)[1] = Value(s)
    <2>1. Len(Values(t)) = Len(t) /\ \A i \in 1..Len(t) : Values(t)[i] = Value(t[i])
      BY <1>4, ValuesOf, Zenon
    <2>2. 1 \in 1..Len(t)
      BY <1>4
    <2>3. QED
      BY <1>4, <2>1, <2>2, Zenon
  <1>7. Value(s) \in ValuesWithin[d]
    <2>1. 1 \in 1..Len(Values(t))
      BY <1>6
    <2>2. Values(t)[1] \in ValuesWithin[d]
      BY <1>5, <2>1, ElementOfSeq
    <2>3. QED
      BY <1>6, <2>2
  <1>8. QED
    BY <1>2, <1>3, <1>7

LEMMA OneOrder ==
    \A S, order : \A x, y \in S : TupleCompare(order, <<x>>, <<y>>) = order[<<x, y>>]
  <1>1. SUFFICES ASSUME NEW S, NEW order, NEW x \in S, NEW y \in S
                 PROVE  TupleCompare(order, <<x>>, <<y>>) = order[<<x, y>>]
    BY Zenon
  <1> DEFINE z == <<>>
             c == order[<<x, y>>]
  <1>2. z \in Seq(S) /\ <<x>> \o z = <<x>> /\ <<y>> \o z = <<y>>
    OBVIOUS
  <1>3. TupleCompare(order, z, z) = 0
    BY TupleEmpty, Zenon
  <1> HIDE DEF z
  <1>4. TupleCompare(order, <<x>> \o z, <<y>> \o z) = Then(order[<<x, y>>], TupleCompare(order, z, z))
    BY <1>2, TupleFirst
  <1>5. Then(c, 0) = c
    BY Zenon DEF Then
  <1>6. QED
    BY <1>2, <1>3, <1>4, <1>5, Zenon

LEMMA TwoOrder ==
    ASSUME NEW S, NEW order, NEW x \in S, NEW y \in S, NEW v \in S, NEW w \in S
    PROVE  TupleCompare(order, <<x, v>>, <<y, w>>) = Then(order[<<x, y>>], order[<<v, w>>])
  <1> DEFINE s == <<v>>
             t == <<w>>
  <1>1. s \in Seq(S) /\ t \in Seq(S) /\ <<x>> \o s = <<x, v>> /\ <<y>> \o t = <<y, w>>
    <2>1. ASSUME NEW a \in S, NEW b \in S
          PROVE  <<a>> \o <<b>> = <<a, b>>
      <3> DEFINE p == <<a>>
                 q == <<b>>
                 k == <<a, b>>
      <3>1. p \in Seq(S) /\ q \in Seq(S) /\ Len(p) = 1 /\ Len(q) = 1 /\ p[1] = a /\ q[1] = b
        OBVIOUS
      <3>2. k \in Seq(S) /\ Len(k) = 2 /\ k[1] = a /\ k[2] = b
        OBVIOUS
      <3> HIDE DEF p, q, k
      <3>3. p \o q \in Seq(S) /\ Len(p \o q) = 2 /\ (p \o q)[1] = a /\ (p \o q)[2] = b
        <4>1. /\ p \o q \in Seq(S) /\ Len(p \o q) = Len(p) + Len(q)
              /\ \A i \in 1..(Len(p) + Len(q)) : (p \o q)[i] = IF i <= Len(p) THEN p[i] ELSE q[i - Len(p)]
          BY <3>1, ConcatProperties
        <4>2. Len(p) + Len(q) = 2 /\ 1 \in 1..2 /\ 2 \in 1..2 /\ 1 <= Len(p) /\ ~(2 <= Len(p)) /\ 2 - Len(p) = 1
          BY <3>1
        <4>3. QED
          BY <3>1, <4>1, <4>2, Zenon
      <3>4. \A i \in 1..2 : i = 1 \/ i = 2
        OBVIOUS
      <3>5. p \o q = k
        BY <3>2, <3>3, <3>4, SeqEqual
      <3>6. QED
        BY <3>5 DEF p, q, k
    <2>2. s \in Seq(S) /\ t \in Seq(S)
      OBVIOUS
    <2>3. QED
      BY <2>1, <2>2, Zenon
  <1>2. TupleCompare(order, s, t) = order[<<v, w>>]
    BY OneOrder, Zenon
  <1> HIDE DEF s, t
  <1>3. TupleCompare(order, <<x>> \o s, <<y>> \o t) = Then(order[<<x, y>>], TupleCompare(order, s, t))
    BY <1>1, TupleFirst
  <1>4. QED
    BY <1>1, <1>2, <1>3, Zenon

LEMMA SingleOrder ==
    ASSUME NEW d \in Nat, Level(d)
    PROVE  \A s, r \in Small(d) : ValueOrder[d][<<Value(s), Value(r)>>] = Compare(s, r)
  <1>1. SUFFICES ASSUME NEW s \in Small(d), NEW r \in Small(d)
                 PROVE  ValueOrder[d][<<Value(s), Value(r)>>] = Compare(s, r)
    BY Zenon
  <1> DEFINE t == <<s>>
             u == <<r>>
  <1>2. s \in Seq(Byte) /\ r \in Seq(Byte) /\ Value(s) \in ValuesWithin[d] /\ Value(r) \in ValuesWithin[d]
    BY SmallFacts
  <1>3. t \in Seq(Small(d)) /\ u \in Seq(Small(d)) /\ Len(t) = 1 /\ Len(u) = 1 /\ t[1] = s /\ u[1] = r
    OBVIOUS
  <1>4. FlattenSeq(t) = s /\ FlattenSeq(u) = r
    BY <1>2, FlattenOne
  <1> HIDE DEF t, u
  <1>5. Values(t) = <<Value(s)>> /\ Values(u) = <<Value(r)>>
    BY <1>3 DEF Values
  <1>6. Compare(FlattenSeq(t), FlattenSeq(u)) = TupleCompare(ValueOrder[d], Values(t), Values(u))
    BY <1>3, Zenon DEF Level
  <1>7. TupleCompare(ValueOrder[d], <<Value(s)>>, <<Value(r)>>) = ValueOrder[d][<<Value(s), Value(r)>>]
    BY <1>2, OneOrder
  <1>8. QED
    BY <1>4, <1>5, <1>6, <1>7, Zenon

LEMMA RisingMembers ==
    ASSUME NEW d \in Nat, Level(d), NEW t \in Seq(Small(d)), Sorted("set", t)
    PROVE  Rising(Values(t), ValueOrder[d])
  <1> DEFINE v == Values(t)
             n == Len(t)
             order == ValueOrder[d]
  <1>1. n \in Nat /\ Len(v) = n /\ \A i \in 1..n : v[i] = Value(t[i])
    BY ValuesOf, LenProperties
  <1>2. \A i \in 1..n : t[i] \in Small(d)
    BY ElementOfSeq
  <1>3. \A i \in 1..n : t[i] \in Seq(Byte)
    BY <1>2, SmallFacts
  <1>4. \A i, j \in 1..n : order[<<v[i], v[j]>>] = Compare(t[i], t[j])
    <2>1. SUFFICES ASSUME NEW i \in 1..n, NEW j \in 1..n
                   PROVE  order[<<v[i], v[j]>>] = Compare(t[i], t[j])
      BY Zenon
    <2>2. order[<<Value(t[i]), Value(t[j])>>] = Compare(t[i], t[j])
      BY <1>2, SingleOrder
    <2> HIDE DEF v, order
    <2>3. v[i] = Value(t[i]) /\ v[j] = Value(t[j])
      BY <1>1, Zenon
    <2>4. QED
      BY <2>2, <2>3, Zenon
  <1>5. \A i, j \in 1..n : i < j => Compare(t[i], t[j]) < 0
    BY Zenon DEF Sorted
  <1> HIDE DEF v, n, order
  <1>6. \A i, j \in 1..n : Compare(t[i], t[j]) < 0 <=> i < j
    <2>1. SUFFICES ASSUME NEW i \in 1..n, NEW j \in 1..n
                   PROVE  Compare(t[i], t[j]) < 0 <=> i < j
      BY Zenon
    <2> DEFINE a == t[i]
               b == t[j]
               c == Compare(a, b)
               e == Compare(b, a)
    <2>2. a \in Seq(Byte) /\ b \in Seq(Byte)
      BY <1>3
    <2>3. (i < j => c < 0) /\ (j < i => e < 0) /\ (i = j => a = b)
      BY <1>5
    <2> HIDE DEF a, b
    <2>4. c \in {-1, 0, 1} /\ (c = 0 <=> a = b) /\ e = -c
      BY <2>2, CompareOrder
    <2> HIDE DEF c, e
    <2>5. c < 0 <=> i < j
      BY <1>1, <2>3, <2>4
    <2>6. QED
      BY <2>5, Zenon DEF c, a, b
  <1>7. \A i, j \in 1..Len(v) : order[<<v[i], v[j]>>] < 0 <=> i < j
    <2>1. SUFFICES ASSUME NEW i \in 1..n, NEW j \in 1..n
                   PROVE  order[<<v[i], v[j]>>] < 0 <=> i < j
      BY <1>1, Zenon
    <2>2. order[<<v[i], v[j]>>] = Compare(t[i], t[j])
      BY <1>4, Zenon
    <2>3. Compare(t[i], t[j]) < 0 <=> i < j
      BY <1>6, Zenon
    <2>4. QED
      BY <2>2, <2>3, Zenon
  <1>8. QED
    BY <1>7, Zenon DEF Rising, v, order

LEMMA RisingEntries ==
    ASSUME NEW d \in Nat, Level(d), NEW t \in Seq(Small(d)), Sorted("map", t)
    PROVE  /\ Pairs(Values(t)) = ToSet(Couples(Values(t)))
           /\ Couples(Values(t)) \in Seq(Seq(ValuesWithin[d]))
           /\ FlattenSeq(Couples(Values(t))) = Values(t)
           /\ Rising(Couples(Values(t)), [p \in Pairs(Values(t)) \X Pairs(Values(t)) |->
                                             TupleCompare(ValueOrder[d], p[1], p[2])])
  <1> DEFINE v == Values(t)
             W == ValuesWithin[d]
             order == ValueOrder[d]
             g == Couples(v)
             E == Pairs(v)
             f == [p \in E \X E |-> TupleCompare(order, p[1], p[2])]
  <1>1. PICK n \in Nat : Len(t) = 2*n /\ \A i, j \in 1..n : i < j => Compare(t[2*i - 1], t[2*j - 1]) < 0
    BY Zenon DEF Sorted
  <1>2. Len(v) = 2*n /\ v \in Seq(W) /\ \A i \in 1..(2*n) : v[i] = Value(t[i])
    BY <1>1, ValuesOf, Zenon DEF Level
  <1>3. (2*n) \div 2 = n /\ \A i \in 1..n : 2*i - 1 \in 1..(2*n) /\ 2*i \in 1..(2*n)
    OBVIOUS
  <1>4. \A i \in 1..(2*n) : t[i] \in Small(d) /\ v[i] \in W
    BY <1>1, <1>2, ElementOfSeq
  <1>5. \A i \in 1..(2*n) : t[i] \in Seq(Byte)
    BY <1>4, SmallFacts
  <1>6. \A i, j \in 1..(2*n) : order[<<v[i], v[j]>>] = Compare(t[i], t[j])
    <2>1. SUFFICES ASSUME NEW i \in 1..(2*n), NEW j \in 1..(2*n)
                   PROVE  order[<<v[i], v[j]>>] = Compare(t[i], t[j])
      BY Zenon
    <2>2. order[<<Value(t[i]), Value(t[j])>>] = Compare(t[i], t[j])
      BY <1>4, SingleOrder
    <2> HIDE DEF v, order
    <2>3. v[i] = Value(t[i]) /\ v[j] = Value(t[j])
      BY <1>2, Zenon
    <2>4. QED
      BY <2>2, <2>3, Zenon
  <1>7. g = [i \in 1..n |-> <<v[2*i - 1], v[2*i]>>] /\ E = {<<v[2*i - 1], v[2*i]>> : i \in 1..n}
    BY <1>2, <1>3, Zenon DEF Couples, Pairs
  <1>8. FlattenSeq(g) = v
    BY <1>2, CouplesFlat, Zenon
  <1> HIDE DEF g, E, v, W, order
  <1>9. g \in Seq(Seq(W)) /\ Len(g) = n /\ DOMAIN g = 1..n
    <2>1. \A a, b \in W : <<a, b>> \in Seq(W)
      OBVIOUS
    <2>2. \A i \in 1..n : <<v[2*i - 1], v[2*i]>> \in Seq(W)
      BY <1>3, <1>4, <2>1
    <2>3. g \in [1..n -> Seq(W)]
      BY <1>7, <2>2, Zenon
    <2>4. QED
      BY <2>3
  <1>10. \A i \in 1..n : g[i] = <<v[2*i - 1], v[2*i]>> /\ g[i] \in E
    BY <1>7, Zenon
  <1>11. E = ToSet(g)
    <2>1. ToSet(g) = {g[i] : i \in 1..n}
      BY <1>9, Zenon DEF ToSet
    <2>2. {g[i] : i \in 1..n} = {<<v[2*i - 1], v[2*i]>> : i \in 1..n}
      BY <1>10, Zenon
    <2>3. QED
      BY <1>7, <2>1, <2>2, Zenon
  <1>12. \A x, y \in E : f[<<x, y>>] = TupleCompare(order, x, y)
    BY Zenon
  <1> HIDE DEF f
  <1>13. \A i, j \in 1..n : f[<<g[i], g[j]>>] < 0 <=> i < j
    <2>1. SUFFICES ASSUME NEW i \in 1..n, NEW j \in 1..n
                   PROVE  f[<<g[i], g[j]>>] < 0 <=> i < j
      BY Zenon
    <2> DEFINE a == t[2*i - 1]
               b == t[2*j - 1]
               c == Compare(a, b)
               e == Compare(b, a)
               h == Compare(t[2*i], t[2*j])
    <2>2. 2*i - 1 \in 1..(2*n) /\ 2*i \in 1..(2*n) /\ 2*j - 1 \in 1..(2*n) /\ 2*j \in 1..(2*n)
      BY <1>3
    <2>3. f[<<g[i], g[j]>>] = TupleCompare(order, <<v[2*i - 1], v[2*i]>>, <<v[2*j - 1], v[2*j]>>)
      BY <1>10, <1>12, Zenon
    <2>4. TupleCompare(order, <<v[2*i - 1], v[2*i]>>, <<v[2*j - 1], v[2*j]>>)
            = Then(order[<<v[2*i - 1], v[2*j - 1]>>], order[<<v[2*i], v[2*j]>>])
      <3> DEFINE x == v[2*i - 1]
                 y == v[2*j - 1]
                 p == v[2*i]
                 q == v[2*j]
      <3>1. x \in W /\ y \in W /\ p \in W /\ q \in W
        BY <1>4, <2>2, Zenon
      <3> HIDE DEF x, y, p, q
      <3>2. TupleCompare(order, <<x, p>>, <<y, q>>) = Then(order[<<x, y>>], order[<<p, q>>])
        BY <3>1, TwoOrder
      <3>3. QED
        BY <3>2, Zenon DEF x, y, p, q
    <2>5. f[<<g[i], g[j]>>] = Then(c, h)
      BY <1>6, <2>2, <2>3, <2>4, Zenon
    <2>6. a \in Seq(Byte) /\ b \in Seq(Byte) /\ t[2*i] \in Seq(Byte)
      BY <1>5, <2>2, Zenon
    <2>7. (i < j => c < 0) /\ (j < i => e < 0) /\ (i = j => a = b /\ t[2*i] = t[2*j])
      BY <1>1, Zenon
    <2>8. Compare(t[2*i], t[2*i]) = 0
      BY <2>6, CompareOrder
    <2>9. i = j => h = 0
      BY <2>7, <2>8, Zenon
    <2> HIDE DEF a, b
    <2>10. c \in {-1, 0, 1} /\ (c = 0 <=> a = b) /\ e = -c
      BY <2>6, CompareOrder
    <2> HIDE DEF c, e, h
    <2>11. (i = j => c = 0) /\ (i < j => c < 0) /\ (j < i => c > 0)
      BY <2>7, <2>10
    <2>12. Then(c, h) < 0 <=> i < j
      <3>1. CASE i = j
        <4>1. Then(c, h) = 0
          BY <2>9, <2>11, <3>1, Zenon DEF Then
        <4>2. QED
          BY <3>1, <4>1
      <3>2. CASE i < j
        <4>1. c # 0
          BY <2>10, <2>11, <3>2
        <4>2. Then(c, h) = c
          BY <4>1, Zenon DEF Then
        <4>3. QED
          BY <2>11, <3>2, <4>2
      <3>3. CASE j < i
        <4>1. c # 0
          BY <2>10, <2>11, <3>3
        <4>2. Then(c, h) = c
          BY <4>1, Zenon DEF Then
        <4>3. QED
          BY <2>10, <2>11, <3>3, <4>2
      <3>4. QED
        BY <3>1, <3>2, <3>3
    <2>13. QED
      BY <2>5, <2>12, Zenon
  <1>14. Rising(g, f)
    BY <1>9, <1>13, Zenon DEF Rising
  <1>15. QED
    BY <1>8, <1>9, <1>11, <1>14, Zenon DEF f, g, E, v, W, order

LEMMA ListedIs ==
    ASSUME NEW d \in Nat, Level(d), NEW t \in Seq(Small(d)), NEW e, e.data = FlattenSeq(t),
           e.kind \in Containers, Sorted(e.kind, t)
    PROVE  Listed(ElementValue(e), ValueOrder[d]) = Values(t)
  <1> DEFINE v == Values(t)
             order == ValueOrder[d]
             x == ElementValue(e)
  <1>1. Unpack[e.data] = v /\ v \in Seq(ValuesWithin[d])
    BY ContentsValues
  <1>2. /\ e.kind = "array" => x = [kind |-> "array", items |-> v]
        /\ e.kind = "set" => x = [kind |-> "set", members |-> ToSet(v)]
        /\ e.kind = "map" => x = [kind |-> "map", entries |-> Pairs(v)]
    BY <1>1, ElementValueForms, Zenon
  <1> HIDE DEF x, v, order
  <1>3. CASE e.kind = "array"
    <2>1. x.kind = "array" /\ x.items = v
      BY <1>2, <1>3
    <2>2. Listed(x, order) = v
      BY <2>1 DEF Listed
    <2>3. QED
      BY <2>2, Zenon DEF x, v, order
  <1>4. CASE e.kind = "set"
    <2> DEFINE M == ToSet(v)
    <2>1. x = [kind |-> "set", members |-> M]
      BY <1>2, <1>4
    <2> HIDE DEF M
    <2>2. x.kind = "set" /\ x.members = M
      BY <2>1
    <2>3. Listed(x, order) = Ranked(x.members, order)
      BY <2>2 DEF Listed
    <2>4. Rising(v, order)
      BY <1>4, RisingMembers, Zenon DEF v, order
    <2>5. Ranked(M, order) = v
      BY <1>1, <2>4, RankedIs DEF M
    <2>6. QED
      BY <2>2, <2>3, <2>5, Zenon DEF x, v, order
  <1>5. CASE e.kind = "map"
    <2> DEFINE M == Pairs(v)
               g == Couples(v)
               f == [p \in M \X M |-> TupleCompare(order, p[1], p[2])]
    <2>1. x = [kind |-> "map", entries |-> M]
      BY <1>2, <1>5
    <2>2. M = ToSet(g) /\ g \in Seq(Seq(ValuesWithin[d])) /\ FlattenSeq(g) = v /\ Rising(g, f)
      BY <1>5, RisingEntries, Zenon DEF v, order
    <2> HIDE DEF M, g
    <2>3. x.kind = "map" /\ x.entries = M
      BY <2>1
    <2>4. Listed(x, order) = FlattenSeq(Ranked(x.entries, [p \in x.entries \X x.entries |-> TupleCompare(order, p[1], p[2])]))
      BY <2>3, Zenon DEF Listed
    <2>5. [p \in x.entries \X x.entries |-> TupleCompare(order, p[1], p[2])] = f
      BY <2>3, Zenon
    <2> HIDE DEF f
    <2>6. Ranked(M, f) = g
      BY <2>2, RankedIs
    <2>7. Listed(x, order) = v
      BY <2>2, <2>3, <2>4, <2>5, <2>6, Zenon
    <2>8. QED
      BY <2>7, Zenon DEF x, v, order
  <1>6. QED
    BY <1>3, <1>4, <1>5 DEF Containers

-----------------------------------------------------------------------------
(* Elements compare as their values do, one level up.                      *)
LEMMA ElementFacts ==
    ASSUME NEW d \in Nat, Level(d), NEW s \in Small(d + 1)
    PROVE  /\ s \in StableStrings /\ s \in Seq(Byte) /\ s # <<>>
           /\ Value(s) \in ValuesWithin[d + 1]
           /\ \E e : /\ Appended(e) /\ s = EncElement(e) /\ Value(s) = ElementValue(e)
                     /\ e.kind \in Containers => \E t \in Seq(Small(d)) :
                           /\ e.data = FlattenSeq(t) /\ e.data \in Seq(Byte)
                           /\ Listed(Value(s), ValueOrder[d]) = Values(t)
  <1>1. s \in StableStrings /\ Shaped(s, Proper) /\ Len(s) <= d + 1
    BY ProperShaped, Zenon DEF Small
  <1>2. s \in Seq(Byte) /\ s # <<>>
    BY <1>1 DEF StableStrings, Stable
  <1>3. PICK e : ShapedBy(s, Proper, e)
    BY <1>1, Zenon DEF Shaped
  <1>4. Appended(e) /\ KeptElement(e) /\ s = EncElement(e)
        /\ (e.kind \in Containers => \E t \in Seq(Proper) : e.data = FlattenSeq(t) /\ Sorted(e.kind, t))
    BY <1>3, Zenon DEF ShapedBy
  <1>5. e \in Encodable /\ (e.kind = "decimal" => InExpRange(e.exp)) /\ EncElement(e) # <<>>
    BY <1>4, Zenon DEF Appended
  <1>6. Value(s) = ElementValue(e)
    BY <1>4, <1>5, EncodedValue
  <1> DEFINE W == ValuesWithin[d]
  <1>7. ValuesWithin[d + 1] = ScalarValues \cup ContainersOf(W)
    <2>1. d + 1 \in Nat \ {0} /\ (d + 1) - 1 = d
      OBVIOUS
    <2>2. ValuesWithin[d + 1] = ScalarValues \cup ContainersOf(ValuesWithin[(d + 1) - 1])
      BY <2>1, WithinUnfold
    <2>3. QED
      BY <2>1, <2>2, Zenon
  <1>8. CASE e.kind \notin Containers
    <2>1. ElementValue(e) \in ScalarValues
      BY <1>4, <1>8, ScalarValueShape
    <2>2. Value(s) \in ValuesWithin[d + 1]
      BY <1>6, <1>7, <2>1, Zenon
    <2>3. QED
      BY <1>1, <1>2, <1>4, <1>6, <1>8, <2>2, Zenon
  <1>9. CASE e.kind \in Containers
    <2>1. PICK t \in Seq(Proper) : e.data = FlattenSeq(t) /\ Sorted(e.kind, t)
      BY <1>4, <1>9, Zenon
    <2>2. t \in Seq(Small(d)) /\ e.data \in Seq(Byte)
      <3>1. Len(EncElement(e)) <= d + 1
        BY <1>1, <1>4, Zenon
      <3>2. QED
        BY <1>4, <1>9, <2>1, <3>1, ContentsSmall
    <2>3. ElementValue(e) \in ContainersOf(W)
      BY <1>9, <2>1, <2>2, ContainerWithin
    <2>4. Listed(ElementValue(e), ValueOrder[d]) = Values(t)
      BY <1>9, <2>1, <2>2, ListedIs
    <2>5. Value(s) \in ValuesWithin[d + 1]
      BY <1>6, <1>7, <2>3, Zenon
    <2>6. QED
      BY <1>1, <1>2, <1>4, <1>6, <2>1, <2>2, <2>4, <2>5, Zenon
  <1>10. QED
    BY <1>8, <1>9

(* Elements of any kinds, and what follows them. *)
LEMMA ElementOrder ==
    ASSUME NEW d \in Nat, Level(d), NEW s \in Small(d + 1), NEW r \in Small(d + 1),
           NEW a \in Seq(Byte), NEW b \in Seq(Byte), Continues(a), Continues(b)
    PROVE  Compare(s \o a, r \o b) = Then(ValueOrder[d + 1][<<Value(s), Value(r)>>], Compare(a, b))
  <1> DEFINE x == Value(s)
             y == Value(r)
             order == ValueOrder[d]
             c == ValueOrder[d + 1][<<x, y>>]
  <1>1. PICK e : /\ Appended(e) /\ s = EncElement(e) /\ x = ElementValue(e)
                 /\ e.kind \in Containers => \E t \in Seq(Small(d)) :
                       e.data = FlattenSeq(t) /\ e.data \in Seq(Byte) /\ Listed(x, order) = Values(t)
    BY ElementFacts, Zenon
  <1>2. PICK f : /\ Appended(f) /\ r = EncElement(f) /\ y = ElementValue(f)
                 /\ f.kind \in Containers => \E t \in Seq(Small(d)) :
                       f.data = FlattenSeq(t) /\ f.data \in Seq(Byte) /\ Listed(y, order) = Values(t)
    BY ElementFacts, Zenon
  <1>3. x \in ValuesWithin[d + 1] /\ y \in ValuesWithin[d + 1] /\ s \in Seq(Byte) /\ r \in Seq(Byte)
    BY ElementFacts, Zenon
  <1>4. c = ElementCompare(order, x, y)
    <2>1. d + 1 \in Nat /\ (d + 1) - 1 = d
      OBVIOUS
    <2>2. c = ElementCompare(ValueOrder[(d + 1) - 1], x, y)
      BY <1>3, <2>1, OrderUnfold, Zenon
    <2>3. QED
      BY <2>1, <2>2, Zenon
  <1> HIDE DEF x, y, order, c
  <1>5. /\ x.kind = (IF e.kind = "bigint" THEN "int" ELSE e.kind) /\ x.kind \in DOMAIN Rank /\ Begins(s, Rank[x.kind])
        /\ y.kind = (IF f.kind = "bigint" THEN "int" ELSE f.kind) /\ y.kind \in DOMAIN Rank /\ Begins(r, Rank[y.kind])
    <2>1. e \in Encodable /\ (e.kind = "decimal" => InExpRange(e.exp)) /\ EncElement(e) # <<>>
      BY <1>1, Zenon DEF Appended
    <2>2. f \in Encodable /\ (f.kind = "decimal" => InExpRange(f.exp)) /\ EncElement(f) # <<>>
      BY <1>2, Zenon DEF Appended
    <2>3. ElementValue(e).kind = (IF e.kind = "bigint" THEN "int" ELSE e.kind) /\ ElementValue(e).kind \in DOMAIN Rank
          /\ Begins(EncElement(e), Rank[ElementValue(e).kind])
      BY <2>1, ElementHead
    <2>4. ElementValue(f).kind = (IF f.kind = "bigint" THEN "int" ELSE f.kind) /\ ElementValue(f).kind \in DOMAIN Rank
          /\ Begins(EncElement(f), Rank[ElementValue(f).kind])
      BY <2>2, ElementHead
    <2>5. QED
      BY <1>1, <1>2, <2>3, <2>4, Zenon
  <1>6. CASE x.kind # y.kind
    <2> DEFINE k == x.kind
               l == y.kind
               g == SignOf(Rank[k] - Rank[l])
    <2>1. k \in Kinds /\ l \in Kinds /\ k # l /\ Begins(s, Rank[k]) /\ Begins(r, Rank[l])
      BY <1>5, <1>6, RankApart, Zenon
    <2> HIDE DEF k, l
    <2>2. Compare(s \o a, r \o b) = g
      BY <1>3, <2>1, KindOrder
    <2>3. g # 0
      <3>1. Rank[k] \in Int /\ Rank[l] \in Int /\ Rank[k] # Rank[l]
        BY <2>1, RankApart, Zenon
      <3>2. QED
        BY <3>1, SignFacts
    <2>4. c = g
      BY <1>4, <1>6, Zenon DEF ElementCompare, k, l
    <2>5. c # 0 => Then(c, Compare(a, b)) = c
      BY Zenon DEF Then
    <2>6. QED
      BY <2>2, <2>3, <2>4, <2>5, Zenon DEF c, x, y
  <1>7. CASE x.kind = y.kind
    <2>1. Compare(EncElement(e) \o a, EncElement(f) \o b) =
             IF e.kind \in {"array", "set", "map"} THEN Then(Compare(e.data, f.data), Compare(a, b))
             ELSE Then(ScalarCompare(ElementValue(e), ElementValue(f)), Compare(a, b))
      BY <1>1, <1>2, <1>7, SameKindOrder
    <2>2. Compare(s \o a, r \o b) =
             IF e.kind \in Containers THEN Then(Compare(e.data, f.data), Compare(a, b))
             ELSE Then(ScalarCompare(x, y), Compare(a, b))
      BY <1>1, <1>2, <2>1 DEF Containers
    <2>3. CASE e.kind \notin Containers
      <3>1. x.kind \notin {"array", "map", "set"}
        BY <1>5, <2>3 DEF Containers
      <3>2. c = ScalarCompare(x, y)
        BY <1>4, <1>7, <3>1, Zenon DEF ElementCompare
      <3>3. QED
        BY <2>2, <2>3, <3>2, Zenon DEF c, x, y
    <2>4. CASE e.kind \in Containers
      <3>1. x.kind \in {"array", "map", "set"} /\ f.kind \in Containers
        BY <1>5, <1>7, <2>4 DEF Containers
      <3>2. c = TupleCompare(order, Listed(x, order), Listed(y, order))
        BY <1>4, <1>7, <3>1, Zenon DEF ElementCompare
      <3>3. PICK t \in Seq(Small(d)) : e.data = FlattenSeq(t) /\ Listed(x, order) = Values(t)
        BY <1>1, <2>4, Zenon
      <3>4. PICK u \in Seq(Small(d)) : f.data = FlattenSeq(u) /\ Listed(y, order) = Values(u)
        BY <1>2, <3>1, Zenon
      <3>5. Compare(FlattenSeq(t), FlattenSeq(u)) = TupleCompare(order, Values(t), Values(u))
        BY Zenon DEF Level, order
      <3>6. Compare(e.data, f.data) = c
        BY <3>2, <3>3, <3>4, <3>5, Zenon
      <3>7. QED
        BY <2>2, <2>4, <3>6, Zenon DEF c, x, y
    <2>5. QED
      BY <2>3, <2>4
  <1>8. QED
    BY <1>6, <1>7

LEMMA FirstElement ==
    ASSUME NEW t \in Seq(StableStrings), t # <<>>
    PROVE  /\ FlattenSeq(t) = Head(t) \o FlattenSeq(Tail(t))
           /\ Values(t) = <<Value(Head(t))>> \o Values(Tail(t))
           /\ FlattenSeq(t) \in Seq(Byte) /\ FlattenSeq(t) # <<>> /\ Continues(FlattenSeq(Tail(t)))
  <1> DEFINE h == Head(t)
             u == Tail(t)
             s == <<h>>
  <1>1. h \in StableStrings /\ u \in Seq(StableStrings) /\ t = s \o u
    BY HeadTail
  <1>2. StableStrings \subseteq Seq(Byte)
    BY DEF StableStrings
  <1>3. s \in Seq(StableStrings) /\ Len(s) = 1 /\ s[1] = h
    BY <1>1
  <1>4. s \in Seq(Seq(Byte)) /\ u \in Seq(Seq(Byte)) /\ h \in Seq(Byte) /\ FlattenSeq(s) = h
    BY <1>1, <1>2, FlattenOne
  <1> HIDE DEF s, u, h
  <1>5. FlattenSeq(t) = h \o FlattenSeq(u)
    BY <1>1, <1>4, FlattenConcat
  <1>6. Values(s) = <<Value(h)>>
    BY <1>3 DEF Values
  <1>7. Values(t) = <<Value(h)>> \o Values(u)
    BY <1>1, <1>3, <1>6, ValuesConcat
  <1>8. FlattenSeq(u) \in Canonicals /\ FlattenSeq(t) \in Canonicals
    BY <1>1, Zenon DEF Canonicals
  <1>9. FlattenSeq(u) \in Seq(Byte) /\ FlattenSeq(t) \in Seq(Byte)
    BY <1>8, CanonicalAppend
  <1>10. FlattenSeq(u) # <<>> => FlattenSeq(u)[1] # 255
    BY <1>8, CanonicalSplit
  <1>11. h # <<>>
    BY <1>1 DEF StableStrings, Stable
  <1>12. FlattenSeq(t) # <<>>
    <2> DEFINE f == FlattenSeq(u)
    <2>1. f \in Seq(Byte)
      BY <1>9
    <2> HIDE DEF f
    <2>2. h \o f # <<>>
      BY <1>4, <1>11, <2>1
    <2>3. QED
      BY <1>5, <2>2 DEF f
  <1>13. Continues(FlattenSeq(u))
    BY <1>9, <1>10 DEF Continues
  <1>14. QED
    BY <1>5, <1>7, <1>9, <1>12, <1>13 DEF h, u

LEMMA EmptyLowest ==
    \A v \in Seq(Byte) : v # <<>> => Compare(<<>>, v) = -1 /\ Compare(v, <<>>) = 1
  <1>1. SUFFICES ASSUME NEW v \in Seq(Byte), v # <<>>
                 PROVE  Compare(<<>>, v) = -1 /\ Compare(v, <<>>) = 1
    BY Zenon
  <1> DEFINE z == <<>>
             n == Len(v)
  <1>2. z \in Seq(Byte) /\ Len(z) = 0 /\ n \in Nat /\ n > 0
    BY <1>1
  <1> HIDE DEF z, n
  <1>3. StartOf(z, v)
    <2>1. 0 <= n
      BY <1>2
    <2>2. QED
      BY <1>2, <2>1 DEF StartOf, n
  <1>4. Compare(z, v) = SignOf(0 - n) /\ Compare(v, z) = SignOf(n - 0)
    BY <1>2, <1>3, ComparePrefix DEF n
  <1>5. SignOf(0 - n) = -1 /\ SignOf(n - 0) = 1
    BY <1>2 DEF SignOf
  <1>6. QED
    BY <1>4, <1>5, Zenon DEF z

-----------------------------------------------------------------------------
(* Tuples compare as their values do, at every depth.                      *)
LEMMA NothingSmall == \A s \in Small(0) : FALSE
  <1>1. ASSUME NEW s \in Small(0)
        PROVE  FALSE
    <2>1. s \in StableStrings /\ Len(s) <= 0
      BY ProperShaped, Zenon DEF Small
    <2>2. s \in Seq(Byte) /\ s # <<>>
      BY <2>1 DEF StableStrings, Stable
    <2>3. QED
      BY <2>1, <2>2
  <1>2. QED
    BY <1>1, Zenon

LEMMA EmptyTuple ==
    /\ FlattenSeq(<<>>) = <<>> /\ Values(<<>>) = <<>> /\ Compare(<<>>, <<>>) = 0
  <1> DEFINE z == <<>>
  <1>1. z \in Seq(Byte) /\ z \in Seq(StableStrings) /\ Len(z) = 0
    OBVIOUS
  <1>2. Values(z) = z
    BY DEF Values
  <1>3. Compare(z, z) = 0
    BY <1>1, CompareOrder
  <1>4. FlattenSeq(z) = z
    BY FlattenEmpty
  <1>5. QED
    BY <1>2, <1>3, <1>4

LEMMA LevelZero == Level(0)
  <1>1. ASSUME NEW t \in Seq(Small(0))
        PROVE  t = <<>>
    <2>1. CASE t # <<>>
      <3>1. t[1] \in Small(0)
        BY <2>1
      <3>2. QED
        BY <3>1, NothingSmall, Zenon
    <2>2. QED
      BY <2>1
  <1>2. ASSUME NEW t \in Seq(Small(0)), NEW u \in Seq(Small(0))
        PROVE  /\ Values(t) \in Seq(ValuesWithin[0])
               /\ Compare(FlattenSeq(t), FlattenSeq(u)) = TupleCompare(ValueOrder[0], Values(t), Values(u))
    <2>1. t = <<>> /\ u = <<>>
      BY <1>1, Zenon
    <2>2. Values(t) = <<>> /\ Values(u) = <<>> /\ Compare(FlattenSeq(t), FlattenSeq(u)) = 0
      BY <2>1, EmptyTuple
    <2>3. TupleCompare(ValueOrder[0], Values(t), Values(u)) = 0
      BY <2>2, TupleEmpty, Zenon
    <2>4. Values(t) \in Seq(ValuesWithin[0])
      BY <2>2
    <2>5. QED
      BY <2>2, <2>3, <2>4
  <1>3. QED
    BY <1>2, Zenon DEF Level

LEMMA ValuesWithinNext ==
    ASSUME NEW d \in Nat, Level(d), NEW t \in Seq(Small(d + 1))
    PROVE  Values(t) \in Seq(ValuesWithin[d + 1]) /\ t \in Seq(StableStrings)
  <1> DEFINE S == Small(d + 1)
             V == ValuesWithin[d + 1]
  <1>1. \A s \in S : s \in StableStrings /\ Value(s) \in V
    BY ElementFacts, Zenon
  <1>2. t \in Seq(S)
    OBVIOUS
  <1> HIDE DEF S, V
  <1>3. Values(t) \in Seq(V) /\ t \in Seq(StableStrings)
    BY <1>1, <1>2 DEF Values
  <1>4. QED
    BY <1>3 DEF V

LEMMA LevelStep ==
    ASSUME NEW d \in Nat, Level(d)
    PROVE  Level(d + 1)
  <1> DEFINE S == Small(d + 1)
             V == ValuesWithin[d + 1]
             order == ValueOrder[d + 1]
             Agree(t, u) == Compare(FlattenSeq(t), FlattenSeq(u)) = TupleCompare(order, Values(t), Values(u))
             N == {n \in Nat : \A t, u \in Seq(S) : Len(t) = n => Agree(t, u)}
  <1>1. \A t \in Seq(S) : Values(t) \in Seq(V) /\ t \in Seq(StableStrings)
    BY ValuesWithinNext, Zenon
  <1>2. \A s \in S : Value(s) \in V
    BY ElementFacts, Zenon
  <1>3. ASSUME NEW s \in S, NEW r \in S, NEW a \in Seq(Byte), NEW b \in Seq(Byte), Continues(a), Continues(b)
        PROVE  Compare(s \o a, r \o b) = Then(order[<<Value(s), Value(r)>>], Compare(a, b))
    BY <1>3, ElementOrder
  <1> HIDE DEF S, V, order
  <1>4. ASSUME NEW t \in Seq(S), t # <<>>
        PROVE  /\ FlattenSeq(t) \in Seq(Byte) /\ FlattenSeq(t) # <<>>
               /\ Values(t) \in Seq(V) /\ Values(t) # <<>>
    <2>1. t \in Seq(StableStrings) /\ Values(t) \in Seq(V)
      BY <1>1, <1>4
    <2>2. FlattenSeq(t) \in Seq(Byte) /\ FlattenSeq(t) # <<>>
      BY <1>4, <2>1, FirstElement
    <2>3. Values(t) # <<>>
      BY <1>4 DEF Values
    <2>4. QED
      BY <2>1, <2>2, <2>3
  <1>5. ASSUME NEW t \in Seq(S), NEW u \in Seq(S), t = <<>> \/ u = <<>>
        PROVE  Agree(t, u)
    <2> DEFINE z == <<>>
    <2>1. FlattenSeq(z) = z /\ Values(z) = z /\ Compare(z, z) = 0
      BY EmptyTuple
    <2>2. TupleCompare(order, z, z) = 0
      BY TupleEmpty, Zenon
    <2>3. \A s \in Seq(V) : s # z => TupleCompare(order, z, s) = -1 /\ TupleCompare(order, s, z) = 1
      BY TupleEmpty, Zenon
    <2>4. \A v \in Seq(Byte) : v # z => Compare(z, v) = -1 /\ Compare(v, z) = 1
      BY EmptyLowest, Zenon
    <2>5. \A s \in Seq(S) : s # z => /\ FlattenSeq(s) \in Seq(Byte) /\ FlattenSeq(s) # z
                                     /\ Values(s) \in Seq(V) /\ Values(s) # z
      BY <1>4, Zenon
    <2>6. t = z \/ u = z
      BY <1>5, Zenon
    <2> HIDE DEF z
    <2>7. QED
      BY <2>1, <2>2, <2>3, <2>4, <2>5, <2>6, Zenon
  <1>6. 0 \in N
    <2>1. ASSUME NEW t \in Seq(S), NEW u \in Seq(S), Len(t) = 0
          PROVE  Agree(t, u)
      <3>1. t = <<>>
        BY <2>1
      <3>2. QED
        BY <1>5, <3>1
    <2>2. QED
      BY <2>1
  <1>7. ASSUME NEW n \in Nat, n \in N
        PROVE  n + 1 \in N
    <2>1. ASSUME NEW t \in Seq(S), NEW u \in Seq(S), Len(t) = n + 1
          PROVE  Agree(t, u)
      <3>1. CASE u = <<>>
        BY <1>5, <3>1
      <3>2. CASE u # <<>>
        <4> DEFINE s == Head(t)
                   r == Head(u)
                   p == Tail(t)
                   q == Tail(u)
                   a == FlattenSeq(p)
                   b == FlattenSeq(q)
                   x == Value(s)
                   y == Value(r)
        <4>1. /\ s \in S /\ r \in S /\ p \in Seq(S) /\ q \in Seq(S) /\ Len(p) = n
              /\ t # <<>>
          BY <2>1, <3>2
        <4>2. /\ FlattenSeq(t) = s \o a /\ Values(t) = <<x>> \o Values(p) /\ Continues(a)
              /\ FlattenSeq(u) = r \o b /\ Values(u) = <<y>> \o Values(q) /\ Continues(b)
          <5>1. t \in Seq(StableStrings) /\ u \in Seq(StableStrings)
            BY <1>1
          <5>2. QED
            BY <3>2, <4>1, <5>1, FirstElement
        <4>3. x \in V /\ y \in V /\ Values(p) \in Seq(V) /\ Values(q) \in Seq(V)
          BY <1>1, <1>2, <4>1
        <4>4. Agree(p, q)
          BY <1>7, <4>1, Zenon
        <4> HIDE DEF s, r, p, q
        <4>5. a \in Seq(Byte) /\ b \in Seq(Byte)
          BY <4>2, Zenon DEF Continues
        <4> HIDE DEF a, b
        <4>6. Compare(s \o a, r \o b) = Then(order[<<x, y>>], Compare(a, b))
          BY <1>3, <4>1, <4>2, <4>5
        <4> HIDE DEF x, y
        <4>7. TupleCompare(order, <<x>> \o Values(p), <<y>> \o Values(q)) =
                 Then(order[<<x, y>>], TupleCompare(order, Values(p), Values(q)))
          BY <4>3, TupleFirst
        <4>8. QED
          BY <4>2, <4>4, <4>6, <4>7, Zenon DEF a, b, x, y
      <3>3. QED
        BY <3>1, <3>2
    <2>2. n + 1 \in Nat
      OBVIOUS
    <2>3. QED
      BY <2>1, <2>2, Zenon
  <1> HIDE DEF N
  <1>8. \A n \in Nat : n \in N
    BY <1>6, <1>7, NatSetInduction
  <1>9. \A t, u \in Seq(S) : Agree(t, u)
    <2>1. ASSUME NEW t \in Seq(S), NEW u \in Seq(S)
          PROVE  Agree(t, u)
      <3>1. Len(t) \in Nat
        OBVIOUS
      <3>2. Len(t) \in N
        BY <1>8, <3>1, Zenon
      <3>3. QED
        BY <3>2, Zenon DEF N
    <2>2. QED
      BY <2>1, Zenon
  <1>10. QED
    BY <1>1, <1>9, Zenon DEF Level, S, V, order

LEMMA Levels == \A d \in Nat : Level(d)
  <1> DEFINE N == {d \in Nat : Level(d)}
  <1>1. 0 \in N
    BY LevelZero, Zenon
  <1>2. ASSUME NEW d \in Nat, d \in N
        PROVE  d + 1 \in N
    <2>1. d + 1 \in Nat
      OBVIOUS
    <2>2. Level(d)
      BY <1>2, Zenon
    <2>3. Level(d + 1)
      BY <2>2, LevelStep
    <2>4. QED
      BY <2>1, <2>3, Zenon
  <1> HIDE DEF N
  <1>3. \A d \in Nat : d \in N
    BY <1>1, <1>2, NatSetInduction
  <1>4. QED
    BY <1>3, Zenon DEF N

(* Two tuples of elements that append calls may leave, nested to any depth *)
(* and of any size: memcmp of their bytes is the order of the values they  *)
(* decode to.                                                              *)
THEOREM TuplesOrdered ==
    ASSUME NEW t \in Seq(Proper), NEW u \in Seq(Proper), NEW d \in Nat,
           Len(FlattenSeq(t)) <= d, Len(FlattenSeq(u)) <= d
    PROVE  Compare(FlattenSeq(t), FlattenSeq(u)) =
               TupleCompare(ValueOrder[d], Unpack[FlattenSeq(t)], Unpack[FlattenSeq(u)])
  <1>1. ASSUME NEW v \in Seq(Proper), Len(FlattenSeq(v)) <= d
        PROVE  v \in Seq(Small(d)) /\ Unpack[FlattenSeq(v)] = Values(v)
    <2>1. v \in Seq(StableStrings) /\ v \in Seq(Seq(Byte))
      <3>1. Proper \subseteq StableStrings /\ StableStrings \subseteq Seq(Byte)
        BY ProperShaped DEF StableStrings
      <3>2. QED
        BY <3>1
    <2>2. Unpack[FlattenSeq(v)] = Values(v)
      BY <2>1, UnpackFlat
    <2>3. Len(FlattenSeq(v)) \in Nat
      <3>1. FlattenSeq(v) \in Seq(Byte)
        BY <2>1, FlattenType
      <3>2. QED
        BY <3>1
    <2>4. \A i \in 1..Len(v) : v[i] \in Small(d)
      <3>1. ASSUME NEW i \in 1..Len(v)
            PROVE  v[i] \in Small(d)
        <4>1. Len(v[i]) <= Len(FlattenSeq(v))
          BY <2>1, PartsShorter
        <4>2. v[i] \in Proper /\ Len(v[i]) \in Nat
          BY <2>1
        <4> DEFINE m == Len(v[i])
                   n == Len(FlattenSeq(v))
        <4>3. m <= n /\ n <= d /\ m \in Nat /\ n \in Nat
          BY <1>1, <2>3, <4>1, <4>2
        <4> HIDE DEF m, n
        <4>4. m <= d
          BY <4>3
        <4>5. QED
          BY <4>2, <4>4, Zenon DEF Small, m
      <3>2. QED
        BY <3>1, Zenon
    <2>5. v \in Seq(Small(d))
      BY <2>4
    <2>6. QED
      BY <2>2, <2>5
  <1>2. Level(d)
    BY Levels, Zenon
  <1>3. t \in Seq(Small(d)) /\ Unpack[FlattenSeq(t)] = Values(t)
    BY <1>1
  <1>4. u \in Seq(Small(d)) /\ Unpack[FlattenSeq(u)] = Values(u)
    BY <1>1
  <1>5. QED
    BY <1>2, <1>3, <1>4, Zenon DEF Level

-----------------------------------------------------------------------------
(* What the append calls leave is made of proper elements.                 *)
ProperBytes == {FlattenSeq(t) : t \in Seq(Proper)}

LEMMA ProperAppend ==
    /\ <<>> \in ProperBytes
    /\ \A s \in Proper : s \in ProperBytes
    /\ \A x, y \in ProperBytes : x \o y \in ProperBytes
    /\ \A t \in Seq(Proper) : t \in Seq(StableStrings) /\ t \in Seq(Seq(Byte))
  <1>1. Proper \subseteq StableStrings /\ Proper \subseteq Seq(Byte)
    BY ProperShaped DEF StableStrings
  <1>2. \A t \in Seq(Proper) : t \in Seq(StableStrings) /\ t \in Seq(Seq(Byte))
    BY <1>1
  <1>3. <<>> \in ProperBytes
    <2>1. <<>> \in Seq(Proper)
      OBVIOUS
    <2>2. QED
      BY <2>1, FlattenEmpty DEF ProperBytes
  <1>4. ASSUME NEW s \in Proper
        PROVE  s \in ProperBytes
    <2>1. s \in Seq(Byte)
      BY <1>1
    <2> DEFINE t == <<s>>
    <2>2. t \in Seq(Proper)
      OBVIOUS
    <2>3. FlattenSeq(t) = s
      BY <2>1, FlattenOne
    <2> HIDE DEF t
    <2>4. QED
      BY <2>2, <2>3, Zenon DEF ProperBytes
  <1>5. ASSUME NEW x \in ProperBytes, NEW y \in ProperBytes
        PROVE  x \o y \in ProperBytes
    <2>1. PICK t \in Seq(Proper) : x = FlattenSeq(t)
      BY Zenon DEF ProperBytes
    <2>2. PICK u \in Seq(Proper) : y = FlattenSeq(u)
      BY Zenon DEF ProperBytes
    <2>3. FlattenSeq(t \o u) = x \o y
      BY <1>2, <2>1, <2>2, FlattenConcat
    <2>4. t \o u \in Seq(Proper)
      OBVIOUS
    <2>5. QED
      BY <2>3, <2>4, Zenon DEF ProperBytes
  <1>6. QED
    BY <1>2, <1>3, <1>4, <1>5, Zenon

LEMMA FramedProper ==
    ASSUME NEW k \in Containers, NEW t \in Seq(Proper), Sorted(k, t)
    PROVE  EncFramed(FramedCode[k], FlattenSeq(t)) \in ProperBytes
  <1> DEFINE d == FlattenSeq(t)
             e == [kind |-> k, data |-> d]
             s == EncElement(e)
  <1>1. d \in Seq(Byte)
    <2>1. t \in Seq(Seq(Byte))
      BY ProperAppend, Zenon
    <2>2. QED
      BY <2>1, FlattenType
  <1>2. e.kind = k /\ e.data = d
    OBVIOUS
  <1>3. k \in DOMAIN FramedCode /\ k \in {"array", "map", "set"}
    BY DEF Containers, FramedCode
  <1>4. e \in Encodable
    <2>1. e \in [kind : DOMAIN FramedCode, data : Seq(Byte)]
      BY <1>1, <1>3
    <2> HIDE DEF e
    <2>2. QED
      BY <2>1, Zenon DEF Encodable
  <1>5. s = EncFramed(FramedCode[k], d)
    <2> HIDE DEF e
    <2>1. QED
      BY <1>2, <1>3, FramedCodes DEF EncElement
  <1>6. KeptElement(e) /\ e.kind # "decimal"
    <2> HIDE DEF e
    <2>1. QED
      BY <1>2, <1>3 DEF KeptElement
  <1>7. s \in StableStrings
    <2>1. IF e.kind = "decimal" /\ DecimalRejected(e.digits, e.exp) THEN s = <<>>
          ELSE s \in StableStrings /\ Value(s) = ElementValue(e)
      BY <1>4, <1>6, EncodedValue
    <2>2. QED
      BY <1>6, <2>1, Zenon
  <1>8. s # <<>>
    BY <1>7 DEF StableStrings, Stable
  <1>9. Appended(e)
    BY <1>4, <1>6, <1>8, Zenon DEF Appended
  <1>10. ShapedBy(s, Proper, e)
    BY <1>2, <1>6, <1>9, Zenon DEF ShapedBy
  <1>11. s \in Proper
    BY <1>7, <1>10, ProperClosed, Zenon DEF Shaped
  <1> HIDE DEF s
  <1>12. QED
    BY <1>5, <1>11, ProperAppend, Zenon

(* A scalar appended is a proper element, or a rejected decimal.           *)
LEMMA ScalarProper ==
    ASSUME NEW e \in Encodable, KeptElement(e), ScalarArgument(e)
    PROVE  EncElement(e) \in ProperBytes
  <1>1. e.kind \notin Containers /\ (e.kind = "decimal" => InExpRange(e.exp))
    BY Zenon DEF ScalarArgument, Containers
  <1>2. EncElement(e) = <<>> \/ EncElement(e) \in StableStrings
    BY <1>1, EncodedValue
  <1>3. CASE EncElement(e) = <<>>
    BY <1>3, ProperAppend
  <1>4. CASE EncElement(e) # <<>>
    <2>1. Appended(e)
      BY <1>1, <1>4, Zenon DEF Appended
    <2>2. Shaped(EncElement(e), Proper)
      BY <1>1, <2>1, Zenon DEF Shaped, ShapedBy
    <2>3. EncElement(e) \in Proper
      BY <1>2, <1>4, <2>2, ProperClosed, Zenon
    <2>4. QED
      BY <2>3, ProperAppend, Zenon
  <1>5. QED
    BY <1>3, <1>4

LEMMA TextProper ==
    ASSUME NEW text \in Seq(Characters)
    PROVE  EncDecimalText(text) \in ProperBytes
  <1>1. CASE TextRejected(text)
    BY <1>1, TextRead, ProperAppend
  <1>2. CASE ~TextRejected(text)
    <2> DEFINE neg == IsNegative(Mantissa(text))
               d == OnlyDigits(Mantissa(text))
               x == LiteralExp(text)
               e == [kind |-> "decimal", neg |-> neg, digits |-> d, exp |-> x]
    <2>1. InExpRange(x) /\ x \in Int /\ d \in Seq(0..9) /\ EncDecimalText(text) = EncDecimal(neg, d, x)
      BY <1>2, TextRead
    <2>2. neg \in BOOLEAN
      BY DEF IsNegative
    <2> HIDE DEF neg, d, x
    <2>3. e.kind = "decimal" /\ e.neg = neg /\ e.digits = d /\ e.exp = x
      OBVIOUS
    <2>4. e \in Encodable
      <3>1. e \in [kind : {"decimal"}, neg : BOOLEAN, digits : Seq(0..9), exp : Int]
        BY <2>1, <2>2
      <3> HIDE DEF e
      <3>2. QED
        BY <3>1, Zenon DEF Encodable
    <2> HIDE DEF e
    <2>5. EncElement(e) = EncDecimal(neg, d, WrapExp(x))
      BY <2>3, FramedCodes DEF EncElement
    <2>6. WrapExp(x) = x
      BY <2>1, WrapExpRange
    <2>7. KeptElement(e) /\ ScalarArgument(e)
      BY <2>1, <2>3 DEF KeptElement, ScalarArgument
    <2>8. EncElement(e) \in ProperBytes
      BY <2>4, <2>7, ScalarProper
    <2>9. QED
      BY <2>1, <2>5, <2>6, <2>8
  <1>3. QED
    BY <1>1, <1>2

-----------------------------------------------------------------------------
(* The members of a set are emitted in order, each once.                   *)
LEMMA SetSorted ==
    ASSUME NEW t \in Seq(Proper), NEW p \in Arrangements(t)
    PROVE  \E u \in Seq(Proper) : SetInner(t, p) = FlattenSeq(u) /\ Sorted("set", u)
  <1> DEFINE n == Len(t)
             f == [i \in DOMAIN t |-> IF i > 1 /\ t[p[i - 1]] = t[p[i]] THEN <<>> ELSE t[p[i]]]
  <1>1. n \in Nat /\ DOMAIN t = 1..n /\ \A i \in 1..n : t[i] \in Proper
    BY LenProperties, ElementOfSeq
  <1>2. p \in [1..n -> 1..n]
    BY <1>1 DEF Arrangements
  <1>3. \A i, j \in 1..n : i < j => Compare(t[p[i]], t[p[j]]) <= 0
    BY <1>1 DEF Arrangements
  <1>4. SetInner(t, p) = FlattenSeq(f)
    BY Zenon DEF SetInner
  <1>5. DOMAIN f = 1..n /\ \A i \in 1..n : f[i] = IF i > 1 /\ t[p[i - 1]] = t[p[i]] THEN <<>> ELSE t[p[i]]
    BY <1>1
  <1>6. f \in [1..n -> Proper \cup {<<>>}]
    BY <1>1, <1>2
  <1> HIDE DEF f
  <1>7. f \in Seq(Proper \cup {<<>>}) /\ Len(f) = n
    BY <1>1, <1>5, <1>6
  <1>8. Proper \in SUBSET Seq(Byte) /\ <<>> \notin Proper
    <2>1. Proper \subseteq StableStrings
      BY ProperShaped, Zenon
    <2>2. QED
      BY <2>1 DEF StableStrings, Stable
  <1>9. \A i \in 1..n : t[p[i]] \in Seq(Byte)
    BY <1>1, <1>2, <1>8
  <1> DEFINE x(i) == t[p[i]]
  <1>10. \A i, j \in 1..n : i < j => x(i) \in Seq(Byte) /\ x(j) \in Seq(Byte) /\ Compare(x(i), x(j)) <= 0
    BY <1>3, <1>9
  <1>11. \A i \in 1..n : f[i] # <<>> => f[i] = x(i) /\ (i > 1 => x(i - 1) # x(i))
    BY <1>5
  <1> HIDE DEF x
  <1>12. ASSUME NEW i \in 1..n, NEW j \in 1..n, i < j, f[i] # <<>>, f[j] # <<>>
         PROVE  Compare(f[i], f[j]) < 0
    <2> DEFINE k == j - 1
               a == x(i)
               b == x(k)
               c == x(j)
    <2>1. k \in 1..n /\ k < j /\ (i < k \/ i = k) /\ j > 1
      BY <1>1, <1>12
    <2>2. f[i] = a /\ f[j] = c /\ b # c
      BY <1>11, <1>12, <2>1
    <2>3. a \in Seq(Byte) /\ b \in Seq(Byte) /\ c \in Seq(Byte) /\ Compare(a, c) <= 0 /\ Compare(b, c) <= 0
      BY <1>10, <1>12, <2>1
    <2>4. i < k => Compare(a, b) <= 0
      BY <1>10, <2>1, Zenon
    <2>5. i = k => a = b
      BY Zenon
    <2> HIDE DEF k, a, b, c
    <2>6. /\ Compare(a, c) \in {-1, 0, 1} /\ (Compare(a, c) = 0 <=> a = c)
          /\ Compare(b, c) \in {-1, 0, 1} /\ (Compare(b, c) = 0 <=> b = c)
      BY <2>3, CompareOrder
    <2>7. CASE a = c
      <3>1. i < k /\ Compare(c, b) <= 0
        BY <2>1, <2>2, <2>4, <2>5, <2>7
      <3>2. Compare(c, b) = -Compare(b, c)
        BY <2>3, CompareOrder
      <3>3. QED
        BY <2>2, <2>3, <2>6, <3>1, <3>2
    <2>8. CASE a # c
      BY <2>2, <2>3, <2>6, <2>8
    <2>9. QED
      BY <2>7, <2>8
  <1>13. Strict(f)
    BY <1>7, <1>12, Zenon DEF Strict
  <1>14. PICK u \in Seq(Proper) : FlattenSeq(u) = FlattenSeq(f) /\ (Strict(f) => Sorted("set", u))
    BY <1>7, <1>8, FlattenSkips
  <1>15. QED
    BY <1>4, <1>13, <1>14

(* The entries of a map are emitted in the order of their keys.            *)
LEMMA MapSorted ==
    ASSUME NEW t \in Seq(Proper), Len(t) % 2 = 0, IsInjective(Keys(t)), NEW p \in Arrangements(Keys(t))
    PROVE  \E u \in Seq(Proper) : MapInner(Entries(t), p) = FlattenSeq(u) /\ Sorted("map", u)
  <1> DEFINE n == Len(t) \div 2
             g == [i \in 1..n |-> <<t[2*p[i] - 1], t[2*p[i]]>>]
             inner == MapInner(Entries(t), p)
  <1>1. Proper \in SUBSET Seq(Byte)
    BY ProperShaped DEF StableStrings
  <1>2. Len(t) \in Nat /\ n \in Nat /\ \A i \in 1..n : 2*i \in 1..Len(t) /\ 2*i - 1 \in 1..Len(t)
    <2>1. Len(t) \in Nat
      BY LenProperties
    <2> DEFINE m == Len(t)
    <2>2. m \in Nat
      BY <2>1
    <2> HIDE DEF m
    <2>3. m \div 2 \in Nat /\ \A i \in 1..(m \div 2) : 2*i \in 1..m /\ 2*i - 1 \in 1..m
      BY <2>2
    <2>4. QED
      BY <2>2, <2>3 DEF m
  <1>3. DOMAIN Keys(t) = 1..n /\ \A i \in 1..n : Keys(t)[i] = t[2*i - 1]
    BY DEF Keys
  <1>4. p \in [1..n -> 1..n] /\ \A i, j \in 1..n : p[i] = p[j] => i = j
    BY <1>3 DEF Arrangements
  <1>5. \A i, j \in 1..n : i < j => Compare(Keys(t)[p[i]], Keys(t)[p[j]]) <= 0
    BY <1>3 DEF Arrangements
  <1>6. \A i, j \in 1..n : Keys(t)[i] = Keys(t)[j] => i = j
    BY <1>3 DEF IsInjective
  <1>7. \A i \in 1..Len(t) : t[i] \in Proper
    BY ElementOfSeq
  <1>8. DOMAIN Entries(t) = 1..n /\ \A i \in 1..n : /\ Entries(t)[i].key = t[2*i - 1]
                                                    /\ Entries(t)[i].value = t[2*i]
    BY DEF Entries
  <1> HIDE DEF n
  <1>9. \A i \in 1..n : g[i] \in Proper \X Proper /\ g[i][1] = t[2*p[i] - 1] /\ g[i][2] = t[2*p[i]]
    BY <1>2, <1>4, <1>7
  <1>10. g \in Seq(Proper \X Proper) /\ Len(g) = n
    BY <1>2, <1>9, IsASeq
  <1>11. DOMAIN g = 1..n
    OBVIOUS
  <1> HIDE DEF g
  <1>12. inner = FlattenSeq(Coupled(g))
    <2>1. inner = FlattenSeq([i \in 1..n |-> Entries(t)[p[i]].key \o Entries(t)[p[i]].value])
      BY <1>8 DEF MapInner
    <2>2. \A i \in 1..n : Entries(t)[p[i]].key \o Entries(t)[p[i]].value = g[i][1] \o g[i][2]
      BY <1>4, <1>8, <1>9
    <2>3. [i \in 1..n |-> Entries(t)[p[i]].key \o Entries(t)[p[i]].value] = [i \in 1..n |-> g[i][1] \o g[i][2]]
      BY <2>2, Zenon
    <2>4. Coupled(g) = [i \in 1..n |-> g[i][1] \o g[i][2]]
      BY <1>11 DEF Coupled
    <2>5. QED
      BY <2>1, <2>3, <2>4
  <1> HIDE DEF inner
  <1>13. PICK u \in Seq(Proper) :
            /\ FlattenSeq(u) = FlattenSeq(Coupled(g)) /\ Len(u) = 2 * Len(g)
            /\ \A i \in 1..Len(g) : u[2*i - 1] = g[i][1] /\ u[2*i] = g[i][2]
    BY <1>1, <1>10, FlattenCouples
  <1> DEFINE key(i) == Keys(t)[p[i]]
  <1>14. \A i \in 1..n : u[2*i - 1] = key(i) /\ key(i) \in Seq(Byte)
    <2> SUFFICES ASSUME NEW i \in 1..n
                 PROVE  u[2*i - 1] = key(i) /\ key(i) \in Seq(Byte)
      OBVIOUS
    <2>1. p[i] \in 1..n
      BY <1>4
    <2>2. 2*p[i] - 1 \in 1..Len(t)
      BY <1>2, <2>1
    <2>3. key(i) = t[2*p[i] - 1] /\ t[2*p[i] - 1] \in Seq(Byte)
      BY <1>1, <1>3, <1>7, <2>1, <2>2
    <2>4. u[2*i - 1] = t[2*p[i] - 1]
      BY <1>9, <1>10, <1>13
    <2>5. QED
      BY <2>3, <2>4
  <1>15. \A i, j \in 1..n : i < j => Compare(key(i), key(j)) <= 0 /\ key(i) # key(j)
    <2> SUFFICES ASSUME NEW i \in 1..n, NEW j \in 1..n, i < j
                 PROVE  Compare(key(i), key(j)) <= 0 /\ key(i) # key(j)
      OBVIOUS
    <2>1. p[i] \in 1..n /\ p[j] \in 1..n /\ p[i] # p[j]
      BY <1>4
    <2>2. QED
      BY <1>5, <1>6, <2>1
  <1> HIDE DEF key
  <1>16. ASSUME NEW i \in 1..n, NEW j \in 1..n, i < j
         PROVE  Compare(u[2*i - 1], u[2*j - 1]) < 0
    <2> DEFINE a == key(i)
               b == key(j)
    <2>1. a \in Seq(Byte) /\ b \in Seq(Byte) /\ u[2*i - 1] = a /\ u[2*j - 1] = b
      BY <1>14
    <2>2. Compare(a, b) <= 0 /\ a # b
      BY <1>15, <1>16
    <2> HIDE DEF a, b
    <2>3. Compare(a, b) \in {-1, 0, 1} /\ (Compare(a, b) = 0 <=> a = b)
      BY <2>1, CompareOrder
    <2>4. QED
      BY <2>1, <2>2, <2>3
  <1>17. Len(u) = 2*n
    BY <1>10, <1>13
  <1>18. Sorted("map", u)
    <2>1. "map" # "set"
      OBVIOUS
    <2>2. QED
      BY <1>2, <1>16, <1>17, <2>1, Zenon DEF Sorted
  <1>19. QED
    BY <1>12, <1>13, <1>18 DEF inner

-----------------------------------------------------------------------------
(* The third inductive invariant: each buffer is a concatenation of proper *)
(* elements.                                                               *)
HoldProper == HoldCanonical /\ \A w \in Writers : data[w] \in ProperBytes

(* A call that emits proper bytes keeps it. *)
LEMMA EmitProper ==
    ASSUME HoldProper, HoldCanonical', NEW w \in Writers, NEW bytes \in ProperBytes, Emit(w, bytes)
    PROVE  HoldProper'
  <1>1. data \in [Writers -> Seq(Byte)] /\ \A v \in Writers : data[v] \in ProperBytes
    BY DEF HoldProper, HoldCanonical, TypeOK
  <1>2. data' = [data EXCEPT ![w] = data[w] \o bytes]
    BY Zenon DEF Emit
  <1>3. data[w] \o bytes \in ProperBytes
    BY <1>1, ProperAppend, Zenon
  <1>4. \A v \in Writers : data'[v] = IF v = w THEN data[w] \o bytes ELSE data[v]
    BY <1>1, <1>2
  <1>5. \A v \in Writers : data'[v] \in ProperBytes
    BY <1>1, <1>3, <1>4, Zenon
  <1>6. QED
    BY <1>5, Zenon DEF HoldProper

(* The elements of another writer, which a container is packed from. *)
LEMMA ChildProper ==
    ASSUME HoldProper, NEW c \in Writers
    PROVE  Split[data[c]] \in Seq(Proper) /\ data[c] = FlattenSeq(Split[data[c]])
  <1>1. data[c] \in ProperBytes
    BY Zenon DEF HoldProper
  <1>2. PICK t \in Seq(Proper) : data[c] = FlattenSeq(t)
    BY <1>1, Zenon DEF ProperBytes
  <1>3. t \in Seq(StableStrings)
    BY ProperAppend, Zenon
  <1>4. Split[FlattenSeq(t)] = t
    BY <1>3, UnpackFlat
  <1>5. QED
    BY <1>2, <1>4, Zenon

LEMMA StepProper ==
    ASSUME LeavesKept, HoldProper, [WriterNext]_vars
    PROVE  HoldProper'
  <1>1. HoldCanonical /\ HoldCanonical'
    BY StepCanonical, Zenon DEF HoldProper
  <1>2. ASSUME NEW w \in Writers, NEW bytes \in ProperBytes, Emit(w, bytes)
        PROVE  HoldProper'
    BY <1>1, <1>2, EmitProper
  <1>3. /\ FramedCode["array"] = ARRAY /\ FramedCode["set"] = SET /\ FramedCode["map"] = MAP
        /\ "array" \in Containers /\ "set" \in Containers /\ "map" \in Containers
    BY DEF FramedCode, Containers
  <1>4. ASSUME NEW w \in Writers, NEW e \in Leaves, AppendLeaf(w, e)
        PROVE  HoldProper'
    <2>1. e \in Encodable /\ KeptElement(e) /\ ScalarArgument(e)
      BY WriterAssumption DEF LeavesKept
    <2>2. EncElement(e) \in ProperBytes
      BY <2>1, ScalarProper
    <2>3. QED
      BY <1>2, <1>4, <2>2, Zenon DEF AppendLeaf
  <1>5. ASSUME NEW w \in Writers, NEW text \in Texts, AppendDecimalString(w, text)
        PROVE  HoldProper'
    <2>1. text \in Seq(Characters)
      BY WriterAssumption
    <2>2. EncDecimalText(text) \in ProperBytes
      BY <2>1, TextProper
    <2>3. QED
      BY <1>2, <1>5, <2>2, Zenon DEF AppendDecimalString
  <1>6. ASSUME NEW w \in Writers, NEW c \in Writers, AppendArray(w, c)
        PROVE  HoldProper'
    <2> DEFINE t == Split[data[c]]
    <2>1. t \in Seq(Proper) /\ data[c] = FlattenSeq(t)
      BY ChildProper, Zenon DEF HoldProper
    <2> HIDE DEF t
    <2>2. Sorted("array", t)
      BY DEF Sorted
    <2>3. EncFramed(ARRAY, data[c]) \in ProperBytes
      BY <1>3, <2>1, <2>2, FramedProper, Zenon
    <2>4. QED
      BY <1>2, <1>6, <2>3, Zenon DEF AppendArray
  <1>7. ASSUME NEW w \in Writers, NEW c \in Writers, AppendSet(w, c)
        PROVE  HoldProper'
    <2> DEFINE t == Split[data[c]]
    <2>1. t \in Seq(Proper)
      BY ChildProper, Zenon DEF HoldProper
    <2>2. PICK p \in Arrangements(t) : Emit(w, EncFramed(SET, SetInner(t, p)))
      BY <1>7, Zenon DEF AppendSet
    <2> HIDE DEF t
    <2>3. PICK u \in Seq(Proper) : SetInner(t, p) = FlattenSeq(u) /\ Sorted("set", u)
      BY <2>1, <2>2, SetSorted
    <2>4. EncFramed(SET, SetInner(t, p)) \in ProperBytes
      BY <1>3, <2>3, FramedProper, Zenon
    <2>5. QED
      BY <1>2, <2>2, <2>4, Zenon
  <1>8. ASSUME NEW w \in Writers, NEW c \in Writers, AppendMap(w, c)
        PROVE  HoldProper'
    <2> DEFINE t == Split[data[c]]
    <2>1. t \in Seq(Proper)
      BY ChildProper, Zenon DEF HoldProper
    <2>2. Len(t) % 2 = 0 /\ IsInjective(Keys(t))
      BY <1>8, Zenon DEF AppendMap
    <2>3. PICK p \in Arrangements(Keys(t)) : Emit(w, EncFramed(MAP, MapInner(Entries(t), p)))
      BY <1>8, Zenon DEF AppendMap
    <2> HIDE DEF t
    <2>4. PICK u \in Seq(Proper) : MapInner(Entries(t), p) = FlattenSeq(u) /\ Sorted("map", u)
      BY <2>1, <2>2, <2>3, MapSorted
    <2>5. EncFramed(MAP, MapInner(Entries(t), p)) \in ProperBytes
      BY <1>3, <2>4, FramedProper, Zenon
    <2>6. QED
      BY <1>2, <2>3, <2>5, Zenon
  <1>9. ASSUME NEW w \in Writers, NEW c \in Writers, Concat(w, c)
        PROVE  HoldProper'
    <2>1. data[c] \in ProperBytes
      BY Zenon DEF HoldProper
    <2>2. QED
      BY <1>2, <1>9, <2>1, Zenon DEF Concat
  <1>10. ASSUME NEW w \in Writers, Reset(w) \/ Free(w)
         PROVE  HoldProper'
    <2>1. data' = [data EXCEPT ![w] = <<>>]
      BY <1>10, Zenon DEF Reset, Free
    <2>2. data \in [Writers -> Seq(Byte)] /\ \A v \in Writers : data[v] \in ProperBytes
      BY DEF HoldProper, HoldCanonical, TypeOK
    <2>3. \A v \in Writers : data'[v] = <<>> \/ data'[v] = data[v]
      BY <2>1, <2>2
    <2>4. \A v \in Writers : data'[v] \in ProperBytes
      BY <2>2, <2>3, ProperAppend, Zenon
    <2>5. QED
      BY <1>1, <2>4, Zenon DEF HoldProper
  <1>11. CASE UNCHANGED vars
    <2>1. data' = data
      BY <1>11 DEF vars
    <2>2. QED
      BY <1>1, <2>1, Zenon DEF HoldProper
  <1>12. QED
    BY <1>4, <1>5, <1>6, <1>7, <1>8, <1>9, <1>10, <1>11, Zenon DEF WriterNext

LEMMA AlwaysProper == LeavesKept => (Spec => []HoldProper)
  <1> SUFFICES ASSUME LeavesKept PROVE Spec => []HoldProper
    OBVIOUS
  <1>1. Init => HoldProper
    <2>1. <<>> \in Seq(Byte) /\ <<>> \in Canonicals
      BY CanonicalAppend
    <2>2. Init => HoldCanonical
      BY <2>1 DEF Init, HoldCanonical, TypeOK
    <2>3. Init => \A w \in Writers : data[w] = <<>>
      BY DEF Init
    <2>4. QED
      BY <2>2, <2>3, ProperAppend, Zenon DEF HoldProper
  <1>2. HoldProper /\ [WriterNext]_vars => HoldProper'
    BY StepProper, Zenon
  <1>3. QED
    BY <1>1, <1>2, PTL DEF Spec

LEMMA ProperOrdered == HoldProper => ByteOrderIsValueOrder
  <1> SUFFICES ASSUME HoldProper, NEW a \in Writers, NEW b \in Writers
               PROVE  Compare(data[a], data[b]) =
                         TupleCompare(ValueOrder[Len(data[a]) + Len(data[b])], Unpack[data[a]], Unpack[data[b]])
    BY Zenon DEF ByteOrderIsValueOrder
  <1> DEFINE x == data[a]
             y == data[b]
             k == Len(x)
             l == Len(y)
             d == k + l
  <1>1. x \in ProperBytes /\ y \in ProperBytes
    BY Zenon DEF HoldProper
  <1>2. PICK t \in Seq(Proper) : x = FlattenSeq(t)
    BY <1>1, Zenon DEF ProperBytes
  <1>3. PICK u \in Seq(Proper) : y = FlattenSeq(u)
    BY <1>1, Zenon DEF ProperBytes
  <1>4. k \in Nat /\ l \in Nat
    BY DEF HoldProper, HoldCanonical, TypeOK
  <1>5. k = Len(x) /\ l = Len(y) /\ d = k + l
    OBVIOUS
  <1> HIDE DEF x, y, k, l, d
  <1>6. d \in Nat /\ k <= d /\ l <= d
    BY <1>4, <1>5
  <1>7. Len(FlattenSeq(t)) <= d /\ Len(FlattenSeq(u)) <= d
    BY <1>2, <1>3, <1>5, <1>6, Zenon
  <1>8. Compare(FlattenSeq(t), FlattenSeq(u)) =
            TupleCompare(ValueOrder[d], Unpack[FlattenSeq(t)], Unpack[FlattenSeq(u)])
    BY <1>6, <1>7, TuplesOrdered
  <1>9. Compare(x, y) = TupleCompare(ValueOrder[d], Unpack[x], Unpack[y])
    BY <1>2, <1>3, <1>8, Zenon
  <1>10. QED
    BY <1>9, Zenon DEF x, y, k, l, d

(* README.md, "memcmp order is tuple order": in every run, whatever was    *)
(* appended to two writers through whatever containers, comparing their    *)
(* bytes orders the tuples of values they hold.                            *)
THEOREM BytesOrderValues == LeavesKept => (Spec => []ByteOrderIsValueOrder)
  BY AlwaysProper, ProperOrdered, PTL
=============================================================================
