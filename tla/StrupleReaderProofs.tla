------------------------- MODULE StrupleReaderProofs -------------------------
(***************************************************************************)
(* Proofs about StrupleReader and the C++ reader of StruplePorts, for      *)
(* every buffer and every width: no cursor leaves its buffer, a call that  *)
(* succeeds consumes at least one byte, next() and skip() stop at the same *)
(* boundaries, an element is decoded alike whatever follows it, the bytes  *)
(* of every accepted integer are the ones the encoder writes, and the two  *)
(* ports decode and skip alike: kind of element by kind of element, over   *)
(* what be_to_u64 computes.                                                *)
(***************************************************************************)
EXTENDS StruplePorts, StrupleCodecProofs

-----------------------------------------------------------------------------
(* The inductive invariant: the cursor is in the buffer, so take()'s       *)
(* r->len - r->pos never wraps.                                            *)
Inv == TypeOK /\ PosInBounds

LEMMA CallNextStep ==
    ASSUME Inv, CallNext
    PROVE  Inv' /\ pos' >= pos /\ (ret' = 1 => pos' > pos) /\ (ret' = 0 <=> pos = Len(buf))
  <1> DEFINE r == Next(buf, pos)
  <1>1. buf \in Seq(Byte) /\ pos \in 0..Len(buf) /\ pos \in Nat /\ Len(buf) \in Nat
    BY LenProperties DEF Inv, TypeOK, PosInBounds
  <1>2. pos' = r.pos /\ ret' = r.rc /\ from' = pos /\ buf' = buf
    BY DEF CallNext
  <1>3. failed' \in BOOLEAN
    BY Zenon DEF CallNext
  <1>4. CASE pos = Len(buf)
    BY <1>1, <1>2, <1>3, <1>4, NextAdvances DEF Inv, TypeOK, PosInBounds, ReturnCode
  <1>5. CASE pos # Len(buf)
    <2>1. r.pos \in (pos + 1)..Len(buf) /\ r.rc \in {-1, 1}
      BY <1>1, <1>5, NextAdvances DEF Advances
    <2>2. QED
      BY <1>1, <1>2, <1>3, <1>5, <2>1 DEF Inv, TypeOK, PosInBounds, ReturnCode
  <1>6. QED
    BY <1>4, <1>5

LEMMA CallNextViewStep ==
    ASSUME Inv, CallNextView
    PROVE  Inv' /\ pos' >= pos /\ (ret' = 1 => pos' > pos) /\ (ret' = 0 <=> pos = Len(buf))
  <1> DEFINE s == ElementSpan(buf, pos)
  <1>1. buf \in Seq(Byte) /\ pos \in 0..Len(buf) /\ pos \in Nat /\ Len(buf) \in Nat
    BY LenProperties DEF Inv, TypeOK, PosInBounds
  <1>2. pos' = (IF s.rc = 1 THEN s.end ELSE pos) /\ ret' = s.rc /\ from' = pos /\ buf' = buf
    BY DEF CallNextView
  <1>3. failed' \in BOOLEAN
    BY Zenon DEF CallNextView
  <1>4. CASE pos = Len(buf)
    BY <1>1, <1>2, <1>3, <1>4, SpanInBounds DEF Inv, TypeOK, PosInBounds, ReturnCode
  <1>5. CASE pos # Len(buf)
    <2>1. s.rc \in {-1, 1} /\ (s.rc = 1 => s.end \in (pos + 1)..Len(buf))
      BY <1>1, <1>5, SpanInBounds DEF Spans
    <2>2. QED
      BY <1>1, <1>2, <1>3, <1>5, <2>1 DEF Inv, TypeOK, PosInBounds, ReturnCode
  <1>6. QED
    BY <1>4, <1>5

LEMMA Inductive == Inv /\ [ReaderNext]_vars => Inv'
  <1> SUFFICES ASSUME Inv, [ReaderNext]_vars PROVE Inv'
    OBVIOUS
  <1>1. CASE CallNext
    BY <1>1, CallNextStep
  <1>2. CASE CallNextView
    BY <1>2, CallNextViewStep
  <1>3. CASE UNCHANGED vars
    BY <1>3 DEF Inv, TypeOK, PosInBounds, vars
  <1>4. QED
    BY <1>1, <1>2, <1>3 DEF ReaderNext

(* The inductive invariant of the cursor, for every set of buffers and     *)
(* whatever calls are mixed.                                               *)
THEOREM Invariance == Spec => []Inv
  <1>1. Init => Inv
    <2> SUFFICES ASSUME Init PROVE Inv
      OBVIOUS
    <2>1. buf \in Seq(Byte)
      BY BufferAssumption, Zenon DEF Init
    <2>2. Len(buf) \in Nat
      BY <2>1, LenProperties
    <2>3. failed \in BOOLEAN /\ pos = 0 /\ from = 0 /\ ret = 1
      BY Zenon DEF Init
    <2>4. QED
      BY <2>1, <2>2, <2>3 DEF Inv, TypeOK, PosInBounds, ReturnCode
  <1>2. QED
    BY <1>1, Inductive, PTL DEF Spec

(* The type invariant, for every buffer and every width.                   *)
THEOREM TypeCorrect == Spec => []TypeOK
  BY Invariance, PTL DEF Inv

(* No sequence of next(), next_view() and skip() calls, before or after    *)
(* errors, moves the cursor out of the buffer it reads.                    *)
THEOREM CursorInBuffer == Spec => []PosInBounds
  BY Invariance, PTL DEF Inv

(* A call that returns 1 consumes at least a byte and 0 is returned        *)
(* exactly at the end, so every `while (next(...) == 1)` loop over a       *)
(* buffer ends.                                                            *)
THEOREM AlwaysProgress == Spec => Progress
  <1>1. Inv /\ [ReaderNext]_vars =>
          [/\ ret' = 1 => pos' > pos
           /\ ret' = 0 <=> pos = Len(buf)
           /\ pos' >= pos]_vars
    BY CallNextStep, CallNextViewStep DEF ReaderNext
  <1>2. QED
    BY <1>1, Invariance, PTL DEF Spec, Progress

-----------------------------------------------------------------------------
(* Where n skips from the start of b lead.                                 *)
IsTrail(at, b, k) == at = [n \in 0..k |-> IF n = 0 THEN 0 ELSE SkipTo(b, at[n - 1])]

Trail(b) == CHOOSE at : at = [n \in 0..Len(b) |-> IF n = 0 THEN 0 ELSE SkipTo(b, at[n - 1])]

LEMMA TrailExists == \A b : \A k \in Nat : \E at : IsTrail(at, b, k)
  <1> TAKE b
  <1> DEFINE S == {k \in Nat : \E at : IsTrail(at, b, k)}
  <1>1. 0 \in S
    <2>1. IsTrail([n \in 0..0 |-> 0], b, 0)
      BY DEF IsTrail
    <2>2. QED
      BY <2>1
  <1>2. ASSUME NEW k \in Nat, k \in S
        PROVE  k + 1 \in S
    <2>1. PICK at : IsTrail(at, b, k)
      BY <1>2
    <2> DEFINE next == [n \in 0..(k + 1) |-> IF n = k + 1 THEN SkipTo(b, at[k]) ELSE at[n]]
    <2>2. \A n \in 0..k : at[n] = IF n = 0 THEN 0 ELSE SkipTo(b, at[n - 1])
      BY <2>1, Zenon DEF IsTrail
    <2>3. ASSUME NEW n \in 0..(k + 1)
          PROVE  next[n] = IF n = 0 THEN 0 ELSE SkipTo(b, next[n - 1])
      <3>1. CASE n = k + 1
        BY <3>1
      <3>2. CASE n # k + 1 /\ n # 0
        <4>1. n \in 0..k /\ n - 1 \in 0..k /\ n - 1 # k + 1 /\ n - 1 \in 0..(k + 1)
          BY <3>2
        <4>2. next[n] = at[n] /\ next[n - 1] = at[n - 1]
          BY <3>2, <4>1
        <4> HIDE DEF next
        <4>3. QED
          BY <2>2, <3>2, <4>1, <4>2
      <3>3. CASE n = 0
        BY <2>2, <3>3
      <3>4. QED
        BY <3>1, <3>2, <3>3
    <2>4. next = [n \in 0..(k + 1) |-> next[n]]
      BY Zenon
    <2> HIDE DEF next
    <2>5. next = [n \in 0..(k + 1) |-> IF n = 0 THEN 0 ELSE SkipTo(b, next[n - 1])]
      BY <2>3, <2>4
    <2>6. QED
      BY <2>5 DEF IsTrail
  <1> HIDE DEF S
  <1>3. \A k \in Nat : k \in S
    BY <1>1, <1>2, NatSetInduction
  <1>4. QED
    BY <1>3 DEF S

LEMMA TrailSteps ==
    ASSUME NEW b \in Seq(Byte)
    PROVE  /\ Boundaries(b) = {Trail(b)[n] : n \in 0..Len(b)}
           /\ \A n \in 0..Len(b) : Trail(b)[n] = IF n = 0 THEN 0 ELSE SkipTo(b, Trail(b)[n - 1])
  <1>1. \E at : at = [n \in 0..Len(b) |-> IF n = 0 THEN 0 ELSE SkipTo(b, at[n - 1])]
    BY TrailExists, LenProperties DEF IsTrail
  <1>2. Trail(b) = [n \in 0..Len(b) |-> IF n = 0 THEN 0 ELSE SkipTo(b, Trail(b)[n - 1])]
    BY <1>1, Zenon DEF Trail
  <1>3. Boundaries(b) = {Trail(b)[n] : n \in 0..Len(b)}
    BY Zenon DEF Boundaries, Trail
  <1>4. \A n \in 0..Len(b) : Trail(b)[n] = IF n = 0 THEN 0 ELSE SkipTo(b, Trail(b)[n - 1])
    BY <1>2, Zenon
  <1>5. QED
    BY <1>3, <1>4, Zenon

(* The strengthening that makes Synchronised inductive: as every element   *)
(* takes a byte, the cursor is reached by no more skips than it has passed *)
(* bytes, so one more skip is still among those Boundaries counts.         *)
OnTrail == ~failed => \E n \in 0..pos : pos = Trail(buf)[n]

(* A successful skip from a point on the trail stays on it.                *)
LEMMA TrailGoesOn ==
    ASSUME NEW b \in Seq(Byte), NEW p \in 0..Len(b), NEW e, NEW n \in 0..p, p = Trail(b)[n],
           e \in (p + 1)..Len(b), SpansTo(ElementSpan(b, p), e)
    PROVE  n + 1 \in 0..e /\ e = Trail(b)[n + 1]
  <1>1. Len(b) \in Nat /\ n + 1 \in 0..Len(b) /\ n + 1 \in 0..e /\ n + 1 # 0 /\ (n + 1) - 1 = n
    BY LenProperties
  <1>2. Trail(b)[n + 1] = SkipTo(b, Trail(b)[(n + 1) - 1])
    BY <1>1, TrailSteps
  <1>3. Trail(b)[n + 1] = SkipTo(b, p)
    BY <1>1, <1>2
  <1>4. SkipTo(b, p) = e
    BY DEF SkipTo, SpansTo
  <1>5. QED
    BY <1>1, <1>3, <1>4

LEMMA OnTrailStep ==
    ASSUME Inv, OnTrail, [ReaderNext]_vars
    PROVE  OnTrail'
  <1>1. buf \in Seq(Byte) /\ pos \in 0..Len(buf) /\ pos \in Nat /\ Len(buf) \in Nat
    BY LenProperties DEF Inv, TypeOK, PosInBounds
  <1>2. CASE UNCHANGED vars
    BY <1>2 DEF OnTrail, vars
  <1>3. CASE ReaderNext /\ failed'
    BY <1>3 DEF OnTrail
  <1>4. ASSUME ~failed, buf' = buf, pos' = pos
        PROVE  OnTrail'
    BY <1>4 DEF OnTrail
  <1>5. ASSUME ~failed, buf' = buf, pos' \in (pos + 1)..Len(buf), SpansTo(ElementSpan(buf, pos), pos')
        PROVE  OnTrail'
    <2>1. PICK n \in 0..pos : pos = Trail(buf)[n]
      BY <1>5 DEF OnTrail
    <2>2. n + 1 \in 0..pos' /\ pos' = Trail(buf)[n + 1]
      BY <1>1, <1>5, <2>1, TrailGoesOn
    <2>3. QED
      BY <1>5, <2>2 DEF OnTrail
  <1>6. CASE CallNext /\ ~failed'
    <2> DEFINE r == Next(buf, pos)
    <2>1. pos' = r.pos /\ buf' = buf /\ ~failed /\ r.rc # -1
      BY <1>6, Zenon DEF CallNext
    <2>2. CASE pos = Len(buf)
      BY <1>1, <1>4, <2>1, <2>2, NextAdvances
    <2>3. CASE pos # Len(buf)
      <3>1. r.pos \in (pos + 1)..Len(buf) /\ r.rc = 1
        BY <1>1, <2>1, <2>3, NextAdvances DEF Advances
      <3>2. SpansTo(ElementSpan(buf, pos), r.pos)
        BY <1>1, <3>1, DecodeAgrees
      <3>3. QED
        BY <1>5, <2>1, <3>1, <3>2
    <2>4. QED
      BY <2>2, <2>3
  <1>7. CASE CallNextView /\ ~failed'
    <2> DEFINE s == ElementSpan(buf, pos)
    <2>1. pos' = (IF s.rc = 1 THEN s.end ELSE pos) /\ buf' = buf /\ ~failed /\ s.rc # -1
      BY <1>7, Zenon DEF CallNextView
    <2>2. CASE pos = Len(buf)
      BY <1>1, <1>4, <2>1, <2>2, SpanInBounds
    <2>3. CASE pos # Len(buf)
      <3>1. s.rc = 1 /\ s.end \in (pos + 1)..Len(buf)
        BY <1>1, <2>1, <2>3, SpanInBounds DEF Spans
      <3>2. QED
        BY <1>5, <2>1, <3>1 DEF SpansTo
    <2>4. QED
      BY <2>2, <2>3
  <1>8. QED
    BY <1>2, <1>3, <1>6, <1>7 DEF ReaderNext

(* next(), next_view() and skip() may be mixed: until a call fails, the    *)
(* cursor stands where a walk of skips alone would have stopped.           *)
THEOREM MixedCallsSynchronised == Spec => []Synchronised
  <1>1. Init => OnTrail
    <2> SUFFICES ASSUME Init PROVE OnTrail
      OBVIOUS
    <2>1. buf \in Seq(Byte) /\ pos = 0
      BY BufferAssumption, Zenon DEF Init
    <2>2. 0 \in 0..Len(buf) /\ 0 \in 0..0
      BY <2>1, LenProperties
    <2>3. Trail(buf)[0] = 0
      BY <2>1, <2>2, TrailSteps
    <2>4. QED
      BY <2>1, <2>2, <2>3 DEF OnTrail
  <1>2. Inv /\ OnTrail => Synchronised
    <2> SUFFICES ASSUME Inv, OnTrail, ~failed PROVE pos \in Boundaries(buf)
      BY DEF Synchronised
    <2>1. buf \in Seq(Byte) /\ pos \in 0..Len(buf) /\ Len(buf) \in Nat
      BY LenProperties DEF Inv, TypeOK, PosInBounds
    <2>2. PICK n \in 0..pos : pos = Trail(buf)[n]
      BY DEF OnTrail
    <2>3. n \in 0..Len(buf)
      BY <2>1
    <2>4. QED
      BY <2>1, <2>2, <2>3, TrailSteps
  <1>3. Inv /\ OnTrail /\ [ReaderNext]_vars => OnTrail'
    BY OnTrailStep
  <1>4. QED
    BY <1>1, <1>2, <1>3, Invariance, PTL DEF Spec

-----------------------------------------------------------------------------
(* The bytes an element took, followed by a byte that is not 0xFF, show    *)
(* the decoder what it saw in the buffer.                                  *)
LEMMA FollowedWindow ==
    ASSUME NEW b \in Seq(Byte), NEW p \in 0..Len(b), NEW e \in p..Len(b),
           NEW c \in Byte, c # 255
    PROVE  /\ Bytes(b, p, e - p) \o <<c>> \in Seq(Byte)
           /\ Window(b, p, Bytes(b, p, e - p) \o <<c>>, e)
  <1> DEFINE s == Bytes(b, p, e - p)
             w == s \o <<c>>
             m == Len(s)
  <1>1. Len(b) \in Nat /\ p \in Nat /\ e \in Nat /\ p <= e /\ e <= Len(b)
    BY LenProperties
  <1>2. \A i \in (p + 1)..(p + (e - p)) : b[i] \in Byte
    <2>1. \A i \in 1..Len(b) : b[i] \in Byte
      BY ElementOfSeq
    <2>2. QED
      BY <1>1, <2>1
  <1>3. /\ s \in Seq(Byte)
        /\ m = IF p + 1 <= p + (e - p) THEN (p + (e - p)) - (p + 1) + 1 ELSE 0
        /\ \A i \in 1..(p + (e - p)) - (p + 1) + 1 : s[i] = b[(p + 1) + i - 1]
    <2>1. p + 1 \in Int /\ p + (e - p) \in Int
      BY <1>1
    <2>2. QED
      BY <1>2, <2>1, SubSeqProperties DEF Bytes
  <1>4. <<c>> \in Seq(Byte) /\ Len(<<c>>) = 1 /\ <<c>>[1] = c
    OBVIOUS
  <1>5. /\ w \in Seq(Byte)
        /\ Len(w) = m + 1
        /\ \A i \in 1..(m + 1) : w[i] = IF i <= m THEN s[i] ELSE <<c>>[i - m]
    BY <1>3, <1>4, ConcatProperties
  <1> HIDE DEF s, w, m
  <1>6. m = e - p /\ \A i \in 1..m : s[i] = b[p + i]
    <2>1. m = e - p
      BY <1>1, <1>3
    <2>2. ASSUME NEW i \in 1..m
          PROVE  s[i] = b[p + i]
      <3>1. i \in 1..(p + (e - p)) - (p + 1) + 1 /\ (p + 1) + i - 1 = p + i
        BY <1>1, <2>1
      <3>2. QED
        BY <1>3, <3>1
    <2>3. QED
      BY <2>1, <2>2
  <1>7. Len(w) = (e - p) + 1 /\ w[e - p + 1] = c
    <2>1. m + 1 \in 1..(m + 1) /\ ~(m + 1 <= m) /\ (m + 1) - m = 1
      BY <1>1, <1>6
    <2>2. w[m + 1] = c
      BY <1>4, <1>5, <2>1
    <2>3. QED
      BY <1>5, <1>6, <2>2
  <1>8. ASSUME NEW i \in (p + 1)..e
        PROVE  w[i - p] = b[i]
    <2>1. i - p \in 1..m /\ i - p \in 1..(m + 1) /\ i - p <= m /\ p + (i - p) = i
      BY <1>1, <1>6
    <2>2. QED
      BY <1>5, <1>6, <2>1
  <1>9. e - p <= Len(w)
    BY <1>1, <1>7
  <1>10. Window(b, p, w, e)
    BY <1>7, <1>8, <1>9 DEF Window
  <1>11. QED
    BY <1>5, <1>10 DEF w, s

(* No element is decoded differently because of what follows it: containers *)
(* may be nested and encodings appended to one another.                    *)
THEOREM ElementsSelfDelimiting == Spec => SelfDelimiting
  <1>1. ASSUME Inv, CallNext, ret' = 1, NEW c \in Bare \cup {ARRAY}
        PROVE  Next(Bytes(buf, pos, pos' - pos) \o <<c>>, 0).el = el'
    <2> DEFINE r == Next(buf, pos)
    <2>1. buf \in Seq(Byte) /\ pos \in 0..Len(buf) /\ pos \in Nat /\ Len(buf) \in Nat
      BY <1>1, LenProperties DEF Inv, TypeOK, PosInBounds
    <2>2. pos' = r.pos /\ r.rc = 1 /\ el' = r.el
      BY <1>1 DEF CallNext
    <2>3. pos # Len(buf)
      BY <2>1, <2>2, NextAdvances
    <2>4. r.pos \in (pos + 1)..Len(buf)
      BY <2>1, <2>3, NextAdvances DEF Advances
    <2>5. r.pos \in pos..Len(buf)
      BY <2>1, <2>4
    <2>6. c \in Byte /\ c # 255
      BY DEF Bare, NIL, UNDEF, BOOL_FALSE, BOOL_TRUE, INT_ZERO, ARRAY, Byte
    <2>7. /\ Bytes(buf, pos, r.pos - pos) \o <<c>> \in Seq(Byte)
          /\ Window(buf, pos, Bytes(buf, pos, r.pos - pos) \o <<c>>, r.pos)
      BY <2>1, <2>5, <2>6, FollowedWindow
    <2>8. Next(Bytes(buf, pos, r.pos - pos) \o <<c>>, 0) = Decoded(r.pos - pos, r.el)
      BY <2>1, <2>2, <2>7, NextLocal
    <2> HIDE DEF r
    <2>9. QED
      BY <2>2, <2>8 DEF Decoded
  <1>2. Inv /\ [ReaderNext]_vars => [DecodedAlike]_vars
    BY <1>1 DEF DecodedAlike
  <1>3. QED
    BY <1>2, Invariance, PTL DEF Spec, SelfDelimiting

-----------------------------------------------------------------------------
(* The numbers that bytes stand for.                                       *)
LEMMA PowerUnfold ==
    /\ Power[0] = 1
    /\ \A n \in Nat : Power[n] \in Nat /\ Power[n + 1] = 256 * Power[n] /\ Power[n] > 0
  <1> DEFINE size == [n \in Nat |-> n]
             stop == [n \in Nat |-> n = 0]
             base == [n \in Nat |-> 1]
             rest == [n \in Nat |-> n - 1]
             step == [x \in Nat \X Nat |-> 256 * x[2]]
  <1>1. Shrinks(Nat, size, stop, rest)
    <2>1. size \in [Nat -> Nat]
      OBVIOUS
    <2>2. \A n \in Nat : size[n] = n /\ stop[n] = (n = 0) /\ rest[n] = n - 1
      BY Zenon
    <2> HIDE DEF size, stop, rest
    <2>3. ASSUME NEW n \in Nat, ~stop[n]
          PROVE  rest[n] \in Nat /\ size[rest[n]] < size[n]
      <3>1. n # 0 /\ rest[n] = n - 1
        BY <2>2, <2>3
      <3>2. n - 1 \in Nat /\ n - 1 < n
        BY <3>1
      <3>3. size[n - 1] = n - 1 /\ size[n] = n
        BY <2>2, <3>2
      <3>4. QED
        BY <3>1, <3>2, <3>3
    <2>4. QED
      BY <2>1, <2>3 DEF Shrinks
  <1>2. base \in [Nat -> Nat] /\ step \in [Nat \X Nat -> Nat]
    OBVIOUS
  <1>3. \A n \in Nat : stop[n] = (n = 0) /\ base[n] = 1 /\ rest[n] = n - 1
    BY Zenon
  <1>4. \A n, k \in Nat : step[<<n, k>>] = 256 * k
    OBVIOUS
  <1> HIDE DEF size, stop, base, rest, step
  <1>5. PICK f \in [Nat -> Nat] : f = [n \in Nat |-> IF stop[n] THEN base[n] ELSE step[<<n, f[rest[n]]>>]]
    <2>1. Typed(Nat, Nat, base, step)
      BY <1>2 DEF Typed
    <2>2. PICK f \in [Nat -> Nat] : IsSteps(f, Nat, stop, base, step, rest)
      BY <1>1, <2>1, Recursion, Zenon
    <2>3. QED
      BY <2>2, Zenon DEF IsSteps
  <1>6. \A n \in Nat : f[n] = IF stop[n] THEN base[n] ELSE step[<<n, f[rest[n]]>>]
    BY <1>5, Zenon
  <1>7. ASSUME NEW n \in Nat
        PROVE  f[n] = IF n = 0 THEN 1 ELSE 256 * f[n - 1]
    <2>1. CASE n = 0
      BY <1>3, <1>6, <2>1
    <2>2. CASE n # 0
      <3>1. n - 1 \in Nat /\ f[n - 1] \in Nat
        BY <2>2
      <3>2. f[n] = step[<<n, f[n - 1]>>]
        BY <1>3, <1>6, <2>2
      <3>3. QED
        BY <1>4, <2>2, <3>1, <3>2
    <2>3. QED
      BY <2>1, <2>2
  <1>8. f = [n \in Nat |-> IF n = 0 THEN 1 ELSE 256 * f[n - 1]]
    <2>1. f = [n \in Nat |-> f[n]]
      BY Zenon
    <2>2. QED
      BY <1>7, <2>1, Zenon
  <1>9. Power = [n \in Nat |-> IF n = 0 THEN 1 ELSE 256 * Power[n - 1]]
    BY <1>8, Zenon DEF Power
  <1>10. \A n \in Nat : Power[n] = IF n = 0 THEN 1 ELSE 256 * Power[n - 1]
    BY <1>9, Zenon
  <1> DEFINE S == {n \in Nat : Power[n] \in Nat /\ Power[n] > 0}
  <1>11. 0 \in S
    BY <1>10
  <1>12. ASSUME NEW n \in Nat, n \in S
         PROVE  n + 1 \in S
    <2>1. n + 1 # 0 /\ (n + 1) - 1 = n /\ n + 1 \in Nat
      OBVIOUS
    <2>2. Power[n + 1] = 256 * Power[n]
      BY <1>10, <2>1
    <2>3. QED
      BY <1>12, <2>2
  <1> HIDE DEF S
  <1>13. \A n \in Nat : n \in S
    BY <1>11, <1>12, NatSetInduction
  <1>14. ASSUME NEW n \in Nat
         PROVE  Power[n + 1] = 256 * Power[n]
    <2>1. n + 1 # 0 /\ (n + 1) - 1 = n /\ n + 1 \in Nat
      OBVIOUS
    <2>2. QED
      BY <1>10, <2>1
  <1>15. QED
    BY <1>10, <1>13, <1>14 DEF S

(* A wider slot holds more numbers.                                        *)
LEMMA PowerMonotone == \A n, k \in Nat : Power[n] <= Power[n + k]
  <1> TAKE n \in Nat
  <1> DEFINE S == {k \in Nat : Power[n] <= Power[n + k]}
  <1>1. 0 \in S
    BY PowerUnfold
  <1>2. ASSUME NEW k \in Nat, k \in S
        PROVE  k + 1 \in S
    <2>1. n + k \in Nat /\ n + (k + 1) = (n + k) + 1
      OBVIOUS
    <2>2. Power[n + (k + 1)] = 256 * Power[n + k] /\ Power[n + k] \in Nat /\ Power[n] \in Nat
      BY <2>1, PowerUnfold
    <2>3. QED
      BY <1>2, <2>2
  <1> HIDE DEF S
  <1>3. \A k \in Nat : k \in S
    BY <1>1, <1>2, NatSetInduction
  <1>4. QED
    BY <1>3 DEF S

(* What be_to_u64 has read after i bytes.                                  *)
Reads(v, p) == v = [i \in 0..Len(p) |-> IF i = 0 THEN 0 ELSE 256 * v[i - 1] + p[i]]

(* be_to_u64 reads a natural number after each byte.                       *)
LEMMA ReadsExists ==
    ASSUME NEW p \in Seq(Byte)
    PROVE  \E v \in [0..Len(p) -> Nat] : Reads(v, p)
  <1> DEFINE D == 0..Len(p)
             size == [i \in D |-> i]
             stop == [i \in D |-> i = 0]
             base == [i \in D |-> 0]
             rest == [i \in D |-> i - 1]
             at == [i \in D |-> IF i = 0 THEN 0 ELSE p[i]]
             step == [x \in D \X Nat |-> 256 * x[2] + at[x[1]]]
  <1>0. Len(p) \in Nat /\ \A i \in 1..Len(p) : p[i] \in Nat
    <2>1. \A i \in 1..Len(p) : p[i] \in Byte
      BY ElementOfSeq
    <2>2. QED
      BY <2>1, LenProperties, ByteProperties
  <1>1. Shrinks(D, size, stop, rest)
    <2>1. size \in [D -> Nat]
      BY <1>0
    <2>2. \A i \in D : size[i] = i /\ stop[i] = (i = 0) /\ rest[i] = i - 1
      BY Zenon
    <2> HIDE DEF size, stop, rest
    <2>3. ASSUME NEW i \in D, ~stop[i]
          PROVE  rest[i] \in D /\ size[rest[i]] < size[i]
      <3>1. i # 0 /\ rest[i] = i - 1
        BY <2>2, <2>3
      <3>2. i - 1 \in D /\ i - 1 < i
        BY <1>0, <3>1
      <3>3. size[i - 1] = i - 1 /\ size[i] = i
        BY <2>2, <3>2
      <3>4. QED
        BY <3>1, <3>2, <3>3
    <2>4. QED
      BY <2>1, <2>3 DEF Shrinks
  <1>2. \A i \in D : at[i] \in Nat /\ (i # 0 => at[i] = p[i])
    BY <1>0
  <1> HIDE DEF at
  <1>3. base \in [D -> Nat] /\ step \in [D \X Nat -> Nat]
    BY <1>2
  <1>4. \A i \in D : stop[i] = (i = 0) /\ base[i] = 0 /\ rest[i] = i - 1
    BY Zenon
  <1>5. \A i \in D, k \in Nat : step[<<i, k>>] = 256 * k + at[i]
    OBVIOUS
  <1> HIDE DEF size, stop, base, rest, step
  <1>6. PICK f \in [D -> Nat] : f = [i \in D |-> IF stop[i] THEN base[i] ELSE step[<<i, f[rest[i]]>>]]
    <2>1. Typed(D, Nat, base, step)
      BY <1>3 DEF Typed
    <2>2. PICK f \in [D -> Nat] : IsSteps(f, D, stop, base, step, rest)
      BY <1>1, <2>1, Recursion, Zenon
    <2>3. QED
      BY <2>2, Zenon DEF IsSteps
  <1>7. \A i \in D : f[i] = IF stop[i] THEN base[i] ELSE step[<<i, f[rest[i]]>>]
    BY <1>6, Zenon
  <1>8. ASSUME NEW i \in D
        PROVE  f[i] = IF i = 0 THEN 0 ELSE 256 * f[i - 1] + p[i]
    <2>1. CASE i = 0
      BY <1>4, <1>7, <2>1
    <2>2. CASE i # 0
      <3>1. i - 1 \in D /\ f[i - 1] \in Nat
        BY <1>0, <2>2
      <3>2. f[i] = step[<<i, f[i - 1]>>]
        BY <1>4, <1>7, <2>2
      <3>3. f[i] = 256 * f[i - 1] + at[i]
        BY <1>5, <3>1, <3>2
      <3>4. QED
        BY <1>2, <2>2, <3>3
    <2>3. QED
      BY <2>1, <2>2
  <1>9. f = [i \in D |-> f[i]]
    BY Zenon
  <1>10. f = [i \in D |-> IF i = 0 THEN 0 ELSE 256 * f[i - 1] + p[i]]
    BY <1>8, <1>9, Zenon
  <1>11. QED
    BY <1>10 DEF Reads

(* What it has read of a prefix does not depend on the rest.               *)
LEMMA ReadsAlike ==
    ASSUME NEW p \in Seq(Byte), NEW q \in Seq(Byte), NEW v, NEW w, Reads(v, p), Reads(w, q),
           Len(p) <= Len(q), \A i \in 1..Len(p) : p[i] = q[i]
    PROVE  \A i \in 0..Len(p) : v[i] = w[i]
  <1>1. Len(p) \in Nat /\ Len(q) \in Nat
    BY LenProperties
  <1>2. \A i \in 0..Len(p) : v[i] = IF i = 0 THEN 0 ELSE 256 * v[i - 1] + p[i]
    BY Zenon DEF Reads
  <1>3. \A i \in 0..Len(q) : w[i] = IF i = 0 THEN 0 ELSE 256 * w[i - 1] + q[i]
    BY Zenon DEF Reads
  <1> DEFINE S == {i \in Nat : i <= Len(p) => v[i] = w[i]}
  <1>4. 0 \in S
    BY <1>1, <1>2, <1>3
  <1>5. ASSUME NEW i \in Nat, i \in S
        PROVE  i + 1 \in S
    <2> SUFFICES ASSUME i + 1 <= Len(p) PROVE v[i + 1] = w[i + 1]
      OBVIOUS
    <2>1. i + 1 \in 1..Len(p) /\ i + 1 \in 0..Len(p) /\ i + 1 \in 0..Len(q) /\ (i + 1) - 1 = i /\ i <= Len(p) /\ i + 1 # 0
      BY <1>1
    <2>2. v[i] = w[i] /\ p[i + 1] = q[i + 1]
      BY <1>5, <2>1
    <2>3. v[i + 1] = 256 * v[i] + p[i + 1] /\ w[i + 1] = 256 * w[i] + q[i + 1]
      BY <1>2, <1>3, <2>1
    <2>4. QED
      BY <2>2, <2>3
  <1> HIDE DEF S
  <1>6. \A i \in Nat : i \in S
    BY <1>4, <1>5, NatSetInduction
  <1>7. QED
    BY <1>1, <1>6 DEF S

(* be_to_u64 by its last byte.                                             *)
LEMMA BeToU64Unfold ==
    /\ BeToU64(<<>>) = 0
    /\ \A p \in Seq(Byte), x \in Byte :
         BeToU64(p) \in Nat /\ BeToU64(Append(p, x)) = 256 * BeToU64(p) + x
  <1>1. ASSUME NEW p \in Seq(Byte)
        PROVE  \E v \in [0..Len(p) -> Nat] : Reads(v, p) /\ BeToU64(p) = v[Len(p)]
    <2> DEFINE v == CHOOSE v : Reads(v, p)
    <2>1. Reads(v, p) /\ BeToU64(p) = v[Len(p)]
      <3>1. \E w : Reads(w, p)
        BY ReadsExists
      <3>2. Reads(v, p)
        BY <3>1, Zenon
      <3>3. BeToU64(p) = v[Len(p)]
        BY Zenon DEF BeToU64, Reads
      <3>4. QED
        BY <3>2, <3>3
    <2> HIDE DEF v
    <2>2. PICK w \in [0..Len(p) -> Nat] : Reads(w, p)
      BY ReadsExists
    <2>3. Len(p) \in Nat /\ Len(p) \in 0..Len(p)
      BY LenProperties
    <2>4. v[Len(p)] = w[Len(p)]
      BY <2>1, <2>2, <2>3, ReadsAlike
    <2>5. QED
      BY <2>1, <2>2, <2>4
  <1>2. BeToU64(<<>>) = 0
    <2>1. <<>> \in Seq(Byte) /\ Len(<<>>) = 0
      BY EmptySeq
    <2>2. PICK v \in [0..Len(<<>>) -> Nat] : Reads(v, <<>>) /\ BeToU64(<<>>) = v[Len(<<>>)]
      BY <1>1, <2>1
    <2>3. v[0] = 0
      <3>1. 0 \in 0..Len(<<>>)
        BY <2>1
      <3>2. QED
        BY <2>2, <3>1, Zenon DEF Reads
    <2>4. QED
      BY <2>1, <2>2, <2>3
  <1>3. ASSUME NEW p \in Seq(Byte), NEW x \in Byte
        PROVE  BeToU64(p) \in Nat /\ BeToU64(Append(p, x)) = 256 * BeToU64(p) + x
    <2> DEFINE q == Append(p, x)
               n == Len(p)
    <2>1. q \in Seq(Byte) /\ Len(q) = n + 1 /\ n \in Nat /\ q[n + 1] = x /\ \A i \in 1..n : p[i] = q[i]
      BY AppendProperties, LenProperties
    <2> HIDE DEF q
    <2>2. PICK v \in [0..n -> Nat] : Reads(v, p) /\ BeToU64(p) = v[n]
      BY <1>1
    <2>3. PICK w \in [0..Len(q) -> Nat] : Reads(w, q) /\ BeToU64(q) = w[Len(q)]
      BY <1>1, <2>1
    <2>4. n <= Len(q) /\ n \in 0..n /\ n + 1 \in 0..Len(q) /\ n + 1 # 0 /\ (n + 1) - 1 = n
      BY <2>1
    <2>5. v[n] = w[n]
      BY <2>1, <2>2, <2>3, <2>4, ReadsAlike
    <2>6. w[n + 1] = 256 * w[n] + q[n + 1]
      <3>1. \A i \in 0..Len(q) : w[i] = IF i = 0 THEN 0 ELSE 256 * w[i - 1] + q[i]
        BY <2>3, Zenon DEF Reads
      <3>2. QED
        BY <2>4, <3>1
    <2>7. QED
      BY <2>1, <2>2, <2>3, <2>4, <2>5, <2>6 DEF q
  <1>4. QED
    BY <1>2, <1>3

(* n bytes give a number below 256^n.                                      *)
LEMMA NumberBound ==
    \A p \in Seq(Byte) : BeToU64(p) \in Nat /\ BeToU64(p) < Power[Len(p)]
  <1> DEFINE S == {p \in Seq(Byte) : BeToU64(p) < Power[Len(p)]}
  <1>1. <<>> \in S
    <2>1. <<>> \in Seq(Byte) /\ Len(<<>>) = 0
      BY EmptySeq
    <2>2. QED
      BY <2>1, BeToU64Unfold, PowerUnfold
  <1>2. ASSUME NEW p \in Seq(Byte), NEW x \in Byte, p \in S
        PROVE  Append(p, x) \in S
    <2>1. Append(p, x) \in Seq(Byte) /\ Len(Append(p, x)) = Len(p) + 1 /\ Len(p) \in Nat
      BY AppendProperties, LenProperties
    <2>2. /\ BeToU64(Append(p, x)) = 256 * BeToU64(p) + x /\ BeToU64(p) \in Nat
          /\ x \in 0..255
      <3>1. BeToU64(Append(p, x)) = 256 * BeToU64(p) + x /\ BeToU64(p) \in Nat
        BY BeToU64Unfold
      <3>2. QED
        BY <3>1 DEF Byte
    <2>3. Power[Len(p) + 1] = 256 * Power[Len(p)] /\ Power[Len(p)] \in Nat
      BY <2>1, PowerUnfold
    <2>4. BeToU64(p) < Power[Len(p)]
      BY <1>2
    <2>5. 256 * BeToU64(p) + x < 256 * Power[Len(p)]
      BY <2>2, <2>3, <2>4
    <2>6. QED
      BY <2>1, <2>2, <2>3, <2>5
  <1> HIDE DEF S
  <1>3. Seq(Byte) \subseteq S
    BY <1>1, <1>2, SeqSetInduction
  <1>4. QED
    BY <1>3, BeToU64Unfold DEF S

(* Complementing works byte by byte.                                       *)
LEMMA ComplementAppend ==
    ASSUME NEW p \in Seq(Byte), NEW x \in Byte
    PROVE  Complement(Append(p, x)) = Append(Complement(p), 255 - x)
  <1> DEFINE q == Append(p, x)
             a == Complement(q)
             c == Complement(p)
             b == Append(c, 255 - x)
             n == Len(p)
  <1>1. q \in Seq(Byte) /\ Len(q) = n + 1 /\ n \in Nat /\ q[n + 1] = x /\ \A i \in 1..n : q[i] = p[i]
    BY AppendProperties, LenProperties
  <1>2. DOMAIN q = 1..(n + 1) /\ DOMAIN p = 1..n
    BY <1>1, LenProperties
  <1> HIDE DEF q
  <1>3. a \in Seq(Byte) /\ Len(a) = n + 1 /\ \A i \in 1..(n + 1) : a[i] = 255 - q[i]
    BY <1>1, <1>2, ComplementBytes DEF Complement
  <1>4. c \in Seq(Byte) /\ Len(c) = n /\ (\A i \in 1..n : c[i] = 255 - p[i]) /\ 255 - x \in Byte
    BY <1>2, ComplementBytes, ByteProperties DEF Complement
  <1> HIDE DEF a, c
  <1>5. b \in Seq(Byte) /\ Len(b) = n + 1 /\ b[n + 1] = 255 - x /\ \A i \in 1..n : b[i] = c[i]
    BY <1>4, AppendProperties
  <1> HIDE DEF b, n
  <1>6. \A i \in 1..(n + 1) : a[i] = b[i]
    <2>1. \A i \in 1..(n + 1) : i = n + 1 \/ i \in 1..n
      BY <1>1
    <2>2. a[n + 1] = b[n + 1]
      BY <1>1, <1>3, <1>5
    <2>3. \A i \in 1..n : a[i] = b[i]
      BY <1>1, <1>3, <1>4, <1>5
    <2>4. QED
      BY <2>1, <2>2, <2>3
  <1>7. a = b
    BY <1>3, <1>5, <1>6, SeqEqual
  <1>8. QED
    BY <1>7 DEF a, b, c, q

(* The carry stops at the last byte that is not zero.                      *)
LEMMA NegatedAppend ==
    ASSUME NEW p \in Seq(Byte), NEW x \in Byte
    PROVE  /\ x = 0 => Negated(Append(p, x)) = Append(Negated(p), 0)
           /\ x # 0 => Negated(Append(p, x)) = Append(Complement(p), 256 - x)
  <1> DEFINE q == Append(p, x)
             a == Negated(q)
             n == Len(p)
             c == IF x = 0 THEN Negated(p) ELSE Complement(p)
             y == IF x = 0 THEN 0 ELSE 256 - x
             b == Append(c, y)
  <1>1. q \in Seq(Byte) /\ Len(q) = n + 1 /\ n \in Nat /\ q[n + 1] = x /\ \A i \in 1..n : q[i] = p[i]
    BY AppendProperties, LenProperties
  <1>2. DOMAIN q = 1..(n + 1) /\ DOMAIN p = 1..n
    BY <1>1, LenProperties
  <1>3. x \in 0..255 /\ y \in Byte
    BY DEF Byte
  <1> HIDE DEF q
  <1>4. a \in Seq(Byte) /\ Len(a) = n + 1
    BY <1>1, NegatedBytes
  <1>5. \A i \in 1..(n + 1) : a[i] = IF \A k \in (i + 1)..(n + 1) : q[k] = 0 THEN (256 - q[i]) % 256 ELSE 255 - q[i]
    BY <1>1, <1>2 DEF Negated
  <1>6. c \in Seq(Byte) /\ Len(c) = n
    BY NegatedBytes, ComplementBytes
  <1>7. \A i \in 1..n : c[i] = IF x = 0 /\ \A k \in (i + 1)..n : p[k] = 0 THEN (256 - p[i]) % 256 ELSE 255 - p[i]
    BY <1>1, <1>2 DEF Negated, Complement
  <1> HIDE DEF a, c, y
  <1>8. b \in Seq(Byte) /\ Len(b) = n + 1 /\ b[n + 1] = y /\ \A i \in 1..n : b[i] = c[i]
    BY <1>3, <1>6, AppendProperties
  <1> HIDE DEF b, n
  <1>9. ASSUME NEW i \in 1..n
        PROVE  a[i] = b[i]
    <2>1. (\A k \in (i + 1)..(n + 1) : q[k] = 0) <=> (x = 0 /\ \A k \in (i + 1)..n : p[k] = 0)
      <3>1. n + 1 \in (i + 1)..(n + 1) /\ i \in 1..(n + 1)
        BY <1>1
      <3>2. \A k \in (i + 1)..n : k \in (i + 1)..(n + 1) /\ q[k] = p[k]
        BY <1>1
      <3>3. \A k \in (i + 1)..(n + 1) : k = n + 1 \/ k \in (i + 1)..n
        BY <1>1
      <3>4. QED
        BY <1>1, <3>1, <3>2, <3>3, Zenon
    <2>2. i \in 1..(n + 1) /\ q[i] = p[i]
      BY <1>1
    <2>3. QED
      BY <1>5, <1>7, <1>8, <2>1, <2>2
  <1>10. a[n + 1] = b[n + 1]
    <2>1. n + 1 \in 1..(n + 1) /\ \A k \in ((n + 1) + 1)..(n + 1) : q[k] = 0
      BY <1>1
    <2>2. a[n + 1] = (256 - x) % 256
      BY <1>1, <1>5, <2>1
    <2>3. (256 - x) % 256 = y
      <3>1. CASE x = 0
        BY <3>1 DEF y
      <3>2. CASE x # 0
        BY <1>3, <3>2 DEF y
      <3>3. QED
        BY <3>1, <3>2
    <2>4. QED
      BY <1>8, <2>2, <2>3
  <1>11. \A i \in 1..(n + 1) : a[i] = b[i]
    <2>1. \A i \in 1..(n + 1) : i = n + 1 \/ i \in 1..n
      BY <1>1
    <2>2. QED
      BY <1>9, <1>10, <2>1
  <1>12. a = b
    BY <1>4, <1>8, <1>11, SeqEqual
  <1>13. QED
    BY <1>12 DEF a, b, c, y, q

(* be_to_u64 by its first byte.                                            *)
LEMMA NumberHead ==
    \A h \in Byte, t \in Seq(Byte) : BeToU64(<<h>> \o t) = h * Power[Len(t)] + BeToU64(t)
  <1> TAKE h \in Byte
  <1> DEFINE z == <<h>>
             S == {t \in Seq(Byte) : BeToU64(z \o t) = h * Power[Len(t)] + BeToU64(t)}
  <1>0. z \in Seq(Byte) /\ z = Append(<<>>, h) /\ h \in Nat
    BY ByteProperties
  <1> HIDE DEF z
  <1>1. <<>> \in S
    <2>1. z \o <<>> = z /\ <<>> \in Seq(Byte) /\ Len(<<>>) = 0
      BY <1>0, EmptySeq, ConcatEmptySeq
    <2>2. BeToU64(z) = 256 * BeToU64(<<>>) + h
      BY <1>0, <2>1, BeToU64Unfold
    <2>3. Power[0] = 1 /\ BeToU64(<<>>) = 0
      BY BeToU64Unfold, PowerUnfold
    <2>4. QED
      BY <1>0, <2>1, <2>2, <2>3
  <1>2. ASSUME NEW t \in Seq(Byte), NEW x \in Byte, t \in S
        PROVE  Append(t, x) \in S
    <2>1. /\ Append(t, x) \in Seq(Byte) /\ Len(Append(t, x)) = Len(t) + 1 /\ Len(t) \in Nat
          /\ z \o t \in Seq(Byte)
      BY <1>0, AppendProperties, LenProperties, ConcatProperties
    <2>2. z \o Append(t, x) = Append(z \o t, x)
      BY <1>0, <2>1, AppendIsConcat, ConcatAssociative
    <2>3. /\ BeToU64(Append(t, x)) = 256 * BeToU64(t) + x
          /\ BeToU64(Append(z \o t, x)) = 256 * BeToU64(z \o t) + x
          /\ BeToU64(t) \in Nat /\ x \in Nat
      <3>1. /\ BeToU64(Append(t, x)) = 256 * BeToU64(t) + x /\ BeToU64(t) \in Nat
        BY BeToU64Unfold
      <3>2. BeToU64(Append(z \o t, x)) = 256 * BeToU64(z \o t) + x
        BY <2>1, BeToU64Unfold
      <3>3. QED
        BY <3>1, <3>2, ByteProperties
    <2>4. Power[Len(t) + 1] = 256 * Power[Len(t)] /\ Power[Len(t)] \in Nat
      BY <2>1, PowerUnfold
    <2>5. BeToU64(z \o t) = h * Power[Len(t)] + BeToU64(t)
      BY <1>2
    <2>6. \A P, N \in Nat : 256 * (h * P + N) + x = h * (256 * P) + (256 * N + x)
      BY <1>0, <2>3
    <2>7. 256 * (h * Power[Len(t)] + BeToU64(t)) + x = h * (256 * Power[Len(t)]) + (256 * BeToU64(t) + x)
      BY <2>3, <2>4, <2>6
    <2>8. QED
      BY <2>1, <2>2, <2>3, <2>4, <2>5, <2>7
  <1> HIDE DEF S
  <1>3. Seq(Byte) \subseteq S
    BY <1>1, <1>2, SeqSetInduction
  <1>4. QED
    BY <1>3 DEF S, z

(* be_to_u64 undoes u64_to_be.                                             *)
LEMMA NumberBytes ==
    \A p \in Seq(Byte) : ToBE(BeToU64(p)) = Trimmed(p) /\ (BeToU64(p) = 0 <=> Trimmed(p) = <<>>)
  <1> DEFINE S == {p \in Seq(Byte) : ToBE(BeToU64(p)) = Trimmed(p)}
  <1>1. <<>> \in S
    <2>1. <<>> \in Seq(Byte) /\ Trimmed(<<>>) = <<>>
      BY EmptySeq, TrimmedZeros
    <2>2. QED
      BY <2>1, BeToU64Unfold, ToBEUnfold
  <1>2. ASSUME NEW p \in Seq(Byte), NEW x \in Byte, p \in S
        PROVE  Append(p, x) \in S
    <2> DEFINE n == BeToU64(p)
    <2>1. n \in Nat /\ BeToU64(Append(p, x)) = 256 * n + x /\ x \in Nat /\ Append(p, x) \in Seq(Byte)
      BY BeToU64Unfold, ByteProperties, AppendProperties
    <2>2. ToBE(n) = Trimmed(p)
      BY <1>2
    <2> HIDE DEF n
    <2>3. CASE x # 0 \/ Trimmed(p) # <<>>
      <3>1. n # 0 \/ x # 0
        BY <2>2, <2>3, ToBEUnfold
      <3>2. 256 * n + x # 0
        BY <2>1, <3>1
      <3>3. ToBE(256 * n + x) = Append(ToBE(n), x)
        BY <2>1, <3>2, AppendedNumber
      <3>4. Trimmed(Append(p, x)) = Append(Trimmed(p), x)
        BY <2>3, TrimmedAppend
      <3>5. QED
        BY <2>1, <2>2, <3>3, <3>4
    <2>4. CASE x = 0 /\ Trimmed(p) = <<>>
      <3>1. ToBE(n) = ToBE(0) /\ ToBE(0) = <<>>
        BY <2>2, <2>4, ToBEUnfold
      <3>2. n = 0
        BY <2>1, <3>1, ToBEInjective
      <3>3. \A i \in 1..Len(p) : p[i] = 0
        BY <2>4, TrimmedNonempty
      <3>4. /\ Len(Append(p, x)) = Len(p) + 1 /\ Len(p) \in Nat /\ Append(p, x)[Len(p) + 1] = x
            /\ \A i \in 1..Len(p) : Append(p, x)[i] = p[i]
            /\ DOMAIN Append(p, x) = 1..(Len(p) + 1)
        BY AppendProperties, LenProperties
      <3>5. \A i \in DOMAIN Append(p, x) : Append(p, x)[i] = 0
        BY <2>4, <3>3, <3>4
      <3>6. Trimmed(Append(p, x)) = <<>>
        BY <3>5, TrimmedZeros
      <3>7. 256 * n + x = 0
        BY <2>4, <3>2
      <3>8. QED
        BY <2>1, <3>1, <3>6, <3>7
    <2>5. QED
      BY <2>3, <2>4
  <1> HIDE DEF S
  <1>3. Seq(Byte) \subseteq S
    BY <1>1, <1>2, SeqSetInduction
  <1>4. ASSUME NEW p \in Seq(Byte)
        PROVE  ToBE(BeToU64(p)) = Trimmed(p) /\ (BeToU64(p) = 0 <=> Trimmed(p) = <<>>)
    <2>1. ToBE(BeToU64(p)) = Trimmed(p) /\ BeToU64(p) \in Nat
      BY <1>3, BeToU64Unfold DEF S
    <2>2. ToBE(0) = <<>>
      BY ToBEUnfold
    <2>3. QED
      BY <2>1, <2>2, ToBEInjective
  <1>5. QED
    BY <1>4

(* Leading zeroes add nothing.                                             *)
LEMMA NumberTrimmed == \A p \in Seq(Byte) : BeToU64(Trimmed(p)) = BeToU64(p)
  <1> TAKE p \in Seq(Byte)
  <1>1. Trimmed(p) \in Seq(Byte) /\ Trimmed(Trimmed(p)) = Trimmed(p)
    BY TrimmedProperties, TrimmedTwice
  <1>2. ToBE(BeToU64(Trimmed(p))) = ToBE(BeToU64(p)) /\ BeToU64(p) \in Nat /\ BeToU64(Trimmed(p)) \in Nat
    BY <1>1, NumberBytes, BeToU64Unfold
  <1>3. QED
    BY <1>2, ToBEInjective

(* u64_to_be, read back.                                                   *)
LEMMA NumberBack == \A n \in Nat : BeToU64(ToBE(n)) = n
  <1> TAKE n \in Nat
  <1>1. ToBE(n) \in Seq(Byte) /\ Trimmed(ToBE(n)) = ToBE(n)
    BY ToBEBytes, ToBETrimmed
  <1>2. ToBE(BeToU64(ToBE(n))) = ToBE(n) /\ BeToU64(ToBE(n)) \in Nat
    BY <1>1, NumberBytes, BeToU64Unfold
  <1>3. QED
    BY <1>2, ToBEInjective

(* A search for a number of some bytes finds be_to_u64 of them.            *)
LEMMA NumberFound ==
    ASSUME NEW p \in Seq(Byte), NEW S \in SUBSET Nat
    PROVE  DecodedIn(p, S) = IF BeToU64(p) \in S THEN {BeToU64(p)} ELSE {}
  <1>1. BeToU64(p) \in Nat /\ ToBE(BeToU64(p)) = Trimmed(p)
    BY NumberBytes, BeToU64Unfold
  <1>2. \A v \in S : ToBE(v) = Trimmed(p) <=> v = BeToU64(p)
    BY <1>1, ToBEInjective
  <1>3. DecodedIn(p, S) = {v \in S : v = BeToU64(p)}
    BY <1>2 DEF DecodedIn
  <1>4. QED
    BY <1>3

(* The complement of n bytes counts down from 256^n - 1.                   *)
LEMMA NumberComplement ==
    \A p \in Seq(Byte) : BeToU64(Complement(p)) = Power[Len(p)] - 1 - BeToU64(p)
  <1> DEFINE S == {p \in Seq(Byte) : BeToU64(Complement(p)) = Power[Len(p)] - 1 - BeToU64(p)}
  <1>1. <<>> \in S
    <2>1. <<>> \in Seq(Byte) /\ Len(<<>>) = 0
      BY EmptySeq
    <2>2. Complement(<<>>) \in Seq(Byte) /\ Len(Complement(<<>>)) = 0
      BY <2>1, ComplementBytes
    <2>3. Complement(<<>>) = <<>>
      BY <2>2, EmptySeq
    <2>4. QED
      BY <2>1, <2>3, BeToU64Unfold, PowerUnfold
  <1>2. ASSUME NEW p \in Seq(Byte), NEW x \in Byte, p \in S
        PROVE  Append(p, x) \in S
    <2>1. /\ Append(p, x) \in Seq(Byte) /\ Len(Append(p, x)) = Len(p) + 1 /\ Len(p) \in Nat
          /\ Append(p, x)[Len(p) + 1] = x /\ \A i \in 1..Len(p) : Append(p, x)[i] = p[i]
      BY AppendProperties, LenProperties
    <2>2. Complement(p) \in Seq(Byte) /\ Len(Complement(p)) = Len(p) /\ 255 - x \in Byte
      BY ComplementBytes, ByteProperties
    <2>3. Complement(Append(p, x)) = Append(Complement(p), 255 - x)
      BY <2>1, ComplementAppend
    <2>4. /\ BeToU64(Append(p, x)) = 256 * BeToU64(p) + x
          /\ BeToU64(Append(Complement(p), 255 - x)) = 256 * BeToU64(Complement(p)) + (255 - x)
          /\ BeToU64(p) \in Nat /\ x \in Nat
      BY <2>2, BeToU64Unfold, ByteProperties
    <2>5. Power[Len(p) + 1] = 256 * Power[Len(p)] /\ Power[Len(p)] \in Nat
      BY <2>1, PowerUnfold
    <2>6. BeToU64(Complement(p)) = Power[Len(p)] - 1 - BeToU64(p)
      BY <1>2
    <2>7. 256 * (Power[Len(p)] - 1 - BeToU64(p)) + (255 - x) = 256 * Power[Len(p)] - 1 - (256 * BeToU64(p) + x)
      <3> DEFINE P == Power[Len(p)]
                 N == BeToU64(p)
      <3>1. P \in Nat /\ N \in Nat /\ x \in Nat
        BY <2>4, <2>5
      <3> HIDE DEF P, N
      <3>2. 256 * (P - 1 - N) + (255 - x) = 256 * P - 1 - (256 * N + x)
        BY <3>1
      <3>3. QED
        BY <3>2 DEF P, N
    <2>8. QED
      BY <2>1, <2>3, <2>4, <2>5, <2>6, <2>7
  <1> HIDE DEF S
  <1>3. Seq(Byte) \subseteq S
    BY <1>1, <1>2, SeqSetInduction
  <1>4. QED
    BY <1>3 DEF S

(* The carry loop is the difference to the next power of 256.              *)
LEMMA NumberNegated ==
    \A p \in Seq(Byte) : BeToU64(Negated(p)) = IF BeToU64(p) = 0 THEN 0 ELSE Power[Len(p)] - BeToU64(p)
  <1> DEFINE S == {p \in Seq(Byte) :
                     BeToU64(Negated(p)) = IF BeToU64(p) = 0 THEN 0 ELSE Power[Len(p)] - BeToU64(p)}
  <1>1. <<>> \in S
    <2>1. <<>> \in Seq(Byte) /\ Len(<<>>) = 0
      BY EmptySeq
    <2>2. Negated(<<>>) \in Seq(Byte) /\ Len(Negated(<<>>)) = 0
      BY <2>1, NegatedBytes
    <2>3. Negated(<<>>) = <<>>
      BY <2>2, EmptySeq
    <2>4. QED
      BY <2>1, <2>3, BeToU64Unfold
  <1>2. ASSUME NEW p \in Seq(Byte), NEW x \in Byte, p \in S
        PROVE  Append(p, x) \in S
    <2>1. Append(p, x) \in Seq(Byte) /\ Len(Append(p, x)) = Len(p) + 1 /\ Len(p) \in Nat
      BY AppendProperties, LenProperties
    <2>2. /\ BeToU64(Append(p, x)) = 256 * BeToU64(p) + x /\ BeToU64(p) \in Nat /\ x \in 0..255
      <3>1. BeToU64(Append(p, x)) = 256 * BeToU64(p) + x /\ BeToU64(p) \in Nat
        BY BeToU64Unfold
      <3>2. QED
        BY <3>1 DEF Byte
    <2>3. Power[Len(p) + 1] = 256 * Power[Len(p)] /\ Power[Len(p)] \in Nat
      BY <2>1, PowerUnfold
    <2>4. CASE x = 0
      <3>1. Negated(Append(p, x)) = Append(Negated(p), 0)
        BY <2>4, NegatedAppend
      <3>2. Negated(p) \in Seq(Byte) /\ 0 \in Byte
        BY NegatedBytes DEF Byte
      <3>3. BeToU64(Append(Negated(p), 0)) = 256 * BeToU64(Negated(p)) + 0 /\ BeToU64(Negated(p)) \in Nat
        BY <3>2, BeToU64Unfold
      <3>4. BeToU64(Negated(p)) = IF BeToU64(p) = 0 THEN 0 ELSE Power[Len(p)] - BeToU64(p)
        BY <1>2
      <3>5. CASE BeToU64(p) = 0
        <4>1. BeToU64(Append(p, x)) = 0
          BY <2>2, <2>4, <3>5
        <4>2. BeToU64(Negated(Append(p, x))) = 0
          BY <3>1, <3>3, <3>4, <3>5
        <4>3. QED
          BY <2>1, <4>1, <4>2, Zenon
      <3>6. CASE BeToU64(p) # 0
        <4>1. 256 * (Power[Len(p)] - BeToU64(p)) + 0 = 256 * Power[Len(p)] - 256 * BeToU64(p)
          BY <2>2, <2>3
        <4>2. 256 * BeToU64(p) + x # 0 /\ 256 * BeToU64(p) + x = 256 * BeToU64(p)
          BY <2>2, <2>4, <3>6
        <4>3. BeToU64(Negated(Append(p, x))) = 256 * (Power[Len(p)] - BeToU64(p)) + 0
          BY <3>1, <3>3, <3>4, <3>6, Zenon
        <4>4. BeToU64(Append(p, x)) # 0 /\ BeToU64(Append(p, x)) = 256 * BeToU64(p)
          BY <2>2, <4>2, Zenon
        <4>5. Power[Len(Append(p, x))] = 256 * Power[Len(p)]
          BY <2>1, <2>3, Zenon
        <4>6. QED
          BY <2>1, <4>1, <4>3, <4>4, <4>5, Zenon
      <3>7. QED
        BY <3>5, <3>6
    <2>5. CASE x # 0
      <3>1. Negated(Append(p, x)) = Append(Complement(p), 256 - x)
        BY <2>5, NegatedAppend
      <3>2. Complement(p) \in Seq(Byte) /\ 256 - x \in Byte
        BY <2>2, <2>5, ComplementBytes DEF Byte
      <3>3. BeToU64(Append(Complement(p), 256 - x)) = 256 * BeToU64(Complement(p)) + (256 - x)
        BY <3>2, BeToU64Unfold
      <3>4. BeToU64(Complement(p)) = Power[Len(p)] - 1 - BeToU64(p)
        BY NumberComplement
      <3>5. 256 * (Power[Len(p)] - 1 - BeToU64(p)) + (256 - x) = 256 * Power[Len(p)] - (256 * BeToU64(p) + x)
        <4> DEFINE P == Power[Len(p)]
                   N == BeToU64(p)
        <4>1. P \in Nat /\ N \in Nat /\ x \in Nat
          BY <2>2, <2>3
        <4> HIDE DEF P, N
        <4>2. 256 * (P - 1 - N) + (256 - x) = 256 * P - (256 * N + x)
          BY <4>1
        <4>3. QED
          BY <4>2 DEF P, N
      <3>6. 256 * BeToU64(p) + x # 0
        BY <2>2, <2>5
      <3>7. BeToU64(Negated(Append(p, x))) = 256 * Power[Len(p)] - BeToU64(Append(p, x))
        BY <2>2, <3>1, <3>3, <3>4, <3>5, Zenon
      <3>8. BeToU64(Append(p, x)) # 0 /\ Power[Len(Append(p, x))] = 256 * Power[Len(p)]
        BY <2>1, <2>2, <2>3, <3>6, Zenon
      <3>9. QED
        BY <2>1, <3>7, <3>8, Zenon
    <2>6. QED
      BY <2>4, <2>5
  <1> HIDE DEF S
  <1>3. Seq(Byte) \subseteq S
    BY <1>1, <1>2, SeqSetInduction
  <1>4. QED
    BY <1>3 DEF S

(* fits_fixed as a comparison of numbers.                                  *)
LEMMA FitsNumber ==
    ASSUME NEW neg \in BOOLEAN, NEW m \in Seq(Byte), m # <<>> => m[1] # 0, NEW w \in Nat \ {0}
    PROVE  FitsSigned(neg, m, w) <=>
             \/ BeToU64(m) < 128 * Power[w - 1]
             \/ neg /\ BeToU64(m) = 128 * Power[w - 1]
  <1> DEFINE N == BeToU64(m)
             P == Power[w - 1]
  <1>1. w - 1 \in Nat /\ Len(m) \in Nat /\ P \in Nat /\ P > 0 /\ N \in Nat /\ N < Power[Len(m)]
    <2>1. w - 1 \in Nat
      OBVIOUS
    <2>2. P \in Nat /\ P > 0
      BY <2>1, PowerUnfold
    <2>3. QED
      BY <2>1, <2>2, NumberBound, LenProperties
  <1>2. CASE Len(m) < w
    <2>1. w - 1 - Len(m) \in Nat /\ Len(m) + (w - 1 - Len(m)) = w - 1
      BY <1>1, <1>2
    <2>2. Power[Len(m)] <= P /\ Power[Len(m)] \in Nat
      BY <1>1, <2>1, PowerMonotone, PowerUnfold
    <2>3. N < 128 * P
      BY <1>1, <2>2
    <2>4. FitsSigned(neg, m, w)
      BY <1>2 DEF FitsSigned
    <2>5. QED
      BY <2>3, <2>4
  <1>3. CASE Len(m) >= w
    <2>1. m # <<>>
      BY <1>1, <1>3, EmptySeq
    <2> DEFINE h == m[1]
               t == Tail(m)
    <2>2. h \in Byte /\ t \in Seq(Byte) /\ m = <<h>> \o t
      BY <2>1, HeadTail DEF Head
    <2>3. /\ h \in 1..255 /\ Len(t) = Len(m) - 1 /\ Len(t) \in Nat
          /\ \A i \in 1..Len(t) : t[i] = m[i + 1]
      <3>1. h # 0
        BY <2>1
      <3>2. h \in 1..255
        BY <2>2, <3>1 DEF Byte
      <3>3. /\ Len(t) = Len(m) - 1 /\ \A i \in 1..Len(t) : t[i] = m[i + 1]
        BY <2>1, HeadTailProperties
      <3>4. QED
        BY <2>2, <3>2, <3>3, LenProperties
    <2>4. N = h * Power[Len(t)] + BeToU64(t)
      BY <2>2, NumberHead
    <2>5. BeToU64(t) \in Nat /\ BeToU64(t) < Power[Len(t)] /\ Power[Len(t)] \in Nat
      BY <2>2, <2>3, NumberBound, PowerUnfold
    <2> HIDE DEF h, t, N, P
    <2>6. CASE Len(m) = w
      <3>1. Power[Len(t)] = P
        BY <2>3, <2>6 DEF P
      <3>2. FitsSigned(neg, m, w) <=> (h < 128 \/ (neg /\ h = 128 /\ BeToU64(t) = 0))
        <4>1. BeToU64(t) = 0 <=> \A i \in 1..Len(t) : t[i] = 0
          <5>1. BeToU64(t) = 0 <=> Trimmed(t) = <<>>
            BY <2>2, NumberBytes
          <5>2. Trimmed(t) = <<>> => \A i \in 1..Len(t) : t[i] = 0
            BY <2>2, TrimmedNonempty
          <5>3. DOMAIN t = 1..Len(t)
            BY <2>2, LenProperties
          <5>4. (\A i \in 1..Len(t) : t[i] = 0) => Trimmed(t) = <<>>
            BY <5>3, TrimmedZeros
          <5>5. QED
            BY <5>1, <5>2, <5>4
        <4>2. (\A i \in 1..Len(t) : t[i] = 0) <=> \A i \in 2..w : m[i] = 0
          <5>1. \A i \in 2..w : i - 1 \in 1..Len(t) /\ m[i] = t[i - 1]
            BY <2>3, <2>6
          <5>2. \A i \in 1..Len(t) : i + 1 \in 2..w
            BY <2>3, <2>6
          <5>3. QED
            BY <2>3, <5>1, <5>2
        <4>3. FitsSigned(neg, m, w) <=> (m[1] < 128 \/ (neg /\ m[1] = 128 /\ \A i \in 2..w : m[i] = 0))
          BY <1>1, <2>6 DEF FitsSigned
        <4>4. QED
          BY <4>1, <4>2, <4>3 DEF h
      <3>0. h \in Nat /\ N = h * P + BeToU64(t) /\ BeToU64(t) < P /\ P \in Nat
        BY <2>3, <2>4, <2>5, <3>1
      <3>3. h < 128 => N < 128 * P
        <4>1. \A a, b, c \in Nat : a < 128 /\ b < c => a * c + b < 128 * c
          OBVIOUS
        <4>2. QED
          BY <2>5, <3>0, <4>1, Zenon
      <3>4. h >= 128 => N >= 128 * P
        <4>1. \A a, b, c \in Nat : a >= 128 => a * c + b >= 128 * c
          OBVIOUS
        <4>2. QED
          BY <2>5, <3>0, <4>1, Zenon
      <3>5. h > 128 => N > 128 * P
        <4>1. \A a, b, c \in Nat : a > 128 /\ c > 0 => a * c + b > 128 * c
          OBVIOUS
        <4>2. QED
          BY <1>1, <2>3, <2>4, <2>5, <3>1, <4>1
      <3>6. h = 128 => N = 128 * P + BeToU64(t)
        BY <2>4, <3>1
      <3>7. N \in Nat /\ 128 * P \in Nat /\ h \in Nat
        BY <1>1, <2>3
      <3>8. QED
        BY <2>5, <3>2, <3>3, <3>4, <3>5, <3>6, <3>7 DEF N, P
    <2>7. CASE Len(m) > w
      <3>1. ~FitsSigned(neg, m, w)
        BY <1>1, <2>7 DEF FitsSigned
      <3>2. Power[w] = 256 * P /\ Power[w] \in Nat
        <4>1. (w - 1) + 1 = w /\ w \in Nat
          BY <1>1
        <4>2. Power[(w - 1) + 1] = 256 * Power[w - 1]
          BY <1>1, PowerUnfold
        <4>3. QED
          BY <4>1, <4>2, PowerUnfold DEF P
      <3>3. Power[w] <= Power[Len(t)]
        <4>1. Len(t) - w \in Nat /\ w + (Len(t) - w) = Len(t) /\ w \in Nat
          BY <1>1, <2>3, <2>7
        <4>2. QED
          BY <4>1, PowerMonotone
      <3>4. N >= Power[Len(t)]
        <4>1. \A a, b, c \in Nat : a >= 1 => a * c + b >= c
          OBVIOUS
        <4>2. h \in Nat /\ h >= 1
          BY <2>3
        <4>3. QED
          BY <2>4, <2>5, <4>1, <4>2, Zenon
      <3>5. N > 128 * P
        BY <1>1, <2>5, <3>2, <3>3, <3>4 DEF N, P
      <3>6. N \in Nat /\ 128 * P \in Nat
        BY <1>1 DEF N, P
      <3>7. ~(N < 128 * P) /\ N # 128 * P
        BY <3>5, <3>6
      <3>8. QED
        BY <3>1, <3>7 DEF N, P
    <2>8. QED
      BY <1>1, <1>3, <2>6, <2>7
  <1>4. QED
    BY <1>1, <1>2, <1>3

-----------------------------------------------------------------------------
(* The bytes a checked take gives are bytes, complemented or not.          *)
LEMMA TakenBytes ==
    ASSUME NEW b \in Seq(Byte), NEW q \in 0..Len(b), NEW n \in Nat, CanTake(b, q, n), NEW neg \in BOOLEAN
    PROVE  Signed(neg, Bytes(b, q, n)) \in Seq(Byte)
  <1>1. Len(b) \in Nat /\ q \in Nat /\ n <= Len(b) - q
    BY LenProperties DEF CanTake
  <1>2. \A i \in (q + 1)..(q + n) : i \in 1..Len(b)
    BY <1>1
  <1>3. \A i \in (q + 1)..(q + n) : b[i] \in Byte
    BY <1>2, ElementOfSeq
  <1>4. q + 1 \in Int /\ q + n \in Int
    BY <1>1
  <1>5. Bytes(b, q, n) \in Seq(Byte)
    BY <1>3, <1>4, SubSeqProperties DEF Bytes
  <1>6. Complement(Bytes(b, q, n)) \in Seq(Byte)
    <2> DEFINE s == Bytes(b, q, n)
    <2>1. s \in Seq(Byte) /\ Len(s) \in Nat /\ DOMAIN s = 1..Len(s)
      BY <1>5, LenProperties
    <2> HIDE DEF s
    <2>2. \A i \in 1..Len(s) : 255 - s[i] \in Byte
      BY <2>1, ElementOfSeq, ByteProperties
    <2>3. [i \in 1..Len(s) |-> 255 - s[i]] \in Seq(Byte)
      BY <2>1, <2>2
    <2>4. QED
      BY <2>1, <2>3 DEF Complement, s
  <1>7. QED
    BY <1>5, <1>6 DEF Signed

(* A checked take advances by what it takes.                               *)
LEMMA PastAdvances ==
    ASSUME NEW b \in Seq(Byte), NEW q \in 0..Len(b), NEW n \in Nat, NEW e
    PROVE  Advances(ReadPayload(b, q, n, e), q, b)
  BY LenProperties DEF ReadPayload, CanTake, Advances, Failed, Decoded

LEMMA CppLengthAdvances ==
    ASSUME NEW b \in Seq(Byte), NEW q \in 0..Len(b), NEW neg \in BOOLEAN
    PROVE  /\ Advances(CppLength(b, neg, q), q, b)
           /\ CppLength(b, neg, q).rc # -1 => CppLength(b, neg, q).el \in Nat
  <1> DEFINE m == Signed(neg, Bytes(b, q, 1))[1]
             r == CppLength(b, neg, q)
             s == Signed(neg, Bytes(b, q + 1, m))
  <1>1. CASE ~CanTake(b, q, 1)
    BY <1>1 DEF CppLength, Advances, Failed
  <1>2. CASE CanTake(b, q, 1)
    <2>1. m \in Nat /\ q + 1 \in 0..Len(b) /\ q + 1 \in q..Len(b)
      BY <1>2, SignedByte, ByteProperties, LenProperties DEF CanTake
    <2>2. CASE m > LenOfLen \/ ~CanTake(b, q + 1, m)
      <3>1. r = Failed(q + 1)
        BY <1>2, <2>2 DEF CppLength
      <3>2. QED
        BY <2>1, <3>1 DEF Advances, Failed
    <2>3. CASE ~(m > LenOfLen \/ ~CanTake(b, q + 1, m))
      <3>1. r = Decoded(q + 1 + m, BeToU64(s))
        BY <1>2, <2>3 DEF CppLength
      <3>2. s \in Seq(Byte)
        BY <2>1, <2>3, TakenBytes
      <3>3. BeToU64(s) \in Nat
        BY <3>2, NumberBound
      <3>4. q + 1 + m \in q..Len(b)
        BY <2>1, <2>3, LenProperties DEF CanTake
      <3> HIDE DEF r, s, m
      <3>5. QED
        BY <3>1, <3>3, <3>4 DEF Advances, Decoded, r
    <2>4. QED
      BY <2>2, <2>3
  <1>3. QED
    BY <1>1, <1>2

LEMMA CppBigIntAdvances ==
    ASSUME NEW b \in Seq(Byte), NEW q \in 0..Len(b), NEW neg \in BOOLEAN
    PROVE  /\ Advances(CppBigInt(b, neg, q), q, b)
           /\ Advances(ConsumeBigInt(b, neg, q), q, b)
  <1> DEFINE h == CppLength(b, neg, q)
             n == h.el
             data == Signed(neg, Bytes(b, h.pos, n))
             r == CppBigInt(b, neg, q)
             c == ConsumeBigInt(b, neg, q)
  <1>1. CASE h.rc = -1
    BY <1>1, CppLengthAdvances DEF CppBigInt, ConsumeBigInt
  <1>2. CASE h.rc # -1
    <2>1. n \in Nat /\ h.pos \in q..Len(b) /\ q \in Nat /\ Len(b) \in Nat
      BY <1>2, CppLengthAdvances, LenProperties DEF Advances
    <2>2. \/ r = Failed(h.pos)
          \/ CanTake(b, h.pos, n) /\ r \in {Failed(h.pos + n), Decoded(h.pos + n, Big(neg, data))}
      BY <1>2, Zenon DEF CppBigInt
    <2>3. c = ReadPayload(b, h.pos, n, NoElement)
      BY <1>2, Zenon DEF ConsumeBigInt, Past
    <2>4. Advances(c, h.pos, b)
      <3>1. h.pos \in 0..Len(b)
        BY <2>1
      <3> HIDE DEF h, c, n
      <3>2. QED
        BY <2>1, <2>3, <3>1, PastAdvances
    <2> HIDE DEF h, n, data, r, c
    <2>5. CASE r = Failed(h.pos)
      BY <2>1, <2>4, <2>5 DEF Advances, Failed, r, c
    <2>6. CASE CanTake(b, h.pos, n) /\ r \in {Failed(h.pos + n), Decoded(h.pos + n, Big(neg, data))}
      <3>1. r.pos = h.pos + n /\ r.rc \in {-1, 1}
        BY <2>6 DEF Failed, Decoded
      <3>2. h.pos + n \in q..Len(b)
        BY <2>1, <2>6 DEF CanTake
      <3>3. QED
        BY <2>1, <2>4, <3>1, <3>2 DEF Advances, r, c
    <2>7. QED
      BY <2>2, <2>5, <2>6
  <1>3. QED
    BY <1>1, <1>2

-----------------------------------------------------------------------------
(* A decimal: its exponent, then digits up to a terminator.                *)
LEMMA CppExponentAdvances ==
    ASSUME NEW b \in Seq(Byte), NEW q \in 0..Len(b), NEW neg \in BOOLEAN
    PROVE  Advances(CppExponent(b, neg, q), q, b)
  <1> DEFINE t == Signed(neg, Bytes(b, q, 1))[1]
             n == SlotWidth(t)
             v == SlotValue(t > INT_ZERO, Signed(neg, Bytes(b, q + 1, n)))
             r == CppExponent(b, neg, q)
  <1>1. CASE ~CanTake(b, q, 1)
    BY <1>1 DEF Advances, CppExponent, Failed
  <1>2. CASE CanTake(b, q, 1)
    <2>1. /\ q \in Nat /\ Len(b) \in Nat /\ q + 1 \in q..Len(b)
          /\ t \in FixedNeg \cup FixedPos => n \in Nat
      BY <1>2, SlotWidthProperties, LenProperties DEF CanTake
    <2>2. \/ r \in {Failed(q + 1), Decoded(q + 1, 0)}
          \/ /\ t \in FixedNeg \cup FixedPos /\ CanTake(b, q + 1, n)
             /\ r \in {Failed(q + 1 + n), Decoded(q + 1 + n, v)}
      BY <1>2, Zenon DEF CppExponent
    <2> HIDE DEF t, n, v, r
    <2>3. CASE r \in {Failed(q + 1), Decoded(q + 1, 0)}
      BY <2>1, <2>3 DEF Advances, Failed, Decoded, r
    <2>4. CASE /\ t \in FixedNeg \cup FixedPos /\ CanTake(b, q + 1, n)
               /\ r \in {Failed(q + 1 + n), Decoded(q + 1 + n, v)}
      <3>1. r.pos = q + 1 + n /\ r.rc \in {-1, 1}
        BY <2>4 DEF Failed, Decoded
      <3>2. q + 1 + n \in q..Len(b)
        BY <2>1, <2>4 DEF CanTake
      <3>3. QED
        BY <3>1, <3>2 DEF Advances, r
    <2>5. QED
      BY <2>2, <2>3, <2>4
  <1>3. QED
    BY <1>1, <1>2

LEMMA CppDecimalAdvances ==
    ASSUME NEW b \in Seq(Byte), NEW q \in 0..Len(b)
    PROVE  /\ Advances(CppDecimal(b, q), q, b)
           /\ Advances(SkipDecimal(b, q), q, b)
  <1> DEFINE neg  == b[q + 1] = DEC_SIGN_NEG
             e    == CppExponent(b, neg, q + 1)
             ends == DigitEnds(b, neg, e.pos)
             r    == CppDecimal(b, q)
             s    == SkipDecimal(b, q)
  <1>1. CASE ~CanTake(b, q, 1)
    BY <1>1 DEF Advances, CppDecimal, SkipDecimal, Failed
  <1>2. CASE CanTake(b, q, 1)
    <2>1. q \in Nat /\ Len(b) \in Nat /\ q + 1 \in q..Len(b) /\ q + 1 \in 0..Len(b) /\ neg \in BOOLEAN
      BY <1>2, LenProperties DEF CanTake
    <2>2. Advances(e, q + 1, b)
      BY <2>1, CppExponentAdvances
    <2>3. e.pos \in q..Len(b)
      BY <2>1, <2>2 DEF Advances
    <2>4. ends # {} => FirstOf(ends) \in q..Len(b)
      <3>1. ends \in SUBSET Nat /\ \A i \in ends : i \in q..Len(b)
        BY <2>1, <2>3 DEF DigitEnds
      <3> HIDE DEF ends
      <3>2. QED
        BY <3>1, FirstOfProperties
    <2>5. \/ r \in {Failed(q + 1), Failed(e.pos)}
          \/ \E x : r = Decoded(q + 1, x)
          \/ ends # {} /\ \E x : r = Decoded(FirstOf(ends), x)
      BY <1>2, Zenon DEF CppDecimal, CppCoefficient
    <2>6. \/ s \in {Failed(q + 1), Failed(e.pos)}
          \/ \E x : s = Decoded(q + 1, x)
          \/ ends # {} /\ \E x : s = Decoded(FirstOf(ends), x)
      BY <1>2, Zenon DEF SkipDecimal
    <2> HIDE DEF e, ends, r, s
    <2>7. \A k \in q..Len(b) : \A x : Advances(Failed(k), q, b) /\ Advances(Decoded(k, x), q, b)
      BY DEF Advances, Failed, Decoded
    <2>8. Advances(r, q, b) /\ Advances(s, q, b)
      BY <2>1, <2>3, <2>4, <2>5, <2>6, <2>7, Zenon
    <2>9. QED
      BY <2>8 DEF r, s
  <1>3. QED
    BY <1>1, <1>2

-----------------------------------------------------------------------------
LEMMA CppFixedIntAdvances ==
    ASSUME NEW b \in Seq(Byte), NEW q \in 0..Len(b), NEW t \in FixedNeg \cup FixedPos
    PROVE  /\ Advances(CppFixedInt(b, t, q), q, b)
           /\ Advances(Past(b, q, SlotWidth(t)), q, b)
  <1> DEFINE n == SlotWidth(t)
             r == CppFixedInt(b, t, q)
  <1>1. n \in Nat /\ q \in Nat /\ Len(b) \in Nat
    BY SlotWidthProperties, LenProperties
  <1>2. Advances(Past(b, q, n), q, b)
    BY <1>1, PastAdvances DEF Past
  <1>3. r = Failed(q) \/ (CanTake(b, q, n) /\ (r = Failed(q + n) \/ \E x : r = Decoded(q + n, x)))
    BY Zenon DEF CppFixedInt
  <1> HIDE DEF n, r
  <1>4. CanTake(b, q, n) => q + n \in q..Len(b)
    BY <1>1 DEF CanTake
  <1>5. Advances(r, q, b)
    BY <1>1, <1>3, <1>4 DEF Advances, Failed, Decoded
  <1>6. QED
    BY <1>2, <1>5 DEF n, r

LEMMA CppFramedAdvances ==
    ASSUME NEW b \in Seq(Byte), NEW q \in 0..Len(b), NEW t
    PROVE  /\ Advances(CppFramed(b, t, q), q, b)
           /\ Terminators(b, q) # {} => FirstOf(Terminators(b, q)) \in q..Len(b)
  <1>1. Terminators(b, q) \in SUBSET Nat /\ \A i \in Terminators(b, q) : i \in q..Len(b)
    BY DEF Terminators
  <1>2. Terminators(b, q) # {} => FirstOf(Terminators(b, q)) \in q..Len(b)
    BY <1>1, FirstOfProperties
  <1>3. QED
    BY <1>2 DEF Advances, CppFramed, Failed, Decoded

LEMMA CppElementAdvances ==
    ASSUME NEW b \in Seq(Byte), NEW q \in 0..Len(b), NEW t
    PROVE  /\ Advances(CppElement(b, t, q), q, b)
           /\ Advances(ConsumeElement(b, t, q), q, b)
  <1>1. \A n \in {F32Width, F64Width, NativeWidth, UuidWidth} : \A e : Advances(ReadPayload(b, q, n, e), q, b)
    BY WidthAssumption, LenProperties DEF ReadPayload, CanTake, Advances, Failed, Decoded
  <1>2. \A k \in q..Len(b) : Advances(Failed(k), q, b) /\ \A e : Advances(Decoded(k, e), q, b)
    BY DEF Advances, Failed, Decoded
  <1>3. t \in FixedNeg \cup FixedPos =>
          Advances(CppFixedInt(b, t, q), q, b) /\ Advances(Past(b, q, SlotWidth(t)), q, b)
    BY CppFixedIntAdvances
  <1>4. /\ Advances(CppBigInt(b, t = INT_NEG_BIG, q), q, b)
        /\ Advances(ConsumeBigInt(b, t = INT_NEG_BIG, q), q, b)
        /\ Advances(CppDecimal(b, q), q, b)
        /\ Advances(SkipDecimal(b, q), q, b)
        /\ Advances(CppFramed(b, t, q), q, b)
    BY CppBigIntAdvances, CppDecimalAdvances, CppFramedAdvances
  <1>5. q \in q..Len(b)
    OBVIOUS
  <1>6. Advances(CppElement(b, t, q), q, b)
    BY <1>1, <1>2, <1>3, <1>4, <1>5 DEF CppElement
  <1>7. Advances(ConsumeElement(b, t, q), q, b)
    BY <1>1, <1>2, <1>3, <1>4, <1>5, CppFramedAdvances DEF ConsumeElement, Past
  <1>8. QED
    BY <1>6, <1>7

(* Reader::next, nextView and skip end between where they start and len_.  *)
LEMMA CppNextInBounds ==
    ASSUME NEW b \in Seq(Byte), NEW p \in 0..Len(b)
    PROVE  CppNext(b, p).pos \in p..Len(b) /\ CppConsume(b, p).pos \in p..Len(b)
  <1>1. Len(b) \in Nat
    BY LenProperties
  <1>2. CASE p >= Len(b)
    BY <1>1, <1>2 DEF CppNext, CppConsume
  <1>3. CASE ~(p >= Len(b))
    <2>1. p + 1 \in 0..Len(b)
      BY <1>1, <1>3
    <2>2. CppNext(b, p) = CppElement(b, b[p + 1], p + 1) /\ CppConsume(b, p) = ConsumeElement(b, b[p + 1], p + 1)
      BY <1>3 DEF CppNext, CppConsume
    <2>3. CppNext(b, p).pos \in (p + 1)..Len(b) /\ CppConsume(b, p).pos \in (p + 1)..Len(b)
      BY <2>1, <2>2, CppElementAdvances DEF Advances
    <2>4. QED
      BY <1>1, <2>3
  <1>4. QED
    BY <1>2, <1>3

-----------------------------------------------------------------------------
(* pos_ <= len_ after every call, whatever was called before and whatever  *)
(* it threw: len_ - pos_ never wraps.                                      *)
THEOREM CppCursorInBuffer == PortsSpec => []CppPosInBounds
  <1>1. PortsInit => Inv /\ CppPosInBounds
    <2> SUFFICES ASSUME PortsInit PROVE Inv /\ CppPosInBounds
      OBVIOUS
    <2>1. buf \in Seq(Byte)
      BY BufferAssumption, Zenon DEF PortsInit, Init
    <2>2. Len(buf) \in Nat
      BY <2>1, LenProperties
    <2>3. failed \in BOOLEAN /\ pos = 0 /\ from = 0 /\ ret = 1 /\ cpp.pos = 0
      BY DEF PortsInit, Init, CppInit
    <2>4. QED
      BY <2>1, <2>2, <2>3 DEF Inv, TypeOK, PosInBounds, ReturnCode, CppPosInBounds
  <1>2. Inv /\ CppPosInBounds /\ [PortsNext]_<<vars, cpp>> => (Inv /\ CppPosInBounds)'
    <2> SUFFICES ASSUME Inv, CppPosInBounds, [PortsNext]_<<vars, cpp>>
                 PROVE  (Inv /\ CppPosInBounds)'
      OBVIOUS
    <2>1. buf \in Seq(Byte) /\ Len(buf) \in Nat /\ cpp.pos \in 0..Len(buf) /\ cpp.pos \in Nat
      BY LenProperties DEF Inv, TypeOK, CppPosInBounds
    <2>2. Inv'
      BY Inductive DEF PortsNext, BothNext, BothView, ReaderNext, vars
    <2>3. CASE BothNext
      <3>1. buf' = buf /\ cpp'.pos = CppNext(buf, cpp.pos).pos
        BY <2>3 DEF BothNext, CallNext, CppCalled
      <3>2. QED
        BY <2>1, <2>2, <3>1, CppNextInBounds DEF CppPosInBounds
    <2>4. CASE BothView
      <3>1. buf' = buf /\ cpp'.pos = CppConsume(buf, cpp.pos).pos
        BY <2>4 DEF BothView, CallNextView, CppCalled
      <3>2. QED
        BY <2>1, <2>2, <3>1, CppNextInBounds DEF CppPosInBounds
    <2>5. CASE UNCHANGED <<vars, cpp>>
      BY <2>2, <2>5 DEF CppPosInBounds, vars
    <2>6. QED
      BY <2>3, <2>4, <2>5 DEF PortsNext
  <1>3. QED
    BY <1>1, <1>2, PTL DEF PortsSpec
-----------------------------------------------------------------------------
(* Strict decode: the bytes of an integer are the ones EncInt writes.      *)
LEMMA BytesOne ==
    ASSUME NEW b \in Seq(Byte), NEW q \in 0..Len(b), CanTake(b, q, 1)
    PROVE  Bytes(b, q, 1) = <<b[q + 1]>> /\ b[q + 1] \in Byte
  <1> DEFINE w == Bytes(b, q, 1)
             v == b[q + 1]
             s == <<v>>
  <1>1. w \in Seq(Byte) /\ Len(w) = 1 /\ w[1] = v
    <2>1. 1 \in Nat
      OBVIOUS
    <2>2. w \in Seq(Byte) /\ Len(w) = 1 /\ \A k \in 1..1 : w[k] = b[q + k]
      BY <2>1, BytesProperties
    <2> HIDE DEF w
    <2>3. QED
      BY <2>2
  <1>2. v \in Byte
    <2>1. 1 \in 1..Len(w)
      BY <1>1
    <2> HIDE DEF w
    <2>2. QED
      BY <1>1, <2>1, ElementOfSeq
  <1>3. s \in Seq(Byte) /\ Len(s) = 1 /\ s[1] = v
    BY <1>2
  <1> HIDE DEF w, s
  <1>4. Len(w) = Len(s) /\ \A i \in 1..Len(w) : w[i] = s[i]
    BY <1>1, <1>3
  <1>5. w = s
    BY <1>1, <1>3, <1>4, SeqEqual
  <1>6. QED
    BY <1>2, <1>5 DEF w, s

LEMMA BytesSplit ==
    ASSUME NEW b \in Seq(Byte), NEW q \in 0..Len(b), NEW m \in Nat, NEW n \in Nat,
           CanTake(b, q, m), CanTake(b, q + m, n)
    PROVE  /\ q + m \in 0..Len(b)
           /\ CanTake(b, q, m + n)
           /\ Bytes(b, q, m + n) = Bytes(b, q, m) \o Bytes(b, q + m, n)
  <1> DEFINE x == Bytes(b, q, m)
             y == Bytes(b, q + m, n)
             z == Bytes(b, q, m + n)
             c == x \o y
  <1>1. Len(b) \in Nat
    BY LenProperties
  <1>2. q + m \in 0..Len(b) /\ CanTake(b, q, m + n) /\ m + n \in Nat
    BY <1>1 DEF CanTake
  <1>3. /\ x \in Seq(Byte) /\ Len(x) = m /\ \A k \in 1..m : x[k] = b[q + k]
        /\ y \in Seq(Byte) /\ Len(y) = n /\ \A k \in 1..n : y[k] = b[(q + m) + k]
        /\ z \in Seq(Byte) /\ Len(z) = m + n /\ \A k \in 1..(m + n) : z[k] = b[q + k]
    <2>1. x \in Seq(Byte) /\ Len(x) = m /\ \A k \in 1..m : x[k] = b[q + k]
      BY BytesProperties
    <2>2. y \in Seq(Byte) /\ Len(y) = n /\ \A k \in 1..n : y[k] = b[(q + m) + k]
      BY <1>2, BytesProperties
    <2>3. z \in Seq(Byte) /\ Len(z) = m + n /\ \A k \in 1..(m + n) : z[k] = b[q + k]
      BY <1>2, BytesProperties
    <2>4. QED
      BY <2>1, <2>2, <2>3
  <1> HIDE DEF x, y, z
  <1>4. /\ c \in Seq(Byte) /\ Len(c) = Len(x) + Len(y)
        /\ \A i \in 1..(Len(x) + Len(y)) : c[i] = IF i <= Len(x) THEN x[i] ELSE y[i - Len(x)]
    BY <1>3, ConcatProperties
  <1> HIDE DEF c
  <1>5. ASSUME NEW k \in 1..Len(z)
        PROVE  z[k] = c[k]
    <2>1. k \in 1..(m + n) /\ k \in 1..(Len(x) + Len(y))
      BY <1>3
    <2>2. CASE k <= m
      <3>1. k \in 1..m
        BY <2>1, <2>2
      <3>2. QED
        BY <1>3, <1>4, <2>1, <2>2, <3>1
    <2>3. CASE ~(k <= m)
      <3>1. k - m \in 1..n /\ (q + m) + (k - m) = q + k
        BY <2>1, <2>3
      <3>2. y[k - m] = b[q + k]
        BY <1>3, <3>1
      <3>3. QED
        BY <1>3, <1>4, <2>1, <2>3, <3>2
    <2>4. QED
      BY <2>2, <2>3
  <1>6. Len(z) = Len(c)
    BY <1>3, <1>4
  <1>7. z = c
    BY <1>3, <1>4, <1>5, <1>6, SeqEqual
  <1>8. QED
    BY <1>2, <1>7 DEF c, x, y, z

(* Nothing is trimmed from a string that keeps its length.                 *)
LEMMA TrimmedSame ==
    ASSUME NEW s \in Seq(Byte), Len(Trimmed(s)) = Len(s)
    PROVE  Trimmed(s) = s
  <1> DEFINE sig == {i \in DOMAIN s : s[i] # 0}
             p == FirstOf(sig)
  <1>1. Len(s) \in Nat /\ DOMAIN s = 1..Len(s)
    BY LenProperties
  <1>2. CASE sig = {}
    <2>1. Trimmed(s) = <<>>
      BY <1>2 DEF Trimmed
    <2>2. Len(s) = 0
      BY <2>1, EmptySeq
    <2>3. QED
      BY <2>1, <2>2, EmptySeq
  <1>3. CASE sig # {}
    <2>1. Trimmed(s) = SubSeq(s, p, Len(s))
      BY <1>3 DEF Trimmed
    <2>2. sig \in SUBSET Nat /\ sig \subseteq 1..Len(s)
      BY <1>1
    <2>3. p \in sig
      <3> HIDE DEF sig
      <3>1. QED
        BY <1>3, <2>2, FirstOfProperties
    <2>4. p \in 1..Len(s) /\ s[p] # 0
      BY <1>1, <2>3
    <2> HIDE DEF p, sig
    <2>5. \A i \in p..Len(s) : s[i] \in Byte
      <3>1. \A i \in p..Len(s) : i \in 1..Len(s)
        BY <1>1, <2>4
      <3>2. QED
        BY <3>1, ElementOfSeq
    <2>6. Len(SubSeq(s, p, Len(s))) = IF p <= Len(s) THEN Len(s) - p + 1 ELSE 0
      BY <1>1, <2>4, <2>5, SubSeqProperties
    <2>7. p = 1
      BY <1>1, <2>1, <2>4, <2>6
    <2>8. s[1] # 0
      BY <2>4, <2>7
    <2>9. QED
      BY <2>8, TrimmedIdentity
  <1>4. QED
    BY <1>2, <1>3

(* A fixed slot.                                                           *)
LEMMA FixedIntStrict ==
    ASSUME NEW b \in Seq(Byte), NEW q \in 0..Len(b), NEW t \in FixedNeg \cup FixedPos,
           ReadFixedInt(b, t, q).rc = 1, ReadFixedInt(b, t, q).el.mag # << 0 >>
    PROVE  /\ ReadFixedInt(b, t, q).pos = q + SlotWidth(t) /\ CanTake(b, q, SlotWidth(t))
           /\ EncInt(ReadFixedInt(b, t, q).el.neg, ReadFixedInt(b, t, q).el.mag)
                = <<t>> \o Bytes(b, q, SlotWidth(t))
  <1> DEFINE n == SlotWidth(t)
             w == Bytes(b, q, n)
             positive == t > INT_ZERO
             u == ExcessMagnitude(w)
             x == IntElement(n, FALSE, w)
             y == IntElement(n, TRUE, u)
             z == ReadFixedInt(b, t, q)
  <1>1. \/ z \in {Failed(q), Failed(q + n)}
        \/ CanTake(b, q, n) /\ positive /\ ~NonMinimalSlot(positive, w) /\ z = Decoded(q + n, x)
        \/ CanTake(b, q, n) /\ ~positive /\ ~NonMinimalSlot(positive, w) /\ z = Decoded(q + n, y)
    BY Zenon DEF ReadFixedInt
  <1>2. n \in 1..16 /\ n \in Nat /\ n <= FixedWidth /\ FixedWidth \in Nat
    BY SlotWidthProperties, WidthAssumption, SMTT(30) DEF SlotWidth, FixedNeg, FixedPos, INT_ZERO
  <1>3. (positive => t = INT_ZERO + n) /\ (~positive => t = INT_ZERO - n)
    BY DEF SlotWidth, FixedNeg, FixedPos, INT_ZERO
  <1>4. x.neg = FALSE /\ x.mag = w /\ y.neg = TRUE /\ y.mag = u
    BY DEF IntElement
  <1>5. z.rc = 1 /\ z.el.mag # <<0>>
    OBVIOUS
  <1> SUFFICES z.pos = q + n /\ CanTake(b, q, n) /\ EncInt(z.el.neg, z.el.mag) = <<t>> \o w
    OBVIOUS
  <1> HIDE DEF z, x, y, n
  <1>6. CanTake(b, q, n) /\ ~NonMinimalSlot(positive, w) /\ z.pos = q + n
    BY <1>1, <1>5 DEF Failed, Decoded
  <1>7. w \in Seq(Byte) /\ Len(w) = n /\ w # <<>>
    <2>1. w \in Seq(Byte) /\ Len(w) = n
      BY <1>2, <1>6, BytesProperties
    <2> HIDE DEF w
    <2>2. QED
      BY <1>2, <2>1, EmptySeq
  <1> HIDE DEF w, positive
  <1>8. w[1] \in 0..255
    <2>1. 1 \in 1..Len(w)
      BY <1>2, <1>7
    <2>2. w[1] \in Byte
      BY <1>7, <2>1, ElementOfSeq
    <2>3. QED
      BY <2>2 DEF Byte
  <1>9. CASE positive
    <2>1. z.el = x
      <3>1. z = Decoded(q + n, x) \/ z \in {Failed(q), Failed(q + n)}
        BY <1>1, <1>9
      <3>2. QED
        BY <1>5, <3>1 DEF Failed, Decoded
    <2>2. w[1] # 0 /\ ~(Len(w) = FixedWidth /\ w[1] >= 128)
      BY <1>6, <1>9 DEF NonMinimalSlot
    <2>3. Len(w) < FixedWidth \/ (Len(w) = FixedWidth /\ w[1] < 128)
      <3> DEFINE v == w[1]
      <3>1. v \in 0..255 /\ ~(Len(w) = FixedWidth /\ v >= 128) /\ Len(w) = n
        BY <1>7, <1>8, <2>2
      <3> HIDE DEF v
      <3>2. Len(w) < FixedWidth \/ (Len(w) = FixedWidth /\ v < 128)
        BY <1>2, <3>1
      <3>3. QED
        BY <3>2 DEF v
    <2>4. FitsSigned(FALSE, w, FixedWidth)
      BY <2>3 DEF FitsSigned
    <2>5. Trimmed(w) = w
      BY <1>7, <2>2, TrimmedIdentity
    <2>6. EncInt(FALSE, w) = <<INT_ZERO + Len(w)>> \o w
      BY <1>7, <2>4, <2>5, EncIntForms
    <2>7. QED
      BY <1>3, <1>4, <1>6, <1>7, <1>9, <2>1, <2>6
  <1>10. CASE ~positive
    <2>1. z.el = y
      BY <1>1, <1>5, <1>10 DEF Failed, Decoded
    <2>2. ~(w[1] = 255 /\ Len(w) > 1) /\ ~(Len(w) = FixedWidth /\ ~(w[1] >= 128))
      BY <1>6, <1>10 DEF NonMinimalSlot
    <2>3. w[1] # 255 \/ Len(w) = 1
      BY <1>2, <1>7, <2>2
    <2>4. Len(w) < FixedWidth \/ (Len(w) = FixedWidth /\ w[1] >= 128)
      BY <1>2, <1>7, <2>2
    <2>5. u = SlotMagnitude(w)
      <3>1. ASSUME ~(Len(w) <= NativeWidth), Trimmed(w) = <<>>
            PROVE  FALSE
        <4>1. u = <<0>>
          BY <1>7, <3>1, ExcessLost
        <4>2. QED
          BY <1>4, <1>5, <2>1, <4>1
      <3>2. QED
        BY <1>7, <3>1, ExcessIsSlot
    <2>6. u \in Seq(Byte) /\ u # <<>> /\ u[1] # 0 /\ Payload(u) = w /\ FitsSigned(TRUE, u, FixedWidth)
      <3>1. u \in Seq(Byte)
        BY <1>7, ExcessMagnitudeBytes
      <3>2. SlotMagnitude(w) # <<>> /\ SlotMagnitude(w)[1] # 0 /\ Payload(SlotMagnitude(w)) = w
        BY <1>7, <2>3, SlotOfNegative
      <3>3. FitsSigned(TRUE, SlotMagnitude(w), FixedWidth)
        BY <1>7, <2>3, <2>4, SlotOfNegative
      <3>4. QED
        BY <2>5, <3>1, <3>2, <3>3
    <2> HIDE DEF u
    <2>7. EncInt(TRUE, u) = <<INT_ZERO - Len(w)>> \o w
      BY <2>6, EncIntNegative
    <2>8. QED
      BY <1>3, <1>4, <1>6, <1>7, <1>10, <2>1, <2>7
  <1>11. QED
    BY <1>9, <1>10

LEMMA BigIntStrict ==
    ASSUME NEW b \in Seq(Byte), NEW q \in 0..Len(b), NEW t \in {INT_NEG_BIG, INT_POS_BIG},
           ReadBigInt(b, t, q).rc = 1
    PROVE  \E k \in Nat :
              /\ ReadBigInt(b, t, q).pos = q + k /\ CanTake(b, q, k)
              /\ EncInt(ReadBigInt(b, t, q).el.neg, ReadBigInt(b, t, q).el.mag) = <<t>> \o Bytes(b, q, k)
  <1> DEFINE negative == t = INT_NEG_BIG
             m    == LenBytes(b, negative, q)
             lens == MagLens(b, negative, q)
             n    == FirstOf(lens)
             head == Bytes(b, q, 1)
             low  == Bytes(b, q + 1, m)
             len  == Signed(negative, low)
             rest == Bytes(b, q + 1 + m, n)
             mag  == Signed(negative, rest)
             z    == ReadBigInt(b, t, q)
  <1>1. /\ CanTake(b, q, 1)
        /\ ~(m > LenOfLen \/ ~CanTake(b, q + 1, m))
        /\ lens # {}
        /\ ~(n = 0 \/ m # ByteLen(n)) /\ mag[1] # 0 /\ ~FitsSigned(negative, mag, FixedWidth)
        /\ z = Decoded(q + 1 + m + n, [kind |-> "bigint", neg |-> negative, mag |-> mag])
    BY DEF ReadBigInt, Failed, Decoded
  <1>2. m \in Nat /\ Len(b) \in Nat
    BY <1>1, LengthByte, LenProperties
  <1>3. lens \in SUBSET Nat /\ \A v \in lens : v <= Len(b) - (q + 1 + m) /\ ToBE(v) = Trimmed(len)
    BY <1>1, <1>2 DEF MagLens, DecodedIn, CanTake
  <1>4. n \in Nat /\ n <= Len(b) - (q + 1 + m) /\ ToBE(n) = Trimmed(len)
    BY <1>1, <1>3, FirstOfProperties
  <1>5. Signed(negative, head)[1] = m
    BY DEF LenBytes
  <1>6. z.pos = q + 1 + m + n /\ z.el.neg = negative /\ z.el.mag = mag
    BY <1>1 DEF Decoded
  <1>7. negative \in BOOLEAN /\ t = IF negative THEN INT_NEG_BIG ELSE INT_POS_BIG
    BY DEF negative
  <1> SUFFICES \E k \in Nat : /\ z.pos = q + k /\ CanTake(b, q, k)
                              /\ EncInt(z.el.neg, z.el.mag) = <<t>> \o Bytes(b, q, k)
    OBVIOUS
  <1> HIDE DEF n, m, lens, negative, z
  <1>8. q + 1 \in 0..Len(b) /\ CanTake(b, q + 1, m) /\ q + 1 + m \in 0..Len(b) /\ CanTake(b, q + 1 + m, n)
    BY <1>1, <1>2, <1>4 DEF CanTake
  <1>9. /\ head \in Seq(Byte) /\ Len(head) = 1
        /\ low \in Seq(Byte) /\ Len(low) = m
        /\ rest \in Seq(Byte) /\ Len(rest) = n
    <2>1. 1 \in Nat
      OBVIOUS
    <2>2. head \in Seq(Byte) /\ Len(head) = 1
      BY <1>1, <2>1, BytesProperties
    <2>3. low \in Seq(Byte) /\ Len(low) = m
      BY <1>2, <1>8, BytesProperties
    <2>4. rest \in Seq(Byte) /\ Len(rest) = n
      BY <1>4, <1>8, BytesProperties
    <2>5. QED
      BY <2>2, <2>3, <2>4
  <1>10. Bytes(b, q, 1 + m + n) = head \o low \o rest /\ CanTake(b, q, 1 + m + n)
    <2>1. /\ CanTake(b, q, 1 + m) /\ Bytes(b, q, 1 + m) = head \o low
      BY <1>1, <1>2, <1>8, BytesSplit
    <2>2. q + (1 + m) = q + 1 + m /\ 1 + m \in Nat /\ (1 + m) + n = 1 + m + n
      BY <1>2, <1>4
    <2>3. /\ CanTake(b, q, (1 + m) + n)
          /\ Bytes(b, q, (1 + m) + n) = Bytes(b, q, 1 + m) \o Bytes(b, q + (1 + m), n)
      BY <1>4, <1>8, <2>1, <2>2, BytesSplit
    <2>4. QED
      BY <2>1, <2>2, <2>3
  <1> HIDE DEF head, low, rest
  <1>11. Signed(negative, head) = <<m>>
    <2> DEFINE s == Signed(negative, head)
    <2>1. s \in Seq(Byte) /\ Len(s) = 1
      BY <1>9, ComplementBytes
    <2>2. s[1] = m
      BY <1>5
    <2> HIDE DEF s
    <2>3. QED
      BY <2>1, <2>2 DEF s
  <1>12. len \in Seq(Byte) /\ Len(len) = m /\ mag \in Seq(Byte) /\ Len(mag) = n
    BY <1>9, ComplementBytes
  <1>13. /\ Signed(negative, <<m>>) = head /\ Signed(negative, len) = low /\ Signed(negative, mag) = rest
    BY <1>9, <1>11, SignedTwice
  <1> HIDE DEF len, mag
  <1>14. ToBE(n) = len /\ Len(ToBE(n)) = m
    <2>1. Len(ToBE(n)) = m
      BY <1>1, <1>2, <1>4, ToBEBytes
    <2>2. Len(Trimmed(len)) = Len(len)
      BY <1>4, <1>12, <2>1
    <2>3. QED
      BY <1>4, <1>12, <2>1, <2>2, TrimmedSame
  <1>15. mag # <<>> /\ Trimmed(mag) = mag
    <2>1. mag # <<>>
      BY <1>1, <1>4, <1>12
    <2>2. QED
      BY <1>1, <1>12, <2>1, TrimmedIdentity
  <1>16. EncInt(negative, mag) = BigForm(negative, mag)
    BY <1>1, <1>12, <1>15, EncIntForms
  <1>17. BigForm(negative, mag) = <<t>> \o Signed(negative, <<m>> \o len \o mag)
    BY <1>7, <1>12, <1>14 DEF BigForm
  <1>18. Signed(negative, <<m>> \o len \o mag) = head \o low \o rest
    <2>1. <<m>> \in Seq(Byte)
      <3>1. Signed(negative, head) \in Seq(Byte)
        BY <1>9, ComplementBytes
      <3>2. QED
        BY <1>11, <3>1
    <2> DEFINE a == <<m>>
    <2>2. a \in Seq(Byte) /\ Signed(negative, a) = head
      BY <1>13, <2>1
    <2> HIDE DEF a
    <2>3. a \o len \in Seq(Byte)
      BY <1>12, <2>2, ConcatProperties
    <2>4. Signed(negative, a \o len) = head \o low
      <3>1. Signed(negative, a \o len) = Signed(negative, a) \o Signed(negative, len)
        BY <1>12, <2>2, SignedConcat
      <3>2. QED
        BY <1>13, <2>2, <3>1
    <2>5. Signed(negative, a \o len \o mag) = Signed(negative, a \o len) \o Signed(negative, mag)
      BY <1>12, <2>3, SignedConcat
    <2>6. QED
      BY <1>13, <2>4, <2>5 DEF a
  <1> DEFINE k == 1 + m + n
  <1>19. k \in Nat /\ z.pos = q + k
    BY <1>2, <1>4, <1>6
  <1>20. CanTake(b, q, k) /\ EncInt(z.el.neg, z.el.mag) = <<t>> \o Bytes(b, q, k)
    BY <1>6, <1>10, <1>16, <1>17, <1>18
  <1> HIDE DEF k
  <1>21. QED
    BY <1>19, <1>20

(* An integer next() accepts is written as the bytes it was read from, the *)
(* one whose magnitude is lost left out.                                   *)
LEMMA NextStrict ==
    ASSUME NEW b \in Seq(Byte), NEW p \in 0..Len(b), Next(b, p).rc = 1,
           Next(b, p).el.kind \in Integers, Next(b, p).el.mag # << 0 >>
    PROVE  EncInt(Next(b, p).el.neg, Next(b, p).el.mag) = Bytes(b, p, Next(b, p).pos - p)
  <1> DEFINE t == b[p + 1]
             q == p + 1
             r == DecodeElement(b, t, q)
  <1>1. ~(p >= Len(b)) /\ q \in 0..Len(b) /\ CanTake(b, p, 1)
    BY LenProperties DEF Next, CanTake
  <1>2. Next(b, p) = r
    BY <1>1 DEF Next
  <1>3. Bytes(b, p, 1) = <<t>>
    BY <1>1, BytesOne
  <1>4. r.rc = 1 /\ r.el.kind \in Integers /\ r.el.mag # <<0>>
    BY <1>2
  <1> HIDE DEF t
  <1>5. t \in IntegerCodes
    BY <1>4, OthersNoInteger
  <1>6. ASSUME NEW k \in Nat, r.pos = q + k, CanTake(b, q, k),
               EncInt(r.el.neg, r.el.mag) = <<t>> \o Bytes(b, q, k)
        PROVE  EncInt(r.el.neg, r.el.mag) = Bytes(b, p, r.pos - p)
    <2>1. 1 \in Nat /\ r.pos - p = 1 + k
      BY <1>6
    <2>2. Bytes(b, p, 1 + k) = Bytes(b, p, 1) \o Bytes(b, q, k)
      BY <1>1, <1>6, <2>1, BytesSplit
    <2>3. QED
      BY <1>3, <1>6, <2>1, <2>2
  <1>7. CASE t = INT_ZERO
    <2>1. r = Decoded(q, IntElement(0, FALSE, <<>>))
      BY <1>7, BareDecodes
    <2>2. r.pos = q /\ r.el.neg = FALSE /\ r.el.mag = <<>>
      BY <2>1 DEF Decoded, IntElement
    <2>3. Trimmed(<<>>) = <<>>
      <3>1. \A i \in DOMAIN <<>> : <<>>[i] = 0
        OBVIOUS
      <3>2. QED
        BY <3>1, TrimmedZeros
    <2>4. <<>> \in Seq(Byte)
      OBVIOUS
    <2>5. EncInt(FALSE, <<>>) = <<INT_ZERO>>
      BY <2>3, <2>4, EncIntForms
    <2>6. r.pos - p = 1
      BY <2>2
    <2>7. QED
      BY <1>2, <1>3, <1>7, <2>2, <2>5, <2>6
  <1>8. CASE t \in FixedNeg \cup FixedPos
    <2> DEFINE z == ReadFixedInt(b, t, q)
    <2>1. r = z
      BY <1>8, FixedDispatch
    <2>2. z.rc = 1 /\ z.el.mag # <<0>>
      BY <1>4, <2>1
    <2>3. SlotWidth(t) \in Nat
      BY <1>8, SlotWidthProperties
    <2>4. /\ z.pos = q + SlotWidth(t) /\ CanTake(b, q, SlotWidth(t))
          /\ EncInt(z.el.neg, z.el.mag) = <<t>> \o Bytes(b, q, SlotWidth(t))
      BY <1>1, <1>8, <2>2, FixedIntStrict
    <2> HIDE DEF z, r
    <2>5. QED
      BY <1>2, <1>6, <2>1, <2>3, <2>4
  <1>9. CASE t \in {INT_NEG_BIG, INT_POS_BIG}
    <2> DEFINE z == ReadBigInt(b, t, q)
    <2>1. r = z
      BY <1>9, BigIntDispatch
    <2>2. z.rc = 1
      BY <1>4, <2>1
    <2>3. PICK k \in Nat : /\ z.pos = q + k /\ CanTake(b, q, k)
                           /\ EncInt(z.el.neg, z.el.mag) = <<t>> \o Bytes(b, q, k)
      BY <1>1, <1>9, <2>2, BigIntStrict
    <2> HIDE DEF z, r
    <2>4. QED
      BY <1>2, <1>6, <2>1, <2>3
  <1>10. QED
    BY <1>5, <1>7, <1>8, <1>9 DEF IntegerCodes

-----------------------------------------------------------------------------
(* The element the cursor carries is what next() reads where the last call *)
(* started; next_view() and skip() carry none.                             *)
ElementRead ==
    ret = 1 /\ IsInt(el) =>
        /\ from \in 0..Len(buf)
        /\ Next(buf, from).rc = 1 /\ Next(buf, from).el = el /\ Next(buf, from).pos = pos

LEMMA ElementReadStep ==
    ASSUME Inv, ElementRead, [ReaderNext]_vars
    PROVE  ElementRead'
  <1>1. CASE CallNext
    <2> DEFINE r == Next(buf, pos)
    <2>1. buf' = buf /\ from' = pos /\ pos' = r.pos /\ ret' = r.rc /\ el' = r.el
      BY <1>1 DEF CallNext
    <2>2. pos \in 0..Len(buf)
      BY DEF Inv, PosInBounds
    <2> HIDE DEF r
    <2>3. Next(buf', from') = r
      BY <2>1 DEF r
    <2>4. QED
      BY <2>1, <2>2, <2>3 DEF ElementRead
  <1>2. CASE CallNextView
    <2>1. el' = NoElement
      BY <1>2 DEF CallNextView
    <2>2. ~IsInt(NoElement)
      BY DEF IsInt, NoElement
    <2>3. QED
      BY <2>1, <2>2 DEF ElementRead
  <1>3. CASE UNCHANGED vars
    BY <1>3 DEF ElementRead, vars
  <1>4. QED
    BY <1>1, <1>2, <1>3 DEF ReaderNext

(* Strict decode: every integer next() accepts, wherever it stands in      *)
(* whatever bytes, occupies exactly the bytes struple_append_int writes    *)
(* for it, the one integer decoded to a wrong magnitude left out.  No      *)
(* value has two encodings that the reader accepts.                        *)
THEOREM IntegersStrict == Spec => []StrictInts
  <1>1. Init => ElementRead
    <2>1. ~IsInt(NoElement)
      BY DEF IsInt, NoElement
    <2>2. QED
      BY <2>1 DEF Init, ElementRead
  <1>2. Inv /\ ElementRead /\ [ReaderNext]_vars => ElementRead'
    BY ElementReadStep
  <1>3. Inv /\ ElementRead => StrictInts
    <2> SUFFICES ASSUME Inv, ElementRead, ret = 1, IsInt(el), el.mag # << 0 >>
                 PROVE  EncInt(el.neg, el.mag) = Consumed
      BY DEF StrictInts
    <2>1. buf \in Seq(Byte) /\ from \in 0..Len(buf)
      BY DEF Inv, TypeOK, ElementRead
    <2>2. Next(buf, from).rc = 1 /\ Next(buf, from).el = el /\ Next(buf, from).pos = pos
      BY DEF ElementRead
    <2>3. Next(buf, from).el.kind \in Integers /\ Next(buf, from).el.mag # <<0>>
      BY <2>2 DEF IsInt, Integers
    <2>4. EncInt(el.neg, el.mag) = Bytes(buf, from, pos - from)
      BY <2>1, <2>2, <2>3, NextStrict
    <2>5. QED
      BY <2>4 DEF Consumed
  <1>4. QED
    BY <1>1, <1>2, <1>3, Invariance, PTL DEF Spec
-----------------------------------------------------------------------------
(* INT64_MAX is half of the slot of int64, less one.                       *)
LEMMA NativeTopNumber ==
    /\ NativeTop = 128 * Power[NativeWidth - 1] - 1
    /\ Power[NativeWidth - 1] \in Nat \ {0}
    /\ Power[NativeWidth] = 256 * Power[NativeWidth - 1]
    /\ NativeWidth - 1 \in Nat
  <1>1. NativeWidth - 1 \in Nat /\ (NativeWidth - 1) + 1 = NativeWidth
    BY WidthAssumption
  <1>2. QED
    BY <1>1, PowerUnfold DEF NativeTop

(* What an outcome of one port has to share with one of the other.         *)
Alike(r, s) == r.rc = s.rc /\ (r.rc = 1 => r.pos = s.pos /\ SameElement(r.el, s.el))

(* The outcome of read_fixed_int of either port, for a slot of n bytes.    *)
IntAlike(n, neg, mag, x) == SameElement(IntElement(n, neg, mag), x)

(* The native integer of value v, or the magnitude of it.                  *)
LEMMA PositiveAlike ==
    ASSUME NEW p \in Seq(Byte), p # <<>> => p[1] # 0
    PROVE  IntAlike(Len(p), FALSE, p, IF Len(p) <= NativeWidth THEN NarrowSlot(TRUE, p) ELSE WideSlot(TRUE, p))
  <1> DEFINE raw == BeToU64(p)
  <1>1. raw \in Nat
    BY BeToU64Unfold, NumberBound
  <1>2. NativeWidth \in Nat \ {0} /\ Len(p) \in Nat
    BY WidthAssumption, LenProperties
  <1>3. FitsSigned(FALSE, p, NativeWidth) <=> raw <= NativeTop
    <2>1. FitsSigned(FALSE, p, NativeWidth) <=> raw < 128 * Power[NativeWidth - 1]
      BY <1>2, FitsNumber
    <2> DEFINE Q == Power[NativeWidth - 1]
    <2>2. NativeTop = 128 * Q - 1 /\ Q \in Nat /\ (FitsSigned(FALSE, p, NativeWidth) <=> raw < 128 * Q)
      BY <2>1, NativeTopNumber
    <2> HIDE DEF raw, Q
    <2>3. raw < 128 * Q <=> raw <= 128 * Q - 1
      BY <1>1, <2>2
    <2>4. QED
      BY <2>2, <2>3, Zenon DEF raw, Q
  <1>4. NarrowSlot(TRUE, p) = IF raw <= NativeTop THEN Native(raw) ELSE Big(FALSE, p)
    BY DEF NarrowSlot
  <1>5. WideSlot(TRUE, p) = Big(FALSE, p)
    BY DEF WideSlot
  <1>6. IntElement(Len(p), FALSE, p) =
          [kind |-> IF Len(p) <= NativeWidth /\ raw <= NativeTop THEN "int" ELSE "bigint", neg |-> FALSE, mag |-> p]
    BY <1>3, Zenon DEF IntElement
  <1> DEFINE n == Len(p)
  <1>7. CASE n <= NativeWidth /\ raw <= NativeTop
    <2>1. IntElement(n, FALSE, p) = [kind |-> "int", neg |-> FALSE, mag |-> p]
      BY <1>6, <1>7, Zenon
    <2>2. NarrowSlot(TRUE, p) = Native(raw)
      BY <1>4, <1>7, Zenon
    <2>3. SameElement([kind |-> "int", neg |-> FALSE, mag |-> p], Native(raw))
      BY DEF SameElement, SignedValue, Native
    <2> HIDE DEF n, raw
    <2>4. QED
      BY <1>7, <2>1, <2>2, <2>3, Zenon DEF IntAlike, n
  <1>8. CASE ~(n <= NativeWidth /\ raw <= NativeTop)
    <2>1. IntElement(n, FALSE, p) = [kind |-> "bigint", neg |-> FALSE, mag |-> p]
      BY <1>6, <1>8, Zenon
    <2>2. (IF n <= NativeWidth THEN NarrowSlot(TRUE, p) ELSE WideSlot(TRUE, p)) = Big(FALSE, p)
      BY <1>4, <1>5, <1>8, Zenon
    <2>3. SameElement([kind |-> "bigint", neg |-> FALSE, mag |-> p], Big(FALSE, p))
      BY DEF SameElement, Big
    <2> HIDE DEF n, raw
    <2>4. QED
      BY <2>1, <2>2, <2>3, Zenon DEF IntAlike, n
  <1>9. QED
    BY <1>7, <1>8

(* Bytes that trim to nothing are all zero.                                *)
LEMMA ZeroBytes ==
    ASSUME NEW p \in Seq(Byte), Trimmed(p) = <<>>
    PROVE  p = Zeroes(Len(p))
  <1>1. \A i \in 1..Len(p) : p[i] = 0
    BY TrimmedNonempty
  <1>2. p = [i \in 1..Len(p) |-> p[i]]
    BY LenProperties
  <1>3. QED
    BY <1>1, <1>2 DEF Zeroes

(* The magnitude of a slot below zero is what is missing to the next       *)
(* power.                                                                  *)
LEMMA SlotNumber ==
    ASSUME NEW p \in Seq(Byte)
    PROVE  LET m == Trimmed(Negated(p))
           IN  /\ m \in Seq(Byte) /\ (m # <<>> => m[1] # 0)
               /\ m = <<>> <=> BeToU64(p) = 0
               /\ Trimmed(p) = <<>> <=> BeToU64(p) = 0
               /\ m # <<>> => BeToU64(m) = Power[Len(p)] - BeToU64(p) /\ ToBE(BeToU64(m)) = m
               /\ <<1>> \o p \in Seq(Byte) /\ (<<1>> \o p)[1] = 1 /\ Trimmed(<<1>> \o p) = <<1>> \o p
               /\ BeToU64(p) = 0 => BeToU64(<<1>> \o p) = Power[Len(p)]
               /\ BeToU64(p) \in Nat /\ BeToU64(p) < Power[Len(p)]
               /\ Power[Len(p)] \in Nat
  <1> DEFINE g == Negated(p)
             m == Trimmed(g)
             o == <<1>> \o p
  <1>1. g \in Seq(Byte) /\ Len(p) \in Nat
    BY NegatedBytes, LenProperties
  <1>2. m \in Seq(Byte) /\ (m # <<>> => m[1] # 0) /\ Trimmed(m) = m
    BY <1>1, TrimmedProperties, TrimmedTwice
  <1>3. BeToU64(p) \in Nat /\ BeToU64(p) < Power[Len(p)] /\ Power[Len(p)] \in Nat
    BY <1>1, NumberBound, PowerUnfold
  <1>4. BeToU64(g) = IF BeToU64(p) = 0 THEN 0 ELSE Power[Len(p)] - BeToU64(p)
    BY NumberNegated
  <1>5. BeToU64(g) = 0 <=> m = <<>>
    BY <1>1, NumberBytes
  <1>6. BeToU64(p) = 0 <=> Trimmed(p) = <<>>
    BY NumberBytes
  <1>7. BeToU64(m) = BeToU64(g)
    BY <1>1, NumberTrimmed
  <1>8. ToBE(BeToU64(m)) = m
    BY <1>2, NumberBytes
  <1>9. 1 \in Byte
    BY DEF Byte
  <1>10. <<1>> \in Seq(Byte) /\ Len(<<1>>) = 1 /\ <<1>>[1] = 1
    BY <1>9
  <1>11. o \in Seq(Byte) /\ o[1] = 1
    <2>1. 1 \in 1..(1 + Len(p))
      BY <1>1
    <2>2. QED
      BY <1>1, <1>10, <2>1, ConcatProperties
  <1>12. Trimmed(o) = o
    <2>1. o # <<>> => o[1] # 0
      BY <1>11
    <2>2. QED
      BY <1>11, <2>1, TrimmedIdentity, Zenon
  <1>13. BeToU64(o) = 1 * Power[Len(p)] + BeToU64(p)
    BY <1>9, NumberHead
  <1> HIDE DEF g, m, o
  <1>14. BeToU64(p) = 0 => BeToU64(o) = Power[Len(p)]
    BY <1>3, <1>13
  <1>15. m = <<>> <=> BeToU64(p) = 0
    <2> DEFINE raw == BeToU64(p)
               P == Power[Len(p)]
    <2>1. BeToU64(g) = 0 <=> raw = 0
      <3> HIDE DEF raw, P
      <3>1. BeToU64(g) = (IF raw = 0 THEN 0 ELSE P - raw) /\ raw \in Nat /\ P \in Nat /\ raw < P
        BY <1>3, <1>4 DEF raw, P
      <3>2. QED
        BY <3>1
    <2>2. QED
      BY <1>5, <2>1
  <1>16. QED
    BY <1>2, <1>3, <1>4, <1>6, <1>7, <1>8, <1>11, <1>12, <1>14, <1>15 DEF m, g, o

(* NarrowSlot of a negative, by cases.                                     *)
LEMMA NarrowNegative ==
    ASSUME NEW p, Len(p) \in Nat
    PROVE  LET raw == BeToU64(p)
               v   == Power[NativeWidth] - raw
           IN  /\ Len(p) < NativeWidth => NarrowSlot(FALSE, p) = Native(raw - Power[Len(p)])
               /\ Len(p) = NativeWidth /\ raw = 0 => NarrowSlot(FALSE, p) = Big(TRUE, <<1>> \o Zeroes(NativeWidth))
               /\ Len(p) = NativeWidth /\ raw # 0 =>
                    NarrowSlot(FALSE, p) = IF v <= NativeTop + 1 THEN Native(-v) ELSE Big(TRUE, ToBE(v))
  <1>1. NativeWidth \in Nat
    BY WidthAssumption
  <1>2. Len(p) < NativeWidth => ~(Len(p) = NativeWidth)
    BY <1>1
  <1>3. Len(p) = NativeWidth => ~(Len(p) < NativeWidth)
    BY <1>1
  <1>4. Len(p) < NativeWidth => NarrowSlot(FALSE, p) = Native(BeToU64(p) - Power[Len(p)])
    BY <1>2, Zenon DEF NarrowSlot
  <1>5. Len(p) = NativeWidth /\ BeToU64(p) = 0 => NarrowSlot(FALSE, p) = Big(TRUE, <<1>> \o Zeroes(NativeWidth))
    BY <1>3, Zenon DEF NarrowSlot
  <1>6. Len(p) = NativeWidth /\ BeToU64(p) # 0 =>
          NarrowSlot(FALSE, p) = IF Power[NativeWidth] - BeToU64(p) <= NativeTop + 1
                                 THEN Native(-(Power[NativeWidth] - BeToU64(p)))
                                 ELSE Big(TRUE, ToBE(Power[NativeWidth] - BeToU64(p)))
    BY <1>3, Zenon DEF NarrowSlot
  <1>7. QED
    BY <1>4, <1>5, <1>6, Zenon

(* A negative slot: the excess below 256^n, as magnitude and as int64.     *)
LEMMA NegativeAlike ==
    ASSUME NEW p \in Seq(Byte)
    PROVE  IntAlike(Len(p), TRUE, ExcessMagnitude(p),
                    IF Len(p) <= NativeWidth THEN NarrowSlot(FALSE, p) ELSE WideSlot(FALSE, p))
  <1> DEFINE m == Trimmed(Negated(p))
             n == Len(p)
             raw == BeToU64(p)
             P == Power[n]
             o == <<1>> \o p
             E == IF m = <<>> THEN o ELSE m
             v == P - raw
             Q == Power[NativeWidth - 1]
  <1>1. /\ m \in Seq(Byte) /\ (m # <<>> => m[1] # 0)
        /\ m = <<>> <=> raw = 0
        /\ Trimmed(p) = <<>> <=> raw = 0
        /\ m # <<>> => BeToU64(m) = P - raw /\ ToBE(BeToU64(m)) = m
        /\ o \in Seq(Byte) /\ o[1] = 1
        /\ raw = 0 => BeToU64(o) = P
        /\ raw \in Nat /\ raw < P
        /\ P \in Nat
    BY SlotNumber
  <1>2. NativeWidth \in Nat \ {0} /\ n \in Nat
    BY WidthAssumption, LenProperties
  <1>3. CASE n > NativeWidth
    <2>1. ExcessMagnitude(p) = IF m = <<>> THEN <<0>> ELSE m
      BY <1>2, <1>3 DEF ExcessMagnitude
    <2>2. WideSlot(FALSE, p) = Big(TRUE, IF m = <<>> THEN <<0>> ELSE m)
      BY DEF WideSlot
    <2>3. ~(n <= NativeWidth)
      BY <1>2, <1>3
    <2>4. \A x : IntElement(n, TRUE, x) = [kind |-> "bigint", neg |-> TRUE, mag |-> x]
      BY <2>3, Zenon DEF IntElement
    <2>5. \A x : SameElement([kind |-> "bigint", neg |-> TRUE, mag |-> x], Big(TRUE, x))
      BY DEF SameElement, Big
    <2>6. IntAlike(n, TRUE, ExcessMagnitude(p), WideSlot(FALSE, p))
      BY <2>1, <2>2, <2>4, <2>5, Zenon DEF IntAlike
    <2> HIDE DEF n
    <2>7. QED
      BY <2>3, <2>6, Zenon DEF n
  <1>4. CASE n <= NativeWidth
    <2>1. ExcessMagnitude(p) = E
      BY <1>4 DEF ExcessMagnitude
    <2>2. E \in Seq(Byte) /\ (E # <<>> => E[1] # 0)
      BY <1>1
    <2>3. BeToU64(E) = v /\ v \in Nat
      <3> HIDE DEF m, raw, P, o
      <3>1. QED
        BY <1>1
    <2>4. NativeTop + 1 = 128 * Q /\ Q \in Nat \ {0} /\ NativeTop = 128 * Q - 1
      <3> DEFINE T == NativeTop
      <3>1. T = 128 * Q - 1 /\ Q \in Nat \ {0}
        BY NativeTopNumber
      <3> HIDE DEF Q, T
      <3>2. T + 1 = 128 * Q
        BY <3>1
      <3>3. QED
        BY <3>1, <3>2 DEF T
    <2>5. FitsSigned(TRUE, E, NativeWidth) <=> v <= NativeTop + 1
      <3>1. FitsSigned(TRUE, E, NativeWidth) <=> BeToU64(E) < 128 * Q \/ BeToU64(E) = 128 * Q
        BY <1>2, <2>2, FitsNumber
      <3> HIDE DEF E, v, Q
      <3>2. v <= 128 * Q <=> v < 128 * Q \/ v = 128 * Q
        BY <2>3, <2>4
      <3>3. QED
        BY <2>3, <2>4, <3>1, <3>2, Zenon
    <2>6. IntElement(n, TRUE, E) = [kind |-> IF v <= NativeTop + 1 THEN "int" ELSE "bigint",
                                     neg |-> TRUE, mag |-> E]
      BY <1>4, <2>5, Zenon DEF IntElement
    <2>7. v <= NativeTop + 1 => SameElement(IntElement(n, TRUE, E), Native(-v))
      <3>1. SameElement([kind |-> "int", neg |-> TRUE, mag |-> E], Native(-BeToU64(E)))
        BY DEF SameElement, SignedValue, Native
      <3> HIDE DEF E, v, n
      <3>2. QED
        BY <2>3, <2>6, <3>1, Zenon
    <2>8. ~(v <= NativeTop + 1) => SameElement(IntElement(n, TRUE, E), Big(TRUE, E))
      <3>1. SameElement([kind |-> "bigint", neg |-> TRUE, mag |-> E], Big(TRUE, E))
        BY DEF SameElement, Big
      <3> HIDE DEF E, v, n
      <3>2. QED
        BY <2>6, <3>1, Zenon
    <2>9. CASE n < NativeWidth
      <3>1. NarrowSlot(FALSE, p) = Native(raw - P)
        BY <1>2, <2>9, NarrowNegative
      <3>2. P <= Q
        <4>1. NativeWidth - 1 - n \in Nat /\ n + (NativeWidth - 1 - n) = NativeWidth - 1
          <5> HIDE DEF n
          <5>1. QED
            BY <1>2, <2>9
        <4>2. Power[n] <= Power[n + (NativeWidth - 1 - n)]
          BY <1>2, <4>1, PowerMonotone
        <4>3. QED
          BY <4>1, <4>2
      <3>3. v <= 128 * Q /\ raw - P = -v
        <4> HIDE DEF P, raw, Q
        <4>1. QED
          BY <1>1, <2>4, <3>2
      <3> HIDE DEF E, v, P, raw, Q, n
      <3>4. SameElement(IntElement(n, TRUE, E), NarrowSlot(FALSE, p))
        BY <2>4, <2>7, <3>1, <3>3, Zenon
      <3>5. QED
        BY <1>4, <2>1, <3>4, Zenon DEF IntAlike, n
    <2>10. CASE n = NativeWidth /\ raw = 0
      <3>1. NarrowSlot(FALSE, p) = Big(TRUE, <<1>> \o Zeroes(NativeWidth))
        BY <1>2, <2>10, NarrowNegative
      <3>2. p = Zeroes(NativeWidth)
        BY <1>1, <2>10, ZeroBytes
      <3>3. E = <<1>> \o Zeroes(NativeWidth)
        BY <1>1, <2>10, <3>2
      <3>4. ~(v <= 128 * Q)
        <4>1. P = 256 * Q
          BY <2>10, NativeTopNumber
        <4> HIDE DEF P, Q, raw
        <4>2. QED
          BY <2>4, <2>10, <4>1
      <3> HIDE DEF E, v, P, raw, Q, n
      <3>5. SameElement(IntElement(n, TRUE, E), NarrowSlot(FALSE, p))
        BY <2>4, <2>8, <3>1, <3>3, <3>4, Zenon
      <3>6. QED
        BY <1>4, <2>1, <3>5, Zenon DEF IntAlike, n
    <2>11. CASE n = NativeWidth /\ raw # 0
      <3>1. NarrowSlot(FALSE, p) = IF v <= NativeTop + 1 THEN Native(-v) ELSE Big(TRUE, ToBE(v))
        BY <1>2, <2>11, NarrowNegative
      <3>2. E = m /\ ToBE(v) = E
        BY <1>1, <2>3, <2>11
      <3> HIDE DEF E, v, P, raw, n
      <3>3. SameElement(IntElement(n, TRUE, E), NarrowSlot(FALSE, p))
        BY <2>7, <2>8, <3>1, <3>2, Zenon
      <3>4. QED
        BY <1>4, <2>1, <3>3, Zenon DEF IntAlike, n
    <2>12. n < NativeWidth \/ n = NativeWidth
      BY <1>2, <1>4
    <2>13. QED
      BY <2>9, <2>10, <2>11, <2>12, Zenon
  <1>5. n > NativeWidth \/ n <= NativeWidth
    BY <1>2
  <1>6. QED
    BY <1>3, <1>4, <1>5, Zenon

-----------------------------------------------------------------------------
(* A checked take of n bytes gives n bytes.                                *)
LEMMA TakenSigned ==
    ASSUME NEW b \in Seq(Byte), NEW q \in 0..Len(b), NEW n \in Nat, CanTake(b, q, n), NEW neg \in BOOLEAN
    PROVE  /\ Signed(neg, Bytes(b, q, n)) \in Seq(Byte)
           /\ Len(Signed(neg, Bytes(b, q, n))) = n
  BY BytesProperties, ComplementBytes

(* Two failures are alike, wherever they stop.                             *)
LEMMA FailedAlike == \A k, l : Alike(Failed(k), Failed(l))
  BY DEF Alike, Failed

(* So are two elements that are the same.                                  *)
LEMMA DecodedAlikeIf == \A k, e, x : SameElement(e, x) => Alike(Decoded(k, e), Decoded(k, x))
  BY DEF Alike, Decoded

(* read_fixed_int of the two ports.                                        *)
LEMMA FixedIntAlike ==
    ASSUME NEW b \in Seq(Byte), NEW q \in 0..Len(b), NEW t \in FixedNeg \cup FixedPos
    PROVE  Alike(ReadFixedInt(b, t, q), CppFixedInt(b, t, q))
  <1> DEFINE n == SlotWidth(t)
             p == Bytes(b, q, n)
             positive == t > INT_ZERO
             bad == \/ positive /\ p[1] = 0
                    \/ ~positive /\ p[1] = 255 /\ n > 1
                    \/ n = FixedWidth /\ positive /\ p[1] >= 128
                    \/ n = FixedWidth /\ ~positive /\ p[1] < 128
             e == IF positive THEN IntElement(n, FALSE, p) ELSE IntElement(n, TRUE, ExcessMagnitude(p))
             x == IF n <= NativeWidth THEN NarrowSlot(positive, p) ELSE WideSlot(positive, p)
             r == ReadFixedInt(b, t, q)
             s == CppFixedInt(b, t, q)
  <1>1. n \in 1..16 /\ n \in Nat
    BY SlotWidthProperties
  <1>2. CASE ~CanTake(b, q, n)
    <2>1. r = Failed(q) /\ s = Failed(q)
      BY <1>2 DEF ReadFixedInt, CppFixedInt
    <2>2. QED
      BY <2>1, FailedAlike
  <1>3. CASE CanTake(b, q, n)
    <2>1. p \in Seq(Byte) /\ Len(p) = n
      BY <1>1, <1>3, BytesProperties
    <2>2. p[1] \in 0..255 /\ p # <<>>
      <3>1. p[1] \in Byte
        BY <1>1, <2>1, ElementOfSeq
      <3>2. QED
        BY <1>1, <2>1, <3>1, EmptySeq DEF Byte
    <2>3. NonMinimalSlot(positive, p) <=> bad
      <3>1. p[1] < 128 <=> ~(p[1] >= 128)
        <4> DEFINE y == p[1]
        <4> HIDE DEF y
        <4>1. y \in 0..255
          BY <2>2 DEF y
        <4>2. y < 128 <=> ~(y >= 128)
          BY <4>1
        <4>3. QED
          BY <4>2 DEF y
      <3> HIDE DEF p, n
      <3>2. NonMinimalSlot(TRUE, p) <=> p[1] = 0 \/ (n = FixedWidth /\ p[1] >= 128)
        BY <2>1, Zenon DEF NonMinimalSlot
      <3>3. NonMinimalSlot(FALSE, p) <=> (p[1] = 255 /\ n > 1) \/ (n = FixedWidth /\ ~(p[1] >= 128))
        BY <2>1, Zenon DEF NonMinimalSlot
      <3>4. positive = TRUE \/ positive = FALSE
        OBVIOUS
      <3> HIDE DEF positive
      <3>5. QED
        BY <3>1, <3>2, <3>3, <3>4, Zenon
    <2>4. r = IF NonMinimalSlot(positive, p) THEN Failed(q + n) ELSE Decoded(q + n, e)
      BY <1>3, Zenon DEF ReadFixedInt
    <2>5. s = IF bad THEN Failed(q + n) ELSE Decoded(q + n, x)
      BY <1>3, Zenon DEF CppFixedInt
    <2>6. CASE bad
      <3>1. r = Failed(q + n) /\ s = Failed(q + n)
        BY <2>3, <2>4, <2>5, <2>6, Zenon
      <3>2. QED
        BY <3>1, FailedAlike
    <2>7. CASE ~bad
      <3>1. positive => SameElement(e, x)
        <4> SUFFICES ASSUME positive PROVE SameElement(e, x)
          OBVIOUS
        <4>1. positive = TRUE
          OBVIOUS
        <4>2. p[1] # 0
          BY <2>7
        <4>3. IntAlike(n, FALSE, p, IF n <= NativeWidth THEN NarrowSlot(TRUE, p) ELSE WideSlot(TRUE, p))
          BY <2>1, <4>2, PositiveAlike
        <4> HIDE DEF p, n, bad, positive
        <4>4. QED
          BY <4>1, <4>3, Zenon DEF IntAlike
      <3>2. ~positive => SameElement(e, x)
        <4> SUFFICES ASSUME ~positive PROVE SameElement(e, x)
          OBVIOUS
        <4>1. positive = FALSE
          OBVIOUS
        <4>3. IntAlike(n, TRUE, ExcessMagnitude(p), IF n <= NativeWidth THEN NarrowSlot(FALSE, p) ELSE WideSlot(FALSE, p))
          BY <2>1, NegativeAlike
        <4> HIDE DEF p, n, bad, positive
        <4>4. QED
          BY <4>1, <4>3, Zenon DEF IntAlike
      <3>3. r = Decoded(q + n, e) /\ s = Decoded(q + n, x)
        BY <2>3, <2>4, <2>5, <2>7, Zenon
      <3> HIDE DEF e, x, r, s, n, positive
      <3>4. QED
        BY <3>1, <3>2, <3>3, DecodedAlikeIf, Zenon DEF r, s
    <2>8. QED
      BY <2>6, <2>7
  <1>4. QED
    BY <1>2, <1>3

-----------------------------------------------------------------------------
(* The two length headers: MagLens holds the length C++ reads, when it can *)
(* be taken.                                                               *)
LEMMA HeaderAlike ==
    ASSUME NEW b \in Seq(Byte), NEW q \in 0..Len(b), NEW neg \in BOOLEAN,
           CanTake(b, q, 1), LenBytes(b, neg, q) <= LenOfLen, CanTake(b, q + 1, LenBytes(b, neg, q))
    PROVE  LET m == LenBytes(b, neg, q)
               h == CppLength(b, neg, q)
           IN  /\ m \in Nat /\ q + 1 + m \in 0..Len(b)
               /\ h.rc = 1 /\ h.pos = q + 1 + m /\ h.el \in Nat
               /\ MagLens(b, neg, q) = IF CanTake(b, q + 1 + m, h.el) THEN {h.el} ELSE {}
  <1> DEFINE m == LenBytes(b, neg, q)
             h == CppLength(b, neg, q)
             p == Signed(neg, Bytes(b, q + 1, m))
             S == 0..(Len(b) - (q + 1 + m))
  <1>1. m \in Nat /\ q \in Nat /\ Len(b) \in Nat
    BY SignedByte, ByteProperties, LenProperties DEF LenBytes
  <1>2. q + 1 \in 0..Len(b) /\ q + 1 + m \in 0..Len(b)
    BY <1>1 DEF CanTake
  <1>3. p \in Seq(Byte) /\ BeToU64(p) \in Nat
    BY <1>1, <1>2, TakenSigned, NumberBound
  <1>4. ~(m > LenOfLen)
    BY <1>1, WidthAssumption
  <1>5. h = Decoded(q + 1 + m, BeToU64(p))
    BY <1>4, Zenon DEF CppLength, LenBytes
  <1>6. MagLens(b, neg, q) = DecodedIn(p, S)
    BY DEF MagLens
  <1>7. DecodedIn(p, S) = IF BeToU64(p) \in S THEN {BeToU64(p)} ELSE {}
    <2>1. S \in SUBSET Nat
      BY <1>1
    <2> HIDE DEF S
    <2>2. QED
      BY <1>3, <2>1, NumberFound
  <1>8. BeToU64(p) \in S <=> CanTake(b, q + 1 + m, BeToU64(p))
    <2> DEFINE v == BeToU64(p)
    <2> HIDE DEF v, p, m
    <2>1. v \in Nat
      BY <1>3 DEF v
    <2>2. v \in S <=> CanTake(b, q + 1 + m, v)
      BY <1>1, <2>1 DEF CanTake
    <2>3. QED
      BY <2>2 DEF v
  <1> HIDE DEF m, p, S
  <1>9. h.rc = 1 /\ h.pos = q + 1 + m /\ h.el = BeToU64(p)
    BY <1>5 DEF Decoded
  <1>10. QED
    BY <1>1, <1>2, <1>3, <1>6, <1>7, <1>8, <1>9, Zenon DEF m

(* Where the C reader has no header, the C++ reader throws.                *)
LEMMA HeaderFails ==
    ASSUME NEW b \in Seq(Byte), NEW q \in 0..Len(b), NEW neg \in BOOLEAN,
           ~CanTake(b, q, 1) \/ LenBytes(b, neg, q) > LenOfLen \/ ~CanTake(b, q + 1, LenBytes(b, neg, q))
    PROVE  CppLength(b, neg, q).rc = -1
  BY DEF CppLength, LenBytes, Failed

(* read_big_int of the two ports.                                          *)
LEMMA BigIntAlike ==
    ASSUME NEW b \in Seq(Byte), NEW q \in 0..Len(b), NEW t \in {INT_NEG_BIG, INT_POS_BIG}
    PROVE  Alike(ReadBigInt(b, t, q), CppBigInt(b, t = INT_NEG_BIG, q))
  <1> DEFINE neg == t = INT_NEG_BIG
             m == LenBytes(b, neg, q)
             h == CppLength(b, neg, q)
             lens == MagLens(b, neg, q)
             r == ReadBigInt(b, t, q)
             s == CppBigInt(b, neg, q)
             wide == CanTake(b, q, 1) /\ ~(m > LenOfLen) /\ CanTake(b, q + 1, m)
  <1>1. neg \in BOOLEAN
    OBVIOUS
  <1>2. CASE ~wide
    <2>1. h.rc = -1
      BY <1>1, <1>2, HeaderFails, Zenon
    <2>2. s.rc = -1
      BY <2>1 DEF CppBigInt
    <2>3. r.rc = -1
      <3>1. r = Failed(q) \/ r = Failed(q + 1)
        BY <1>2, Zenon DEF ReadBigInt
      <3> HIDE DEF r
      <3>2. QED
        BY <3>1 DEF Failed
    <2> HIDE DEF r, s
    <2>4. QED
      BY <2>2, <2>3 DEF Alike, r, s
  <1>3. CASE wide
    <2> DEFINE n == h.el
               mag == Signed(neg, Bytes(b, q + 1 + m, n))
    <2>1. m \in Nat
      BY <1>1, <1>3, SignedByte, ByteProperties DEF LenBytes
    <2>2. m <= LenOfLen
      BY <1>3, <2>1, WidthAssumption
    <2>3. /\ q + 1 + m \in 0..Len(b)
          /\ h.rc = 1 /\ h.pos = q + 1 + m /\ n \in Nat
          /\ lens = IF CanTake(b, q + 1 + m, n) THEN {n} ELSE {}
      BY <1>1, <1>3, <2>2, HeaderAlike
    <2>4. h.rc # -1
      BY <2>3
    <2>5. CASE ~CanTake(b, q + 1 + m, n)
      <3>1. s = Failed(h.pos)
        BY <2>3, <2>4, <2>5, Zenon DEF CppBigInt
      <3>2. r = Failed(q + 1 + m)
        BY <1>3, <2>3, <2>5, Zenon DEF ReadBigInt
      <3> HIDE DEF r, s
      <3>3. QED
        <4>1. Alike(r, s)
          BY <3>1, <3>2, FailedAlike, Zenon
        <4>2. QED
          BY <4>1 DEF r, s
    <2>6. CASE CanTake(b, q + 1 + m, n)
      <3>1. lens = {n} /\ FirstOf(lens) = n /\ lens # {}
        <4>1. lens = {n}
          BY <2>3, <2>6, Zenon
        <4>2. n \in Int
          BY <2>3
        <4> HIDE DEF lens, n
        <4>3. FirstOf({n}) = n
          BY <4>2, FirstOfOne
        <4>4. QED
          BY <4>1, <4>3
      <3>2. r = IF n = 0 \/ m # ByteLen(n) \/ mag[1] = 0 \/ FitsSigned(neg, mag, FixedWidth)
                THEN Failed(q + 1 + m + n)
                ELSE Decoded(q + 1 + m + n, [kind |-> "bigint", neg |-> neg, mag |-> mag])
        BY <1>3, <3>1, Zenon DEF ReadBigInt
      <3>3. h.pos - (q + 1) = m
        BY <2>1, <2>3
      <3>4. s = IF n = 0 \/ m # ByteLen(n) \/ mag[1] = 0 \/ FitsSigned(neg, mag, FixedWidth)
                THEN Failed(q + 1 + m + n)
                ELSE Decoded(q + 1 + m + n, Big(neg, mag))
        BY <2>3, <2>4, <2>6, <3>3, Zenon DEF CppBigInt
      <3> HIDE DEF r, s, n, m, lens, h, neg
      <3>5. SameElement([kind |-> "bigint", neg |-> neg, mag |-> mag], Big(neg, mag))
        BY DEF SameElement, Big
      <3>6. Alike(r, s)
        BY <3>2, <3>4, <3>5, FailedAlike, DecodedAlikeIf, Zenon
      <3>7. QED
        BY <3>6 DEF r, s, neg
    <2>7. QED
      BY <2>5, <2>6
  <1>4. QED
    BY <1>2, <1>3

-----------------------------------------------------------------------------
(* The exponent of a decimal.                                              *)
LEMMA ExponentValues ==
    ASSUME NEW t \in FixedNeg \cup FixedPos, NEW p \in Seq(Byte), Len(p) <= NativeWidth, p # <<>>
    PROVE  LET v == SlotValue(t > INT_ZERO, p)
           IN  /\ v \in Int
               /\ ExpValues(t, p) = IF InExpRange(v) THEN {v} ELSE {}
               /\ InExpRange(v) => ~(v > NativeTop \/ v < -(NativeTop + 1))
  <1> DEFINE raw == BeToU64(p)
             P == Power[Len(p)]
             v == SlotValue(t > INT_ZERO, p)
             g == Trimmed(Negated(p))
             o == <<1>> \o p
             M == MaxExp
             T == NativeTop
  <1>1. /\ raw \in Nat /\ raw < P /\ P \in Nat
        /\ g \in Seq(Byte) /\ (g = <<>> <=> raw = 0) /\ (Trimmed(p) = <<>> <=> raw = 0)
        /\ (g # <<>> => BeToU64(g) = P - raw)
        /\ o \in Seq(Byte) /\ (raw = 0 => BeToU64(o) = P)
    BY SlotNumber
  <1>2. M \in Nat \ {0} /\ M <= T /\ T \in Int
    <2>1. T \in Int
      <3> DEFINE Q == Power[NativeWidth - 1]
      <3>1. T = 128 * Q - 1 /\ Q \in Nat
        BY NativeTopNumber
      <3> HIDE DEF T, Q
      <3>2. QED
        BY <3>1
    <2>2. QED
      BY <2>1, WidthAssumption, NativeAssumption
  <1>3. \A i \in Int : InExpRange(i) <=> -(M + 1) <= i /\ i <= M
    BY DEF InExpRange
  <1>4. \A i \in Int : InExpRange(i) => ~(i > T \/ i < -(T + 1))
    <2> HIDE DEF M, T
    <2>1. QED
      BY <1>2, <1>3
  <1>5. CASE t > INT_ZERO
    <2>1. v = raw
      BY <1>5 DEF SlotValue
    <2>2. ExpValues(t, p) = DecodedIn(p, 0..M)
      BY <1>5 DEF ExpValues
    <2>3. DecodedIn(p, 0..M) = IF raw \in 0..M THEN {raw} ELSE {}
      <3>1. 0..M \in SUBSET Nat
        BY <1>2
      <3> HIDE DEF M, raw
      <3>2. QED
        BY <3>1, NumberFound DEF raw
    <2>4. raw \in 0..M <=> InExpRange(raw)
      <3> HIDE DEF raw, M
      <3>1. QED
        BY <1>1, <1>2, <1>3
    <2>5. v \in Int
      BY <1>1, <2>1
    <2> HIDE DEF v, raw
    <2>6. QED
      BY <1>4, <2>1, <2>2, <2>3, <2>4, <2>5, Zenon DEF v
  <1>6. CASE ~(t > INT_ZERO) /\ Len(p) = NativeWidth /\ raw = 0
    <2>1. v = -((P - raw) % P)
      BY <1>6 DEF SlotValue
    <2>2. v = 0
      <3> HIDE DEF v, P, raw
      <3>1. QED
        BY <1>1, <1>6, <2>1
    <2>3. ExpValues(t, p) = {0}
      BY <1>1, <1>6 DEF ExpValues
    <2>4. 0 \in Int /\ InExpRange(0)
      <3> HIDE DEF M
      <3>1. QED
        BY <1>2, <1>3
    <2> HIDE DEF v
    <2>5. QED
      BY <1>4, <2>2, <2>3, <2>4, Zenon DEF v
  <1>7. CASE ~(t > INT_ZERO) /\ ~(Len(p) = NativeWidth /\ raw = 0)
    <2> DEFINE k == P - raw
               z == SlotMagnitude(p)
               F == DecodedIn(z, 1..(M + 1))
    <2>1. v = -k
      <3>1. v = IF Len(p) = NativeWidth THEN -((P - raw) % P) ELSE raw - P
        BY <1>7, Zenon DEF SlotValue
      <3>2. Len(p) = NativeWidth => raw # 0
        BY <1>7
      <3> HIDE DEF v, P, raw
      <3>3. raw - P = -k
        BY <1>1
      <3>4. raw # 0 => (P - raw) % P = k
        BY <1>1
      <3>5. QED
        BY <3>1, <3>2, <3>3, <3>4, Zenon
    <2>2. z \in Seq(Byte) /\ BeToU64(z) = k
      <3>1. z = IF raw = 0 THEN o ELSE g
        BY <1>1, Zenon DEF SlotMagnitude
      <3> HIDE DEF raw, P, o, g, z
      <3>2. QED
        BY <1>1, <3>1
    <2>3. F = IF k \in 1..(M + 1) THEN {k} ELSE {}
      <3>1. 1..(M + 1) \in SUBSET Nat
        BY <1>2
      <3> HIDE DEF z, k
      <3>2. QED
        BY <2>2, <3>1, NumberFound
    <2>4. ExpValues(t, p) = {-e : e \in F}
      BY <1>1, <1>7, Zenon DEF ExpValues
    <2>5. k \in Nat /\ v \in Int /\ (k \in 1..(M + 1) <=> InExpRange(v))
      <3>1. k \in Nat \ {0}
        <4> HIDE DEF P, raw
        <4>1. QED
          BY <1>1
      <3> HIDE DEF k, M, v
      <3>2. QED
        BY <1>2, <1>3, <2>1, <3>1
    <2>6. {-e : e \in F} = IF k \in 1..(M + 1) THEN {-k} ELSE {}
      <3> HIDE DEF F, k
      <3>1. QED
        BY <2>3
    <2> HIDE DEF v, k, F
    <2>7. QED
      BY <1>4, <2>1, <2>4, <2>5, <2>6, Zenon DEF v
  <1>8. QED
    BY <1>5, <1>6, <1>7

-----------------------------------------------------------------------------
(* Both ports read the same exponent, in the same bytes.                   *)
SameRead(r, s) == r.rc = s.rc /\ (r.rc = 1 => r.pos = s.pos /\ r.el = s.el)

(* read_dec_exponent of the two ports.                                     *)
LEMMA ExponentAlike ==
    ASSUME NEW b \in Seq(Byte), NEW q \in 0..Len(b), NEW neg \in BOOLEAN
    PROVE  SameRead(ReadExponent(b, neg, q), CppExponent(b, neg, q))
  <1> DEFINE t == Signed(neg, Bytes(b, q, 1))[1]
             n == SlotWidth(t)
             p == Signed(neg, Bytes(b, q + 1, n))
             v == SlotValue(t > INT_ZERO, p)
             r == ReadExponent(b, neg, q)
             s == CppExponent(b, neg, q)
  <1>1. \A k, l : SameRead(Failed(k), Failed(l))
    BY DEF SameRead, Failed
  <1>2. CASE \/ ~CanTake(b, q, 1)
             \/ t # INT_ZERO /\ (t \notin FixedNeg \cup FixedPos \/ ~CanTake(b, q + 1, n))
    <2>1. (r = Failed(q) \/ r = Failed(q + 1)) /\ (s = Failed(q) \/ s = Failed(q + 1))
      BY <1>2, Zenon DEF ReadExponent, CppExponent
    <2>2. SameRead(r, s)
      BY <1>1, <2>1, Zenon
    <2>3. QED
      BY <2>2
  <1>3. CASE CanTake(b, q, 1) /\ t = INT_ZERO
    <2>1. r = Decoded(q + 1, 0) /\ s = Decoded(q + 1, 0)
      BY <1>3, Zenon DEF ReadExponent, CppExponent
    <2>2. QED
      BY <2>1 DEF SameRead, Decoded
  <1>4. CASE CanTake(b, q, 1) /\ t # INT_ZERO /\ t \in FixedNeg \cup FixedPos /\ CanTake(b, q + 1, n)
    <2>1. r = IF n > NativeWidth \/ ExpValues(t, p) = {} THEN Failed(q + 1 + n)
              ELSE Decoded(q + 1 + n, FirstOf(ExpValues(t, p)))
      BY <1>4, Zenon DEF ReadExponent
    <2>2. s = IF n > NativeWidth \/ v > NativeTop \/ v < -(NativeTop + 1) THEN Failed(q + 1 + n)
              ELSE IF ~InExpRange(v) THEN Failed(q + 1 + n)
              ELSE Decoded(q + 1 + n, v)
      BY <1>4, Zenon DEF CppExponent
    <2>3. CASE n > NativeWidth
      <3>1. r = Failed(q + 1 + n) /\ s = Failed(q + 1 + n)
        BY <2>1, <2>2, <2>3, Zenon
      <3>2. SameRead(r, s)
        BY <1>1, <3>1, Zenon
      <3>3. QED
        BY <3>2
    <2>4. CASE ~(n > NativeWidth)
      <3>1. n \in 1..16 /\ n \in Nat /\ NativeWidth \in Nat
        BY <1>4, SlotWidthProperties, WidthAssumption
      <3>2. q + 1 \in 0..Len(b)
        BY <1>4, LenProperties DEF CanTake
      <3>3. p \in Seq(Byte) /\ Len(p) = n
        BY <1>4, <3>1, <3>2, TakenSigned
      <3>4. n <= NativeWidth
        BY <2>4, <3>1
      <3>5. p # <<>>
        BY <3>1, <3>3, EmptySeq
      <3>6. /\ v \in Int
            /\ ExpValues(t, p) = IF InExpRange(v) THEN {v} ELSE {}
            /\ InExpRange(v) => ~(v > NativeTop \/ v < -(NativeTop + 1))
        BY <1>4, <3>3, <3>4, <3>5, ExponentValues
      <3> HIDE DEF t, n, p, v, r, s
      <3>7. CASE InExpRange(v)
        <4>1. ExpValues(t, p) = {v} /\ FirstOf({v}) = v
          BY <3>6, <3>7, FirstOfOne
        <4>2. r = Decoded(q + 1 + n, v) /\ s = Decoded(q + 1 + n, v)
          BY <2>1, <2>2, <2>4, <3>6, <3>7, <4>1, Zenon
        <4>3. SameRead(r, s)
          BY <4>2 DEF SameRead
        <4>4. QED
          BY <4>3 DEF r, s
      <3>8. CASE ~InExpRange(v)
        <4>1. r = Failed(q + 1 + n) /\ s = Failed(q + 1 + n)
          BY <2>1, <2>2, <3>6, <3>8, Zenon
        <4>2. SameRead(r, s)
          BY <1>1, <4>1, Zenon
        <4>3. QED
          BY <4>2 DEF r, s
      <3>9. QED
        BY <3>7, <3>8
    <2>5. QED
      BY <2>3, <2>4
  <1>5. QED
    BY <1>2, <1>3, <1>4

-----------------------------------------------------------------------------
(* A pair byte above 100 shows in the digits.                              *)
LEMMA FlattenHas ==
    ASSUME NEW S, NEW s \in Seq(Seq(S)), NEW k \in 1..Len(s), s[k] # <<>>
    PROVE  \E i \in DOMAIN FlattenSeq(s) : FlattenSeq(s)[i] = s[k][1]
  <1> DEFINE P == {u \in Seq(Seq(S)) : \A j \in 1..Len(u) : u[j] # <<>> =>
                      \E i \in 1..Len(FlattenSeq(u)) : FlattenSeq(u)[i] = u[j][1]}
  <1>1. <<>> \in P
    BY EmptySeq
  <1>2. ASSUME NEW u \in P, NEW x \in Seq(S)
        PROVE  Append(u, x) \in P
    <2> DEFINE w == Append(u, x)
               f == FlattenSeq(u)
               g == FlattenSeq(w)
    <2>1. u \in Seq(Seq(S)) /\ Len(u) \in Nat
      BY LenProperties
    <2>2. g = f \o x /\ f \in Seq(S) /\ Len(f) \in Nat /\ Len(x) \in Nat
      BY <2>1, FlattenAppend, FlattenType, LenProperties
    <2>3. Len(g) = Len(f) + Len(x) /\ \A i \in 1..(Len(f) + Len(x)) : g[i] = IF i <= Len(f) THEN f[i] ELSE x[i - Len(f)]
      BY <2>2, ConcatProperties
    <2>4. w \in Seq(Seq(S)) /\ Len(w) = Len(u) + 1 /\ w[Len(u) + 1] = x /\ \A i \in 1..Len(u) : w[i] = u[i]
      BY <2>1, AppendProperties
    <2>5. ASSUME NEW j \in 1..Len(w), w[j] # <<>>
          PROVE  \E i \in 1..Len(g) : g[i] = w[j][1]
      <3>1. CASE j = Len(u) + 1
        <4>1. w[j] = x /\ x # <<>>
          BY <2>4, <2>5, <3>1
        <4>2. Len(x) >= 1
          BY <2>2, <4>1, EmptySeq
        <4> DEFINE i == Len(f) + 1
        <4>3. i \in 1..(Len(f) + Len(x)) /\ ~(i <= Len(f)) /\ i - Len(f) = 1
          BY <2>2, <4>2
        <4>4. g[i] = x[1]
          BY <2>3, <4>3
        <4> HIDE DEF i, g, f, w
        <4>5. QED
          BY <2>3, <4>1, <4>3, <4>4
      <3>2. CASE j # Len(u) + 1
        <4>1. j \in 1..Len(u) /\ w[j] = u[j]
          BY <2>1, <2>4, <3>2
        <4>2. PICK i \in 1..Len(f) : f[i] = u[j][1]
          BY <2>5, <4>1
        <4>3. i \in 1..(Len(f) + Len(x)) /\ i <= Len(f)
          BY <2>2
        <4>4. g[i] = u[j][1]
          BY <2>3, <4>2, <4>3
        <4> HIDE DEF g, f, w
        <4>5. QED
          BY <2>3, <4>1, <4>3, <4>4
      <3>3. QED
        BY <3>1, <3>2
    <2>6. QED
      BY <2>4, <2>5
  <1>3. s \in P
    <2> HIDE DEF P
    <2>1. P \in SUBSET Seq(Seq(S))
      BY DEF P
    <2>2. QED
      BY <1>1, <1>2, <2>1, SeqSetInduction
  <1>4. DOMAIN FlattenSeq(s) = 1..Len(FlattenSeq(s))
    BY FlattenType, LenProperties
  <1>5. QED
    BY <1>3, <1>4

(* The two digits of a pair byte; above 100 the first is over 9.           *)
LEMMA PairDigits ==
    \A a \in Byte : /\ (a - 1) \div 10 \in Int /\ (a - 1) % 10 \in Int
                    /\ a > 100 => (a - 1) \div 10 > 9
  BY DEF Byte

(* So a coefficient with such a pair has a digit over 9.                   *)
LEMMA OverfullDigits ==
    ASSUME NEW pairs \in Seq(Byte), NEW k \in 1..Len(pairs), pairs[k] > 100
    PROVE  \E i \in DOMAIN Digits(pairs) : Digits(pairs)[i] > 9
  <1> DEFINE d(j) == LET pair == pairs[j] - 1
                     IN  IF j = Len(pairs) /\ pair % 10 = 0 THEN <<pair \div 10>>
                         ELSE <<pair \div 10, pair % 10>>
             s == [j \in DOMAIN pairs |-> d(j)]
  <1>1. DOMAIN pairs = 1..Len(pairs) /\ Len(pairs) \in Nat
    BY LenProperties
  <1>2. ASSUME NEW j \in 1..Len(pairs)
        PROVE  d(j) \in Seq(Int) /\ d(j)[1] = (pairs[j] - 1) \div 10 /\ d(j) # <<>>
    <2>1. pairs[j] \in Byte
      BY <1>1, ElementOfSeq
    <2> DEFINE x == (pairs[j] - 1) \div 10
               y == (pairs[j] - 1) % 10
    <2>2. x \in Int /\ y \in Int
      BY <2>1, PairDigits
    <2> HIDE DEF x, y
    <2>3. <<x>> \in Seq(Int) /\ <<x, y>> \in Seq(Int) /\ <<x>>[1] = x /\ <<x, y>>[1] = x /\ <<x>> # <<>> /\ <<x, y>> # <<>>
      BY <2>2
    <2>4. d(j) = <<x>> \/ d(j) = <<x, y>>
      BY DEF x, y
    <2> HIDE DEF d
    <2>5. QED
      BY <2>3, <2>4 DEF x
  <1>3. s \in Seq(Seq(Int)) /\ Len(s) = Len(pairs) /\ s[k] = d(k)
    <2> HIDE DEF d
    <2>1. QED
      BY <1>1, <1>2
  <1>4. Digits(pairs) = FlattenSeq(s)
    BY DEF Digits
  <1> HIDE DEF s, d
  <1>5. PICK i \in DOMAIN FlattenSeq(s) : FlattenSeq(s)[i] = s[k][1]
    BY <1>2, <1>3, FlattenHas
  <1>6. s[k][1] = (pairs[k] - 1) \div 10
    BY <1>2, <1>3
  <1>7. (pairs[k] - 1) \div 10 > 9
    <2>1. pairs[k] \in Byte
      BY <1>1, ElementOfSeq
    <2>2. QED
      BY <2>1, PairDigits
  <1>8. QED
    BY <1>4, <1>5, <1>6, <1>7

-----------------------------------------------------------------------------
(* The digits after the exponent are the same, unless the C reader         *)
(* rejects a pair the C++ reader keeps.                                    *)
LEMMA CoefficientAlike ==
    ASSUME NEW b \in Seq(Byte), NEW neg \in BOOLEAN, NEW e, NEW x, SameRead(e, x),
           e.rc \in {-1, 1}, e.rc = 1 => e.pos \in 0..Len(b)
    PROVE  \/ Alike(DecimalAfter(b, neg, e), CppCoefficient(b, neg, x))
           \/ /\ DecimalAfter(b, neg, e).rc = -1
              /\ CppCoefficient(b, neg, x).rc = 1 /\ OverfullPair(CppCoefficient(b, neg, x).el)
  <1> DEFINE ends == DigitEnds(b, neg, e.pos)
             end == FirstOf(ends)
             r == DecimalAfter(b, neg, e)
             s == CppCoefficient(b, neg, x)
             pairs == Signed(neg, SubSeq(b, e.pos + 1, end - 1))
             digits == Digits(pairs)
             el1 == [kind |-> "decimal", neg |-> neg, digits |-> digits, exp |-> e.el - Len(digits)]
             el2 == [kind |-> "decimal", negative |-> neg, data |-> digits, dec_exp |-> e.el - Len(digits)]
  <1>1. CASE e.rc = -1
    <2>1. r = Failed(e.pos) /\ s = Failed(x.pos)
      BY <1>1 DEF DecimalAfter, CppCoefficient, SameRead
    <2> HIDE DEF r, s
    <2>2. Alike(r, s)
      BY <2>1, FailedAlike, Zenon
    <2>3. QED
      BY <2>2 DEF r, s
  <1>2. CASE e.rc = 1
    <2>1. x.rc = 1 /\ x.pos = e.pos /\ x.el = e.el /\ e.pos \in 0..Len(b)
      BY <1>2 DEF SameRead
    <2>2. Len(b) \in Nat /\ e.pos \in Nat
      BY <2>1, LenProperties
    <2>3. r = IF ends = {} THEN Failed(e.pos) ELSE ReadDigits(b, neg, e.el, e.pos, end)
      BY <1>2, Zenon DEF DecimalAfter, DigitEnds
    <2>4. ~(x.rc = -1) /\ ~(e.rc = -1)
      BY <1>2, <2>1
    <2>5. s = IF ends = {} \/ end = e.pos + 1 THEN Failed(e.pos) ELSE Decoded(end, el2)
      BY <2>1, <2>4, Zenon DEF CppCoefficient
    <2>6. CASE ends = {}
      <3>1. r = Failed(e.pos) /\ s = Failed(e.pos)
        BY <2>3, <2>5, <2>6, Zenon
      <3>2. Alike(r, s)
        BY <3>1, FailedAlike, Zenon
      <3>3. QED
        BY <3>2
    <2>7. CASE ends # {}
      <3>1. r = IF end = e.pos + 1 THEN Failed(e.pos)
                ELSE IF \E k \in DOMAIN pairs : pairs[k] \notin 1..100 THEN Failed(end)
                ELSE Decoded(end, el1)
        BY <2>3, <2>7, Zenon DEF ReadDigits
      <3>2. ends \in SUBSET Nat /\ ends \in SUBSET ((e.pos + 1)..Len(b))
        BY <2>2 DEF DigitEnds
      <3>3. end \in ends /\ \A i \in ends : end <= i
        BY <2>7, <3>2, FirstOfProperties
      <3>4. end \in (e.pos + 1)..Len(b)
        BY <3>2, <3>3
      <3>5. CASE end = e.pos + 1
        <4>1. r = Failed(e.pos) /\ s = Failed(e.pos)
          BY <2>5, <3>1, <3>5, Zenon
        <4>2. Alike(r, s)
          BY <4>1, FailedAlike, Zenon
        <4>3. QED
          BY <4>2
      <3>6. CASE end # e.pos + 1 /\ \A k \in DOMAIN pairs : pairs[k] \in 1..100
        <4>1. r = Decoded(end, el1) /\ s = Decoded(end, el2)
          BY <2>5, <2>7, <3>1, <3>6, Zenon
        <4>2. SameElement(el1, el2)
          <5> HIDE DEF digits
          <5>1. QED
            BY DEF SameElement
        <4> HIDE DEF r, s, el1, el2
        <4>3. Alike(r, s)
          BY <4>1, <4>2, DecodedAlikeIf, Zenon
        <4>4. QED
          BY <4>3 DEF r, s
      <3>7. CASE end # e.pos + 1 /\ \E k \in DOMAIN pairs : pairs[k] \notin 1..100
        <4>1. r = Failed(end) /\ s = Decoded(end, el2)
          BY <2>5, <2>7, <3>1, <3>7, Zenon
        <4> DEFINE n == end - 1 - e.pos
                   raw == Bytes(b, e.pos, n)
        <4>2. n \in Nat /\ e.pos + n = end - 1 /\ CanTake(b, e.pos, n)
          <5> HIDE DEF end
          <5>1. QED
            BY <2>2, <3>4 DEF CanTake
        <4>3. SubSeq(b, e.pos + 1, end - 1) = raw
          BY <4>2, Zenon DEF Bytes
        <4>4. raw \in Seq(Byte) /\ Len(raw) = n /\ (\A k \in 1..n : raw[k] = b[e.pos + k]) /\ DOMAIN raw = 1..n
          BY <2>1, <4>2, BytesProperties
        <4>5. pairs \in Seq(Byte) /\ Len(pairs) = n /\ DOMAIN pairs = 1..n
          <5>1. pairs = Signed(neg, raw)
            BY <4>3, Zenon
          <5> HIDE DEF raw, pairs, n
          <5>2. QED
            BY <4>4, <5>1, ComplementBytes, LenProperties
        <4>6. \A k \in 1..n : pairs[k] = IF neg THEN 255 - b[e.pos + k] ELSE b[e.pos + k]
          <5>1. pairs = IF neg THEN Complement(raw) ELSE raw
            BY <4>3, Zenon DEF Signed
          <5>2. \A k \in 1..n : Complement(raw)[k] = 255 - raw[k]
            BY <4>4 DEF Complement
          <5> HIDE DEF raw, pairs, n
          <5>3. QED
            BY <4>4, <5>1, <5>2
        <4>7. ASSUME NEW k \in 1..n
              PROVE  pairs[k] # 0
          <5>1. e.pos + k \in (e.pos + 1)..Len(b) /\ e.pos + k \in 1..Len(b) /\ e.pos + k < end
            <6> HIDE DEF end
            <6>1. QED
              BY <2>2, <3>4
          <5>2. e.pos + k \notin ends
            <6> DEFINE i == e.pos + k
            <6>1. i \in Nat /\ i < end /\ end \in Nat
              <7> HIDE DEF end
              <7>1. QED
                BY <2>2, <3>4, <5>1
            <6> HIDE DEF i, end
            <6>2. ~(end <= i)
              BY <6>1
            <6>3. QED
              BY <3>3, <6>2 DEF i
          <5>3. b[e.pos + k] # (IF neg THEN 255 ELSE 0)
            BY <5>1, <5>2, Zenon DEF DigitEnds
          <5>4. b[e.pos + k] \in Byte
            BY <5>1, ElementOfSeq
          <5> DEFINE y == b[e.pos + k]
          <5>5. pairs[k] = IF neg THEN 255 - y ELSE y
            BY <4>6
          <5> HIDE DEF y, pairs
          <5>6. y # (IF neg THEN 255 ELSE 0) /\ y \in Byte
            BY <5>3, <5>4 DEF y
          <5>7. QED
            BY <5>5, <5>6 DEF Byte
        <4>8. PICK k \in 1..n : pairs[k] \notin 1..100
          BY <3>7, <4>5
        <4>9. pairs[k] > 100
          <5>1. pairs[k] \in Byte /\ pairs[k] # 0
            BY <4>5, <4>7, ElementOfSeq
          <5> DEFINE y == pairs[k]
          <5>2. y \in Byte /\ y # 0 /\ y \notin 1..100
            BY <4>8, <5>1
          <5> HIDE DEF y
          <5>3. y > 100
            BY <5>2 DEF Byte
          <5>4. QED
            BY <5>3 DEF y
        <4>10. k \in 1..Len(pairs)
          BY <4>5
        <4> HIDE DEF pairs, n
        <4>11. \E i \in DOMAIN digits : digits[i] > 9
          BY <4>5, <4>9, <4>10, OverfullDigits
        <4>12. el2.kind = "decimal" /\ el2.data = digits
          OBVIOUS
        <4> HIDE DEF el2, digits
        <4>13. OverfullPair(el2)
          BY <4>11, <4>12, Zenon DEF OverfullPair
        <4> HIDE DEF r, s
        <4>14. r.rc = -1 /\ s.rc = 1 /\ s.el = el2
          BY <4>1 DEF Failed, Decoded
        <4>15. QED
          BY <4>13, <4>14 DEF r, s
      <3>8. QED
        BY <3>5, <3>6, <3>7, Zenon
    <2>8. QED
      BY <2>6, <2>7
  <1>3. QED
    BY <1>1, <1>2

(* read_decimal of the two ports, with that one exception.                 *)
LEMMA DecimalAlike ==
    ASSUME NEW b \in Seq(Byte), NEW q \in 0..Len(b)
    PROVE  \/ Alike(ReadDecimal(b, q), CppDecimal(b, q))
           \/ /\ ReadDecimal(b, q).rc = -1
              /\ CppDecimal(b, q).rc = 1 /\ OverfullPair(CppDecimal(b, q).el)
  <1> DEFINE neg == b[q + 1] = DEC_SIGN_NEG
             e == ReadExponent(b, neg, q + 1)
             x == CppExponent(b, neg, q + 1)
             r == ReadDecimal(b, q)
             s == CppDecimal(b, q)
             zero == [kind |-> "decimal", neg |-> FALSE, digits |-> <<>>, exp |-> 0]
  <1>1. CASE ~CanTake(b, q, 1)
    <2>1. r = Failed(q) /\ s = Failed(q)
      BY <1>1, Zenon DEF ReadDecimal, CppDecimal
    <2>2. Alike(r, s)
      BY <2>1, FailedAlike, Zenon
    <2>3. QED
      BY <2>2
  <1>2. CASE CanTake(b, q, 1) /\ b[q + 1] = DEC_SIGN_ZERO
    <2>1. r = Decoded(q + 1, zero) /\ s = Decoded(q + 1, CppZero)
      BY <1>2, Zenon DEF ReadDecimal, CppDecimal
    <2>2. SameElement(zero, CppZero)
      BY DEF SameElement, CppZero
    <2> HIDE DEF r, s, zero
    <2>3. Alike(r, s)
      BY <2>1, <2>2, DecodedAlikeIf, Zenon
    <2>4. QED
      BY <2>3 DEF r, s
  <1>3. CASE CanTake(b, q, 1) /\ b[q + 1] # DEC_SIGN_ZERO /\ b[q + 1] \notin {DEC_SIGN_NEG, DEC_SIGN_POS}
    <2>1. r = Failed(q + 1) /\ s = Failed(q + 1)
      BY <1>3, Zenon DEF ReadDecimal, CppDecimal
    <2>2. Alike(r, s)
      BY <2>1, FailedAlike, Zenon
    <2>3. QED
      BY <2>2
  <1>4. CASE CanTake(b, q, 1) /\ b[q + 1] # DEC_SIGN_ZERO /\ b[q + 1] \in {DEC_SIGN_NEG, DEC_SIGN_POS}
    <2>1. r = DecimalAfter(b, neg, e) /\ s = CppCoefficient(b, neg, x)
      BY <1>4, Zenon DEF ReadDecimal, CppDecimal
    <2>2. q + 1 \in 0..Len(b) /\ neg \in BOOLEAN
      BY <1>4, LenProperties DEF CanTake
    <2>3. SameRead(e, x)
      BY <2>2, ExponentAlike
    <2>4. Advances(x, q + 1, b)
      BY <2>2, CppExponentAdvances
    <2>5. e.rc \in {-1, 1} /\ (e.rc = 1 => e.pos \in 0..Len(b))
      BY <2>2, <2>3, <2>4, LenProperties DEF Advances, SameRead
    <2> HIDE DEF e, x, neg
    <2>6. QED
      BY <2>1, <2>2, <2>3, <2>5, CoefficientAlike
  <1>5. QED
    BY <1>1, <1>2, <1>3, <1>4

-----------------------------------------------------------------------------
(* take_framed finds the terminator framed_end finds.                      *)
LEMMA FramedAlike ==
    ASSUME NEW b, NEW q, NEW t \in Framed
    PROVE  Alike(ReadFramed(b, t, q), CppFramed(b, t, q))
  <1> DEFINE ends == Terminators(b, q)
             content == Unescaped(SubSeq(b, q + 1, FirstOf(ends) - 1))
             e == [kind |-> KindOf[t], data |-> content]
             x == IF t = STRING_CODE THEN [kind |-> "string", str |-> content, data |-> <<>>]
                  ELSE [kind |-> KindOf[t], data |-> content]
             r == ReadFramed(b, t, q)
             s == CppFramed(b, t, q)
  <1>1. CASE ends = {}
    <2>1. r = Failed(q) /\ s = Failed(q)
      BY <1>1, Zenon DEF ReadFramed, CppFramed
    <2>2. Alike(r, s)
      BY <2>1, FailedAlike, Zenon
    <2>3. QED
      BY <2>2
  <1>2. CASE ends # {}
    <2>1. r = Decoded(FirstOf(ends), e) /\ s = Decoded(FirstOf(ends), x)
      BY <1>2, Zenon DEF ReadFramed, CppFramed
    <2>2. KindOf[t] \in {"string", "bytes", "array", "map", "set"} /\ FramedCode[KindOf[t]] = t
      BY KindOfFramed DEF FramedCode
    <2>3. SameElement(e, x)
      <3> HIDE DEF content
      <3>1. CASE t = STRING_CODE
        <4>1. KindOf[t] = "string"
          BY <2>2, <3>1 DEF FramedCode, STRING_CODE, BYTES, ARRAY, MAP, SET
        <4>2. QED
          BY <3>1, <4>1 DEF SameElement
      <3>2. CASE t # STRING_CODE
        <4>1. KindOf[t] \in {"bytes", "array", "map", "set"}
          BY <2>2, <3>2 DEF FramedCode
        <4> DEFINE k == KindOf[t]
        <4> HIDE DEF k
        <4>2. SameElement([kind |-> k, data |-> content], [kind |-> k, data |-> content])
          BY <4>1 DEF SameElement, k
        <4>3. QED
          BY <3>2, <4>2 DEF k
      <3>3. QED
        BY <3>1, <3>2
    <2> HIDE DEF r, s, e, x, ends
    <2>4. Alike(r, s)
      BY <2>1, <2>3, DecodedAlikeIf, Zenon
    <2>5. QED
      BY <2>4 DEF r, s
  <1>3. QED
    BY <1>1, <1>2

-----------------------------------------------------------------------------
(* A payload of n bytes is taken by both or by neither.                    *)
LEMMA PayloadAlike ==
    ASSUME NEW b, NEW q, NEW n, NEW e, NEW x, CanTake(b, q, n) => SameElement(e, x)
    PROVE  Alike(ReadPayload(b, q, n, e), ReadPayload(b, q, n, x))
  <1>1. CASE CanTake(b, q, n)
    BY <1>1, DecodedAlikeIf, Zenon DEF ReadPayload
  <1>2. CASE ~CanTake(b, q, n)
    BY <1>2, FailedAlike, Zenon DEF ReadPayload
  <1>3. QED
    BY <1>1, <1>2

(* An element that is its type code alone.                                 *)
LEMMA BareAlike ==
    ASSUME NEW b, NEW q, NEW t \in Bare
    PROVE  Alike(DecodeElement(b, t, q), CppElement(b, t, q)) /\ ConsumeElement(b, t, q) = Decoded(q, NoElement)
  <1> USE DEF Bare, Framed, NIL, UNDEF, BOOL_FALSE, BOOL_TRUE, INT_ZERO, INT_NEG_BIG, INT_POS_BIG, FLOAT32, FLOAT64,
              DECIMAL, TIMESTAMP, UUID, STRING_CODE, BYTES, ARRAY, MAP, SET
  <1>1. ConsumeElement(b, t, q) = Decoded(q, NoElement)
    BY NotFixed DEF ConsumeElement, OtherCodes
  <1>2. CASE t = NIL
    <2>1. /\ DecodeElement(b, t, q) = Decoded(q, [kind |-> "nil"])
          /\ CppElement(b, t, q) = Decoded(q, [kind |-> "nil"])
      BY <1>2, NotFixed DEF DecodeElement, CppElement, OtherCodes
    <2>2. SameElement([kind |-> "nil"], [kind |-> "nil"])
      BY DEF SameElement
    <2>3. QED
      BY <1>1, <2>1, <2>2, DecodedAlikeIf, Zenon
  <1>3. CASE t = UNDEF
    <2>1. /\ DecodeElement(b, t, q) = Decoded(q, [kind |-> "undef"])
          /\ CppElement(b, t, q) = Decoded(q, [kind |-> "undef"])
      BY <1>3, NotFixed DEF DecodeElement, CppElement, OtherCodes
    <2>2. SameElement([kind |-> "undef"], [kind |-> "undef"])
      BY DEF SameElement
    <2>3. QED
      BY <1>1, <2>1, <2>2, DecodedAlikeIf, Zenon
  <1>4. CASE t \in {BOOL_FALSE, BOOL_TRUE}
    <2> DEFINE v == t = BOOL_TRUE
    <2>1. /\ DecodeElement(b, t, q) = Decoded(q, [kind |-> "bool", val |-> v])
          /\ CppElement(b, t, q) = Decoded(q, [kind |-> "bool", boolean |-> v])
      <3>1. CASE t = BOOL_FALSE
        <4>1. v = FALSE
          BY <3>1
        <4>2. /\ DecodeElement(b, t, q) = Decoded(q, [kind |-> "bool", val |-> FALSE])
              /\ CppElement(b, t, q) = Decoded(q, [kind |-> "bool", boolean |-> FALSE])
          BY <3>1, NotFixed DEF DecodeElement, CppElement, OtherCodes
        <4> HIDE DEF v
        <4>3. QED
          BY <4>1, <4>2, Zenon
      <3>2. CASE t = BOOL_TRUE
        <4>1. v = TRUE
          BY <3>2
        <4>2. /\ DecodeElement(b, t, q) = Decoded(q, [kind |-> "bool", val |-> TRUE])
              /\ CppElement(b, t, q) = Decoded(q, [kind |-> "bool", boolean |-> TRUE])
          BY <3>2, NotFixed DEF DecodeElement, CppElement, OtherCodes
        <4> HIDE DEF v
        <4>3. QED
          BY <4>1, <4>2, Zenon
      <3>3. QED
        BY <1>4, <3>1, <3>2
    <2> HIDE DEF v
    <2>2. SameElement([kind |-> "bool", val |-> v], [kind |-> "bool", boolean |-> v])
      BY DEF SameElement
    <2>3. QED
      BY <1>1, <2>1, <2>2, DecodedAlikeIf, Zenon
  <1>5. CASE t = INT_ZERO
    <2>1. /\ DecodeElement(b, t, q) = Decoded(q, IntElement(0, FALSE, <<>>))
          /\ CppElement(b, t, q) = Decoded(q, Native(0))
      BY <1>5, NotFixed DEF DecodeElement, CppElement, OtherCodes
    <2>2. SameElement(IntElement(0, FALSE, <<>>), Native(0))
      <3>1. 0 <= NativeWidth /\ Len(<<>>) < NativeWidth
        BY WidthAssumption, EmptySeq
      <3>2. IntElement(0, FALSE, <<>>) = [kind |-> "int", neg |-> FALSE, mag |-> <<>>]
        BY <3>1, Zenon DEF IntElement, FitsSigned
      <3>3. BeToU64(<<>>) = 0
        BY BeToU64Unfold
      <3>4. SameElement([kind |-> "int", neg |-> FALSE, mag |-> <<>>], Native(BeToU64(<<>>)))
        BY DEF SameElement, SignedValue, Native
      <3>5. QED
        BY <3>2, <3>3, <3>4, Zenon
    <2>3. QED
      BY <1>1, <2>1, <2>2, DecodedAlikeIf, Zenon
  <1>6. QED
    BY <1>2, <1>3, <1>4, <1>5

(* An element with a payload of fixed length.                              *)
LEMMA PayloadsAlike ==
    ASSUME NEW b \in Seq(Byte), NEW q \in 0..Len(b), NEW t \in {FLOAT32, FLOAT64, TIMESTAMP, UUID}
    PROVE  Alike(DecodeElement(b, t, q), CppElement(b, t, q))
  <1> USE DEF Bare, Framed, NIL, UNDEF, BOOL_FALSE, BOOL_TRUE, INT_ZERO, INT_NEG_BIG, INT_POS_BIG, FLOAT32, FLOAT64,
              DECIMAL, TIMESTAMP, UUID, STRING_CODE, BYTES, ARRAY, MAP, SET
  <1>1. CASE t = FLOAT32
    <2> DEFINE v == DecFloatBits(Bytes(b, q, F32Width))
    <2>1. /\ DecodeElement(b, t, q) = ReadPayload(b, q, F32Width, [kind |-> "f32", bits |-> v])
          /\ CppElement(b, t, q) = ReadPayload(b, q, F32Width, [kind |-> "f32", bits |-> v])
      BY <1>1, NotFixed DEF DecodeElement, CppElement, OtherCodes
    <2> HIDE DEF v
    <2>2. SameElement([kind |-> "f32", bits |-> v], [kind |-> "f32", bits |-> v])
      BY DEF SameElement
    <2>3. QED
      BY <2>1, <2>2, PayloadAlike, Zenon
  <1>2. CASE t = FLOAT64
    <2> DEFINE v == DecFloatBits(Bytes(b, q, F64Width))
    <2>1. /\ DecodeElement(b, t, q) = ReadPayload(b, q, F64Width, [kind |-> "f64", bits |-> v])
          /\ CppElement(b, t, q) = ReadPayload(b, q, F64Width, [kind |-> "f64", bits |-> v])
      BY <1>2, NotFixed DEF DecodeElement, CppElement, OtherCodes
    <2> HIDE DEF v
    <2>2. SameElement([kind |-> "f64", bits |-> v], [kind |-> "f64", bits |-> v])
      BY DEF SameElement
    <2>3. QED
      BY <2>1, <2>2, PayloadAlike, Zenon
  <1>3. CASE t = UUID
    <2> DEFINE v == Bytes(b, q, UuidWidth)
    <2>1. /\ DecodeElement(b, t, q) = ReadPayload(b, q, UuidWidth, [kind |-> "uuid", data |-> v])
          /\ CppElement(b, t, q) = ReadPayload(b, q, UuidWidth, [kind |-> "uuid", data |-> v])
      BY <1>3, NotFixed DEF DecodeElement, CppElement, OtherCodes
    <2> HIDE DEF v
    <2>2. SameElement([kind |-> "uuid", data |-> v], [kind |-> "uuid", data |-> v])
      BY DEF SameElement
    <2>3. QED
      BY <2>1, <2>2, PayloadAlike, Zenon
  <1>4. CASE t = TIMESTAMP
    <2> DEFINE v == Bytes(b, q, NativeWidth)
               e == [kind |-> "timestamp", data |-> FlipSign(v)]
               x == [kind |-> "timestamp", integer |-> BeToU64(v) - (NativeTop + 1)]
    <2>1. /\ DecodeElement(b, t, q) = ReadPayload(b, q, NativeWidth, e)
          /\ CppElement(b, t, q) = ReadPayload(b, q, NativeWidth, x)
      BY <1>4, NotFixed DEF DecodeElement, CppElement, OtherCodes
    <2>2. ASSUME CanTake(b, q, NativeWidth)
          PROVE  SameElement(e, x)
      <3>1. NativeWidth \in Nat
        BY WidthAssumption
      <3>2. v \in [1..NativeWidth -> Byte]
        BY <2>2, <3>1, BytesProperties
      <3> HIDE DEF v
      <3>3. FlipSign(FlipSign(v)) = v
        BY <3>1, <3>2, FlipSignTwice
      <3>4. TwosComplement(FlipSign(v)) = BeToU64(v) - (NativeTop + 1)
        BY <3>3, Zenon DEF TwosComplement
      <3>5. \A d : SameElement([kind |-> "timestamp", data |-> d], [kind |-> "timestamp", integer |-> TwosComplement(d)])
        BY DEF SameElement
      <3>6. QED
        BY <3>4, <3>5, Zenon
    <2> HIDE DEF e, x
    <2>3. QED
      BY <2>1, <2>2, PayloadAlike, Zenon
  <1>5. QED
    BY <1>1, <1>2, <1>3, <1>4

(* Reader::next and struple_reader_next on the same element.               *)
LEMMA ElementAlike ==
    ASSUME NEW b \in Seq(Byte), NEW q \in 0..Len(b), NEW t
    PROVE  \/ Alike(DecodeElement(b, t, q), CppElement(b, t, q))
           \/ /\ DecodeElement(b, t, q).rc = -1
              /\ CppElement(b, t, q).rc = 1 /\ OverfullPair(CppElement(b, t, q).el)
  <1> USE DEF Bare, Framed, NIL, UNDEF, BOOL_FALSE, BOOL_TRUE, INT_ZERO, INT_NEG_BIG, INT_POS_BIG, FLOAT32, FLOAT64,
              DECIMAL, TIMESTAMP, UUID, STRING_CODE, BYTES, ARRAY, MAP, SET
  <1>1. CASE t \in Bare
    BY <1>1, BareAlike
  <1>2. CASE t \in FixedNeg \cup FixedPos
    <2>1. CppElement(b, t, q) = CppFixedInt(b, t, q)
      BY <1>2, FixedCodes DEF CppElement
    <2>2. DecodeElement(b, t, q) = ReadFixedInt(b, t, q)
      BY <1>2, FixedDispatch
    <2>3. Alike(ReadFixedInt(b, t, q), CppFixedInt(b, t, q))
      BY <1>2, FixedIntAlike
    <2>4. QED
      BY <2>1, <2>2, <2>3, Zenon
  <1>3. CASE t \in {INT_NEG_BIG, INT_POS_BIG}
    <2>1. CppElement(b, t, q) = CppBigInt(b, t = INT_NEG_BIG, q)
      BY <1>3, NotFixed DEF CppElement, OtherCodes
    <2>2. DecodeElement(b, t, q) = ReadBigInt(b, t, q)
      BY <1>3, BigIntDispatch
    <2>3. Alike(ReadBigInt(b, t, q), CppBigInt(b, t = INT_NEG_BIG, q))
      BY <1>3, BigIntAlike
    <2>4. QED
      BY <2>1, <2>2, <2>3, Zenon
  <1>4. CASE t \in {FLOAT32, FLOAT64, TIMESTAMP, UUID}
    BY <1>4, PayloadsAlike
  <1>5. CASE t = DECIMAL
    <2>1. CppElement(b, t, q) = CppDecimal(b, q)
      BY <1>5, NotFixed DEF CppElement, OtherCodes
    <2>2. DecodeElement(b, t, q) = ReadDecimal(b, q)
      BY <1>5, DecimalDispatch
    <2>3. QED
      BY <2>1, <2>2, DecimalAlike
  <1>6. CASE t \in Framed
    <2>1. CppElement(b, t, q) = CppFramed(b, t, q)
      BY <1>6, NotFixed DEF CppElement, OtherCodes
    <2>2. DecodeElement(b, t, q) = ReadFramed(b, t, q)
      BY <1>6, FramedDispatch
    <2>3. Alike(ReadFramed(b, t, q), CppFramed(b, t, q))
      BY <1>6, FramedAlike
    <2>4. QED
      BY <2>1, <2>2, <2>3, Zenon
  <1>7. CASE t \notin OtherCodes \cup FixedNeg \cup FixedPos
    <2>1. DecodeElement(b, t, q) = Failed(q)
      BY <1>7, NoCodeDispatch
    <2>2. CppElement(b, t, q) = Failed(q)
      BY <1>7 DEF CppElement, OtherCodes
    <2>3. QED
      BY <2>1, <2>2, FailedAlike, Zenon
  <1>8. QED
    BY <1>1, <1>2, <1>3, <1>4, <1>5, <1>6, <1>7 DEF OtherCodes

-----------------------------------------------------------------------------
(* A span of the C reader and what consume() passes over.                  *)
SpanAlike(s, c) == s.rc = c.rc /\ (s.rc = 1 => s.end = c.pos /\ c.el = NoElement)

(* No span, and a consume() that throws.                                   *)
LEMMA NoSpanAlike == \A k : SpanAlike(NoSpan, Failed(k))
  BY DEF SpanAlike, NoSpan, Failed

(* A span that ends where consume() stops.                                 *)
LEMMA SpanToAlike ==
    ASSUME NEW b, NEW k, k <= Len(b)
    PROVE  SpanAlike(SpanTo(b, k), Decoded(k, NoElement))
  BY DEF SpanAlike, SpanTo, Decoded

(* A span of n bytes and a take of n bytes.                                *)
LEMMA PastAlike ==
    ASSUME NEW b \in Seq(Byte), NEW q \in Nat, NEW n \in Nat
    PROVE  SpanAlike(SpanTo(b, q + n), Past(b, q, n))
  <1>1. Len(b) \in Nat
    BY LenProperties
  <1>2. CanTake(b, q, n) <=> q + n <= Len(b)
    BY <1>1 DEF CanTake
  <1>3. CASE q + n <= Len(b)
    <2>1. Past(b, q, n) = Decoded(q + n, NoElement)
      BY <1>2, <1>3, Zenon DEF Past, ReadPayload
    <2>2. QED
      BY <1>3, <2>1, SpanToAlike, Zenon
  <1>4. CASE ~(q + n <= Len(b))
    <2>1. Past(b, q, n) = Failed(q)
      BY <1>2, <1>4, Zenon DEF Past, ReadPayload
    <2>2. SpanTo(b, q + n).rc = -1 /\ Past(b, q, n).rc = -1
      BY <1>4, <2>1 DEF SpanTo, Failed
    <2>3. QED
      BY <2>2 DEF SpanAlike
  <1>5. QED
    BY <1>3, <1>4

(* The span of a big integer ends where consume() stops.                   *)
LEMMA BigIntSpanAlike ==
    ASSUME NEW b \in Seq(Byte), NEW q \in 0..Len(b), NEW t \in {INT_NEG_BIG, INT_POS_BIG}
    PROVE  SpanAlike(BigIntSpan(b, t, q), ConsumeBigInt(b, t = INT_NEG_BIG, q))
  <1> DEFINE neg == t = INT_NEG_BIG
             m == LenBytes(b, neg, q)
             h == CppLength(b, neg, q)
             lens == MagLens(b, neg, q)
             r == BigIntSpan(b, t, q)
             s == ConsumeBigInt(b, neg, q)
             wide == CanTake(b, q, 1) /\ ~(m > LenOfLen) /\ CanTake(b, q + 1, m)
  <1>1. neg \in BOOLEAN /\ (CanTake(b, q, 1) <=> ~(q >= Len(b)))
    BY LenProperties DEF CanTake
  <1>2. CASE ~wide
    <2>1. h.rc = -1
      BY <1>1, <1>2, HeaderFails, Zenon
    <2>2. s.rc = -1
      BY <2>1 DEF ConsumeBigInt
    <2>3. r = NoSpan
      BY <1>1, <1>2, Zenon DEF BigIntSpan
    <2> HIDE DEF r, s
    <2>4. SpanAlike(r, s)
      BY <2>2, <2>3 DEF SpanAlike, NoSpan
    <2>5. QED
      BY <2>4 DEF r, s
  <1>3. CASE wide
    <2> DEFINE n == h.el
               k == q + 1 + m
    <2>1. m \in Nat
      BY <1>1, <1>3, SignedByte, ByteProperties DEF LenBytes
    <2>2. m <= LenOfLen
      BY <1>3, <2>1, WidthAssumption
    <2>3. /\ k \in 0..Len(b)
          /\ h.rc = 1 /\ h.pos = k /\ n \in Nat
          /\ lens = IF CanTake(b, k, n) THEN {n} ELSE {}
      BY <1>1, <1>3, <2>2, HeaderAlike
    <2>4. h.rc # -1
      BY <2>3
    <2>5. s = Past(b, k, n)
      BY <2>3, <2>4, Zenon DEF ConsumeBigInt
    <2>6. r = IF lens = {} THEN NoSpan ELSE SpanTo(b, k + FirstOf(lens))
      BY <1>1, <1>3, Zenon DEF BigIntSpan
    <2>7. CASE ~CanTake(b, k, n)
      <3>1. s = Failed(k) /\ r = NoSpan
        BY <2>3, <2>5, <2>6, <2>7, Zenon DEF Past, ReadPayload
      <3>2. SpanAlike(r, s)
        BY <3>1, NoSpanAlike, Zenon
      <3>3. QED
        BY <3>2
    <2>8. CASE CanTake(b, k, n)
      <3>1. lens = {n}
        BY <2>3, <2>8, Zenon
      <3>2. n \in Int /\ k \in Nat
        BY <2>3
      <3>3. FirstOf(lens) = n /\ lens # {}
        <4> HIDE DEF lens, n
        <4>1. QED
          BY <3>1, <3>2, FirstOfOne
      <3>4. r = SpanTo(b, k + n)
        BY <2>6, <3>3, Zenon
      <3> HIDE DEF r, s, n, k
      <3>5. SpanAlike(r, s)
        BY <2>3, <2>5, <3>2, <3>4, PastAlike
      <3>6. QED
        BY <3>5 DEF r, s
    <2>9. QED
      BY <2>7, <2>8
  <1>4. QED
    BY <1>2, <1>3

(* The exponent of a decimal decides where its digits begin.               *)
LEMMA ExponentEnds ==
    ASSUME NEW b \in Seq(Byte), NEW q \in 0..Len(b), NEW neg \in BOOLEAN, CppExponent(b, neg, q).rc = 1
    PROVE  LET t == Signed(neg, Bytes(b, q, 1))[1]
           IN  /\ CanTake(b, q, 1) /\ t \in FixedNeg \cup FixedPos \cup {INT_ZERO}
               /\ CppExponent(b, neg, q).pos = q + 1 + (IF t = INT_ZERO THEN 0 ELSE SlotWidth(t))
  <1> DEFINE t == Signed(neg, Bytes(b, q, 1))[1]
             n == SlotWidth(t)
             v == SlotValue(t > INT_ZERO, Signed(neg, Bytes(b, q + 1, n)))
             r == CppExponent(b, neg, q)
  <1>1. \A k : Failed(k).rc # 1
    BY DEF Failed
  <1>2. \/ r \in {Failed(q), Failed(q + 1), Failed(q + 1 + n)}
        \/ CanTake(b, q, 1) /\ t = INT_ZERO /\ r = Decoded(q + 1, 0)
        \/ CanTake(b, q, 1) /\ t # INT_ZERO /\ t \in FixedNeg \cup FixedPos /\ r = Decoded(q + 1 + n, v)
    BY Zenon DEF CppExponent
  <1>3. \A k, x : Decoded(k, x).pos = k
    BY DEF Decoded
  <1> HIDE DEF t, n, v, r
  <1>4. \/ CanTake(b, q, 1) /\ t = INT_ZERO /\ r.pos = q + 1
        \/ CanTake(b, q, 1) /\ t # INT_ZERO /\ t \in FixedNeg \cup FixedPos /\ r.pos = q + 1 + n
    <2>1. r.rc = 1
      BY DEF r
    <2>2. r \notin {Failed(q), Failed(q + 1), Failed(q + 1 + n)}
      BY <1>1, <2>1, Zenon
    <2>3. QED
      BY <1>2, <1>3, <2>2, Zenon
  <1>5. CASE CanTake(b, q, 1) /\ t = INT_ZERO /\ r.pos = q + 1
    BY <1>5 DEF t, r
  <1>6. CASE CanTake(b, q, 1) /\ t # INT_ZERO /\ t \in FixedNeg \cup FixedPos /\ r.pos = q + 1 + n
    BY <1>6 DEF t, r, n
  <1>7. QED
    BY <1>4, <1>5, <1>6

(* Skipping a decimal: C++ also rejects what its exponent makes next()     *)
(* reject.                                                                 *)
LEMMA DecimalSpanAlike ==
    ASSUME NEW b \in Seq(Byte), NEW q \in 0..Len(b)
    PROVE  \/ SpanAlike(DecimalSpan(b, q), SkipDecimal(b, q))
           \/ SkipDecimal(b, q).rc = -1 /\ ReadDecimal(b, q).rc = -1
  <1> DEFINE neg == b[q + 1] = DEC_SIGN_NEG
             e == CppExponent(b, neg, q + 1)
             r == DecimalSpan(b, q)
             s == SkipDecimal(b, q)
             t == Signed(neg, Bytes(b, q + 1, 1))[1]
             digits == q + 2 + (IF t = INT_ZERO THEN 0 ELSE SlotWidth(t))
             ends == DigitEnds(b, neg, digits)
  <1>1. CanTake(b, q, 1) <=> ~(q >= Len(b))
    BY LenProperties DEF CanTake
  <1>2. CASE ~CanTake(b, q, 1)
    <2>1. r = NoSpan /\ s = Failed(q)
      BY <1>1, <1>2, Zenon DEF DecimalSpan, SkipDecimal
    <2>2. SpanAlike(r, s)
      BY <2>1, NoSpanAlike, Zenon
    <2>3. QED
      BY <2>2
  <1>3. CASE CanTake(b, q, 1) /\ b[q + 1] = DEC_SIGN_ZERO
    <2>1. r = SpanTo(b, q + 1) /\ s = Decoded(q + 1, NoElement)
      BY <1>1, <1>3, Zenon DEF DecimalSpan, SkipDecimal
    <2>2. q + 1 <= Len(b)
      BY <1>3, LenProperties DEF CanTake
    <2>3. SpanAlike(r, s)
      BY <2>1, <2>2, SpanToAlike, Zenon
    <2>4. QED
      BY <2>3
  <1>4. CASE CanTake(b, q, 1) /\ b[q + 1] # DEC_SIGN_ZERO /\ b[q + 1] \notin {DEC_SIGN_NEG, DEC_SIGN_POS}
    <2>1. r = NoSpan /\ s = Failed(q + 1)
      BY <1>1, <1>4, Zenon DEF DecimalSpan, SkipDecimal
    <2>2. SpanAlike(r, s)
      BY <2>1, NoSpanAlike, Zenon
    <2>3. QED
      BY <2>2
  <1>5. CASE CanTake(b, q, 1) /\ b[q + 1] # DEC_SIGN_ZERO /\ b[q + 1] \in {DEC_SIGN_NEG, DEC_SIGN_POS}
    <2>1. s = IF e.rc = -1 \/ DigitEnds(b, neg, e.pos) = {} THEN Failed(e.pos)
              ELSE Decoded(FirstOf(DigitEnds(b, neg, e.pos)), NoElement)
      BY <1>5, Zenon DEF SkipDecimal
    <2>2. q + 1 \in 0..Len(b) /\ neg \in BOOLEAN
      BY <1>5, LenProperties DEF CanTake
    <2>3. Advances(e, q + 1, b)
      BY <2>2, CppExponentAdvances
    <2>4. CASE e.rc = -1
      <3>1. s = Failed(e.pos)
        BY <2>1, <2>4, Zenon
      <3>2. SameRead(ReadExponent(b, neg, q + 1), e)
        BY <2>2, ExponentAlike
      <3>3. ReadExponent(b, neg, q + 1).rc # 1
        BY <2>4, <3>2 DEF SameRead
      <3>4. ReadDecimal(b, q) = Failed(ReadExponent(b, neg, q + 1).pos)
        BY <1>5, <3>3, Zenon DEF ReadDecimal, DecimalAfter
      <3> HIDE DEF s, e, neg
      <3>5. s.rc = -1 /\ ReadDecimal(b, q).rc = -1
        BY <3>1, <3>4 DEF Failed
      <3>6. QED
        BY <3>5 DEF s
    <2>5. CASE e.rc # -1
      <3>1. e.rc = 1
        BY <2>3, <2>5 DEF Advances
      <3>2. /\ CanTake(b, q + 1, 1) /\ t \in FixedNeg \cup FixedPos \cup {INT_ZERO}
            /\ e.pos = (q + 1) + 1 + (IF t = INT_ZERO THEN 0 ELSE SlotWidth(t))
        BY <2>2, <3>1, ExponentEnds
      <3>3. e.pos = digits
        <4> DEFINE w == IF t = INT_ZERO THEN 0 ELSE SlotWidth(t)
        <4> HIDE DEF t
        <4>1. w \in Nat
          BY <3>2, SlotWidthProperties
        <4> HIDE DEF w
        <4>2. (q + 1) + 1 + w = q + 2 + w
          BY <4>1
        <4>3. QED
          BY <3>2, <4>2, Zenon DEF w
      <3>4. ~(q >= Len(b)) /\ ~(q + 1 >= Len(b))
        BY <1>1, <1>5, <2>2, <3>2, LenProperties DEF CanTake
      <3>5. ends = {i \in (digits + 1)..Len(b) : b[i] = IF neg THEN 255 ELSE 0}
        BY DEF DigitEnds
      <3>6. r = IF ends = {} THEN NoSpan ELSE SpanTo(b, FirstOf(ends))
        BY <1>5, <3>2, <3>4, <3>5, Zenon DEF DecimalSpan
      <3>7. s = IF ends = {} THEN Failed(e.pos) ELSE Decoded(FirstOf(ends), NoElement)
        BY <2>1, <2>5, <3>3, Zenon
      <3>8. ends # {} => FirstOf(ends) <= Len(b)
        <4>1. digits \in Nat /\ Len(b) \in Nat
          BY <2>2, <2>3, <3>3, LenProperties DEF Advances
        <4> HIDE DEF digits
        <4>2. ends \in SUBSET Nat /\ \A i \in ends : i <= Len(b)
          BY <4>1 DEF DigitEnds
        <4> HIDE DEF ends
        <4>3. QED
          BY <4>2, FirstOfProperties
      <3> HIDE DEF r, s, ends
      <3>9. SpanAlike(r, s)
        BY <3>6, <3>7, <3>8, NoSpanAlike, SpanToAlike, Zenon
      <3>10. QED
        BY <3>9 DEF r, s
    <2>6. QED
      BY <2>4, <2>5
  <1>6. QED
    BY <1>2, <1>3, <1>4, <1>5

(* element_span and Reader::consume on the same element.                   *)
LEMMA SkippedAlike ==
    ASSUME NEW b \in Seq(Byte), NEW q \in 0..Len(b), NEW t
    PROVE  \/ SpanAlike(SpanAfter(b, t, q), ConsumeElement(b, t, q))
           \/ t = DECIMAL /\ ConsumeElement(b, t, q).rc = -1 /\ DecodeElement(b, t, q).rc = -1
  <1> USE DEF Bare, Framed, NIL, UNDEF, BOOL_FALSE, BOOL_TRUE, INT_ZERO, INT_NEG_BIG, INT_POS_BIG, FLOAT32, FLOAT64,
              DECIMAL, TIMESTAMP, UUID, STRING_CODE, BYTES, ARRAY, MAP, SET
  <1>1. CASE t \in Bare
    <2>1. SpanAfter(b, t, q) = SpanTo(b, q) /\ ConsumeElement(b, t, q) = Decoded(q, NoElement)
      BY <1>1, BareDispatch, BareAlike
    <2>2. q <= Len(b)
      BY LenProperties
    <2>3. QED
      BY <2>1, <2>2, SpanToAlike, Zenon
  <1>2. CASE t \in FixedNeg \cup FixedPos
    <2>1. ConsumeElement(b, t, q) = Past(b, q, SlotWidth(t))
      BY <1>2, FixedCodes DEF ConsumeElement
    <2>2. SpanAfter(b, t, q) = SpanTo(b, q + SlotWidth(t))
      BY <1>2, FixedDispatch
    <2>3. q \in Nat /\ SlotWidth(t) \in Nat
      BY <1>2, SlotWidthProperties
    <2>4. QED
      BY <2>1, <2>2, <2>3, PastAlike
  <1>3. CASE t \in {INT_NEG_BIG, INT_POS_BIG}
    <2>1. ConsumeElement(b, t, q) = ConsumeBigInt(b, t = INT_NEG_BIG, q)
      BY <1>3, NotFixed DEF ConsumeElement, OtherCodes
    <2>2. SpanAfter(b, t, q) = BigIntSpan(b, t, q)
      BY <1>3, BigIntDispatch
    <2>3. SpanAlike(BigIntSpan(b, t, q), ConsumeBigInt(b, t = INT_NEG_BIG, q))
      BY <1>3, BigIntSpanAlike
    <2>4. QED
      BY <2>1, <2>2, <2>3, Zenon
  <1>4. ASSUME NEW n \in Nat, SpanAfter(b, t, q) = SpanTo(b, q + n), ConsumeElement(b, t, q) = Past(b, q, n)
        PROVE  SpanAlike(SpanAfter(b, t, q), ConsumeElement(b, t, q))
    BY <1>4, PastAlike
  <1>5. CASE t = FLOAT32
    <2>1. SpanAfter(b, t, q) = SpanTo(b, q + F32Width) /\ ConsumeElement(b, t, q) = Past(b, q, F32Width)
      BY <1>5, NotFixed DEF SpanAfter, ConsumeElement, OtherCodes
    <2>2. QED
      BY <1>4, <2>1, WidthAssumption
  <1>6. CASE t = FLOAT64
    <2>1. SpanAfter(b, t, q) = SpanTo(b, q + F64Width) /\ ConsumeElement(b, t, q) = Past(b, q, F64Width)
      BY <1>6, NotFixed DEF SpanAfter, ConsumeElement, OtherCodes
    <2>2. QED
      BY <1>4, <2>1, WidthAssumption
  <1>7. CASE t = TIMESTAMP
    <2>1. SpanAfter(b, t, q) = SpanTo(b, q + NativeWidth) /\ ConsumeElement(b, t, q) = Past(b, q, NativeWidth)
      BY <1>7, NotFixed DEF SpanAfter, ConsumeElement, OtherCodes
    <2>2. QED
      BY <1>4, <2>1, WidthAssumption
  <1>8. CASE t = UUID
    <2>1. SpanAfter(b, t, q) = SpanTo(b, q + UuidWidth) /\ ConsumeElement(b, t, q) = Past(b, q, UuidWidth)
      BY <1>8, NotFixed DEF SpanAfter, ConsumeElement, OtherCodes
    <2>2. QED
      BY <1>4, <2>1, WidthAssumption
  <1>9. CASE t = DECIMAL
    <2>1. ConsumeElement(b, t, q) = SkipDecimal(b, q)
      BY <1>9, NotFixed DEF ConsumeElement, OtherCodes
    <2>2. DecodeElement(b, t, q) = ReadDecimal(b, q) /\ SpanAfter(b, t, q) = DecimalSpan(b, q)
      BY <1>9, DecimalDispatch
    <2>3. QED
      BY <1>9, <2>1, <2>2, DecimalSpanAlike
  <1>10. CASE t \in Framed
    <2> DEFINE ends == Terminators(b, q)
    <2>1. ConsumeElement(b, t, q) = IF ends = {} THEN Failed(q) ELSE Decoded(FirstOf(ends), NoElement)
      BY <1>10, NotFixed DEF ConsumeElement, OtherCodes
    <2>2. SpanAfter(b, t, q) = IF ends = {} THEN NoSpan ELSE SpanTo(b, FirstOf(ends))
      BY <1>10, FramedDispatch
    <2>3. ends # {} => FirstOf(ends) <= Len(b)
      BY CppFramedAdvances, LenProperties
    <2> HIDE DEF ends
    <2>4. QED
      BY <2>1, <2>2, <2>3, NoSpanAlike, SpanToAlike, Zenon
  <1>11. CASE t \notin OtherCodes \cup FixedNeg \cup FixedPos
    <2>1. ConsumeElement(b, t, q) = Failed(q)
      BY <1>11 DEF ConsumeElement, OtherCodes
    <2>2. SpanAfter(b, t, q) = NoSpan
      BY <1>11 DEF SpanAfter, OtherCodes
    <2>3. QED
      BY <2>1, <2>2, NoSpanAlike, Zenon
  <1>12. QED
    BY <1>1, <1>2, <1>3, <1>5, <1>6, <1>7, <1>8, <1>9, <1>10, <1>11 DEF OtherCodes

-----------------------------------------------------------------------------
(* Until some call of either reader fails, both cursors stand at one       *)
(* place.                                                                  *)
Together == ~failed /\ ~cpp.failed => pos = cpp.pos

(* What PortsAgree allows of a step.                                       *)
StepsAlike ==
    \/ /\ ret' = cpp'.rc
       /\ ret' = 1 => pos' = cpp'.pos /\ SameElement(el', cpp'.el)
    \/ /\ ret' = -1 /\ cpp'.rc = 1
       /\ OverfullPair(cpp'.el)
    \/ /\ ret' = 1 /\ cpp'.rc = -1
       /\ el' = NoElement
       /\ buf[pos + 1] = DECIMAL
       /\ Next(buf, pos).rc = -1

(* next() of both readers, from the same place.                            *)
LEMMA BothNextAlike ==
    ASSUME Inv, Together, ~failed, ~cpp.failed, BothNext
    PROVE  StepsAlike /\ Together'
  <1> DEFINE r == Next(buf, pos)
             x == CppNext(buf, pos)
  <1>1. cpp.pos = pos /\ buf \in Seq(Byte) /\ pos \in 0..Len(buf) /\ Len(buf) \in Nat
    BY LenProperties DEF Inv, TypeOK, PosInBounds, Together
  <1>2. pos' = r.pos /\ ret' = r.rc /\ el' = r.el /\ (failed' <=> r.rc = -1)
    BY DEF BothNext, CallNext
  <1>3. cpp' = [pos |-> x.pos, rc |-> x.rc, el |-> x.el, failed |-> cpp.failed \/ x.rc = -1]
    BY <1>1, Zenon DEF BothNext, CppCalled
  <1>4. cpp'.pos = x.pos /\ cpp'.rc = x.rc /\ cpp'.el = x.el /\ (cpp'.failed <=> x.rc = -1)
    <2> HIDE DEF x
    <2>1. QED
      BY <1>3
  <1>5. CASE pos >= Len(buf)
    <2>1. r.rc = 0 /\ x.rc = 0 /\ r.pos = pos /\ x.pos = pos
      BY <1>5 DEF Next, CppNext
    <2> HIDE DEF r, x
    <2>2. QED
      BY <1>2, <1>4, <2>1 DEF StepsAlike, Together
  <1>6. CASE ~(pos >= Len(buf))
    <2>1. pos + 1 \in 0..Len(buf)
      BY <1>1, <1>6
    <2>2. r = DecodeElement(buf, buf[pos + 1], pos + 1) /\ x = CppElement(buf, buf[pos + 1], pos + 1)
      BY <1>6, Zenon DEF Next, CppNext
    <2>3. Alike(r, x) \/ (r.rc = -1 /\ x.rc = 1 /\ OverfullPair(x.el))
      BY <1>1, <2>1, <2>2, ElementAlike, Zenon
    <2>4. Advances(r, pos + 1, buf)
      BY <1>1, <1>6, NextAdvances
    <2>5. r.rc = 1 \/ r.rc = -1
      BY <2>4 DEF Advances
    <2> HIDE DEF r, x
    <2>6. QED
      BY <1>2, <1>4, <2>3, <2>5 DEF StepsAlike, Together, Alike
  <1>7. QED
    BY <1>5, <1>6

(* A view of both readers, from the same place.                            *)
LEMMA BothViewAlike ==
    ASSUME Inv, Together, ~failed, ~cpp.failed, BothView
    PROVE  StepsAlike /\ Together'
  <1> DEFINE s == ElementSpan(buf, pos)
             x == CppConsume(buf, pos)
  <1>1. cpp.pos = pos /\ buf \in Seq(Byte) /\ pos \in 0..Len(buf) /\ Len(buf) \in Nat
    BY LenProperties DEF Inv, TypeOK, PosInBounds, Together
  <1>2. pos' = (IF s.rc = 1 THEN s.end ELSE pos) /\ ret' = s.rc /\ el' = NoElement /\ (failed' <=> s.rc = -1)
    BY DEF BothView, CallNextView
  <1>3. cpp' = [pos |-> x.pos, rc |-> x.rc, el |-> x.el, failed |-> cpp.failed \/ x.rc = -1]
    BY <1>1, Zenon DEF BothView, CppCalled
  <1>4. cpp'.pos = x.pos /\ cpp'.rc = x.rc /\ cpp'.el = x.el /\ (cpp'.failed <=> x.rc = -1)
    <2> HIDE DEF x
    <2>1. QED
      BY <1>3
  <1>5. CASE pos >= Len(buf)
    <2>1. s.rc = 0 /\ x.rc = 0 /\ x.pos = pos
      BY <1>5 DEF ElementSpan, CppConsume
    <2> HIDE DEF s, x
    <2>2. QED
      BY <1>2, <1>4, <2>1 DEF StepsAlike, Together
  <1>6. CASE ~(pos >= Len(buf))
    <2> DEFINE t == buf[pos + 1]
    <2>1. pos + 1 \in 0..Len(buf)
      BY <1>1, <1>6
    <2>2. s = SpanAfter(buf, t, pos + 1) /\ x = ConsumeElement(buf, t, pos + 1)
      BY <1>6, Zenon DEF ElementSpan, CppConsume
    <2>3. Next(buf, pos) = DecodeElement(buf, t, pos + 1)
      BY <1>6, Zenon DEF Next
    <2>4. SpanAlike(s, x) \/ (t = DECIMAL /\ x.rc = -1 /\ Next(buf, pos).rc = -1)
      BY <1>1, <2>1, <2>2, <2>3, SkippedAlike, Zenon
    <2>5. s.rc = 1 \/ s.rc = -1
      BY <1>1, <1>6, SpanInBounds DEF Spans
    <2>6. SameElement(NoElement, NoElement)
      BY DEF SameElement, NoElement
    <2> HIDE DEF s, x
    <2>7. CASE SpanAlike(s, x)
      <3>1. ret' = cpp'.rc /\ (ret' = 1 => pos' = cpp'.pos /\ SameElement(el', cpp'.el))
        BY <1>2, <1>4, <2>6, <2>7, Zenon DEF SpanAlike
      <3>2. QED
        BY <1>2, <1>4, <2>5, <3>1 DEF StepsAlike, Together
    <2>8. CASE t = DECIMAL /\ x.rc = -1 /\ Next(buf, pos).rc = -1
      <3>1. Together'
        BY <1>4, <2>8, Zenon DEF Together
      <3>2. CASE s.rc = 1
        BY <1>2, <1>4, <2>8, <3>1, <3>2, Zenon DEF StepsAlike
      <3>3. CASE s.rc = -1
        BY <1>2, <1>4, <2>8, <3>1, <3>3 DEF StepsAlike
      <3>4. QED
        BY <2>5, <3>2, <3>3
    <2>9. QED
      BY <2>4, <2>7, <2>8
  <1>7. QED
    BY <1>5, <1>6

(* Whatever bytes the two readers are given, and whatever calls are made   *)
(* of both: up to the first error each element they decode is the same     *)
(* value and ends at the same place, and they report that error at the     *)
(* same call but for a pair byte above 100, which C++ takes for digits,    *)
(* and a skipped decimal whose exponent next() of either rejects.          *)
THEOREM PortsDecodeAlike == PortsSpec => PortsAgree
  <1>1. PortsInit => Inv /\ Together
    <2> SUFFICES ASSUME PortsInit PROVE Inv /\ Together
      OBVIOUS
    <2>1. buf \in Seq(Byte)
      BY BufferAssumption, Zenon DEF PortsInit, Init
    <2>2. Len(buf) \in Nat
      BY <2>1, LenProperties
    <2>3. failed \in BOOLEAN /\ pos = 0 /\ from = 0 /\ ret = 1 /\ cpp.pos = 0
      BY DEF PortsInit, Init, CppInit
    <2>4. QED
      BY <2>1, <2>2, <2>3 DEF Inv, TypeOK, PosInBounds, ReturnCode, Together
  <1>2. Inv /\ Together /\ [PortsNext]_<<vars, cpp>> => (Inv /\ Together)'
    <2> SUFFICES ASSUME Inv, Together, [PortsNext]_<<vars, cpp>>
                 PROVE  (Inv /\ Together)'
      OBVIOUS
    <2>1. Inv'
      BY Inductive DEF PortsNext, BothNext, BothView, ReaderNext, vars
    <2>2. CASE UNCHANGED <<vars, cpp>>
      BY <2>1, <2>2 DEF Together, vars
    <2>3. CASE PortsNext /\ ~failed /\ ~cpp.failed
      BY <2>1, <2>3, BothNextAlike, BothViewAlike DEF PortsNext
    <2>4. CASE PortsNext /\ (failed \/ cpp.failed)
      <3>1. failed => failed'
        BY <2>4 DEF PortsNext, BothNext, BothView, CallNext, CallNextView
      <3>2. ASSUME NEW r, CppCalled(r), cpp.failed
            PROVE  cpp'.failed
        <4>1. cpp'.failed = (cpp.failed \/ r.rc = -1)
          BY <3>2 DEF CppCalled
        <4>2. QED
          BY <3>2, <4>1, Zenon
      <3>3. cpp.failed => cpp'.failed
        BY <2>4, <3>2, Zenon DEF PortsNext, BothNext, BothView
      <3>4. QED
        BY <2>1, <2>4, <3>1, <3>3 DEF Together
    <2>5. QED
      BY <2>2, <2>3, <2>4
  <1>3. Inv /\ Together /\ [PortsNext]_<<vars, cpp>> => [~failed /\ ~cpp.failed => StepsAlike]_<<vars, cpp>>
    BY BothNextAlike, BothViewAlike DEF PortsNext
  <1>4. [~failed /\ ~cpp.failed => StepsAlike]_<<vars, cpp>> <=>
          [~failed /\ ~cpp.failed =>
             \/ /\ ret' = cpp'.rc
                /\ ret' = 1 => pos' = cpp'.pos /\ SameElement(el', cpp'.el)
             \/ /\ ret' = -1 /\ cpp'.rc = 1
                /\ OverfullPair(cpp'.el)
             \/ /\ ret' = 1 /\ cpp'.rc = -1
                /\ el' = NoElement
                /\ buf[pos + 1] = DECIMAL
                /\ Next(buf, pos).rc = -1]_<<vars, cpp>>
    BY Zenon DEF StepsAlike
  <1>5. QED
    BY <1>1, <1>2, <1>3, <1>4, PTL DEF PortsSpec, PortsAgree

=============================================================================
