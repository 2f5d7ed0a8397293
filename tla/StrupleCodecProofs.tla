------------------------- MODULE StrupleCodecProofs --------------------------
(***************************************************************************)
(* Lemmas about the codec, for every buffer and every width.               *)
(*   - Decoder: a decoding step ends between where it starts and the end   *)
(*     of the buffer, and so does an accepted span; skipping ends where    *)
(*     decoding ends; an element does not depend on what follows it.       *)
(*   - Values: walking a buffer with skip() gives its pieces, and the      *)
(*     pieces give the buffer back.                                        *)
(*   - Encoder: an append call writes bytes, for every argument it may     *)
(*     have; and what next() hands out is such an argument.                *)
(*   - Round trips: what an append call writes, next() reads as an element *)
(*     that append_element writes as the same bytes again, whatever        *)
(*     follows it (Stable, StableStrings); a sequence of such strings      *)
(*     (Canonicals) is copied unchanged by struple_transcode; and the      *)
(*     bytes of an integer next() accepts are the ones written for it.     *)
(***************************************************************************)
EXTENDS StrupleValues, SequenceTheorems, WellFoundedInduction, TLAPS

(* A decoding step at q that stays inside buf. *)
Advances(r, q, buf) == r.pos \in q..Len(buf) /\ r.rc \in {-1, 1}

-----------------------------------------------------------------------------
(* The least element of a nonempty set of numbers.                         *)
LEMMA FirstOfProperties ==
    ASSUME NEW S \in SUBSET Nat, S # {}
    PROVE  FirstOf(S) \in S /\ \A j \in S : FirstOf(S) <= j
  <1>1. PICK x \in S : \A y \in S : ~(<<y, x>> \in OpToRel(<, Nat))
    BY WFMin, NatLessThanWellFounded
  <1>2. \A y \in S : ~(y < x)
    BY <1>1, Zenon DEF OpToRel
  <1>3. \A y \in S : x <= y
    BY <1>2
  <1>4. QED
    BY <1>3 DEF FirstOf

(* Induction over the naturals, as a fact about a set: a first number that *)
(* is not in it would have a predecessor that is.                          *)
LEMMA NatSetInduction ==
    ASSUME NEW S, 0 \in S, \A k \in Nat : k \in S => k + 1 \in S
    PROVE  \A k \in Nat : k \in S
  <1> SUFFICES ASSUME Nat \ S # {} PROVE FALSE
    OBVIOUS
  <1> DEFINE first == FirstOf(Nat \ S)
  <1>1. first \in Nat \ S /\ \A j \in Nat \ S : first <= j
    BY FirstOfProperties
  <1> HIDE DEF first
  <1>2. first # 0 /\ first - 1 \in Nat
    BY <1>1
  <1>3. first - 1 \in S
    BY <1>1, <1>2
  <1>4. (first - 1) + 1 \in S
    BY <1>2, <1>3
  <1>5. QED
    BY <1>1, <1>4

-----------------------------------------------------------------------------
(* Induction over sequences that grow at their end, as a fact about a set. *)
LEMMA SeqSetInduction ==
    ASSUME NEW S, NEW P, <<>> \in P,
           \A s \in Seq(S), e \in S : s \in P => Append(s, e) \in P
    PROVE  Seq(S) \subseteq P
  <1> DEFINE N == {n \in Nat : \A s \in Seq(S) : Len(s) = n => s \in P}
  <1>1. 0 \in N
    <2>1. \A s \in Seq(S) : Len(s) = 0 => s = <<>>
      BY EmptySeq
    <2>2. QED
      BY <2>1
  <1>2. ASSUME NEW n \in Nat, n \in N
        PROVE  n + 1 \in N
    <2>1. ASSUME NEW s \in Seq(S), Len(s) = n + 1
          PROVE  s \in P
      <3>1. s # <<>>
        BY <2>1, EmptySeq
      <3>2. PICK t \in Seq(S), e \in S : s = Append(t, e)
        BY <3>1, SequenceEmptyOrAppend
      <3>3. Len(t) = n
        BY <2>1, <3>2, AppendProperties, LenProperties
      <3>4. QED
        BY <1>2, <3>2, <3>3
    <2>2. QED
      BY <2>1
  <1> HIDE DEF N
  <1>3. \A n \in Nat : n \in N
    BY <1>1, <1>2, NatSetInduction
  <1>4. ASSUME NEW s \in Seq(S)
        PROVE  s \in P
    <2>1. Len(s) \in N
      BY <1>3, LenProperties
    <2>2. QED
      BY <2>1 DEF N
  <1>5. QED
    BY <1>4

(* FlattenSeq: f[i] is the concatenation of the first i sequences of s.    *)
Flattens(f, s, k) == \A i \in 1..k : f[i] = IF i = 1 THEN s[i] ELSE f[i - 1] \o s[i]

LEMMA FlattensExists ==
    ASSUME NEW s
    PROVE  \A k \in Nat : \E f : Flattens(f, s, k)
  <1> DEFINE S == {k \in Nat : \E f : Flattens(f, s, k)}
  <1>1. 0 \in S
    BY DEF Flattens
  <1>2. ASSUME NEW k \in Nat, k \in S
        PROVE  k + 1 \in S
    <2>1. PICK f : Flattens(f, s, k)
      BY <1>2
    <2> DEFINE next == [i \in 1..(k + 1) |-> IF i = k + 1 THEN (IF i = 1 THEN s[i] ELSE f[k] \o s[i])
                                             ELSE f[i]]
    <2>2. \A i \in 1..k : f[i] = IF i = 1 THEN s[i] ELSE f[i - 1] \o s[i]
      BY <2>1 DEF Flattens
    <2>3. ASSUME NEW i \in 1..(k + 1)
          PROVE  next[i] = IF i = 1 THEN s[i] ELSE next[i - 1] \o s[i]
      <3>1. CASE i = k + 1 /\ i = 1
        BY <3>1
      <3>2. CASE i = k + 1 /\ i # 1
        <4>1. i - 1 = k /\ k # k + 1 /\ k \in 1..(k + 1)
          BY <3>2
        <4>2. next[i] = f[k] \o s[i]
          BY <3>2, Zenon
        <4>3. next[k] = f[k]
          BY <4>1, Zenon
        <4> HIDE DEF next
        <4>4. QED
          BY <3>2, <4>1, <4>2, <4>3
      <3>3. CASE i # k + 1 /\ i # 1
        <4>1. i \in 1..k /\ i - 1 \in 1..k /\ i - 1 # k + 1 /\ i - 1 \in 1..(k + 1)
          BY <3>3
        <4>2. next[i] = f[i] /\ next[i - 1] = f[i - 1]
          BY <3>3, <4>1
        <4> HIDE DEF next
        <4>3. QED
          BY <2>2, <3>3, <4>1, <4>2
      <3>4. CASE i # k + 1 /\ i = 1
        BY <2>2, <3>4
      <3>5. QED
        BY <3>1, <3>2, <3>3, <3>4
    <2> HIDE DEF next
    <2>4. Flattens(next, s, k + 1)
      BY <2>3 DEF Flattens
    <2>5. QED
      BY <2>4
  <1> HIDE DEF S
  <1>3. \A k \in Nat : k \in S
    BY <1>1, <1>2, NatSetInduction
  <1>4. QED
    BY <1>3 DEF S

LEMMA FlattensUnique ==
    ASSUME NEW s, NEW t, NEW f, NEW g, NEW k \in Nat, Flattens(f, s, k), Flattens(g, t, k),
           \A i \in 1..k : s[i] = t[i]
    PROVE  \A i \in 1..k : f[i] = g[i]
  <1> DEFINE S == {n \in Nat : n \in 1..k => f[n] = g[n]}
  <1>1. 0 \in S
    OBVIOUS
  <1>2. ASSUME NEW n \in Nat, n \in S
        PROVE  n + 1 \in S
    <2> SUFFICES ASSUME n + 1 \in 1..k PROVE f[n + 1] = g[n + 1]
      OBVIOUS
    <2>1. (n + 1) - 1 = n /\ (n + 1 # 1 => n \in 1..k) /\ s[n + 1] = t[n + 1]
      OBVIOUS
    <2>2. f[n + 1] = IF n + 1 = 1 THEN s[n + 1] ELSE f[n] \o s[n + 1]
      BY <2>1 DEF Flattens
    <2>3. g[n + 1] = IF n + 1 = 1 THEN t[n + 1] ELSE g[n] \o t[n + 1]
      BY <2>1 DEF Flattens
    <2>4. QED
      BY <1>2, <2>1, <2>2, <2>3
  <1> HIDE DEF S
  <1>3. \A n \in Nat : n \in S
    BY <1>1, <1>2, NatSetInduction
  <1>4. QED
    BY <1>3 DEF S

LEMMA FlattenUnfold ==
    ASSUME NEW T, NEW s \in Seq(T), s # <<>>
    PROVE  \E f : Flattens(f, s, Len(s)) /\ FlattenSeq(s) = f[Len(s)]
  <1> DEFINE f == CHOOSE f : f = [i \in 1..Len(s) |-> IF i = 1 THEN s[i] ELSE f[i - 1] \o s[i]]
  <1>1. Len(s) \in Nat \ {0}
    BY EmptySeq
  <1>2. PICK g : Flattens(g, s, Len(s))
    BY <1>1, FlattensExists
  <1>3. \E h : h = [i \in 1..Len(s) |-> IF i = 1 THEN s[i] ELSE h[i - 1] \o s[i]]
    <2> DEFINE h == [i \in 1..Len(s) |-> g[i]]
    <2>1. ASSUME NEW i \in 1..Len(s)
          PROVE  h[i] = IF i = 1 THEN s[i] ELSE h[i - 1] \o s[i]
      <3>1. g[i] = IF i = 1 THEN s[i] ELSE g[i - 1] \o s[i]
        BY <1>2 DEF Flattens
      <3>2. i # 1 => i - 1 \in 1..Len(s)
        BY <1>1
      <3>3. h[i] = g[i] /\ (i # 1 => h[i - 1] = g[i - 1])
        BY <3>2
      <3> HIDE DEF h
      <3>4. QED
        BY <3>1, <3>3
    <2>2. h = [i \in 1..Len(s) |-> h[i]]
      BY Zenon
    <2> HIDE DEF h
    <2>3. h = [i \in 1..Len(s) |-> IF i = 1 THEN s[i] ELSE h[i - 1] \o s[i]]
      BY <2>1, <2>2
    <2>4. QED
      BY <2>3
  <1>4. f = [i \in 1..Len(s) |-> IF i = 1 THEN s[i] ELSE f[i - 1] \o s[i]]
    BY <1>3, Zenon
  <1>5. FlattenSeq(s) = f[Len(s)]
    BY <1>1, Zenon DEF FlattenSeq
  <1> HIDE DEF f
  <1>6. \A i \in 1..Len(s) : f[i] = IF i = 1 THEN s[i] ELSE f[i - 1] \o s[i]
    BY <1>4, Zenon
  <1>7. Flattens(f, s, Len(s))
    BY <1>6 DEF Flattens
  <1>8. QED
    BY <1>5, <1>7

LEMMA FlattenEmpty == FlattenSeq(<<>>) = <<>>
  BY DEF FlattenSeq

LEMMA FlattenAppend ==
    ASSUME NEW S, NEW s \in Seq(Seq(S)), NEW x \in Seq(S)
    PROVE  FlattenSeq(Append(s, x)) = FlattenSeq(s) \o x
  <1> DEFINE t == Append(s, x)
             n == Len(s)
  <1>1. /\ t \in Seq(Seq(S)) /\ t # <<>> /\ Len(t) = n + 1 /\ n \in Nat
        /\ \A i \in 1..n : t[i] = s[i]
        /\ t[n + 1] = x
    BY AppendProperties, LenProperties
  <1>2. PICK f : Flattens(f, t, Len(t)) /\ FlattenSeq(t) = f[Len(t)]
    BY <1>1, FlattenUnfold
  <1> HIDE DEF t
  <1>3. f[n + 1] = IF n + 1 = 1 THEN x ELSE f[n] \o x
    <2>1. n + 1 \in 1..Len(t) /\ (n + 1) - 1 = n
      BY <1>1
    <2>2. QED
      BY <1>1, <1>2, <2>1 DEF Flattens
  <1>4. CASE s = <<>>
    <2>1. n = 0
      BY <1>4, EmptySeq
    <2>2. FlattenSeq(t) = x /\ FlattenSeq(s) = <<>>
      BY <1>1, <1>2, <1>3, <1>4, <2>1, FlattenEmpty
    <2>3. <<>> \o x = x
      BY ConcatEmptySeq
    <2>4. QED
      BY <2>2, <2>3 DEF t
  <1>5. CASE s # <<>>
    <2>1. n \in 1..n /\ n + 1 # 1
      BY <1>5, EmptySeq
    <2>2. PICK g : Flattens(g, s, n) /\ FlattenSeq(s) = g[n]
      BY <1>5, FlattenUnfold
    <2>3. Flattens(f, t, n)
      BY <1>1, <1>2 DEF Flattens
    <2> HIDE DEF n
    <2>4. n \in Nat /\ (\A i \in 1..n : t[i] = s[i]) /\ Flattens(g, s, n)
      BY <1>1, <2>2
    <2>5. \A i \in 1..n : f[i] = g[i]
      BY <2>3, <2>4, FlattensUnique
    <2>6. QED
      BY <1>1, <1>2, <1>3, <2>1, <2>2, <2>5 DEF t, n
  <1>6. QED
    BY <1>4, <1>5

LEMMA FlattenType ==
    ASSUME NEW S, NEW s \in Seq(Seq(S))
    PROVE  FlattenSeq(s) \in Seq(S)
  <1> DEFINE P == {t \in Seq(Seq(S)) : FlattenSeq(t) \in Seq(S)}
  <1>1. <<>> \in P
    BY FlattenEmpty, EmptySeq
  <1>2. ASSUME NEW t \in Seq(Seq(S)), NEW x \in Seq(S), t \in P
        PROVE  Append(t, x) \in P
    <2>1. FlattenSeq(t) \o x \in Seq(S)
      BY <1>2, ConcatProperties
    <2>2. QED
      BY <2>1, FlattenAppend, AppendProperties
  <1> HIDE DEF P
  <1>3. Seq(Seq(S)) \subseteq P
    BY <1>1, <1>2, SeqSetInduction
  <1>4. QED
    BY <1>3 DEF P

LEMMA FlattenConcat ==
    ASSUME NEW S, NEW s \in Seq(Seq(S)), NEW t \in Seq(Seq(S))
    PROVE  FlattenSeq(s \o t) = FlattenSeq(s) \o FlattenSeq(t)
  <1> DEFINE P == {u \in Seq(Seq(S)) : FlattenSeq(s \o u) = FlattenSeq(s) \o FlattenSeq(u)}
  <1>1. <<>> \in P
    BY FlattenEmpty, FlattenType, EmptySeq, ConcatEmptySeq
  <1>2. ASSUME NEW u \in Seq(Seq(S)), NEW x \in Seq(S), u \in P
        PROVE  Append(u, x) \in P
    <2>1. s \o Append(u, x) = Append(s \o u, x)
      <3>1. <<x>> \in Seq(Seq(S))
        OBVIOUS
      <3>2. Append(u, x) = u \o <<x>>
        BY AppendIsConcat
      <3>3. s \o u \in Seq(Seq(S))
        BY ConcatProperties
      <3>4. Append(s \o u, x) = (s \o u) \o <<x>>
        BY <3>3, AppendIsConcat
      <3>5. (s \o u) \o <<x>> = s \o (u \o <<x>>)
        BY <3>1, ConcatAssociative, SMTT(30)
      <3>6. QED
        BY <3>2, <3>4, <3>5
    <2>2. s \o u \in Seq(Seq(S))
      BY ConcatProperties
    <2>3. FlattenSeq(Append(s \o u, x)) = FlattenSeq(s \o u) \o x
      BY <2>2, FlattenAppend
    <2>4. FlattenSeq(s) \in Seq(S) /\ FlattenSeq(u) \in Seq(S)
      BY FlattenType
    <2>5. (FlattenSeq(s) \o FlattenSeq(u)) \o x = FlattenSeq(s) \o (FlattenSeq(u) \o x)
      BY <2>4, ConcatAssociative, SMTT(30)
    <2>6. FlattenSeq(Append(u, x)) = FlattenSeq(u) \o x
      BY FlattenAppend
    <2>7. Append(u, x) \in Seq(Seq(S))
      BY AppendProperties
    <2>8. QED
      BY <1>2, <2>1, <2>3, <2>5, <2>6, <2>7
  <1> HIDE DEF P
  <1>3. Seq(Seq(S)) \subseteq P
    BY <1>1, <1>2, SeqSetInduction
  <1>4. QED
    BY <1>3 DEF P

LEMMA FlattenOne ==
    ASSUME NEW S, NEW x \in Seq(S)
    PROVE  FlattenSeq(<<x>>) = x
  <1>1. <<>> \in Seq(Seq(S)) /\ Append(<<>>, x) = <<x>>
    BY EmptySeq
  <1>2. FlattenSeq(Append(<<>>, x)) = FlattenSeq(<<>>) \o x
    BY <1>1, FlattenAppend
  <1>3. QED
    BY <1>1, <1>2, FlattenEmpty, ConcatEmptySeq

-----------------------------------------------------------------------------
(* Recursion over the rest of a string: where the rest is smaller, the     *)
(* equations f[b] = base[b] at a stop and f[b] = head[b] \o f[rest[b]]     *)
(* elsewhere have a solution.  Split, Elements and Transcoded are of this  *)
(* form; size is the length.                                               *)
Shrinks(D, size, stop, rest) ==
    /\ size \in [D -> Nat]
    /\ \A b \in D : ~stop[b] => rest[b] \in D /\ size[rest[b]] < size[b]

WalksTo(f, k, D, size, stop, base, head, rest) ==
    \A b \in D : size[b] <= k =>
        f[b] = IF stop[b] THEN base[b] ELSE head[b] \o f[rest[b]]

LEMMA WalkExistsTo ==
    ASSUME NEW D, NEW size \in [D -> Nat], NEW stop, NEW base, NEW head, NEW rest,
           \A b \in D : ~stop[b] => rest[b] \in D /\ size[rest[b]] < size[b]
    PROVE  \A k \in Nat : \E f : WalksTo(f, k, D, size, stop, base, head, rest)
  <1> DEFINE S == {k \in Nat : \E f : WalksTo(f, k, D, size, stop, base, head, rest)}
  <1>1. 0 \in S
    <2> DEFINE f == [b \in D |-> base[b]]
    <2>1. ASSUME NEW b \in D, size[b] <= 0
          PROVE  f[b] = IF stop[b] THEN base[b] ELSE head[b] \o f[rest[b]]
      <3>1. stop[b]
        <4>1. SUFFICES ASSUME ~stop[b] PROVE FALSE
          OBVIOUS
        <4>2. rest[b] \in D /\ size[rest[b]] < size[b]
          BY <4>1
        <4>3. size[rest[b]] \in Nat /\ size[b] \in Nat
          BY <4>2
        <4>4. QED
          BY <2>1, <4>2, <4>3
      <3>2. QED
        BY <3>1, Zenon
    <2> HIDE DEF f
    <2>2. WalksTo(f, 0, D, size, stop, base, head, rest)
      BY <2>1 DEF WalksTo
    <2>3. QED
      BY <2>2
  <1>2. ASSUME NEW k \in Nat, k \in S
        PROVE  k + 1 \in S
    <2>1. PICK f : WalksTo(f, k, D, size, stop, base, head, rest)
      BY <1>2
    <2> DEFINE g == [b \in D |-> IF size[b] <= k THEN f[b]
                                 ELSE IF stop[b] THEN base[b] ELSE head[b] \o f[rest[b]]]
    <2>2. \A b \in D : g[b] = IF size[b] <= k THEN f[b]
                              ELSE IF stop[b] THEN base[b] ELSE head[b] \o f[rest[b]]
      BY Zenon
    <2> HIDE DEF g
    <2>3. \A b \in D : size[b] <= k => f[b] = IF stop[b] THEN base[b] ELSE head[b] \o f[rest[b]]
      BY <2>1 DEF WalksTo
    <2>4. \A b \in D : g[b] = IF stop[b] THEN base[b] ELSE head[b] \o f[rest[b]]
      BY <2>2, <2>3, Zenon
    <2>5. ASSUME NEW b \in D, size[b] <= k + 1, ~stop[b]
          PROVE  g[rest[b]] = f[rest[b]]
      <3>1. rest[b] \in D /\ size[rest[b]] < size[b]
        BY <2>5
      <3>2. size[rest[b]] <= k
        <4>1. size[rest[b]] \in Nat /\ size[b] \in Nat
          BY <3>1
        <4>2. QED
          BY <2>5, <3>1, <4>1
      <3>3. QED
        BY <2>2, <3>1, <3>2, Zenon
    <2>6. ASSUME NEW b \in D, size[b] <= k + 1
          PROVE  g[b] = IF stop[b] THEN base[b] ELSE head[b] \o g[rest[b]]
      BY <2>4, <2>5, <2>6, Zenon
    <2>7. WalksTo(g, k + 1, D, size, stop, base, head, rest)
      BY <2>6 DEF WalksTo
    <2>8. QED
      BY <2>7
  <1> HIDE DEF S
  <1>3. \A k \in Nat : k \in S
    BY <1>1, <1>2, NatSetInduction
  <1>4. QED
    BY <1>3 DEF S

LEMMA WalkUnique ==
    ASSUME NEW D, NEW size, NEW stop, NEW base, NEW head, NEW rest, Shrinks(D, size, stop, rest),
           NEW k \in Nat, NEW f, NEW g,
           WalksTo(f, k, D, size, stop, base, head, rest),
           WalksTo(g, k, D, size, stop, base, head, rest)
    PROVE  \A b \in D : size[b] <= k => f[b] = g[b]
  <1>0. size \in [D -> Nat] /\ \A b \in D : ~stop[b] => rest[b] \in D /\ size[rest[b]] < size[b]
    BY DEF Shrinks
  <1> DEFINE S == {n \in Nat : \A b \in D : size[b] < n /\ size[b] <= k => f[b] = g[b]}
  <1>1. 0 \in S
    <2>1. \A b \in D : ~(size[b] < 0)
      <3> TAKE b \in D
      <3>1. size[b] \in Nat
        BY <1>0
      <3>2. QED
        BY <3>1
    <2>2. QED
      BY <2>1
  <1>2. ASSUME NEW n \in Nat, n \in S
        PROVE  n + 1 \in S
    <2>1. ASSUME NEW b \in D, size[b] < n + 1, size[b] <= k
          PROVE  f[b] = g[b]
      <3>1. /\ f[b] = IF stop[b] THEN base[b] ELSE head[b] \o f[rest[b]]
            /\ g[b] = IF stop[b] THEN base[b] ELSE head[b] \o g[rest[b]]
        BY <2>1 DEF WalksTo
      <3>2. ~stop[b] => f[rest[b]] = g[rest[b]]
        <4> SUFFICES ASSUME ~stop[b] PROVE f[rest[b]] = g[rest[b]]
          OBVIOUS
        <4>1. rest[b] \in D /\ size[rest[b]] < size[b]
          BY <1>0
        <4>2. size[rest[b]] \in Nat /\ size[b] \in Nat
          BY <1>0, <4>1
        <4>3. size[rest[b]] < n /\ size[rest[b]] <= k
          BY <2>1, <4>1, <4>2
        <4>4. QED
          BY <1>2, <4>1, <4>3
      <3>3. QED
        BY <3>1, <3>2, Zenon
    <2>2. QED
      BY <2>1
  <1> HIDE DEF S
  <1>3. \A n \in Nat : n \in S
    BY <1>1, <1>2, NatSetInduction
  <1>4. k + 1 \in S
    BY <1>3
  <1>5. ASSUME NEW b \in D, size[b] <= k
        PROVE  f[b] = g[b]
    <2>1. size[b] \in Nat
      BY <1>0
    <2>2. size[b] < k + 1
      BY <1>5, <2>1
    <2>3. QED
      BY <1>4, <1>5, <2>2 DEF S
  <1>6. QED
    BY <1>5

IsWalk(f, D, stop, base, head, rest) ==
    f = [b \in D |-> IF stop[b] THEN base[b] ELSE head[b] \o f[rest[b]]]

LEMMA WalkExists ==
    ASSUME NEW D, NEW size, NEW stop, NEW base, NEW head, NEW rest, Shrinks(D, size, stop, rest)
    PROVE  \E f : IsWalk(f, D, stop, base, head, rest)
  <1>0. size \in [D -> Nat] /\ \A b \in D : ~stop[b] => rest[b] \in D /\ size[rest[b]] < size[b]
    BY DEF Shrinks
  <1> DEFINE To(k) == CHOOSE f : WalksTo(f, k, D, size, stop, base, head, rest)
             walk  == [b \in D |-> To(size[b])[b]]
  <1>1. ASSUME NEW k \in Nat
        PROVE  WalksTo(To(k), k, D, size, stop, base, head, rest)
    <2>1. \E f : WalksTo(f, k, D, size, stop, base, head, rest)
      BY <1>0, WalkExistsTo
    <2>2. QED
      BY <2>1, Zenon
  <1>2. \A b \in D : walk[b] = To(size[b])[b]
    BY Zenon
  <1> HIDE DEF To
  <1>3. walk = [b \in D |-> walk[b]]
    OBVIOUS
  <1> HIDE DEF walk
  <1>4. ASSUME NEW b \in D
        PROVE  walk[b] = IF stop[b] THEN base[b] ELSE head[b] \o walk[rest[b]]
    <2>1. size[b] \in Nat /\ size[b] <= size[b]
      BY <1>0
    <2>2. WalksTo(To(size[b]), size[b], D, size, stop, base, head, rest)
      BY <1>1, <2>1
    <2>3. To(size[b])[b] = IF stop[b] THEN base[b] ELSE head[b] \o To(size[b])[rest[b]]
      BY <2>1, <2>2 DEF WalksTo
    <2>4. ~stop[b] => To(size[b])[rest[b]] = walk[rest[b]]
      <3> SUFFICES ASSUME ~stop[b] PROVE To(size[b])[rest[b]] = walk[rest[b]]
        OBVIOUS
      <3> DEFINE n == size[rest[b]]
      <3>1. rest[b] \in D /\ n < size[b]
        BY <1>0
      <3>2. n \in Nat /\ n <= n
        BY <1>0, <3>1
      <3>3. WalksTo(To(n), n, D, size, stop, base, head, rest)
        BY <1>1, <3>2
      <3>4. WalksTo(To(size[b]), n, D, size, stop, base, head, rest)
        <4>1. ASSUME NEW x \in D, size[x] <= n
              PROVE  size[x] <= size[b]
          <5>1. size[x] \in Nat
            BY <1>0
          <5>2. QED
            BY <2>1, <3>1, <3>2, <4>1, <5>1
        <4>2. QED
          BY <2>2, <4>1 DEF WalksTo
      <3>5. To(size[b])[rest[b]] = To(n)[rest[b]]
        BY <3>1, <3>2, <3>3, <3>4, WalkUnique
      <3>6. QED
        BY <1>2, <3>1, <3>5
    <2>5. QED
      BY <1>2, <2>3, <2>4, Zenon
  <1>5. walk = [b \in D |-> IF stop[b] THEN base[b] ELSE head[b] \o walk[rest[b]]]
    BY <1>3, <1>4, Zenon
  <1>6. QED
    BY <1>5 DEF IsWalk

-----------------------------------------------------------------------------
(* Payload slots have one to sixteen bytes.                                *)
LEMMA SlotWidthProperties ==
    ASSUME NEW t \in FixedNeg \cup FixedPos
    PROVE  SlotWidth(t) \in 1..16
  BY WidthAssumption DEF FixedNeg, FixedPos, SlotWidth, INT_ZERO

(* Bytes are numbers, and the complement of a byte is a byte.              *)
LEMMA ByteProperties == \A x \in Byte : x \in Nat /\ 255 - x \in Byte
  BY DEF Byte

(* A byte of the buffer, complemented or not, is a byte.                   *)
LEMMA SignedByte ==
    ASSUME NEW b \in Seq(Byte), NEW q \in 0..Len(b), CanTake(b, q, 1), NEW neg \in BOOLEAN
    PROVE  Signed(neg, Bytes(b, q, 1))[1] \in Byte
  <1> DEFINE s == Bytes(b, q, 1)
  <1>1. q \in Nat /\ q + 1 \in 1..Len(b)
    BY LenProperties DEF CanTake
  <1>2. b[q + 1] \in Byte
    BY <1>1, ElementOfSeq
  <1>3. s \in Seq(Byte) /\ Len(s) = 1
    BY <1>1, <1>2, SubSeqProperties DEF Bytes
  <1>4. s[1] \in Byte /\ 1 \in DOMAIN s
    BY <1>3, ElementOfSeq
  <1> HIDE DEF s
  <1>5. Complement(s)[1] \in Byte
    <2>1. Complement(s)[1] = 255 - s[1]
      BY <1>4, Zenon DEF Complement
    <2>2. 255 - s[1] \in Byte
      BY <1>4, ByteProperties, Zenon
    <2>3. QED
      BY <2>1, <2>2, Zenon
  <1>6. Signed(neg, s) = s \/ Signed(neg, s) = Complement(s)
    BY DEF Signed
  <1>7. Signed(neg, s)[1] \in Byte
    BY <1>4, <1>5, <1>6
  <1>8. QED
    BY <1>7 DEF s

(* The length of the length of a big-int.                                  *)
LEMMA LengthByte ==
    ASSUME NEW b \in Seq(Byte), NEW q \in 0..Len(b), CanTake(b, q, 1), NEW neg \in BOOLEAN
    PROVE  LenBytes(b, neg, q) \in Nat
  <1>1. Signed(neg, Bytes(b, q, 1))[1] \in Byte
    BY SignedByte, Zenon
  <1>2. QED
    BY <1>1, ByteProperties, Zenon DEF LenBytes

LEMMA FixedIntAdvances ==
    ASSUME NEW b \in Seq(Byte), NEW q \in 0..Len(b), NEW t \in FixedNeg \cup FixedPos
    PROVE  Advances(ReadFixedInt(b, t, q), q, b)
  <1> DEFINE n == SlotWidth(t)
  <1>1. n \in 1..16 /\ Len(b) \in Nat
    BY SlotWidthProperties, LenProperties
  <1>2. CASE ~CanTake(b, q, n)
    <2>1. ReadFixedInt(b, t, q) = Failed(q)
      BY <1>2, Zenon DEF ReadFixedInt
    <2>2. QED
      BY <1>1, <2>1 DEF Advances, Failed
  <1>3. CASE CanTake(b, q, n)
    <2>1. \/ ReadFixedInt(b, t, q) = Failed(q + n)
          \/ \E e : ReadFixedInt(b, t, q) = Decoded(q + n, e)
      BY <1>3, Zenon DEF ReadFixedInt
    <2> HIDE DEF n
    <2>2. q + n \in q..Len(b)
      BY <1>1, <1>3 DEF CanTake
    <2>3. QED
      BY <2>1, <2>2 DEF Advances, Failed, Decoded
  <1>4. QED
    BY <1>2, <1>3

LEMMA BigIntAdvances ==
    ASSUME NEW b \in Seq(Byte), NEW q \in 0..Len(b), NEW t
    PROVE  Advances(ReadBigInt(b, t, q), q, b)
  <1> DEFINE negative == t = INT_NEG_BIG
             m    == LenBytes(b, negative, q)
             lens == MagLens(b, negative, q)
             n    == FirstOf(lens)
  <1>1. CASE ~CanTake(b, q, 1)
    BY <1>1 DEF Advances, ReadBigInt, Failed
  <1>2. CASE CanTake(b, q, 1)
    <2>1. m \in Nat
      BY <1>2, LengthByte
    <2>2. CASE m > LenOfLen \/ ~CanTake(b, q + 1, m)
      BY <1>2, <2>2 DEF Advances, ReadBigInt, Failed, CanTake
    <2>3. CASE ~(m > LenOfLen \/ ~CanTake(b, q + 1, m)) /\ lens = {}
      BY <1>2, <2>1, <2>3 DEF Advances, ReadBigInt, Failed, CanTake
    <2>4. CASE ~(m > LenOfLen \/ ~CanTake(b, q + 1, m)) /\ lens # {}
      <3>1. lens \in SUBSET Nat /\ \A v \in lens : v <= Len(b) - (q + 1 + m)
        BY <2>1, <2>4 DEF MagLens, DecodedIn, CanTake
      <3>2. n \in Nat /\ n <= Len(b) - (q + 1 + m)
        BY <2>4, <3>1, FirstOfProperties
      <3>3. q + 1 + m + n \in q..Len(b)
        BY <2>1, <3>2
      <3>4. \/ ReadBigInt(b, t, q) = Failed(q + 1 + m + n)
            \/ \E e : ReadBigInt(b, t, q) = Decoded(q + 1 + m + n, e)
        BY <1>2, <2>4 DEF ReadBigInt
      <3>5. QED
        BY <3>3, <3>4 DEF Advances, Failed, Decoded
    <2>5. QED
      BY <2>2, <2>3, <2>4
  <1>3. QED
    BY <1>1, <1>2

LEMMA ExponentAdvances ==
    ASSUME NEW b \in Seq(Byte), NEW q \in 0..Len(b), NEW negative \in BOOLEAN
    PROVE  Advances(ReadExponent(b, negative, q), q, b)
  <1> DEFINE t == Signed(negative, Bytes(b, q, 1))[1]
  <1>1. CASE ~CanTake(b, q, 1)
    BY <1>1 DEF Advances, ReadExponent, Failed
  <1>2. CASE CanTake(b, q, 1) /\ t \in FixedNeg \cup FixedPos
    <2>1. SlotWidth(t) \in 1..16
      BY <1>2, SlotWidthProperties
    <2> DEFINE n == SlotWidth(t)
               p == Signed(negative, Bytes(b, q + 1, n))
               r == ReadExponent(b, negative, q)
    <2>2. \/ r \in {Failed(q + 1), Decoded(q + 1, 0)}
          \/ CanTake(b, q + 1, n)
             /\ r \in {Failed(q + 1 + n), Decoded(q + 1 + n, FirstOf(ExpValues(t, p)))}
      BY <1>2, Zenon DEF ReadExponent
    <2>3. n \in Nat /\ q \in Nat /\ Len(b) \in Nat /\ q + 1 <= Len(b)
      BY <1>2, <2>1, LenProperties DEF CanTake
    <2> HIDE DEF n, p, r
    <2>4. CASE r \in {Failed(q + 1), Decoded(q + 1, 0)}
      <3>1. r.pos = q + 1 /\ r.rc \in {-1, 1}
        BY <2>4 DEF Failed, Decoded
      <3>2. QED
        BY <3>1, <2>3 DEF Advances, r
    <2>5. CASE /\ CanTake(b, q + 1, n)
               /\ r \in {Failed(q + 1 + n), Decoded(q + 1 + n, FirstOf(ExpValues(t, p)))}
      <3>1. r.pos = q + 1 + n /\ r.rc \in {-1, 1}
        BY <2>5 DEF Failed, Decoded
      <3>2. QED
        BY <3>1, <2>3, <2>5 DEF Advances, CanTake, r
    <2>6. QED
      BY <2>2, <2>4, <2>5
  <1>3. CASE CanTake(b, q, 1) /\ t \notin FixedNeg \cup FixedPos
    BY <1>3 DEF Advances, ReadExponent, CanTake, Failed, Decoded
  <1>4. QED
    BY <1>1, <1>2, <1>3

LEMMA DecimalAdvances ==
    ASSUME NEW b \in Seq(Byte), NEW q \in 0..Len(b)
    PROVE  Advances(ReadDecimal(b, q), q, b)
  <1> DEFINE negative == b[q + 1] = DEC_SIGN_NEG
             e    == ReadExponent(b, negative, q + 1)
             ends == {i \in (e.pos + 1)..Len(b) : b[i] = IF negative THEN 255 ELSE 0}
  <1>1. CASE ~CanTake(b, q, 1)
    BY <1>1 DEF Advances, ReadDecimal, Failed
  <1>2. CASE CanTake(b, q, 1)
    <2>1. e.pos \in (q + 1)..Len(b)
      <3>1. q + 1 \in 0..Len(b) /\ negative \in BOOLEAN
        BY <1>2, LenProperties DEF CanTake
      <3>2. Advances(e, q + 1, b)
        BY <3>1, ExponentAdvances
      <3>3. QED
        BY <3>2 DEF Advances
    <2>2. ends # {} => FirstOf(ends) \in q..Len(b)
      <3>1. ends \in SUBSET Nat /\ \A i \in ends : i \in q..Len(b)
        BY <2>1
      <3> HIDE DEF ends
      <3>2. QED
        BY <3>1, FirstOfProperties
    <2>3. \/ DecimalAfter(b, negative, e) = Failed(e.pos)
          \/ ends # {} /\ DecimalAfter(b, negative, e) = Failed(FirstOf(ends))
          \/ ends # {} /\ \E el : DecimalAfter(b, negative, e) = Decoded(FirstOf(ends), el)
      BY Zenon DEF DecimalAfter, ReadDigits
    <2>4. \/ ReadDecimal(b, q) \in {Failed(q + 1), DecimalAfter(b, negative, e)}
          \/ \E el : ReadDecimal(b, q) = Decoded(q + 1, el)
      BY <1>2, Zenon DEF ReadDecimal
    <2> DEFINE after == DecimalAfter(b, negative, e)
    <2> HIDE DEF e, ends, after
    <2>5. Advances(after, q, b)
      <3>1. e.pos \in q..Len(b) /\ (ends # {} => FirstOf(ends) \in q..Len(b))
        BY <2>1, <2>2, LenProperties
      <3>2. \/ after = Failed(e.pos)
            \/ ends # {} /\ after = Failed(FirstOf(ends))
            \/ ends # {} /\ \E el : after = Decoded(FirstOf(ends), el)
        BY <2>3 DEF after
      <3>3. QED
        BY <3>1, <3>2 DEF Advances, Failed, Decoded
    <2>6. Advances(Failed(q + 1), q, b) /\ \A el : Advances(Decoded(q + 1, el), q, b)
      BY <1>2, LenProperties DEF Advances, Failed, Decoded, CanTake
    <2>7. ReadDecimal(b, q) \in {Failed(q + 1), after} \/ \E el : ReadDecimal(b, q) = Decoded(q + 1, el)
      BY <2>4 DEF after
    <2>8. QED
      BY <2>5, <2>6, <2>7, Zenon
  <1>3. QED
    BY <1>1, <1>2

LEMMA FramedAdvances ==
    ASSUME NEW b \in Seq(Byte), NEW q \in 0..Len(b), NEW t
    PROVE  Advances(ReadFramed(b, t, q), q, b)
  <1>1. Terminators(b, q) \in SUBSET Nat /\ \A i \in Terminators(b, q) : i \in q..Len(b)
    BY DEF Terminators
  <1>2. Terminators(b, q) # {} => FirstOf(Terminators(b, q)) \in q..Len(b)
    BY <1>1, FirstOfProperties
  <1>3. QED
    BY <1>2 DEF Advances, ReadFramed, Failed, Decoded

-----------------------------------------------------------------------------
(* What follows a type code, whatever the code is.                         *)
LEMMA ElementAdvances ==
    ASSUME NEW b \in Seq(Byte), NEW q \in 0..Len(b), NEW t
    PROVE  Advances(DecodeElement(b, t, q), q, b)
  <1>1. ASSUME NEW n \in {F32Width, F64Width, NativeWidth, UuidWidth}, NEW e
        PROVE  Advances(ReadPayload(b, q, n, e), q, b)
    BY WidthAssumption, LenProperties DEF ReadPayload, CanTake, Advances, Failed, Decoded
  <1>2. Advances(Failed(q), q, b) /\ \A e : Advances(Decoded(q, e), q, b)
    BY DEF Advances, Failed, Decoded
  <1>3. t \in FixedNeg \cup FixedPos => Advances(ReadFixedInt(b, t, q), q, b)
    BY FixedIntAdvances
  <1>4. /\ Advances(ReadBigInt(b, t, q), q, b)
        /\ Advances(ReadDecimal(b, q), q, b)
        /\ Advances(ReadFramed(b, t, q), q, b)
    BY BigIntAdvances, DecimalAdvances, FramedAdvances
  <1>5. QED
    BY <1>1, <1>2, <1>3, <1>4 DEF DecodeElement

(* struple_reader_next: at the end of the buffer it consumes nothing, and  *)
(* anywhere else at least the type code and at most what is left.          *)
LEMMA NextAdvances ==
    ASSUME NEW b \in Seq(Byte), NEW p \in 0..Len(b)
    PROVE  /\ p = Len(b) => Next(b, p).pos = p /\ Next(b, p).rc = 0
           /\ p # Len(b) => Advances(Next(b, p), p + 1, b)
  <1>1. Len(b) \in Nat
    BY LenProperties
  <1>2. CASE p = Len(b)
    BY <1>1, <1>2 DEF Next
  <1>3. CASE p # Len(b)
    <2>1. p + 1 \in 0..Len(b) /\ ~(p >= Len(b))
      BY <1>1, <1>3
    <2>2. Next(b, p) = DecodeElement(b, b[p + 1], p + 1)
      BY <2>1 DEF Next
    <2>3. QED
      BY <1>3, <2>1, <2>2, ElementAdvances
  <1>4. QED
    BY <1>2, <1>3

-----------------------------------------------------------------------------
(* element_span: the end it reports is the same way between the type code  *)
(* and the end of the buffer.                                              *)
Spans(s, q, buf) == s.rc \in {-1, 1} /\ (s.rc = 1 => s.end \in q..Len(buf))

LEMMA SpanToSpans ==
    ASSUME NEW b \in Seq(Byte), NEW q \in 0..Len(b), NEW e \in Nat, e >= q
    PROVE  Spans(SpanTo(b, e), q, b)
  BY LenProperties DEF Spans, SpanTo

LEMMA BigIntSpans ==
    ASSUME NEW b \in Seq(Byte), NEW q \in 0..Len(b), NEW t
    PROVE  Spans(BigIntSpan(b, t, q), q, b)
  <1> DEFINE negative == t = INT_NEG_BIG
             m    == LenBytes(b, negative, q)
             lens == MagLens(b, negative, q)
  <1>1. Spans(NoSpan, q, b)
    BY DEF Spans, NoSpan
  <1>2. ASSUME ~(q >= Len(b)), lens # {}
        PROVE  Spans(SpanTo(b, q + 1 + m + FirstOf(lens)), q, b)
    <2> negative \in BOOLEAN /\ CanTake(b, q, 1)
      BY <1>2, LenProperties DEF CanTake
    <2>1. m \in Nat
      BY LengthByte, Zenon
    <2>2. lens \in SUBSET Nat
      BY DEF MagLens, DecodedIn
    <2>3. FirstOf(lens) \in Nat
      BY <1>2, <2>2, FirstOfProperties
    <2>4. QED
      BY <2>1, <2>3, SpanToSpans
  <1>3. QED
    BY <1>1, <1>2 DEF BigIntSpan

LEMMA DecimalSpans ==
    ASSUME NEW b \in Seq(Byte), NEW q \in 0..Len(b)
    PROVE  Spans(DecimalSpan(b, q), q, b)
  <1> DEFINE negative == b[q + 1] = DEC_SIGN_NEG
             t      == Signed(negative, Bytes(b, q + 1, 1))[1]
             digits == q + 2 + (IF t = INT_ZERO THEN 0 ELSE SlotWidth(t))
             ends   == {i \in (digits + 1)..Len(b) : b[i] = IF negative THEN 255 ELSE 0}
  <1>1. Spans(NoSpan, q, b)
    BY DEF Spans, NoSpan
  <1>2. Spans(SpanTo(b, q + 1), q, b)
    BY SpanToSpans
  <1>3. ASSUME t \in FixedNeg \cup FixedPos \cup {INT_ZERO}, ends # {}
        PROVE  Spans(SpanTo(b, FirstOf(ends)), q, b)
    <2>1. digits \in Nat /\ digits >= q
      <3>1. CASE t = INT_ZERO
        BY <3>1
      <3>2. CASE t # INT_ZERO
        <4>1. t \in FixedNeg \cup FixedPos
          BY <1>3, <3>2
        <4> HIDE DEF t
        <4>2. SlotWidth(t) \in 1..16
          BY <4>1, SlotWidthProperties
        <4>3. SlotWidth(t) \in Nat /\ q \in Nat
          BY <4>2
        <4>4. digits = q + 2 + SlotWidth(t)
          BY <3>2, Zenon
        <4>5. QED
          BY <4>3, <4>4
      <3>3. QED
        BY <3>1, <3>2
    <2> HIDE DEF digits
    <2>2. ends \in SUBSET Nat /\ \A i \in ends : i >= q
      BY <2>1
    <2> HIDE DEF ends
    <2>3. FirstOf(ends) \in Nat /\ FirstOf(ends) >= q
      BY <1>3, <2>2, FirstOfProperties
    <2>4. QED
      BY <2>3, SpanToSpans
  <1>4. QED
    BY <1>1, <1>2, <1>3, Zenon DEF DecimalSpan

LEMMA FramedSpans ==
    ASSUME NEW b \in Seq(Byte), NEW q \in 0..Len(b), Terminators(b, q) # {}
    PROVE  Spans(SpanTo(b, FirstOf(Terminators(b, q))), q, b)
  <1>1. Terminators(b, q) \in SUBSET Nat /\ \A i \in Terminators(b, q) : i >= q
    BY DEF Terminators
  <1>2. FirstOf(Terminators(b, q)) \in Nat /\ FirstOf(Terminators(b, q)) >= q
    BY <1>1, FirstOfProperties
  <1>3. QED
    BY <1>2, SpanToSpans

LEMMA SpanInBounds ==
    ASSUME NEW b \in Seq(Byte), NEW p \in 0..Len(b)
    PROVE  /\ p = Len(b) => ElementSpan(b, p).rc = 0
           /\ p # Len(b) => Spans(ElementSpan(b, p), p + 1, b)
  <1> DEFINE t == b[p + 1]
             q == p + 1
  <1>1. Len(b) \in Nat
    BY LenProperties
  <1>2. CASE p = Len(b)
    BY <1>1, <1>2 DEF ElementSpan
  <1>3. CASE p # Len(b)
    <2>1. q \in 0..Len(b) /\ ~(p >= Len(b))
      BY <1>1, <1>3
    <2>2. ASSUME NEW n \in {F32Width, F64Width, NativeWidth, UuidWidth}
          PROVE  Spans(SpanTo(b, q + n), q, b)
      BY <2>1, WidthAssumption, SpanToSpans
    <2>3. ASSUME t \in FixedNeg \cup FixedPos
          PROVE  Spans(SpanTo(b, q + SlotWidth(t)), q, b)
      BY <2>1, <2>3, SlotWidthProperties, SpanToSpans
    <2>4. Spans(NoSpan, q, b) /\ Spans(SpanTo(b, q), q, b)
      BY <2>1, SpanToSpans DEF Spans, NoSpan
    <2>5. Spans(BigIntSpan(b, t, q), q, b) /\ Spans(DecimalSpan(b, q), q, b)
      BY <2>1, BigIntSpans, DecimalSpans
    <2>6. Spans(SpanAfter(b, t, q), q, b)
      BY <2>1, <2>2, <2>3, <2>4, <2>5, FramedSpans DEF SpanAfter
    <2>7. QED
      BY <1>3, <2>1, <2>6 DEF ElementSpan
  <1>4. QED
    BY <1>2, <1>3

-----------------------------------------------------------------------------
(* Decoding and skipping agree: what ends a decoded element is found by    *)
(* element_span at the same place.                                         *)
SpansTo(s, e) == s.rc = 1 /\ s.end = e

LEMMA BigIntAgrees ==
    ASSUME NEW b \in Seq(Byte), NEW q \in 0..Len(b), NEW t, ReadBigInt(b, t, q).rc = 1
    PROVE  SpansTo(BigIntSpan(b, t, q), ReadBigInt(b, t, q).pos)
  <1> DEFINE negative == t = INT_NEG_BIG
             m    == LenBytes(b, negative, q)
             lens == MagLens(b, negative, q)
             n    == FirstOf(lens)
  <1>1. /\ CanTake(b, q, 1)
        /\ ~(m > LenOfLen \/ ~CanTake(b, q + 1, m))
        /\ lens # {}
        /\ ReadBigInt(b, t, q).pos = q + 1 + m + n
    BY DEF ReadBigInt, Failed, Decoded
  <1>2. m \in Nat
    BY <1>1, LengthByte
  <1>3. lens \in SUBSET Nat /\ \A v \in lens : v <= Len(b) - (q + 1 + m)
    BY <1>1, <1>2 DEF MagLens, DecodedIn, CanTake
  <1>4. n \in Nat /\ n <= Len(b) - (q + 1 + m)
    BY <1>1, <1>3, FirstOfProperties
  <1>5. BigIntSpan(b, t, q) = SpanTo(b, q + 1 + m + n)
    BY <1>1 DEF BigIntSpan, CanTake
  <1>6. QED
    BY <1>1, <1>2, <1>4, <1>5 DEF SpansTo, SpanTo

(* An accepted exponent ends where element_span takes its slot to end.     *)
LEMMA ExponentEnd ==
    ASSUME NEW b \in Seq(Byte), NEW q \in 0..Len(b), NEW negative \in BOOLEAN,
           ReadExponent(b, negative, q).rc = 1
    PROVE  LET t == Signed(negative, Bytes(b, q, 1))[1]
           IN  /\ CanTake(b, q, 1)
               /\ t \in FixedNeg \cup FixedPos \cup {INT_ZERO}
               /\ ReadExponent(b, negative, q).pos =
                    q + 1 + (IF t = INT_ZERO THEN 0 ELSE SlotWidth(t))
  <1> DEFINE t == Signed(negative, Bytes(b, q, 1))[1]
             n == SlotWidth(t)
             p == Signed(negative, Bytes(b, q + 1, n))
             r == ReadExponent(b, negative, q)
  <1>1. \/ r \in {Failed(q), Failed(q + 1), Failed(q + 1 + n)}
        \/ CanTake(b, q, 1) /\ t = INT_ZERO /\ r = Decoded(q + 1, 0)
        \/ /\ CanTake(b, q, 1) /\ t # INT_ZERO /\ t \in FixedNeg \cup FixedPos
           /\ r = Decoded(q + 1 + n, FirstOf(ExpValues(t, p)))
    BY Zenon DEF ReadExponent
  <1>2. r.rc = 1
    OBVIOUS
  <1> HIDE DEF r, p, n, t
  <1>3. CASE r \in {Failed(q), Failed(q + 1), Failed(q + 1 + n)}
    BY <1>2, <1>3 DEF Failed
  <1>4. CASE CanTake(b, q, 1) /\ t = INT_ZERO /\ r = Decoded(q + 1, 0)
    <2>1. r.pos = q + 1
      BY <1>4 DEF Decoded
    <2>2. CanTake(b, q, 1) /\ t = INT_ZERO /\ r.pos = q + 1 + 0
      BY <1>4, <2>1
    <2>3. QED
      BY <2>2 DEF t, r
  <1>5. CASE /\ CanTake(b, q, 1) /\ t # INT_ZERO /\ t \in FixedNeg \cup FixedPos
             /\ r = Decoded(q + 1 + n, FirstOf(ExpValues(t, p)))
    <2>1. r.pos = q + 1 + n
      BY <1>5 DEF Decoded
    <2>2. QED
      BY <1>5, <2>1 DEF t, n, r
  <1>6. QED
    BY <1>1, <1>3, <1>4, <1>5

LEMMA DecimalAgrees ==
    ASSUME NEW b \in Seq(Byte), NEW q \in 0..Len(b), ReadDecimal(b, q).rc = 1
    PROVE  SpansTo(DecimalSpan(b, q), ReadDecimal(b, q).pos)
  <1> DEFINE negative == b[q + 1] = DEC_SIGN_NEG
             e      == ReadExponent(b, negative, q + 1)
             t      == Signed(negative, Bytes(b, q + 1, 1))[1]
             digits == q + 2 + (IF t = INT_ZERO THEN 0 ELSE SlotWidth(t))
             after  == {i \in (e.pos + 1)..Len(b) : b[i] = IF negative THEN 255 ELSE 0}
             ends   == {i \in (digits + 1)..Len(b) : b[i] = IF negative THEN 255 ELSE 0}
  <1>1. CanTake(b, q, 1) /\ ~(q >= Len(b)) /\ q \in Nat /\ Len(b) \in Nat /\ q + 1 <= Len(b)
    <2>1. CanTake(b, q, 1)
      BY DEF ReadDecimal, Failed
    <2>2. QED
      BY <2>1, LenProperties DEF CanTake
  <1>2. CASE b[q + 1] = DEC_SIGN_ZERO
    <2>1. ReadDecimal(b, q).pos = q + 1
      BY <1>1, <1>2 DEF ReadDecimal, Decoded
    <2>2. DecimalSpan(b, q) = SpanTo(b, q + 1)
      BY <1>1, <1>2 DEF DecimalSpan
    <2>3. QED
      BY <1>1, <2>1, <2>2 DEF SpansTo, SpanTo
  <1>3. CASE b[q + 1] # DEC_SIGN_ZERO
    <2>1. b[q + 1] \in {DEC_SIGN_NEG, DEC_SIGN_POS} /\ ReadDecimal(b, q) = DecimalAfter(b, negative, e)
      <3>1. \/ ReadDecimal(b, q) = Failed(q + 1)
            \/ b[q + 1] \in {DEC_SIGN_NEG, DEC_SIGN_POS} /\ ReadDecimal(b, q) = DecimalAfter(b, negative, e)
        BY <1>1, <1>3, Zenon DEF ReadDecimal
      <3>2. QED
        BY <3>1 DEF Failed
    <2>2. e.rc = 1 /\ after # {} /\ DecimalAfter(b, negative, e).pos = FirstOf(after)
      <3>1. DecimalAfter(b, negative, e).rc = 1
        BY <2>1
      <3> HIDE DEF e
      <3>2. \/ \E k : DecimalAfter(b, negative, e) = Failed(k)
            \/ /\ e.rc = 1 /\ after # {}
               /\ \E d : DecimalAfter(b, negative, e) = Decoded(FirstOf(after), d)
        BY Zenon DEF DecimalAfter, ReadDigits
      <3>3. \A k : Failed(k).rc # 1
        BY DEF Failed
      <3> HIDE DEF after
      <3>4. \A d : Decoded(FirstOf(after), d).pos = FirstOf(after)
        BY DEF Decoded
      <3>5. QED
        BY <3>1, <3>2, <3>3, <3>4, Zenon
    <2>3. /\ CanTake(b, q + 1, 1)
          /\ t \in FixedNeg \cup FixedPos \cup {INT_ZERO}
          /\ e.pos = (q + 1) + 1 + (IF t = INT_ZERO THEN 0 ELSE SlotWidth(t))
      <3>1. q + 1 \in 0..Len(b) /\ negative \in BOOLEAN
        BY <1>1
      <3>2. QED
        BY <2>2, <3>1, ExponentEnd, Zenon
    <2>4. (q + 1) + 1 = q + 2
      BY <1>1
    <2>5. e.pos = digits
      BY <2>3, <2>4, Zenon
    <2>6. after = ends
      BY <2>5, Zenon
    <2>7. ~(q + 1 >= Len(b))
      BY <1>1, <2>3 DEF CanTake
    <2>8. DecimalSpan(b, q) = SpanTo(b, FirstOf(ends))
      BY <1>1, <1>3, <2>1, <2>2, <2>3, <2>6, <2>7, Zenon DEF DecimalSpan
    <2>9. FirstOf(after) \in Nat /\ FirstOf(after) <= Len(b)
      <3>1. e.pos \in Nat
        <4>1. q + 1 \in 0..Len(b) /\ negative \in BOOLEAN
          BY <1>1
        <4>2. Advances(e, q + 1, b)
          BY <4>1, ExponentAdvances
        <4>3. QED
          BY <1>1, <4>2 DEF Advances
      <3> HIDE DEF e
      <3>2. after \in SUBSET Nat /\ \A i \in after : i <= Len(b)
        BY <3>1
      <3> HIDE DEF after
      <3>3. QED
        BY <2>2, <3>2, FirstOfProperties
    <2> HIDE DEF e, digits, after, ends
    <2>10. SpansTo(DecimalSpan(b, q), FirstOf(after))
      BY <2>6, <2>8, <2>9 DEF SpansTo, SpanTo
    <2>11. QED
      BY <2>1, <2>2, <2>10
  <1>4. QED
    BY <1>2, <1>3

LEMMA FramedAgrees ==
    ASSUME NEW b \in Seq(Byte), NEW q \in 0..Len(b), NEW t, ReadFramed(b, t, q).rc = 1
    PROVE  /\ Terminators(b, q) # {}
           /\ SpansTo(SpanTo(b, FirstOf(Terminators(b, q))), ReadFramed(b, t, q).pos)
  <1>1. Terminators(b, q) # {} /\ ReadFramed(b, t, q).pos = FirstOf(Terminators(b, q))
    BY DEF ReadFramed, Failed, Decoded
  <1>2. Terminators(b, q) \in SUBSET Nat /\ \A i \in Terminators(b, q) : i <= Len(b)
    BY DEF Terminators
  <1>3. FirstOf(Terminators(b, q)) <= Len(b)
    BY <1>1, <1>2, FirstOfProperties
  <1>4. QED
    BY <1>1, <1>3 DEF SpansTo, SpanTo

-----------------------------------------------------------------------------
(* The type codes of the fixed slots are not those of anything else, so    *)
(* the dispatch of struple_reader_next and of element_span is unambiguous. *)
LEMMA FixedCodes ==
    ASSUME NEW t \in FixedNeg \cup FixedPos
    PROVE  t \in Int /\ 16 <= t /\ t <= 48 /\ t # 32
  BY WidthAssumption DEF FixedNeg, FixedPos, INT_ZERO

OtherCodes == Bare \cup {INT_NEG_BIG, INT_POS_BIG, FLOAT32, FLOAT64, DECIMAL, TIMESTAMP, UUID} \cup Framed

LEMMA NotFixed == \A t \in OtherCodes : t \notin FixedNeg \cup FixedPos
  BY WidthAssumption
     DEF OtherCodes, Bare, Framed, FixedNeg, FixedPos, NIL, UNDEF, BOOL_FALSE, BOOL_TRUE, INT_ZERO, INT_NEG_BIG, INT_POS_BIG, FLOAT32, FLOAT64,
              DECIMAL, TIMESTAMP, UUID, STRING_CODE, BYTES, ARRAY, MAP, SET

LEMMA BareDispatch ==
    ASSUME NEW t \in Bare
    PROVE  /\ \A b, q : SpanAfter(b, t, q) = SpanTo(b, q)
           /\ \E e : \A b, q : DecodeElement(b, t, q) = Decoded(q, e)
  <1> USE DEF Bare, Framed, NIL, UNDEF, BOOL_FALSE, BOOL_TRUE, INT_ZERO, INT_NEG_BIG, INT_POS_BIG, FLOAT32, FLOAT64,
              DECIMAL, TIMESTAMP, UUID, STRING_CODE, BYTES, ARRAY, MAP, SET
  <1>1. ASSUME NEW b, NEW q
        PROVE  /\ SpanAfter(b, t, q) = SpanTo(b, q)
               /\ t = NIL        => DecodeElement(b, t, q) = Decoded(q, [kind |-> "nil"])
               /\ t = UNDEF      => DecodeElement(b, t, q) = Decoded(q, [kind |-> "undef"])
               /\ t = BOOL_FALSE => DecodeElement(b, t, q) = Decoded(q, [kind |-> "bool", val |-> FALSE])
               /\ t = BOOL_TRUE  => DecodeElement(b, t, q) = Decoded(q, [kind |-> "bool", val |-> TRUE])
               /\ t = INT_ZERO   => DecodeElement(b, t, q) = Decoded(q, IntElement(0, FALSE, <<>>))
    <2>1. SpanAfter(b, t, q) = SpanTo(b, q)
      BY NotFixed DEF SpanAfter, OtherCodes
    <2>2. CASE t = NIL
      BY <2>1, <2>2, NotFixed DEF DecodeElement, OtherCodes
    <2>3. CASE t = UNDEF
      BY <2>1, <2>3, NotFixed DEF DecodeElement, OtherCodes
    <2>4. CASE t = BOOL_FALSE
      BY <2>1, <2>4, NotFixed DEF DecodeElement, OtherCodes
    <2>5. CASE t = BOOL_TRUE
      BY <2>1, <2>5, NotFixed DEF DecodeElement, OtherCodes
    <2>6. CASE t = INT_ZERO
      BY <2>1, <2>6, NotFixed DEF DecodeElement, OtherCodes
    <2>7. QED
      BY <2>2, <2>3, <2>4, <2>5, <2>6
  <1>2. t \in {NIL, UNDEF, BOOL_FALSE, BOOL_TRUE, INT_ZERO}
    OBVIOUS
  <1> HIDE DEF Bare, NIL, UNDEF, BOOL_FALSE, BOOL_TRUE, INT_ZERO
  <1>3. \A b, q : SpanAfter(b, t, q) = SpanTo(b, q)
    BY <1>1, Zenon
  <1>4. CASE t = NIL
    <2>1. \A b, q : DecodeElement(b, t, q) = Decoded(q, [kind |-> "nil"])
      BY <1>1, <1>4, Zenon
    <2>2. QED
      BY <1>3, <2>1, Zenon
  <1>5. CASE t = UNDEF
    <2>1. \A b, q : DecodeElement(b, t, q) = Decoded(q, [kind |-> "undef"])
      BY <1>1, <1>5, Zenon
    <2>2. QED
      BY <1>3, <2>1, Zenon
  <1>6. CASE t = BOOL_FALSE
    <2>1. \A b, q : DecodeElement(b, t, q) = Decoded(q, [kind |-> "bool", val |-> FALSE])
      BY <1>1, <1>6, Zenon
    <2>2. QED
      BY <1>3, <2>1, Zenon
  <1>7. CASE t = BOOL_TRUE
    <2>1. \A b, q : DecodeElement(b, t, q) = Decoded(q, [kind |-> "bool", val |-> TRUE])
      BY <1>1, <1>7, Zenon
    <2>2. QED
      BY <1>3, <2>1, Zenon
  <1>8. CASE t = INT_ZERO
    <2>1. \A b, q : DecodeElement(b, t, q) = Decoded(q, IntElement(0, FALSE, <<>>))
      BY <1>1, <1>8, Zenon
    <2>2. QED
      BY <1>3, <2>1, Zenon
  <1>9. QED
    BY <1>2, <1>4, <1>5, <1>6, <1>7, <1>8, Zenon

LEMMA FixedDispatch ==
    ASSUME NEW b, NEW q, NEW t \in FixedNeg \cup FixedPos
    PROVE  /\ SpanAfter(b, t, q) = SpanTo(b, q + SlotWidth(t))
           /\ DecodeElement(b, t, q) = ReadFixedInt(b, t, q)
  <1> USE DEF Bare, Framed, NIL, UNDEF, BOOL_FALSE, BOOL_TRUE, INT_ZERO, INT_NEG_BIG, INT_POS_BIG, FLOAT32, FLOAT64,
              DECIMAL, TIMESTAMP, UUID, STRING_CODE, BYTES, ARRAY, MAP, SET
  <1>1. SpanAfter(b, t, q) = SpanTo(b, q + SlotWidth(t))
    BY FixedCodes DEF SpanAfter
  <1>2. DecodeElement(b, t, q) = ReadFixedInt(b, t, q)
    BY FixedCodes DEF DecodeElement
  <1>3. QED
    BY <1>1, <1>2

LEMMA BigIntDispatch ==
    ASSUME NEW b, NEW q, NEW t \in {INT_NEG_BIG, INT_POS_BIG}
    PROVE  SpanAfter(b, t, q) = BigIntSpan(b, t, q) /\ DecodeElement(b, t, q) = ReadBigInt(b, t, q)
  <1> USE DEF Bare, Framed, NIL, UNDEF, BOOL_FALSE, BOOL_TRUE, INT_ZERO, INT_NEG_BIG, INT_POS_BIG, FLOAT32, FLOAT64,
              DECIMAL, TIMESTAMP, UUID, STRING_CODE, BYTES, ARRAY, MAP, SET
  <1>1. SpanAfter(b, t, q) = BigIntSpan(b, t, q)
    BY NotFixed DEF SpanAfter, OtherCodes
  <1>2. DecodeElement(b, t, q) = ReadBigInt(b, t, q)
    BY NotFixed DEF DecodeElement, OtherCodes
  <1>3. QED
    BY <1>1, <1>2

(* The elements whose payload has one width.                               *)
LEMMA PayloadDispatch ==
    ASSUME NEW b, NEW q, NEW t \in {FLOAT32, FLOAT64, TIMESTAMP, UUID}
    PROVE  \E n \in {F32Width, F64Width, NativeWidth, UuidWidth} : \E e :
              SpanAfter(b, t, q) = SpanTo(b, q + n) /\ DecodeElement(b, t, q) = ReadPayload(b, q, n, e)
  <1> USE DEF Bare, Framed, NIL, UNDEF, BOOL_FALSE, BOOL_TRUE, INT_ZERO, INT_NEG_BIG, INT_POS_BIG, FLOAT32, FLOAT64,
              DECIMAL, TIMESTAMP, UUID, STRING_CODE, BYTES, ARRAY, MAP, SET
  <1>1. CASE t = FLOAT32
    BY <1>1, NotFixed DEF SpanAfter, DecodeElement, OtherCodes
  <1>2. CASE t = FLOAT64
    BY <1>2, NotFixed DEF SpanAfter, DecodeElement, OtherCodes
  <1>3. CASE t = TIMESTAMP
    BY <1>3, NotFixed DEF SpanAfter, DecodeElement, OtherCodes
  <1>4. CASE t = UUID
    BY <1>4, NotFixed DEF SpanAfter, DecodeElement, OtherCodes
  <1>5. QED
    BY <1>1, <1>2, <1>3, <1>4

(* Such an element is its payload, wherever the payload lies.              *)
PayloadOf(t, b, q, w, z, n, e) ==
    /\ n \in {F32Width, F64Width, NativeWidth, UuidWidth}
    /\ DecodeElement(b, t, q) = ReadPayload(b, q, n, e)
    /\ Bytes(w, z, n) = Bytes(b, q, n) => DecodeElement(w, t, z) = ReadPayload(w, z, n, e)

LEMMA PayloadDecides ==
    ASSUME NEW b, NEW q, NEW w, NEW z, NEW t \in {FLOAT32, FLOAT64, TIMESTAMP, UUID}
    PROVE  \E n, e : PayloadOf(t, b, q, w, z, n, e)
  <1> USE DEF Bare, Framed, NIL, UNDEF, BOOL_FALSE, BOOL_TRUE, INT_ZERO, INT_NEG_BIG, INT_POS_BIG, FLOAT32, FLOAT64,
              DECIMAL, TIMESTAMP, UUID, STRING_CODE, BYTES, ARRAY, MAP, SET
  <1>1. ASSUME NEW x, NEW y
        PROVE  /\ t = FLOAT32 => DecodeElement(x, t, y) = ReadPayload(x, y, F32Width,
                                   [kind |-> "f32", bits |-> DecFloatBits(Bytes(x, y, F32Width))])
               /\ t = FLOAT64 => DecodeElement(x, t, y) = ReadPayload(x, y, F64Width,
                                   [kind |-> "f64", bits |-> DecFloatBits(Bytes(x, y, F64Width))])
               /\ t = TIMESTAMP => DecodeElement(x, t, y) = ReadPayload(x, y, NativeWidth,
                                   [kind |-> "timestamp", data |-> FlipSign(Bytes(x, y, NativeWidth))])
               /\ t = UUID => DecodeElement(x, t, y) = ReadPayload(x, y, UuidWidth,
                                   [kind |-> "uuid", data |-> Bytes(x, y, UuidWidth)])
    <2>1. CASE t = FLOAT32
      BY <2>1, NotFixed DEF DecodeElement, OtherCodes
    <2>2. CASE t = FLOAT64
      BY <2>2, NotFixed DEF DecodeElement, OtherCodes
    <2>3. CASE t = TIMESTAMP
      BY <2>3, NotFixed DEF DecodeElement, OtherCodes
    <2>4. CASE t = UUID
      BY <2>4, NotFixed DEF DecodeElement, OtherCodes
    <2>5. QED
      BY <2>1, <2>2, <2>3, <2>4
  <1> HIDE DEF FLOAT32, FLOAT64, TIMESTAMP, UUID
  <1>2. CASE t = FLOAT32
    <2>1. PayloadOf(t, b, q, w, z, F32Width, [kind |-> "f32", bits |-> DecFloatBits(Bytes(b, q, F32Width))])
      BY <1>1, <1>2 DEF PayloadOf
    <2>2. QED
      BY <2>1, Zenon
  <1>3. CASE t = FLOAT64
    <2>1. PayloadOf(t, b, q, w, z, F64Width, [kind |-> "f64", bits |-> DecFloatBits(Bytes(b, q, F64Width))])
      BY <1>1, <1>3 DEF PayloadOf
    <2>2. QED
      BY <2>1, Zenon
  <1>4. CASE t = TIMESTAMP
    <2>1. PayloadOf(t, b, q, w, z, NativeWidth, [kind |-> "timestamp", data |-> FlipSign(Bytes(b, q, NativeWidth))])
      BY <1>1, <1>4 DEF PayloadOf
    <2>2. QED
      BY <2>1, Zenon
  <1>5. CASE t = UUID
    <2>1. PayloadOf(t, b, q, w, z, UuidWidth, [kind |-> "uuid", data |-> Bytes(b, q, UuidWidth)])
      BY <1>1, <1>5 DEF PayloadOf
    <2>2. QED
      BY <2>1, Zenon
  <1>6. QED
    BY <1>2, <1>3, <1>4, <1>5

LEMMA DecimalDispatch ==
    ASSUME NEW b, NEW q
    PROVE  SpanAfter(b, DECIMAL, q) = DecimalSpan(b, q) /\ DecodeElement(b, DECIMAL, q) = ReadDecimal(b, q)
  BY NotFixed DEF SpanAfter, DecodeElement, OtherCodes, Bare, Framed, NIL, UNDEF, BOOL_FALSE, BOOL_TRUE, INT_ZERO, INT_NEG_BIG, INT_POS_BIG, FLOAT32, FLOAT64,
              DECIMAL, TIMESTAMP, UUID, STRING_CODE, BYTES, ARRAY, MAP, SET

LEMMA FramedDispatch ==
    ASSUME NEW b, NEW q, NEW t \in Framed
    PROVE  /\ SpanAfter(b, t, q) = IF Terminators(b, q) = {} THEN NoSpan
                                   ELSE SpanTo(b, FirstOf(Terminators(b, q)))
           /\ DecodeElement(b, t, q) = ReadFramed(b, t, q)
  <1> USE DEF Bare, Framed, NIL, UNDEF, BOOL_FALSE, BOOL_TRUE, INT_ZERO, INT_NEG_BIG, INT_POS_BIG, FLOAT32, FLOAT64,
              DECIMAL, TIMESTAMP, UUID, STRING_CODE, BYTES, ARRAY, MAP, SET
  <1>1. SpanAfter(b, t, q) = IF Terminators(b, q) = {} THEN NoSpan
                             ELSE SpanTo(b, FirstOf(Terminators(b, q)))
    BY NotFixed DEF SpanAfter, OtherCodes
  <1>2. DecodeElement(b, t, q) = ReadFramed(b, t, q)
    BY NotFixed DEF DecodeElement, OtherCodes
  <1>3. QED
    BY <1>1, <1>2

LEMMA NoCodeDispatch ==
    ASSUME NEW b, NEW q, NEW t, t \notin OtherCodes \cup FixedNeg \cup FixedPos
    PROVE  DecodeElement(b, t, q) = Failed(q)
  BY DEF DecodeElement, OtherCodes, Bare

(* struple_reader_next and element_span: an element that decodes is        *)
(* skipped to the same place.                                              *)
LEMMA DecodeAgrees ==
    ASSUME NEW b \in Seq(Byte), NEW p \in 0..Len(b), Next(b, p).rc = 1
    PROVE  SpansTo(ElementSpan(b, p), Next(b, p).pos)
  <1> DEFINE t == b[p + 1]
             q == p + 1
  <1>1. ~(p >= Len(b)) /\ q \in 0..Len(b) /\ Len(b) \in Nat
    BY LenProperties DEF Next
  <1>2. Next(b, p) = DecodeElement(b, t, q) /\ ElementSpan(b, p) = SpanAfter(b, t, q)
    BY <1>1 DEF Next, ElementSpan
  <1>3. DecodeElement(b, t, q).rc = 1 /\ q \in Int
    BY <1>1, <1>2
  <1> HIDE DEF t, q
  <1> SUFFICES SpansTo(SpanAfter(b, t, q), DecodeElement(b, t, q).pos)
    BY <1>2
  <1>4. CASE t \in Bare
    BY <1>1, <1>4, BareDispatch DEF Decoded, SpansTo, SpanTo
  <1>5. CASE t \in FixedNeg \cup FixedPos
    <2> DEFINE n == SlotWidth(t)
    <2>1. \/ ReadFixedInt(b, t, q) \in {Failed(q), Failed(q + n)}
          \/ CanTake(b, q, n) /\ \E e : ReadFixedInt(b, t, q) = Decoded(q + n, e)
      BY Zenon DEF ReadFixedInt
    <2>2. n \in 1..16 /\ ReadFixedInt(b, t, q).rc = 1
      BY <1>3, <1>5, SlotWidthProperties, FixedDispatch
    <2> HIDE DEF n
    <2>3. CanTake(b, q, n) /\ ReadFixedInt(b, t, q).pos = q + n
      BY <2>1, <2>2 DEF Failed, Decoded
    <2>4. SpansTo(SpanTo(b, q + n), ReadFixedInt(b, t, q).pos)
      BY <1>1, <2>2, <2>3 DEF CanTake, SpansTo, SpanTo
    <2>5. QED
      BY <1>5, <2>4, FixedDispatch DEF n
  <1>6. CASE t \in {INT_NEG_BIG, INT_POS_BIG}
    BY <1>1, <1>3, <1>6, BigIntDispatch, BigIntAgrees
  <1>7. CASE t \in {FLOAT32, FLOAT64, TIMESTAMP, UUID}
    <2>1. PICK n \in {F32Width, F64Width, NativeWidth, UuidWidth} : \E e :
              SpanAfter(b, t, q) = SpanTo(b, q + n) /\ DecodeElement(b, t, q) = ReadPayload(b, q, n, e)
      BY <1>7, PayloadDispatch
    <2>2. PICK e : SpanAfter(b, t, q) = SpanTo(b, q + n) /\ DecodeElement(b, t, q) = ReadPayload(b, q, n, e)
      BY <2>1
    <2>3. QED
      BY <1>1, <1>3, <2>2, WidthAssumption
         DEF ReadPayload, CanTake, Failed, Decoded, SpansTo, SpanTo
  <1>8. CASE t = DECIMAL
    BY <1>1, <1>3, <1>8, DecimalDispatch, DecimalAgrees
  <1>9. CASE t \in Framed
    BY <1>1, <1>3, <1>9, FramedDispatch, FramedAgrees
  <1>10. CASE t \notin OtherCodes \cup FixedNeg \cup FixedPos
    BY <1>3, <1>10, NoCodeDispatch DEF Failed
  <1>11. QED
    BY <1>4, <1>5, <1>6, <1>7, <1>8, <1>9, <1>10 DEF OtherCodes

-----------------------------------------------------------------------------
(* An element is self-delimiting: w holds, from its start, what b holds    *)
(* from p to e, and an escape byte after it only if b has one there too.   *)
(* Then w decodes at its start to what b decodes to at p.                  *)
Window(b, p, w, e) ==
    /\ e - p <= Len(w)
    /\ \A i \in (p + 1)..e : w[i - p] = b[i]
    /\ e - p < Len(w) /\ w[e - p + 1] = 255 => e < Len(b) /\ b[e + 1] = 255

LEMMA WindowSubSeq ==
    ASSUME NEW b \in Seq(Byte), NEW w \in Seq(Byte), NEW p \in Nat, NEW e \in p..Len(b),
           Window(b, p, w, e), NEW lo \in (p + 1)..(e + 1), NEW hi \in Int, hi <= e
    PROVE  SubSeq(w, lo - p, hi - p) = SubSeq(b, lo, hi)
  <1>1. Len(b) \in Nat /\ Len(w) \in Nat
    BY LenProperties
  <1>2. ASSUME NEW i \in lo..hi
        PROVE  b[i] \in Byte /\ w[i - p] = b[i]
    <2>1. i \in 1..Len(b) /\ i \in (p + 1)..e
      BY <1>1
    <2>2. b[i] \in Byte
      BY <2>1, ElementOfSeq
    <2>3. QED
      BY <2>1, <2>2 DEF Window
  <1>3. \A j \in (lo - p)..(hi - p) : w[j] \in Byte
    <2> TAKE j \in (lo - p)..(hi - p)
    <2>1. j + p \in lo..hi /\ (j + p) - p = j
      OBVIOUS
    <2>2. w[(j + p) - p] \in Byte
      BY <1>2, <2>1
    <2>3. QED
      BY <2>1, <2>2
  <1>4. lo - p \in Int /\ hi - p \in Int /\ lo \in Int
    OBVIOUS
  <1>5. /\ SubSeq(b, lo, hi) \in Seq(Byte)
        /\ Len(SubSeq(b, lo, hi)) = IF lo <= hi THEN hi - lo + 1 ELSE 0
        /\ \A j \in 1..(hi - lo + 1) : SubSeq(b, lo, hi)[j] = b[lo + j - 1]
    <2>1. \A i \in lo..hi : b[i] \in Byte
      BY <1>2
    <2>2. lo \in Int /\ hi \in Int
      BY <1>4
    <2>3. QED
      BY <2>1, <2>2, SubSeqProperties
  <1>6. /\ SubSeq(w, lo - p, hi - p) \in Seq(Byte)
        /\ Len(SubSeq(w, lo - p, hi - p)) =
             IF lo - p <= hi - p THEN (hi - p) - (lo - p) + 1 ELSE 0
        /\ \A j \in 1..((hi - p) - (lo - p) + 1) :
             SubSeq(w, lo - p, hi - p)[j] = w[(lo - p) + j - 1]
    BY <1>3, <1>4, SubSeqProperties
  <1>7. Len(SubSeq(w, lo - p, hi - p)) = Len(SubSeq(b, lo, hi))
    BY <1>5, <1>6
  <1>8. ASSUME NEW j \in 1..Len(SubSeq(b, lo, hi))
        PROVE  SubSeq(w, lo - p, hi - p)[j] = SubSeq(b, lo, hi)[j]
    <2>1. j \in 1..(hi - lo + 1) /\ j \in 1..((hi - p) - (lo - p) + 1)
      BY <1>5
    <2>2. lo + j - 1 \in lo..hi /\ (lo - p) + j - 1 = (lo + j - 1) - p
      BY <2>1
    <2>3. w[(lo + j - 1) - p] = b[lo + j - 1]
      BY <1>2, <2>2
    <2>4. SubSeq(b, lo, hi)[j] = b[lo + j - 1]
      BY <1>5, <2>1
    <2>5. SubSeq(w, lo - p, hi - p)[j] = w[(lo - p) + j - 1]
      BY <1>6, <2>1
    <2>6. QED
      BY <2>2, <2>3, <2>4, <2>5
  <1>9. QED
    BY <1>5, <1>6, <1>7, <1>8, SeqEqual

LEMMA WindowBytes ==
    ASSUME NEW b \in Seq(Byte), NEW w \in Seq(Byte), NEW p \in Nat, NEW e \in p..Len(b),
           Window(b, p, w, e), NEW q \in p..e, NEW n \in Nat, q + n <= e
    PROVE  /\ Bytes(w, q - p, n) = Bytes(b, q, n)
           /\ CanTake(w, q - p, n)
           /\ CanTake(b, q, n)
  <1>1. Len(b) \in Nat /\ Len(w) \in Nat
    BY LenProperties
  <1>2. q + 1 \in (p + 1)..(e + 1) /\ q + n \in Int
    OBVIOUS
  <1>3. SubSeq(w, (q + 1) - p, (q + n) - p) = SubSeq(b, q + 1, q + n)
    BY <1>2, WindowSubSeq
  <1>4. (q + 1) - p = (q - p) + 1 /\ (q + n) - p = (q - p) + n
    OBVIOUS
  <1>5. Bytes(w, q - p, n) = Bytes(b, q, n)
    BY <1>3, <1>4 DEF Bytes
  <1>6. n <= Len(w) - (q - p) /\ n <= Len(b) - q
    BY <1>1 DEF Window
  <1>7. QED
    BY <1>5, <1>6 DEF CanTake

(* The least element of a set of offsets, seen from p.                     *)
LEMMA FirstShifted ==
    ASSUME NEW S \in SUBSET Nat, NEW T \in SUBSET Nat, NEW p \in Nat, S # {},
           FirstOf(S) >= p, FirstOf(S) - p \in T,
           \A i \in T : i < FirstOf(S) - p => i + p \in S
    PROVE  T # {} /\ FirstOf(T) = FirstOf(S) - p
  <1>1. FirstOf(S) \in S /\ \A j \in S : FirstOf(S) <= j
    BY FirstOfProperties
  <1>2. FirstOf(T) \in T /\ \A j \in T : FirstOf(T) <= j
    BY FirstOfProperties
  <1> DEFINE f == FirstOf(S)
             g == FirstOf(T)
  <1>3. /\ f \in S /\ f \in Nat /\ (\A j \in S : f <= j) /\ f >= p
        /\ g \in T /\ g \in Nat /\ (\A j \in T : g <= j) /\ f - p \in T
        /\ \A i \in T : i < f - p => i + p \in S
    BY <1>1, <1>2
  <1> HIDE DEF f, g
  <1>4. ~(g < f - p)
    BY <1>3
  <1>5. g = f - p
    BY <1>3, <1>4
  <1>6. QED
    BY <1>3, <1>5 DEF f, g

LEMMA PayloadLocal ==
    ASSUME NEW b \in Seq(Byte), NEW w \in Seq(Byte), NEW p \in Nat, NEW q \in p..Len(b),
           NEW n \in Nat, CanTake(b, q, n), Window(b, p, w, q + n)
    PROVE  /\ Bytes(w, q - p, n) = Bytes(b, q, n)
           /\ CanTake(w, q - p, n)
           /\ (q - p) + n = (q + n) - p
  <1>1. Len(b) \in Nat /\ q + n \in p..Len(b) /\ q \in p..(q + n)
    BY LenProperties DEF CanTake
  <1>2. QED
    BY <1>1, WindowBytes

LEMMA FixedIntLocal ==
    ASSUME NEW b \in Seq(Byte), NEW w \in Seq(Byte), NEW p \in Nat, NEW q \in p..Len(b),
           NEW t \in FixedNeg \cup FixedPos, ReadFixedInt(b, t, q).rc = 1,
           Window(b, p, w, ReadFixedInt(b, t, q).pos)
    PROVE  ReadFixedInt(w, t, q - p) =
             Decoded(ReadFixedInt(b, t, q).pos - p, ReadFixedInt(b, t, q).el)
  <1> DEFINE n == SlotWidth(t)
             r == ReadFixedInt(b, t, q)
             payload == Bytes(b, q, n)
             elem == IF t > INT_ZERO THEN IntElement(n, FALSE, payload)
                     ELSE IntElement(n, TRUE, ExcessMagnitude(payload))
  <1>1. n \in Nat
    BY SlotWidthProperties, SMTT(30)
  <1>2. \/ r \in {Failed(q), Failed(q + n)}
        \/ CanTake(b, q, n) /\ ~NonMinimalSlot(t > INT_ZERO, payload) /\ r = Decoded(q + n, elem)
    BY Zenon DEF ReadFixedInt
  <1>3. r.rc = 1
    OBVIOUS
  <1> HIDE DEF r, elem, payload, n
  <1>4. /\ CanTake(b, q, n) /\ ~NonMinimalSlot(t > INT_ZERO, payload) /\ r = Decoded(q + n, elem)
        /\ r.pos = q + n /\ r.el = elem
    BY <1>2, <1>3 DEF Failed, Decoded
  <1>5. Bytes(w, q - p, n) = payload /\ CanTake(w, q - p, n) /\ (q - p) + n = (q + n) - p
    BY <1>1, <1>4, PayloadLocal DEF payload, r
  <1>6. ReadFixedInt(w, t, q - p) = Decoded((q - p) + n, elem)
    BY <1>4, <1>5, Zenon DEF ReadFixedInt, n, elem
  <1>7. QED
    BY <1>4, <1>5, <1>6 DEF r

LEMMA BigIntLocal ==
    ASSUME NEW b \in Seq(Byte), NEW w \in Seq(Byte), NEW p \in Nat, NEW q \in p..Len(b),
           NEW t, ReadBigInt(b, t, q).rc = 1,
           Window(b, p, w, ReadBigInt(b, t, q).pos)
    PROVE  ReadBigInt(w, t, q - p) = Decoded(ReadBigInt(b, t, q).pos - p, ReadBigInt(b, t, q).el)
  <1> DEFINE negative == t = INT_NEG_BIG
             r    == ReadBigInt(b, t, q)
             m    == LenBytes(b, negative, q)
             lens == MagLens(b, negative, q)
             n    == FirstOf(lens)
             mag  == Signed(negative, Bytes(b, q + 1 + m, n))
             wm    == LenBytes(w, negative, q - p)
             wlens == MagLens(w, negative, q - p)
  <1>1. /\ CanTake(b, q, 1) /\ ~(m > LenOfLen \/ ~CanTake(b, q + 1, m)) /\ lens # {}
        /\ ~(n = 0 \/ m # ByteLen(n) \/ mag[1] = 0 \/ FitsSigned(negative, mag, FixedWidth))
        /\ r.pos = q + 1 + m + n
        /\ r.el = [kind |-> "bigint", neg |-> negative, mag |-> mag]
    BY DEF ReadBigInt, Failed, Decoded
  <1>2. Len(b) \in Nat /\ Len(w) \in Nat /\ negative \in BOOLEAN /\ q \in 0..Len(b) /\ q \in Nat
    BY LenProperties
  <1>3. m \in Nat
    BY <1>1, <1>2, LengthByte
  <1>4. lens \in SUBSET Nat /\ \A v \in lens : v <= Len(b) - (q + 1 + m)
    BY <1>1, <1>2, <1>3 DEF MagLens, DecodedIn, CanTake
  <1>5. n \in Nat /\ n \in lens /\ n <= Len(b) - (q + 1 + m)
    BY <1>1, <1>4, FirstOfProperties
  <1> DEFINE e == q + 1 + m + n
  <1>6. e \in p..Len(b) /\ Window(b, p, w, e)
    BY <1>1, <1>2, <1>3, <1>5
  <1>7. q \in p..e /\ q + 1 \in p..e /\ q + 1 + m \in p..e
    BY <1>2, <1>3, <1>5
  <1>8. /\ Bytes(w, q - p, 1) = Bytes(b, q, 1) /\ CanTake(w, q - p, 1)
        /\ Bytes(w, (q + 1) - p, m) = Bytes(b, q + 1, m) /\ CanTake(w, (q + 1) - p, m)
        /\ Bytes(w, (q + 1 + m) - p, n) = Bytes(b, q + 1 + m, n)
    <2>1. 1 \in Nat /\ q + 1 <= e /\ q + 1 + m <= e /\ q + 1 + m + n <= e
      BY <1>2, <1>3, <1>5
    <2> HIDE DEF e, m, n
    <2>2. Bytes(w, q - p, 1) = Bytes(b, q, 1) /\ CanTake(w, q - p, 1)
      BY <1>6, <1>7, <2>1, WindowBytes
    <2>3. Bytes(w, (q + 1) - p, m) = Bytes(b, q + 1, m) /\ CanTake(w, (q + 1) - p, m)
      BY <1>3, <1>6, <1>7, <2>1, WindowBytes
    <2>4. Bytes(w, (q + 1 + m) - p, n) = Bytes(b, q + 1 + m, n)
      BY <1>5, <1>6, <1>7, <2>1, WindowBytes
    <2>5. QED
      BY <2>2, <2>3, <2>4
  <1>9. (q + 1) - p = (q - p) + 1 /\ (q + 1 + m) - p = (q - p) + 1 + m
    BY <1>2, <1>3
  <1>10. wm = m
    BY <1>8 DEF LenBytes
  <1> DEFINE coded == Signed(negative, Bytes(b, q + 1, m))
             room  == Len(w) - ((q - p) + 1 + m)
  <1>11. wlens = DecodedIn(coded, 0..room)
    BY <1>8, <1>9, <1>10, Zenon DEF MagLens
  <1>12. lens = DecodedIn(coded, 0..(Len(b) - (q + 1 + m)))
    BY Zenon DEF MagLens
  <1>13. wlens # {} /\ FirstOf(wlens) = n
    <2> DEFINE limit == Len(b) - (q + 1 + m)
    <2>1. room \in Int /\ limit \in Int /\ n <= room /\ n <= limit
      <3>1. e - p <= Len(w)
        BY <1>6, Zenon DEF Window
      <3> HIDE DEF m, n, lens
      <3>2. QED
        BY <1>2, <1>3, <1>5, <3>1
    <2> HIDE DEF room, limit, coded, wlens, lens
    <2>2. lens = {v \in 0..limit : ToBE(v) = Trimmed(coded)} /\ wlens = {v \in 0..room : ToBE(v) = Trimmed(coded)}
      BY <1>11, <1>12, Zenon DEF DecodedIn, limit
    <2>3. n \in wlens /\ wlens \in SUBSET Nat
      BY <1>5, <2>1, <2>2
    <2>4. \A v \in wlens : v < n => v \in lens
      BY <1>5, <2>1, <2>2
    <2>5. \A v \in lens : n <= v
      BY <1>1, <1>4, FirstOfProperties
    <2> HIDE DEF n
    <2>6. FirstOf(wlens) \in wlens /\ \A v \in wlens : FirstOf(wlens) <= v
      BY <2>3, FirstOfProperties
    <2> DEFINE g == FirstOf(wlens)
    <2>7. g \in wlens /\ g \in Nat /\ g <= n
      BY <2>3, <2>6
    <2> HIDE DEF g
    <2>8. g = n
      BY <1>5, <2>4, <2>5, <2>7
    <2>9. QED
      BY <2>3, <2>8 DEF g
  <1> HIDE DEF m, lens, n, mag, wm, wlens, coded, room, e, r
  <1>14. Signed(negative, Bytes(w, (q - p) + 1 + wm, FirstOf(wlens))) = mag
    BY <1>8, <1>9, <1>10, <1>13 DEF mag
  <1>15. ReadBigInt(w, t, q - p) =
            Decoded((q - p) + 1 + m + n, [kind |-> "bigint", neg |-> negative, mag |-> mag])
    BY <1>1, <1>8, <1>9, <1>10, <1>13, <1>14, Zenon DEF ReadBigInt, wm, wlens
  <1>16. (q - p) + 1 + m + n = r.pos - p
    BY <1>1, <1>2, <1>3, <1>5
  <1>17. QED
    BY <1>1, <1>15, <1>16 DEF r

LEMMA ExponentLocal ==
    ASSUME NEW b \in Seq(Byte), NEW w \in Seq(Byte), NEW p \in Nat, NEW q \in p..Len(b),
           NEW negative \in BOOLEAN, ReadExponent(b, negative, q).rc = 1,
           NEW e \in ReadExponent(b, negative, q).pos..Len(b), Window(b, p, w, e)
    PROVE  ReadExponent(w, negative, q - p) =
             Decoded(ReadExponent(b, negative, q).pos - p, ReadExponent(b, negative, q).el)
  <1> DEFINE r == ReadExponent(b, negative, q)
             t == Signed(negative, Bytes(b, q, 1))[1]
             n == SlotWidth(t)
             v == Signed(negative, Bytes(b, q + 1, n))
  <1>1. q \in 0..Len(b) /\ Len(b) \in Nat /\ Len(w) \in Nat /\ q \in Nat
    BY LenProperties
  <1>2. r.rc = 1
    OBVIOUS
  <1>3. \/ r \in {Failed(q), Failed(q + 1), Failed(q + 1 + n)}
        \/ CanTake(b, q, 1) /\ t = INT_ZERO /\ r = Decoded(q + 1, 0)
        \/ /\ CanTake(b, q, 1) /\ t # INT_ZERO /\ t \in FixedNeg \cup FixedPos /\ CanTake(b, q + 1, n)
           /\ ~(n > NativeWidth \/ ExpValues(t, v) = {})
           /\ r = Decoded(q + 1 + n, FirstOf(ExpValues(t, v)))
    BY Zenon DEF ReadExponent
  <1>4. \/ CanTake(b, q, 1) /\ t = INT_ZERO /\ r = Decoded(q + 1, 0)
        \/ /\ CanTake(b, q, 1) /\ t # INT_ZERO /\ t \in FixedNeg \cup FixedPos /\ CanTake(b, q + 1, n)
           /\ ~(n > NativeWidth \/ ExpValues(t, v) = {})
           /\ r = Decoded(q + 1 + n, FirstOf(ExpValues(t, v)))
    <2> HIDE DEF r, t, n, v
    <2>1. QED
      BY <1>2, <1>3 DEF Failed
  <1>5. Advances(r, q, b)
    BY <1>1, ExponentAdvances
  <1>6. r.pos \in q..e /\ e \in p..Len(b) /\ e \in Nat
    BY <1>1, <1>5 DEF Advances
  <1>7. CASE CanTake(b, q, 1) /\ t = INT_ZERO /\ r = Decoded(q + 1, 0)
    <2> HIDE DEF r
    <2>1. r.pos = q + 1 /\ r.el = 0
      BY <1>7 DEF Decoded
    <2>2. q \in p..e /\ q + 1 <= e
      BY <1>1, <1>6, <2>1
    <2>3. Bytes(w, q - p, 1) = Bytes(b, q, 1) /\ CanTake(w, q - p, 1)
      BY <1>6, <2>2, WindowBytes
    <2>4. ReadExponent(w, negative, q - p) = Decoded((q - p) + 1, 0)
      BY <1>7, <2>3, Zenon DEF ReadExponent
    <2>5. (q - p) + 1 = r.pos - p
      BY <1>1, <2>1
    <2>6. QED
      BY <2>1, <2>4, <2>5 DEF r
  <1>8. CASE /\ CanTake(b, q, 1) /\ t # INT_ZERO /\ t \in FixedNeg \cup FixedPos /\ CanTake(b, q + 1, n)
             /\ ~(n > NativeWidth \/ ExpValues(t, v) = {})
             /\ r = Decoded(q + 1 + n, FirstOf(ExpValues(t, v)))
    <2>1. n \in Nat
      <3> HIDE DEF t
      <3>1. QED
        BY <1>8, SlotWidthProperties, SMTT(30)
    <2> HIDE DEF r, n, v
    <2>2. r.pos = q + 1 + n /\ r.el = FirstOf(ExpValues(t, v))
      BY <1>8 DEF Decoded
    <2>3. q \in p..e /\ q + 1 \in p..e /\ q + 1 <= e /\ (q + 1) + n <= e
      BY <1>1, <1>6, <2>1, <2>2
    <2>4. Bytes(w, q - p, 1) = Bytes(b, q, 1) /\ CanTake(w, q - p, 1)
      BY <1>6, <2>3, WindowBytes
    <2>5. Bytes(w, (q + 1) - p, n) = Bytes(b, q + 1, n) /\ CanTake(w, (q + 1) - p, n)
      BY <1>6, <2>1, <2>3, WindowBytes
    <2>6. (q + 1) - p = (q - p) + 1 /\ (q - p) + 1 + n = r.pos - p
      BY <1>1, <2>1, <2>2
    <2>7. ReadExponent(w, negative, q - p) = Decoded((q - p) + 1 + n, FirstOf(ExpValues(t, v)))
      BY <1>8, <2>4, <2>5, <2>6, Zenon DEF ReadExponent, n, v
    <2>8. QED
      BY <2>2, <2>6, <2>7 DEF r
  <1>9. QED
    BY <1>4, <1>7, <1>8

LEMMA DigitsLocal ==
    ASSUME NEW b \in Seq(Byte), NEW w \in Seq(Byte), NEW p \in Nat, NEW q \in p..Len(b),
           NEW e \in (q + 1)..Len(b), NEW negative, NEW x,
           ReadDigits(b, negative, x, q, e).rc = 1, Window(b, p, w, e)
    PROVE  /\ ReadDigits(b, negative, x, q, e).pos = e
           /\ ReadDigits(w, negative, x, q - p, e - p) =
                Decoded(e - p, ReadDigits(b, negative, x, q, e).el)
  <1> DEFINE pairs  == Signed(negative, SubSeq(b, q + 1, e - 1))
             digits == Digits(pairs)
             elem   == [kind |-> "decimal", neg |-> negative, digits |-> digits, exp |-> x - Len(digits)]
             r      == ReadDigits(b, negative, x, q, e)
  <1>1. Len(b) \in Nat /\ q \in Nat /\ e \in Nat /\ e \in p..Len(b) /\ q + 1 \in (p + 1)..(e + 1) /\ e - 1 \in Int /\ e - 1 <= e
    BY LenProperties
  <1>2. \/ r \in {Failed(q), Failed(e)}
        \/ /\ e # q + 1 /\ ~(\E k \in DOMAIN pairs : pairs[k] \notin 1..100)
           /\ r = Decoded(e, elem)
    BY Zenon DEF ReadDigits
  <1>3. r.rc = 1
    OBVIOUS
  <1> HIDE DEF r, elem, digits, pairs
  <1>4. /\ e # q + 1 /\ ~(\E k \in DOMAIN pairs : pairs[k] \notin 1..100)
        /\ r.pos = e /\ r.el = elem
    <2>1. ~(r \in {Failed(q), Failed(e)})
      BY <1>3 DEF Failed
    <2>2. r = Decoded(e, elem)
      BY <1>2, <2>1, Zenon
    <2>3. r.pos = e /\ r.el = elem
      BY <2>2 DEF Decoded
    <2>4. QED
      BY <1>2, <2>1, <2>3, Zenon
  <1>5. SubSeq(w, (q + 1) - p, (e - 1) - p) = SubSeq(b, q + 1, e - 1)
    BY <1>1, WindowSubSeq
  <1>6. (q + 1) - p = (q - p) + 1 /\ (e - 1) - p = (e - p) - 1 /\ e - p # (q - p) + 1
    BY <1>1, <1>4
  <1>7. SubSeq(w, (q - p) + 1, (e - p) - 1) = SubSeq(b, q + 1, e - 1)
    BY <1>5, <1>6
  <1>8. Signed(negative, SubSeq(w, (q - p) + 1, (e - p) - 1)) = pairs
    BY <1>7, Zenon DEF pairs
  <1>9. ReadDigits(w, negative, x, q - p, e - p) = Decoded(e - p, elem)
    BY <1>4, <1>6, <1>8, Zenon DEF ReadDigits, elem, digits
  <1>10. QED
    BY <1>4, <1>9 DEF r

LEMMA DecimalLocal ==
    ASSUME NEW b \in Seq(Byte), NEW w \in Seq(Byte), NEW p \in Nat, NEW q \in p..Len(b),
           ReadDecimal(b, q).rc = 1, Window(b, p, w, ReadDecimal(b, q).pos)
    PROVE  ReadDecimal(w, q - p) = Decoded(ReadDecimal(b, q).pos - p, ReadDecimal(b, q).el)
  <1> DEFINE r        == ReadDecimal(b, q)
             negative == b[q + 1] = DEC_SIGN_NEG
             x        == ReadExponent(b, negative, q + 1)
             stop     == IF negative THEN 255 ELSE 0
             ends     == {i \in (x.pos + 1)..Len(b) : b[i] = stop}
             zero     == [kind |-> "decimal", neg |-> FALSE, digits |-> <<>>, exp |-> 0]
  <1>1. q \in 0..Len(b) /\ Len(b) \in Nat /\ Len(w) \in Nat /\ q \in Nat
    BY LenProperties
  <1>2. Advances(r, q, b) /\ r.rc = 1
    BY <1>1, DecimalAdvances
  <1>3. \/ r \in {Failed(q), Failed(q + 1)}
        \/ CanTake(b, q, 1) /\ b[q + 1] = DEC_SIGN_ZERO /\ r = Decoded(q + 1, zero)
        \/ /\ CanTake(b, q, 1) /\ b[q + 1] # DEC_SIGN_ZERO /\ b[q + 1] \in {DEC_SIGN_NEG, DEC_SIGN_POS}
           /\ r = DecimalAfter(b, negative, x)
    BY Zenon DEF ReadDecimal
  <1>4. \/ CanTake(b, q, 1) /\ b[q + 1] = DEC_SIGN_ZERO /\ r = Decoded(q + 1, zero)
        \/ /\ CanTake(b, q, 1) /\ b[q + 1] # DEC_SIGN_ZERO /\ b[q + 1] \in {DEC_SIGN_NEG, DEC_SIGN_POS}
           /\ r = DecimalAfter(b, negative, x)
    <2> HIDE DEF r, x, zero
    <2>1. QED
      BY <1>2, <1>3 DEF Failed
  <1> DEFINE e == r.pos
  <1>5. e \in p..Len(b) /\ e \in Nat /\ Window(b, p, w, e) /\ q <= e
    <2> HIDE DEF r
    <2>1. e \in q..Len(b)
      BY <1>2 DEF Advances
    <2>2. QED
      BY <1>1, <2>1 DEF r
  <1>6. CASE CanTake(b, q, 1) /\ b[q + 1] = DEC_SIGN_ZERO /\ r = Decoded(q + 1, zero)
    <2> HIDE DEF r, zero
    <2>1. r.pos = q + 1 /\ r.el = zero
      BY <1>6 DEF Decoded
    <2>2. q + 1 \in (p + 1)..e /\ q \in p..e /\ q + 1 <= e /\ (q + 1) - p = (q - p) + 1
      BY <1>1, <1>5, <2>1
    <2> HIDE DEF e
    <2>3. w[(q - p) + 1] = b[q + 1] /\ CanTake(w, q - p, 1)
      <3>1. w[(q + 1) - p] = b[q + 1]
        BY <1>5, <2>2, Zenon DEF Window
      <3>2. 1 \in Nat /\ CanTake(w, q - p, 1)
        BY <1>5, <2>2, WindowBytes
      <3>3. QED
        BY <2>2, <3>1, <3>2
    <2>4. ReadDecimal(w, q - p) = Decoded((q - p) + 1, zero)
      BY <1>6, <2>3, Zenon DEF ReadDecimal, zero
    <2>5. QED
      BY <2>1, <2>2, <2>4 DEF r
  <1>7. CASE /\ CanTake(b, q, 1) /\ b[q + 1] # DEC_SIGN_ZERO /\ b[q + 1] \in {DEC_SIGN_NEG, DEC_SIGN_POS}
             /\ r = DecimalAfter(b, negative, x)
    <2> DEFINE last == FirstOf(ends)
               d    == ReadDigits(b, negative, x.el, x.pos, last)
    <2>1. x.rc = 1 /\ ends # {} /\ r = d
      <3>1. r = Failed(x.pos) \/ (x.rc = 1 /\ ends # {} /\ r = d)
        BY <1>7, Zenon DEF DecimalAfter
      <3> HIDE DEF r, d, ends, x
      <3>2. QED
        BY <1>2, <3>1 DEF Failed
    <2>2. q + 1 \in 0..Len(b) /\ negative \in BOOLEAN /\ q + 1 \in p..Len(b) /\ q + 1 \in Nat
      BY <1>1, <1>7 DEF CanTake
    <2>3. x.pos \in (q + 1)..Len(b)
      <3>1. Advances(x, q + 1, b)
        BY <2>2, ExponentAdvances
      <3>2. QED
        BY <3>1 DEF Advances
    <2>4. ends \in SUBSET Nat /\ (\A i \in ends : i \in (x.pos + 1)..Len(b) /\ b[i] = stop)
      <3> HIDE DEF x
      <3>1. QED
        BY <2>2, <2>3
    <2> HIDE DEF ends
    <2>5. last \in ends /\ last \in (x.pos + 1)..Len(b) /\ b[last] = stop /\ (\A i \in ends : last <= i)
      BY <2>1, <2>4, FirstOfProperties
    <2>6. last = e
      <3>1. d.pos \in {x.pos, last} /\ (d.rc = 1 => d.pos = last)
        <4>1. d \in {Failed(x.pos), Failed(last)} \/ \E el : d = Decoded(last, el)
          BY Zenon DEF ReadDigits
        <4> HIDE DEF d, x
        <4>2. QED
          BY <4>1 DEF Failed, Decoded
      <3> HIDE DEF d, r
      <3>2. QED
        BY <1>2, <2>1, <3>1
    <2> HIDE DEF last, e
    <2>7. x.pos \in p..Len(b) /\ x.pos \in q..e /\ x.pos \in (q + 1)..e /\ e \in (x.pos + 1)..Len(b) /\ e \in x.pos..Len(b)
      BY <1>1, <2>2, <2>3, <2>5, <2>6
    <2>8. ReadExponent(w, negative, (q + 1) - p) = Decoded(x.pos - p, x.el)
      BY <1>5, <2>1, <2>2, <2>7, ExponentLocal
    <2>9. /\ d.pos = e
          /\ ReadDigits(w, negative, x.el, x.pos - p, e - p) = Decoded(e - p, d.el)
      <3>1. ReadDigits(b, negative, x.el, x.pos, e).rc = 1
        BY <1>2, <2>1, <2>6
      <3> HIDE DEF x, negative
      <3>2. QED
        BY <1>5, <2>6, <2>7, <3>1, DigitsLocal
    <2> DEFINE wends == {i \in ((x.pos - p) + 1)..Len(w) : w[i] = stop}
    <2>10. wends # {} /\ FirstOf(wends) = e - p
      <3> HIDE DEF x, stop
      <3>1. x.pos \in Nat /\ x.pos - p \in Nat /\ e - p \in ((x.pos - p) + 1)..Len(w)
        BY <1>1, <1>5, <2>2, <2>7, SMTT(30) DEF Window
      <3>2. \A i \in 1..(e - p) : i + p \in (p + 1)..e /\ (i + p) - p = i
        BY <1>5
      <3>3. \A i \in 1..(e - p) : w[i] = b[i + p]
        <4> TAKE i \in 1..(e - p)
        <4>1. w[(i + p) - p] = b[i + p]
          BY <1>5, <3>2 DEF Window
        <4>2. QED
          BY <3>2, <4>1
      <3>4. e - p \in 1..(e - p) /\ (e - p) + p = e
        BY <1>1, <1>5, <3>1
      <3>5. wends \in SUBSET Nat /\ e - p \in wends
        BY <2>5, <2>6, <3>1, <3>3, <3>4, SMTT(30)
      <3>6. \A i \in wends : i < e - p => i + p \in ends
        <4> SUFFICES ASSUME NEW i \in wends, i < e - p PROVE i + p \in ends
          OBVIOUS
        <4>1. i \in ((x.pos - p) + 1)..Len(w) /\ w[i] = stop
          OBVIOUS
        <4>2. i \in 1..(e - p) /\ i \in Nat /\ i + p \in (x.pos + 1)..Len(b)
          <5>1. x.pos \in Nat /\ e \in Nat /\ p \in Nat /\ Len(b) \in Nat /\ e <= Len(b) /\ p <= x.pos
            BY <1>1, <1>5, <2>7, <3>1
          <5>2. i \in Int /\ (x.pos - p) + 1 <= i /\ i < e - p
            BY <1>1, <3>1, <4>1
          <5>3. QED
            BY <5>1, <5>2
        <4>3. b[i + p] = stop
          BY <3>3, <4>1, <4>2
        <4>4. QED
          BY <4>2, <4>3 DEF ends
      <3> HIDE DEF wends
      <3>7. FirstOf(ends) = e /\ e >= p
        BY <1>5, <2>6 DEF last
      <3>8. QED
        BY <2>1, <2>4, <3>5, <3>6, <3>7, FirstShifted
    <2>11. DecimalAfter(w, negative, Decoded(x.pos - p, x.el)) = Decoded(e - p, d.el)
      <3> DEFINE y == Decoded(x.pos - p, x.el)
      <3>1. y.rc = 1 /\ y.pos = x.pos - p /\ y.el = x.el
        BY DEF Decoded
      <3> HIDE DEF y
      <3>2. DecimalAfter(w, negative, y) = ReadDigits(w, negative, x.el, x.pos - p, FirstOf(wends))
        BY <2>10, <3>1, Zenon DEF DecimalAfter
      <3>3. QED
        BY <2>9, <2>10, <3>2 DEF y
    <2>12. q + 1 \in (p + 1)..e /\ q \in p..e /\ q + 1 <= e /\ (q + 1) - p = (q - p) + 1
      BY <1>1, <1>5, <2>7
    <2>13. w[(q - p) + 1] = b[q + 1] /\ CanTake(w, q - p, 1)
      <3>1. w[(q + 1) - p] = b[q + 1]
        BY <1>5, <2>12, Zenon DEF Window
      <3>2. 1 \in Nat /\ CanTake(w, q - p, 1)
        BY <1>5, <2>12, WindowBytes
      <3>3. QED
        BY <2>12, <3>1, <3>2
    <2>14. ReadDecimal(w, q - p) = DecimalAfter(w, negative, ReadExponent(w, negative, (q - p) + 1))
      BY <1>7, <2>13, Zenon DEF ReadDecimal
    <2>15. QED
      BY <2>1, <2>8, <2>9, <2>11, <2>12, <2>14
  <1>8. QED
    BY <1>4, <1>6, <1>7

LEMMA FramedLocal ==
    ASSUME NEW b \in Seq(Byte), NEW w \in Seq(Byte), NEW p \in Nat, NEW q \in p..Len(b),
           NEW t, ReadFramed(b, t, q).rc = 1, Window(b, p, w, ReadFramed(b, t, q).pos)
    PROVE  ReadFramed(w, t, q - p) = Decoded(ReadFramed(b, t, q).pos - p, ReadFramed(b, t, q).el)
  <1> DEFINE r     == ReadFramed(b, t, q)
             ends  == Terminators(b, q)
             wends == Terminators(w, q - p)
             e     == FirstOf(ends)
  <1>1. Len(b) \in Nat /\ Len(w) \in Nat /\ q \in Nat
    BY LenProperties
  <1>2. /\ ends # {} /\ r.pos = e
        /\ r.el = [kind |-> KindOf[t], data |-> Unescaped(SubSeq(b, q + 1, e - 1))]
    BY DEF ReadFramed, Failed, Decoded
  <1>3. ends \in SUBSET Nat
    BY <1>1 DEF Terminators
  <1>4. e \in ends /\ \A i \in ends : e <= i
    BY <1>2, <1>3, FirstOfProperties
  <1>5. /\ e \in (q + 1)..Len(b) /\ b[e] = 0 /\ ~(e < Len(b) /\ b[e + 1] = 255)
        /\ Window(b, p, w, e)
    BY <1>2, <1>4 DEF Terminators
  <1> HIDE DEF e, r
  <1>6. \A i \in 1..(e - p) : w[i] = b[i + p]
    <2> TAKE i \in 1..(e - p)
    <2>1. i + p \in (p + 1)..e /\ (i + p) - p = i
      BY <1>1, <1>5
    <2>2. w[(i + p) - p] = b[i + p]
      BY <1>5, <2>1 DEF Window
    <2>3. QED
      BY <2>1, <2>2
  <1>7. e - p \in 1..(e - p) /\ (e - p) + p = e /\ e - p \in ((q - p) + 1)..Len(w) /\ (e - p) \in Nat
    <2>1. e - p <= Len(w)
      BY <1>5, Zenon DEF Window
    <2>2. QED
      BY <1>1, <1>5, <2>1
  <1>8. e - p \in wends /\ wends \in SUBSET Nat
    <2>1. w[e - p] = 0
      BY <1>5, <1>6, <1>7
    <2>2. ~(e - p < Len(w) /\ w[(e - p) + 1] = 255)
      BY <1>5, Zenon DEF Window
    <2>3. q - p \in Nat
      BY <1>1
    <2>4. QED
      BY <1>1, <1>7, <2>1, <2>2, <2>3 DEF Terminators
  <1>9. \A i \in wends : i < e - p => i + p \in ends
    <2> SUFFICES ASSUME NEW i \in wends, i < e - p PROVE i + p \in ends
      OBVIOUS
    <2>1. i \in ((q - p) + 1)..Len(w) /\ w[i] = 0 /\ ~(i < Len(w) /\ w[i + 1] = 255)
      BY DEF Terminators
    <2>2. i \in 1..(e - p) /\ i + 1 \in 1..(e - p) /\ i < Len(w) /\ i + p \in (q + 1)..Len(b) /\ (i + 1) + p = (i + p) + 1
      BY <1>1, <1>5, <1>7, <2>1
    <2>3. b[i + p] = 0 /\ b[(i + p) + 1] # 255
      BY <1>6, <2>1, <2>2
    <2>4. QED
      BY <2>2, <2>3 DEF Terminators
  <1>10. wends # {} /\ FirstOf(wends) = e - p
    <2> HIDE DEF ends, wends
    <2>1. FirstOf(ends) = e /\ e >= p
      BY <1>1, <1>5 DEF e
    <2>2. QED
      BY <1>2, <1>3, <1>8, <1>9, <2>1, FirstShifted
  <1>11. SubSeq(w, (q - p) + 1, (e - p) - 1) = SubSeq(b, q + 1, e - 1)
    <2>1. q + 1 \in (p + 1)..(e + 1) /\ e - 1 \in Int /\ e - 1 <= e /\ e \in p..Len(b)
      BY <1>1, <1>5
    <2>2. SubSeq(w, (q + 1) - p, (e - 1) - p) = SubSeq(b, q + 1, e - 1)
      <3> DEFINE lo == q + 1
                 hi == e - 1
      <3>1. lo \in (p + 1)..(e + 1) /\ hi \in Int /\ hi <= e /\ e \in p..Len(b) /\ Window(b, p, w, e)
        BY <1>5, <2>1
      <3> HIDE DEF lo, hi
      <3>2. SubSeq(w, lo - p, hi - p) = SubSeq(b, lo, hi)
        BY <3>1, WindowSubSeq
      <3>3. QED
        BY <3>2 DEF lo, hi
    <2>3. (q + 1) - p = (q - p) + 1 /\ (e - 1) - p = (e - p) - 1
      BY <1>1, <1>5
    <2>4. QED
      BY <2>2, <2>3
  <1>12. ReadFramed(w, t, q - p) =
            Decoded(e - p, [kind |-> KindOf[t], data |-> Unescaped(SubSeq(b, q + 1, e - 1))])
    BY <1>10, <1>11, Zenon DEF ReadFramed
  <1>13. QED
    BY <1>2, <1>12 DEF r, e

(* What follows a type code, in any buffer that holds the same bytes.      *)
LEMMA ElementLocal ==
    ASSUME NEW b \in Seq(Byte), NEW w \in Seq(Byte), NEW p \in Nat, NEW q \in p..Len(b),
           NEW t, DecodeElement(b, t, q).rc = 1, Window(b, p, w, DecodeElement(b, t, q).pos)
    PROVE  DecodeElement(w, t, q - p) =
             Decoded(DecodeElement(b, t, q).pos - p, DecodeElement(b, t, q).el)
  <1>1. CASE t \in Bare
    <2>1. PICK e : \A x, z : DecodeElement(x, t, z) = Decoded(z, e)
      BY <1>1, BareDispatch
    <2>2. QED
      BY <2>1 DEF Decoded
  <1>2. CASE t \in FixedNeg \cup FixedPos
    BY <1>2, FixedDispatch, FixedIntLocal
  <1>3. CASE t \in {INT_NEG_BIG, INT_POS_BIG}
    BY <1>3, BigIntDispatch, BigIntLocal
  <1>4. CASE t \in {FLOAT32, FLOAT64, TIMESTAMP, UUID}
    <2>0. PICK n, e : PayloadOf(t, b, q, w, q - p, n, e)
      BY <1>4, PayloadDecides
    <2>1. /\ n \in {F32Width, F64Width, NativeWidth, UuidWidth}
          /\ DecodeElement(b, t, q) = ReadPayload(b, q, n, e)
          /\ Bytes(w, q - p, n) = Bytes(b, q, n) =>
               DecodeElement(w, t, q - p) = ReadPayload(w, q - p, n, e)
      BY <2>0 DEF PayloadOf
    <2>2. n \in Nat
      BY <2>1, WidthAssumption
    <2>3. CanTake(b, q, n) /\ DecodeElement(b, t, q) = Decoded(q + n, e)
      BY <2>1 DEF ReadPayload, Failed
    <2>4. DecodeElement(b, t, q).pos = q + n /\ DecodeElement(b, t, q).el = e
      BY <2>3 DEF Decoded
    <2>5. /\ Bytes(w, q - p, n) = Bytes(b, q, n)
          /\ CanTake(w, q - p, n)
          /\ (q - p) + n = (q + n) - p
      BY <2>2, <2>3, <2>4, PayloadLocal
    <2>6. QED
      BY <2>1, <2>4, <2>5 DEF ReadPayload
  <1>5. CASE t = DECIMAL
    BY <1>5, DecimalDispatch, DecimalLocal
  <1>6. CASE t \in Framed
    BY <1>6, FramedDispatch, FramedLocal
  <1>7. CASE t \notin OtherCodes \cup FixedNeg \cup FixedPos
    BY <1>7, NoCodeDispatch DEF Failed
  <1>8. QED
    BY <1>1, <1>2, <1>3, <1>4, <1>5, <1>6, <1>7 DEF OtherCodes

(* struple_reader_next gives the same element wherever its bytes lie and   *)
(* whatever comes after them.                                              *)
LEMMA NextLocal ==
    ASSUME NEW b \in Seq(Byte), NEW w \in Seq(Byte), NEW p \in 0..Len(b),
           Next(b, p).rc = 1, Window(b, p, w, Next(b, p).pos)
    PROVE  Next(w, 0) = Decoded(Next(b, p).pos - p, Next(b, p).el)
  <1> DEFINE e == Next(b, p).pos
  <1>1. Len(b) \in Nat /\ Len(w) \in Nat /\ p \in Nat /\ p # Len(b) /\ e \in (p + 1)..Len(b)
    BY LenProperties, NextAdvances DEF Advances
  <1>2. Next(b, p) = DecodeElement(b, b[p + 1], p + 1)
    BY <1>1 DEF Next
  <1> HIDE DEF e
  <1>3. w[1] = b[p + 1] /\ ~(0 >= Len(w))
    <2>1. p + 1 \in (p + 1)..e /\ (p + 1) - p = 1 /\ Window(b, p, w, e)
      BY <1>1 DEF e
    <2>2. w[(p + 1) - p] = b[p + 1] /\ e - p <= Len(w)
      BY <2>1, Zenon DEF Window
    <2>3. QED
      BY <1>1, <2>1, <2>2
  <1>4. Next(w, 0) = DecodeElement(w, b[p + 1], 1)
    BY <1>3 DEF Next
  <1>5. p + 1 \in p..Len(b) /\ (p + 1) - p = 1
    BY <1>1
  <1>6. DecodeElement(w, b[p + 1], (p + 1) - p) =
          Decoded(DecodeElement(b, b[p + 1], p + 1).pos - p, DecodeElement(b, b[p + 1], p + 1).el)
    BY <1>1, <1>2, <1>5, ElementLocal
  <1>7. QED
    BY <1>2, <1>4, <1>5, <1>6

-----------------------------------------------------------------------------
(* The bytes of b from offset p on.                                        *)
From(b, p) == SubSeq(b, p + 1, Len(b))

LEMMA FromProperties ==
    ASSUME NEW b \in Seq(Byte), NEW p \in 0..Len(b)
    PROVE  /\ From(b, p) \in Seq(Byte)
           /\ Len(From(b, p)) = Len(b) - p
           /\ \A k \in (p + 1)..Len(b) : From(b, p)[k - p] = b[k]
           /\ Window(b, p, From(b, p), Len(b))
  <1>1. Len(b) \in Nat /\ p \in Nat /\ p + 1 \in Int
    BY LenProperties
  <1>2. \A k \in (p + 1)..Len(b) : b[k] \in Byte
    <2>1. \A k \in (p + 1)..Len(b) : k \in 1..Len(b)
      BY <1>1
    <2>2. QED
      BY <2>1, ElementOfSeq
  <1>3. /\ From(b, p) \in Seq(Byte)
        /\ Len(From(b, p)) = IF p + 1 <= Len(b) THEN Len(b) - (p + 1) + 1 ELSE 0
        /\ \A k \in 1..(Len(b) - (p + 1) + 1) : From(b, p)[k] = b[(p + 1) + k - 1]
    BY <1>1, <1>2, SubSeqProperties DEF From
  <1> DEFINE w == From(b, p)
  <1> HIDE DEF w
  <1>4. Len(w) = Len(b) - p
    BY <1>1, <1>3 DEF w
  <1>5. ASSUME NEW k \in (p + 1)..Len(b)
        PROVE  w[k - p] = b[k]
    <2>1. k - p \in 1..(Len(b) - (p + 1) + 1) /\ (p + 1) + (k - p) - 1 = k
      BY <1>1
    <2>2. QED
      BY <1>3, <2>1 DEF w
  <1>6. Window(b, p, w, Len(b))
    BY <1>1, <1>4, <1>5 DEF Window
  <1>7. QED
    BY <1>3, <1>4, <1>5, <1>6 DEF w

-----------------------------------------------------------------------------
(* Where the first element of a nonempty accepted span ends.               *)
LEMMA FirstSpan ==
    ASSUME NEW b \in Seq(Byte)
    PROVE  /\ ElementSpan(b, 0).rc = 0 <=> b = <<>>
           /\ ElementSpan(b, 0).rc \in {-1, 0, 1}
           /\ ElementSpan(b, 0).rc = 1 => ElementSpan(b, 0).end \in 1..Len(b)
  <1>1. Len(b) \in Nat /\ 0 \in 0..Len(b) /\ (b = <<>> <=> Len(b) = 0)
    BY LenProperties, EmptySeq
  <1>2. CASE 0 = Len(b)
    <2>1. ElementSpan(b, 0).rc = 0
      BY <1>1, <1>2, SpanInBounds
    <2>2. QED
      BY <1>1, <1>2, <2>1
  <1>3. CASE 0 # Len(b)
    <2>1. Spans(ElementSpan(b, 0), 0 + 1, b)
      BY <1>1, <1>3, SpanInBounds
    <2>2. QED
      BY <1>1, <1>3, <2>1 DEF Spans
  <1>4. QED
    BY <1>2, <1>3

(* The definition of Split, unfolded once: what follows the first element  *)
(* is shorter, so the recursion is well founded.                           *)
LEMMA SplitUnfold ==
    ASSUME NEW b \in Seq(Byte)
    PROVE  Split[b] = IF ElementSpan(b, 0).rc # 1 THEN <<>>
                      ELSE <<SubSeq(b, 1, ElementSpan(b, 0).end)>> \o Split[From(b, ElementSpan(b, 0).end)]
  <1> DEFINE D    == Seq(Byte)
             size == [x \in D |-> Len(x)]
             stop == [x \in D |-> ElementSpan(x, 0).rc # 1]
             base == [x \in D |-> <<>>]
             head == [x \in D |-> <<SubSeq(x, 1, ElementSpan(x, 0).end)>>]
             rest == [x \in D |-> From(x, ElementSpan(x, 0).end)]
  <1>1. size \in [D -> Nat]
    BY LenProperties
  <1>2. ASSUME NEW x \in D
        PROVE  /\ size[x] = Len(x)
               /\ stop[x] <=> ElementSpan(x, 0).rc # 1
               /\ base[x] = <<>>
               /\ head[x] = <<SubSeq(x, 1, ElementSpan(x, 0).end)>>
               /\ rest[x] = From(x, ElementSpan(x, 0).end)
    BY Zenon
  <1> HIDE DEF size, stop, base, head, rest
  <1>3. ASSUME NEW x \in D, ~stop[x]
        PROVE  rest[x] \in D /\ size[rest[x]] < size[x]
    <2> DEFINE e == ElementSpan(x, 0).end
    <2>1. ElementSpan(x, 0).rc = 1
      BY <1>2, <1>3, Zenon
    <2>2. e \in 1..Len(x) /\ Len(x) \in Nat /\ e \in 0..Len(x)
      BY <2>1, FirstSpan, LenProperties
    <2>3. From(x, e) \in D /\ Len(From(x, e)) = Len(x) - e
      BY <2>2, FromProperties
    <2>4. rest[x] = From(x, e)
      BY <1>2
    <2>5. size[x] = Len(x) /\ size[rest[x]] = Len(From(x, e))
      BY <1>2, <2>3, <2>4
    <2> HIDE DEF e
    <2>6. QED
      BY <2>2, <2>3, <2>4, <2>5
  <1>4. Shrinks(D, size, stop, rest)
    BY <1>1, <1>3, Zenon DEF Shrinks
  <1>5. PICK f : IsWalk(f, D, stop, base, head, rest)
    BY <1>4, WalkExists
  <1>6. ASSUME NEW x \in D
        PROVE  (IF stop[x] THEN base[x] ELSE head[x] \o f[rest[x]])
                 = IF ElementSpan(x, 0).rc # 1 THEN <<>>
                   ELSE <<SubSeq(x, 1, ElementSpan(x, 0).end)>> \o f[SubSeq(x, ElementSpan(x, 0).end + 1, Len(x))]
    BY <1>2, Zenon DEF From
  <1>7. f = [x \in D |-> IF ElementSpan(x, 0).rc # 1 THEN <<>>
                         ELSE <<SubSeq(x, 1, ElementSpan(x, 0).end)>>
                                \o f[SubSeq(x, ElementSpan(x, 0).end + 1, Len(x))]]
    BY <1>5, <1>6, ZenonT(40) DEF IsWalk
  <1>8. \E g : g = [x \in Seq(Byte) |->
                      LET s == ElementSpan(x, 0)
                      IN  IF s.rc # 1 THEN <<>>
                          ELSE <<SubSeq(x, 1, s.end)>> \o g[SubSeq(x, s.end + 1, Len(x))]]
    BY <1>7, Zenon
  <1>9. Split = [x \in Seq(Byte) |->
                   LET s == ElementSpan(x, 0)
                   IN  IF s.rc # 1 THEN <<>>
                       ELSE <<SubSeq(x, 1, s.end)>> \o Split[SubSeq(x, s.end + 1, Len(x))]]
    BY <1>8, ZenonT(40) DEF Split
  <1>10. QED
    BY <1>9, Zenon DEF From

-----------------------------------------------------------------------------
(* Cutting a string at an offset loses nothing.                            *)
LEMMA CutAt ==
    ASSUME NEW S, NEW b \in Seq(S), NEW p \in 0..Len(b)
    PROVE  /\ SubSeq(b, 1, p) \in Seq(S)
           /\ Len(SubSeq(b, 1, p)) = p
           /\ SubSeq(b, p + 1, Len(b)) \in Seq(S)
           /\ Len(SubSeq(b, p + 1, Len(b))) = Len(b) - p
           /\ b = SubSeq(b, 1, p) \o SubSeq(b, p + 1, Len(b))
  <1>1. Len(b) \in Nat /\ p \in Nat
    BY LenProperties
  <1>2. \A k \in 1..Len(b) : b[k] \in S
    BY ElementOfSeq
  <1>3. (\A k \in 1..p : b[k] \in S) /\ (\A k \in (p + 1)..Len(b) : b[k] \in S)
    BY <1>1, <1>2
  <1>4. SubSeq(b, 1, p) \in Seq(S) /\ Len(SubSeq(b, 1, p)) = IF 1 <= p THEN p - 1 + 1 ELSE 0
    BY <1>1, <1>3, SubSeqProperties
  <1>5. /\ SubSeq(b, p + 1, Len(b)) \in Seq(S)
        /\ Len(SubSeq(b, p + 1, Len(b))) = IF p + 1 <= Len(b) THEN Len(b) - (p + 1) + 1 ELSE 0
    <2>1. p + 1 \in Int /\ Len(b) \in Int
      BY <1>1
    <2>2. QED
      BY <1>3, <2>1, SubSeqProperties
  <1>6. SubSeq(b, 1, p) \o SubSeq(b, p + 1, Len(b)) = SubSeq(b, 1, Len(b))
    <2>1. 1 \in 1..(Len(b) + 1) /\ p \in (1 - 1)..Len(b) /\ Len(b) \in p..Len(b)
      BY <1>1
    <2>2. QED
      BY <2>1, ConcatAdjacentSubSeq
  <1>7. SubSeq(b, 1, Len(b)) = b
    BY SubSeqFull
  <1>8. Len(SubSeq(b, 1, p)) = p /\ Len(SubSeq(b, p + 1, Len(b))) = Len(b) - p
    BY <1>1, <1>4, <1>5
  <1>9. QED
    BY <1>4, <1>5, <1>6, <1>7, <1>8

(* What follows the first string of a concatenation.                       *)
LEMMA CutConcat ==
    ASSUME NEW S, NEW s \in Seq(S), NEW t \in Seq(S)
    PROVE  SubSeq(s \o t, 1, Len(s)) = s /\ SubSeq(s \o t, Len(s) + 1, Len(s \o t)) = t
  <1> DEFINE u == s \o t
             n == Len(s)
  <1>1. /\ u \in Seq(S) /\ n \in Nat /\ Len(t) \in Nat /\ Len(u) = n + Len(t)
        /\ \A k \in 1..(n + Len(t)) : u[k] = IF k <= n THEN s[k] ELSE t[k - n]
    BY ConcatProperties, LenProperties
  <1> HIDE DEF u, n
  <1>2. \A k \in 1..Len(u) : u[k] \in S
    BY <1>1, ElementOfSeq
  <1>3. /\ SubSeq(u, 1, n) \in Seq(S)
        /\ Len(SubSeq(u, 1, n)) = IF 1 <= n THEN n - 1 + 1 ELSE 0
        /\ \A k \in 1..(n - 1 + 1) : SubSeq(u, 1, n)[k] = u[1 + k - 1]
    <2>1. \A k \in 1..n : u[k] \in S
      BY <1>1, <1>2
    <2>2. 1 \in Int /\ n \in Int
      BY <1>1
    <2>3. QED
      BY <2>1, <2>2, SubSeqProperties
  <1>4. /\ SubSeq(u, n + 1, Len(u)) \in Seq(S)
        /\ Len(SubSeq(u, n + 1, Len(u))) = IF n + 1 <= Len(u) THEN Len(u) - (n + 1) + 1 ELSE 0
        /\ \A k \in 1..(Len(u) - (n + 1) + 1) : SubSeq(u, n + 1, Len(u))[k] = u[(n + 1) + k - 1]
    <2>1. \A k \in (n + 1)..Len(u) : u[k] \in S
      BY <1>1, <1>2
    <2>2. n + 1 \in Int /\ Len(u) \in Int
      BY <1>1
    <2>3. QED
      BY <2>1, <2>2, SubSeqProperties
  <1>5. SubSeq(u, 1, n) = s
    <2>1. Len(SubSeq(u, 1, n)) = n
      BY <1>1, <1>3
    <2>2. ASSUME NEW k \in 1..n PROVE SubSeq(u, 1, n)[k] = s[k]
      <3>1. k \in 1..(n - 1 + 1) /\ 1 + k - 1 = k /\ k \in 1..(n + Len(t)) /\ k <= n
        BY <1>1
      <3>2. QED
        BY <1>1, <1>3, <3>1
    <2>3. QED
      BY <1>3, <2>1, <2>2, SeqEqual DEF n
  <1>6. SubSeq(u, n + 1, Len(u)) = t
    <2>1. Len(SubSeq(u, n + 1, Len(u))) = Len(t)
      BY <1>1, <1>4
    <2>2. ASSUME NEW k \in 1..Len(t) PROVE SubSeq(u, n + 1, Len(u))[k] = t[k]
      <3>1. /\ k \in 1..(Len(u) - (n + 1) + 1) /\ (n + 1) + k - 1 = n + k /\ n + k \in 1..(n + Len(t))
            /\ ~(n + k <= n) /\ (n + k) - n = k
        BY <1>1
      <3>2. QED
        BY <1>1, <1>4, <3>1
    <2>3. QED
      BY <1>4, <2>1, <2>2, SeqEqual
  <1>7. QED
    BY <1>5, <1>6 DEF u, n

(* The elements of b are strings and b is their concatenation followed by  *)
(* what is not an element.                                                 *)
LEMMA SplitDecomposes ==
    ASSUME NEW b \in Seq(Byte)
    PROVE  /\ Split[b] \in Seq(Seq(Byte))
           /\ \E r \in Seq(Byte) : b = FlattenSeq(Split[b]) \o r
  <1> DEFINE S == {n \in Nat : \A x \in Seq(Byte) : Len(x) <= n =>
                     /\ Split[x] \in Seq(Seq(Byte))
                     /\ \E r \in Seq(Byte) : x = FlattenSeq(Split[x]) \o r}
  <1>1. ASSUME NEW x \in Seq(Byte), ElementSpan(x, 0).rc # 1
        PROVE  /\ Split[x] \in Seq(Seq(Byte))
               /\ \E r \in Seq(Byte) : x = FlattenSeq(Split[x]) \o r
    <2>1. Split[x] = <<>> /\ <<>> \in Seq(Seq(Byte))
      BY <1>1, SplitUnfold, EmptySeq
    <2>2. FlattenSeq(Split[x]) \o x = x
      BY <2>1, FlattenEmpty, ConcatEmptySeq
    <2>3. QED
      BY <2>1, <2>2
  <1>2. ASSUME NEW x \in Seq(Byte), NEW n \in Nat, n \in S, Len(x) <= n + 1, ElementSpan(x, 0).rc = 1
        PROVE  /\ Split[x] \in Seq(Seq(Byte))
               /\ \E r \in Seq(Byte) : x = FlattenSeq(Split[x]) \o r
    <2> DEFINE e     == ElementSpan(x, 0).end
               first == SubSeq(x, 1, e)
               tail  == From(x, e)
    <2>1. e \in 1..Len(x) /\ Len(x) \in Nat /\ e \in 0..Len(x)
      BY <1>2, FirstSpan, LenProperties
    <2>2. Split[x] = <<first>> \o Split[tail]
      BY <1>2, SplitUnfold
    <2> HIDE DEF e
    <2>3. /\ first \in Seq(Byte) /\ tail \in Seq(Byte) /\ Len(tail) = Len(x) - e
          /\ x = first \o tail
      BY <2>1, CutAt DEF From
    <2> HIDE DEF first, tail
    <2>4. Len(tail) <= n
      BY <1>2, <2>1, <2>3
    <2>5. PICK r \in Seq(Byte) : tail = FlattenSeq(Split[tail]) \o r
      BY <1>2, <2>3, <2>4
    <2>6. Split[tail] \in Seq(Seq(Byte))
      BY <1>2, <2>3, <2>4
    <2>7. <<first>> \in Seq(Seq(Byte))
      BY <2>3
    <2>8. Split[x] \in Seq(Seq(Byte))
      BY <2>2, <2>6, <2>7, ConcatProperties
    <2>9. FlattenSeq(Split[x]) = first \o FlattenSeq(Split[tail])
      <3>1. FlattenSeq(<<first>> \o Split[tail]) = FlattenSeq(<<first>>) \o FlattenSeq(Split[tail])
        BY <2>6, <2>7, FlattenConcat
      <3>2. FlattenSeq(<<first>>) = first
        BY <2>3, FlattenOne
      <3>3. QED
        BY <2>2, <3>1, <3>2
    <2>10. (first \o FlattenSeq(Split[tail])) \o r = first \o (FlattenSeq(Split[tail]) \o r)
      <3> DEFINE all == FlattenSeq(Split[tail])
      <3>1. all \in Seq(Byte) /\ first \in Seq(Byte) /\ r \in Seq(Byte)
        BY <2>3, <2>6, FlattenType
      <3> HIDE DEF all
      <3>2. (first \o all) \o r = first \o (all \o r)
        BY <3>1, ConcatAssociative, SMTT(30)
      <3>3. QED
        BY <3>2 DEF all
    <2>11. x = FlattenSeq(Split[x]) \o r
      BY <2>3, <2>5, <2>9, <2>10
    <2>12. QED
      BY <2>8, <2>11
  <1>3. 0 \in S
    <2>1. ASSUME NEW x \in Seq(Byte), Len(x) <= 0
          PROVE  ElementSpan(x, 0).rc # 1
      <3>1. Len(x) \in Nat
        BY LenProperties
      <3>2. QED
        BY <2>1, <3>1, FirstSpan
    <2>2. QED
      BY <1>1, <2>1
  <1>4. ASSUME NEW n \in Nat, n \in S
        PROVE  n + 1 \in S
    <2>1. ASSUME NEW x \in Seq(Byte), Len(x) <= n + 1
          PROVE  /\ Split[x] \in Seq(Seq(Byte))
                 /\ \E r \in Seq(Byte) : x = FlattenSeq(Split[x]) \o r
      <3>1. CASE ElementSpan(x, 0).rc = 1
        <4> HIDE DEF S
        <4>1. QED
          BY <1>2, <1>4, <2>1, <3>1
      <3>2. CASE ElementSpan(x, 0).rc # 1
        BY <1>1, <3>2
      <3>3. QED
        BY <3>1, <3>2
    <2>2. n + 1 \in Nat
      OBVIOUS
    <2>3. QED
      BY <2>1, <2>2, Zenon
  <1> HIDE DEF S
  <1>5. \A n \in Nat : n \in S
    BY <1>3, <1>4, NatSetInduction
  <1>6. Len(b) \in S /\ Len(b) <= Len(b)
    BY <1>5, LenProperties
  <1>7. Split[b] \in Seq(Seq(Byte))
    BY <1>6 DEF S
  <1>8. \E r \in Seq(Byte) : b = FlattenSeq(Split[b]) \o r
    BY <1>6 DEF S
  <1>9. QED
    BY <1>7, <1>8

-----------------------------------------------------------------------------
(* Unescaping gives bytes.                                                 *)
LEMMA UnescapedBytes ==
    ASSUME NEW framed \in Seq(Byte)
    PROVE  Unescaped(framed) \in Seq(Byte)
  <1> DEFINE pieces == [k \in DOMAIN framed |->
                          IF k > 1 /\ framed[k - 1] = 0 THEN <<>> ELSE <<framed[k]>>]
  <1>1. Len(framed) \in Nat /\ DOMAIN framed = 1..Len(framed)
    BY LenProperties
  <1>2. ASSUME NEW k \in 1..Len(framed)
        PROVE  (IF k > 1 /\ framed[k - 1] = 0 THEN <<>> ELSE <<framed[k]>>) \in Seq(Byte)
    <2>1. framed[k] \in Byte
      BY ElementOfSeq
    <2>2. <<framed[k]>> \in Seq(Byte) /\ <<>> \in Seq(Byte)
      BY <2>1, EmptySeq
    <2>3. QED
      BY <2>2
  <1>3. pieces \in [1..Len(framed) -> Seq(Byte)]
    BY <1>1, <1>2
  <1> HIDE DEF pieces
  <1>4. pieces \in Seq(Seq(Byte))
    BY <1>1, <1>3
  <1>5. FlattenSeq(pieces) \in Seq(Byte)
    BY <1>4, FlattenType
  <1>6. QED
    BY <1>5 DEF Unescaped, pieces

Containers == {"array", "map", "set"}

(* Only framed type codes give containers.                                 *)
LEMMA OthersNoContainer ==
    ASSUME NEW b, NEW q, NEW t, t \notin Framed, DecodeElement(b, t, q).rc = 1
    PROVE  DecodeElement(b, t, q).el.kind \notin Containers
  <1> DEFINE NoContainer(r) == r.rc = 1 => r.el.kind \notin Containers
  <1>1. \A k : NoContainer(Failed(k))
    BY DEF Failed
  <1>2. ASSUME NEW k, NEW e, e.kind \notin Containers
        PROVE  NoContainer(Decoded(k, e))
    BY <1>2 DEF Decoded
  <1>3. NoContainer(ReadFixedInt(b, t, q))
    BY DEF ReadFixedInt, IntElement, Failed, Decoded, Containers
  <1>4. NoContainer(ReadBigInt(b, t, q))
    BY DEF ReadBigInt, Failed, Decoded, Containers
  <1>5. \A k, neg, d, x :
          NoContainer(Decoded(k, [kind |-> "decimal", neg |-> neg, digits |-> d, exp |-> x]))
    BY DEF Decoded, Containers
  <1>6. /\ NoContainer(Decoded(q, [kind |-> "nil"]))
        /\ NoContainer(Decoded(q, [kind |-> "undef"]))
        /\ NoContainer(Decoded(q, [kind |-> "bool", val |-> FALSE]))
        /\ NoContainer(Decoded(q, [kind |-> "bool", val |-> TRUE]))
        /\ NoContainer(Decoded(q, IntElement(0, FALSE, <<>>)))
    <2>1. /\ "nil" \notin Containers /\ "undef" \notin Containers /\ "bool" \notin Containers
          /\ "int" \notin Containers /\ "bigint" \notin Containers
      BY DEF Containers
    <2>2. /\ [kind |-> "nil"].kind \notin Containers /\ [kind |-> "undef"].kind \notin Containers
          /\ [kind |-> "bool", val |-> FALSE].kind \notin Containers
          /\ [kind |-> "bool", val |-> TRUE].kind \notin Containers
      BY <2>1
    <2>3. IntElement(0, FALSE, <<>>).kind \notin Containers
      BY <2>1 DEF IntElement
    <2> HIDE DEF NoContainer
    <2>4. QED
      BY <1>2, <2>2, <2>3
  <1>7. /\ NoContainer(ReadPayload(b, q, F32Width, [kind |-> "f32", bits |-> DecFloatBits(Bytes(b, q, F32Width))]))
        /\ NoContainer(ReadPayload(b, q, F64Width, [kind |-> "f64", bits |-> DecFloatBits(Bytes(b, q, F64Width))]))
        /\ NoContainer(ReadPayload(b, q, NativeWidth,
                                   [kind |-> "timestamp", data |-> FlipSign(Bytes(b, q, NativeWidth))]))
        /\ NoContainer(ReadPayload(b, q, UuidWidth, [kind |-> "uuid", data |-> Bytes(b, q, UuidWidth)]))
    <2>1. ASSUME NEW n, NEW e, e.kind \notin Containers
          PROVE  NoContainer(ReadPayload(b, q, n, e))
      BY <2>1 DEF ReadPayload, Failed, Decoded
    <2>2. QED
      BY <2>1 DEF Containers
  <1> HIDE DEF NoContainer
  <1>8. NoContainer(ReadDecimal(b, q))
    BY <1>1, <1>5, ZenonT(40) DEF ReadDecimal, DecimalAfter, ReadDigits
  <1>9. NoContainer(DecodeElement(b, t, q))
    BY <1>1, <1>3, <1>4, <1>6, <1>7, <1>8 DEF DecodeElement
  <1>10. QED
    BY <1>9 DEF NoContainer

(* The contents of a container are bytes.                                  *)
LEMMA ContentsBytes ==
    ASSUME NEW b \in Seq(Byte), Next(b, 0).rc = 1, Next(b, 0).el.kind \in Containers
    PROVE  Next(b, 0).el.data \in Seq(Byte)
  <1> DEFINE t == b[1]
             S == Terminators(b, 1)
  <1>1. Next(b, 0) = DecodeElement(b, t, 1) /\ Len(b) \in Nat \ {0}
    <2>1. Len(b) \in Nat
      BY LenProperties
    <2>2. ~(0 >= Len(b))
      BY DEF Next
    <2>3. QED
      BY <2>1, <2>2 DEF Next
  <1>2. t \in Framed
    BY <1>1, OthersNoContainer
  <1> HIDE DEF t
  <1>3. DecodeElement(b, t, 1) = ReadFramed(b, t, 1)
    BY <1>2, FramedDispatch
  <1>4. S # {} /\ ReadFramed(b, t, 1).el.data = Unescaped(SubSeq(b, 1 + 1, FirstOf(S) - 1))
    BY <1>1, <1>3 DEF ReadFramed, Failed, Decoded
  <1>5. FirstOf(S) \in 2..Len(b)
    <2>1. S \in SUBSET Nat /\ \A k \in S : k \in 2..Len(b)
      BY DEF Terminators
    <2> HIDE DEF S
    <2>2. QED
      BY <1>4, <2>1, FirstOfProperties
  <1> HIDE DEF S
  <1>6. SubSeq(b, 1 + 1, FirstOf(S) - 1) \in Seq(Byte)
    <2>1. \A k \in (1 + 1)..(FirstOf(S) - 1) : k \in 1..Len(b)
      BY <1>1, <1>5
    <2>2. \A k \in (1 + 1)..(FirstOf(S) - 1) : b[k] \in Byte
      BY <2>1, ElementOfSeq
    <2>3. 1 + 1 \in Int /\ FirstOf(S) - 1 \in Int
      BY <1>5
    <2>4. QED
      BY <2>2, <2>3, SubSeqProperties
  <1>7. QED
    BY <1>1, <1>3, <1>4, <1>6, UnescapedBytes

-----------------------------------------------------------------------------
(* The bytes of a number are its last one and those of the quotient.       *)
LEMMA LittleEndianUnfold ==
    \A n \in Nat : LittleEndian[n] = IF n = 0 THEN <<>> ELSE <<n % 256>> \o LittleEndian[n \div 256]
  <1> DEFINE Low(n)  == <<n % 256>>
             High(n) == n \div 256
             size == [n \in Nat |-> n]
             stop == [n \in Nat |-> n = 0]
             base == [n \in Nat |-> <<>>]
             head == [n \in Nat |-> Low(n)]
             rest == [n \in Nat |-> High(n)]
  <1>1. size \in [Nat -> Nat]
    OBVIOUS
  <1>2. \A n \in Nat : n # 0 => High(n) \in Nat /\ High(n) < n
    OBVIOUS
  <1> HIDE DEF Low, High
  <1>3. ASSUME NEW n \in Nat
        PROVE  /\ size[n] = n
               /\ stop[n] <=> n = 0
               /\ base[n] = <<>>
               /\ head[n] = Low(n)
               /\ rest[n] = High(n)
    BY Zenon
  <1> HIDE DEF size, stop, base, head, rest
  <1>4. ASSUME NEW n \in Nat, ~stop[n]
        PROVE  rest[n] \in Nat /\ size[rest[n]] < size[n]
    BY <1>2, <1>3, <1>4
  <1>5. Shrinks(Nat, size, stop, rest)
    BY <1>1, <1>4, Zenon DEF Shrinks
  <1>6. PICK f : IsWalk(f, Nat, stop, base, head, rest)
    BY <1>5, WalkExists
  <1>7. ASSUME NEW n \in Nat
        PROVE  (IF stop[n] THEN base[n] ELSE head[n] \o f[rest[n]])
                 = IF n = 0 THEN <<>> ELSE Low(n) \o f[High(n)]
    BY <1>3, Zenon
  <1>8. f = [n \in Nat |-> IF n = 0 THEN <<>> ELSE Low(n) \o f[High(n)]]
    BY <1>6, <1>7, Zenon DEF IsWalk
  <1>9. LittleEndian = CHOOSE g : g = [n \in Nat |-> IF n = 0 THEN <<>> ELSE Low(n) \o g[High(n)]]
    BY DEF LittleEndian, Low, High
  <1>10. LittleEndian = [n \in Nat |-> IF n = 0 THEN <<>> ELSE Low(n) \o LittleEndian[High(n)]]
    BY <1>8, <1>9, Zenon
  <1>11. \A n \in Nat : LittleEndian[n] = IF n = 0 THEN <<>> ELSE Low(n) \o LittleEndian[High(n)]
    BY <1>10, Zenon
  <1>12. QED
    BY <1>11 DEF Low, High

(* A number's bytes are bytes; it has none exactly when it is 0.           *)
LEMMA LittleEndianBytes ==
    \A n \in Nat : /\ LittleEndian[n] \in Seq(Byte)
                   /\ n # 0 => Len(LittleEndian[n]) = 1 + Len(LittleEndian[n \div 256])
  <1> DEFINE S == {k \in Nat : \A n \in Nat : n <= k => LittleEndian[n] \in Seq(Byte)}
  <1>1. \A n \in Nat : n # 0 => <<n % 256>> \in Seq(Byte) /\ n \div 256 \in Nat /\ n \div 256 < n
    BY DEF Byte
  <1>2. 0 \in S
    <2>1. LittleEndian[0] \in Seq(Byte)
      BY LittleEndianUnfold, EmptySeq
    <2>2. QED
      BY <2>1
  <1>3. ASSUME NEW k \in Nat, k \in S
        PROVE  k + 1 \in S
    <2>1. ASSUME NEW n \in Nat, n <= k + 1
          PROVE  LittleEndian[n] \in Seq(Byte)
      <3>1. CASE n = 0
        BY <1>2, <3>1
      <3>2. CASE n # 0
        <4>1. n \div 256 \in Nat /\ n \div 256 <= k /\ <<n % 256>> \in Seq(Byte)
          BY <1>1, <2>1, <3>2
        <4>2. LittleEndian[n \div 256] \in Seq(Byte)
          BY <1>3, <4>1
        <4>3. <<n % 256>> \o LittleEndian[n \div 256] \in Seq(Byte)
          BY <4>1, <4>2, ConcatProperties
        <4>4. QED
          BY <3>2, <4>3, LittleEndianUnfold
      <3>3. QED
        BY <3>1, <3>2
    <2>2. QED
      BY <2>1
  <1> HIDE DEF S
  <1>4. \A k \in Nat : k \in S
    BY <1>2, <1>3, NatSetInduction
  <1>5. ASSUME NEW n \in Nat
        PROVE  LittleEndian[n] \in Seq(Byte)
    <2>1. n \in S /\ n <= n
      BY <1>4
    <2>2. QED
      BY <2>1 DEF S
  <1>6. ASSUME NEW n \in Nat, n # 0
        PROVE  Len(LittleEndian[n]) = 1 + Len(LittleEndian[n \div 256])
    <2>1. <<n % 256>> \in Seq(Byte) /\ n \div 256 \in Nat
      BY <1>1, <1>6
    <2>2. LittleEndian[n \div 256] \in Seq(Byte)
      BY <1>5, <2>1
    <2>3. Len(<<n % 256>> \o LittleEndian[n \div 256]) = Len(<<n % 256>>) + Len(LittleEndian[n \div 256])
      BY <2>1, <2>2, ConcatProperties
    <2>4. Len(<<n % 256>>) = 1
      OBVIOUS
    <2>5. LittleEndian[n] = <<n % 256>> \o LittleEndian[n \div 256]
      BY <1>6, LittleEndianUnfold
    <2>6. QED
      BY <2>3, <2>4, <2>5
  <1>7. QED
    BY <1>5, <1>6

(* A larger number has no fewer bytes.                                     *)
LEMMA ByteLenMonotone ==
    \A n, m \in Nat : n <= m => ByteLen(n) <= ByteLen(m)
  <1> DEFINE S == {k \in Nat : \A n, m \in Nat : n <= m /\ m <= k => ByteLen(n) <= ByteLen(m)}
  <1>1. \A n \in Nat : ByteLen(n) \in Nat
    BY LittleEndianBytes, LenProperties DEF ByteLen
  <1>2. ByteLen(0) = 0
    BY LittleEndianUnfold, EmptySeq DEF ByteLen
  <1>3. \A n \in Nat : n # 0 => ByteLen(n) = 1 + ByteLen(n \div 256)
    BY LittleEndianBytes DEF ByteLen
  <1>4. 0 \in S
    <2>1. \A n, m \in Nat : n <= m /\ m <= 0 => n = 0 /\ m = 0
      OBVIOUS
    <2>2. QED
      BY <1>2, <2>1
  <1>5. ASSUME NEW k \in Nat, k \in S
        PROVE  k + 1 \in S
    <2>1. ASSUME NEW n \in Nat, NEW m \in Nat, n <= m, m <= k + 1
          PROVE  ByteLen(n) <= ByteLen(m)
      <3>1. CASE n = 0
        BY <1>1, <1>2, <3>1
      <3>2. CASE n # 0
        <4>1. m # 0
          BY <2>1, <3>2
        <4>2. /\ n \div 256 \in Nat /\ m \div 256 \in Nat
              /\ n \div 256 <= m \div 256 /\ m \div 256 <= k
          BY <2>1, <4>1
        <4>3. ByteLen(n \div 256) <= ByteLen(m \div 256)
          BY <1>5, <4>2
        <4>4. ByteLen(n) = 1 + ByteLen(n \div 256) /\ ByteLen(m) = 1 + ByteLen(m \div 256)
          BY <1>3, <3>2, <4>1
        <4>5. ByteLen(n \div 256) \in Nat /\ ByteLen(m \div 256) \in Nat
          BY <1>1, <4>2
        <4>6. QED
          BY <4>3, <4>4, <4>5
      <3>3. QED
        BY <3>1, <3>2
    <2>2. QED
      BY <2>1
  <1> HIDE DEF S
  <1>6. \A k \in Nat : k \in S
    BY <1>4, <1>5, NatSetInduction
  <1>7. ASSUME NEW n \in Nat, NEW m \in Nat, n <= m
        PROVE  ByteLen(n) <= ByteLen(m)
    <2>1. m \in S /\ m <= m
      BY <1>6
    <2>2. QED
      BY <1>7, <2>1 DEF S
  <1>8. QED
    BY <1>7

(* A number below 256 has one byte at most.                                *)
LEMMA ShortNumbers == \A n \in Byte : ByteLen(n) <= 1
  <1>1. ASSUME NEW n \in Byte
        PROVE  ByteLen(n) <= 1
    <2>1. n \in Nat /\ n \div 256 = 0
      BY DEF Byte
    <2>2. ByteLen(0) = 0
      BY LittleEndianUnfold, EmptySeq DEF ByteLen
    <2>3. n # 0 => ByteLen(n) = 1 + ByteLen(n \div 256)
      BY <2>1, LittleEndianBytes DEF ByteLen
    <2>4. QED
      BY <2>1, <2>2, <2>3
  <1>2. QED
    BY <1>1

LEMMA ReverseType ==
    ASSUME NEW S, NEW s \in Seq(S)
    PROVE  Reverse(s) \in Seq(S) /\ Len(Reverse(s)) = Len(s)
  <1>1. Len(s) \in Nat
    BY LenProperties
  <1>2. \A i \in 1..Len(s) : (Len(s) - i) + 1 \in 1..Len(s)
    BY <1>1
  <1>3. \A i \in 1..Len(s) : s[(Len(s) - i) + 1] \in S
    BY <1>2, ElementOfSeq
  <1> DEFINE n == Len(s)
  <1>4. Reverse(s) = [i \in 1..n |-> s[(n - i) + 1]]
    BY DEF Reverse
  <1> HIDE DEF n
  <1>5. Reverse(s) \in [1..n -> S] /\ n \in Nat
    BY <1>1, <1>3, <1>4 DEF n
  <1>6. QED
    BY <1>5 DEF n

LEMMA ToBEBytes ==
    ASSUME NEW n \in Nat
    PROVE  ToBE(n) \in Seq(Byte) /\ Len(ToBE(n)) = ByteLen(n) /\ ByteLen(n) \in Nat
  <1>1. LittleEndian[n] \in Seq(Byte)
    BY LittleEndianBytes
  <1>2. QED
    BY <1>1, ReverseType, LenProperties DEF ToBE, ByteLen

-----------------------------------------------------------------------------
(* A string of numbers ends in zeros from some place on.                   *)
LEMMA LastSignificant ==
    ASSUME NEW s, Len(s) \in Nat
    PROVE  \E n \in 0..Len(s) : /\ n = 0 \/ s[n] # 0
                                /\ \A i \in (n + 1)..Len(s) : s[i] = 0
  <1> DEFINE L == Len(s)
             T == {n \in Nat : n <= L /\ \A i \in (n + 1)..L : s[i] = 0}
  <1> SUFFICES \E n \in 0..L : (n = 0 \/ s[n] # 0) /\ \A i \in (n + 1)..L : s[i] = 0
    OBVIOUS
  <1>1. L \in Nat
    OBVIOUS
  <1> HIDE DEF L
  <1>2. L \in T /\ T \in SUBSET Nat
    BY <1>1
  <1> DEFINE n == FirstOf(T)
  <1>3. n \in T /\ \A j \in T : n <= j
    BY <1>2, FirstOfProperties
  <1> HIDE DEF n
  <1>4. n \in 0..L /\ \A i \in (n + 1)..L : s[i] = 0
    BY <1>1, <1>3
  <1>5. ASSUME n # 0, s[n] = 0
        PROVE  FALSE
    <2>1. n - 1 \in Nat /\ n - 1 <= L /\ (n - 1) + 1 = n
      BY <1>1, <1>4, <1>5
    <2>2. \A i \in n..L : i = n \/ i \in (n + 1)..L
      BY <1>1, <1>4
    <2>3. \A i \in n..L : s[i] = 0
      BY <1>4, <1>5, <2>2
    <2>4. n - 1 \in T
      BY <2>1, <2>3
    <2>5. QED
      BY <1>3, <2>1, <2>4
  <1>6. QED
    BY <1>4, <1>5

(* Trimming drops leading zeros only.                                      *)
LEMMA TrimmedProperties ==
    ASSUME NEW S, NEW s \in Seq(S)
    PROVE  /\ Trimmed(s) \in Seq(S)
           /\ Len(Trimmed(s)) \in Nat
           /\ Len(Trimmed(s)) <= Len(s)
           /\ Trimmed(s) # <<>> => Trimmed(s)[1] # 0 /\ Len(Trimmed(s)) >= 1
  <1> DEFINE sig == {i \in DOMAIN s : s[i] # 0}
             p == FirstOf(sig)
             t == SubSeq(s, p, Len(s))
  <1>1. Len(s) \in Nat /\ DOMAIN s = 1..Len(s)
    BY LenProperties
  <1>2. CASE sig = {}
    <2>1. Trimmed(s) = <<>>
      BY <1>2 DEF Trimmed
    <2>2. QED
      BY <1>1, <2>1, EmptySeq
  <1>3. CASE sig # {}
    <2>1. sig \in SUBSET Nat /\ sig \subseteq 1..Len(s)
      BY <1>1
    <2>2. Trimmed(s) = t
      BY <1>3 DEF Trimmed
    <2>3. p \in sig
      <3> HIDE DEF sig
      <3>1. QED
        BY <1>3, <2>1, FirstOfProperties
    <2>4. p \in 1..Len(s) /\ s[p] # 0
      BY <1>1, <2>3
    <2> HIDE DEF p, sig
    <2>5. \A i \in p..Len(s) : i \in 1..Len(s)
      BY <1>1, <2>4
    <2>6. \A i \in p..Len(s) : s[i] \in S
      BY <2>5, ElementOfSeq
    <2>7. p \in Int /\ Len(s) \in Int
      BY <1>1, <2>4
    <2>8. /\ t \in Seq(S)
          /\ Len(t) = IF p <= Len(s) THEN Len(s) - p + 1 ELSE 0
          /\ \A i \in 1..(Len(s) - p + 1) : t[i] = s[p + i - 1]
      BY <2>6, <2>7, SubSeqProperties
    <2>9. 1 \in 1..(Len(s) - p + 1) /\ p + 1 - 1 = p
      BY <1>1, <2>4
    <2>10. t[1] = s[p]
      BY <2>8, <2>9
    <2> HIDE DEF t
    <2>11. QED
      BY <1>1, <2>2, <2>4, <2>8, <2>10
  <1>4. QED
    BY <1>2, <1>3

(* Borrowing from a nonzero number of some bytes.                          *)
LEMMA MinusOneBytes ==
    ASSUME NEW s \in Seq(Byte), s # <<>>, s[1] # 0
    PROVE  MinusOne(s) \in Seq(Byte) /\ Len(MinusOne(s)) = Len(s)
  <1> DEFINE LastNonzero(i) == s[i] # 0 /\ \A k \in (i + 1)..Len(s) : s[k] = 0
             j == CHOOSE i \in DOMAIN s : LastNonzero(i)
  <1>1. Len(s) \in Nat \ {0} /\ DOMAIN s = 1..Len(s)
    BY LenProperties, EmptySeq
  <1>2. \E i \in DOMAIN s : LastNonzero(i)
    <2>1. PICK n \in 0..Len(s) : (n = 0 \/ s[n] # 0) /\ \A i \in (n + 1)..Len(s) : s[i] = 0
      BY <1>1, LastSignificant
    <2>2. n # 0
      <3> SUFFICES ASSUME n = 0 PROVE FALSE
        OBVIOUS
      <3>1. 1 \in (n + 1)..Len(s)
        BY <1>1
      <3>2. QED
        BY <2>1, <3>1
    <2>3. n \in DOMAIN s /\ LastNonzero(n)
      BY <1>1, <2>1, <2>2
    <2>4. QED
      BY <2>3
  <1>3. j \in DOMAIN s /\ s[j] # 0
    <2> HIDE DEF LastNonzero
    <2>1. j \in DOMAIN s /\ LastNonzero(j)
      BY <1>2, Zenon
    <2>2. QED
      BY <2>1 DEF LastNonzero
  <1> DEFINE Digit_(i) == IF i < j THEN s[i] ELSE IF i = j THEN s[i] - 1 ELSE 255
  <1>4. MinusOne(s) = [i \in DOMAIN s |-> Digit_(i)]
    BY DEF MinusOne
  <1> HIDE DEF j
  <1>5. ASSUME NEW i \in 1..Len(s)
        PROVE  Digit_(i) \in Byte
    <2>1. s[i] \in Byte
      BY ElementOfSeq
    <2>2. QED
      BY <1>3, <2>1 DEF Byte
  <1> HIDE DEF Digit_
  <1> DEFINE n == Len(s)
  <1>6. MinusOne(s) \in [1..n -> Byte] /\ n \in Nat
    BY <1>1, <1>4, <1>5
  <1> HIDE DEF n
  <1>7. MinusOne(s) \in Seq(Byte) /\ Len(MinusOne(s)) = n
    BY <1>6
  <1>8. QED
    BY <1>7 DEF n

(* Complementing keeps bytes bytes.                                        *)
LEMMA ComplementBytes ==
    ASSUME NEW s \in Seq(Byte), NEW neg
    PROVE  /\ Complement(s) \in Seq(Byte) /\ Len(Complement(s)) = Len(s)
           /\ Signed(neg, s) \in Seq(Byte) /\ Len(Signed(neg, s)) = Len(s)
  <1> DEFINE n == Len(s)
  <1>1. n \in Nat /\ DOMAIN s = 1..n
    BY LenProperties
  <1>2. ASSUME NEW i \in 1..n
        PROVE  255 - s[i] \in Byte
    BY ElementOfSeq, ByteProperties
  <1> HIDE DEF n
  <1>3. Complement(s) \in [1..n -> Byte]
    BY <1>1, <1>2 DEF Complement
  <1>4. Complement(s) \in Seq(Byte) /\ Len(Complement(s)) = n
    BY <1>1, <1>3
  <1>5. Signed(neg, s) = Complement(s) \/ Signed(neg, s) = s
    BY DEF Signed
  <1>6. QED
    BY <1>4, <1>5 DEF n
-----------------------------------------------------------------------------
(* The three forms of an integer, as EncInt's local definitions give them. *)
BigForm(negative, mag) ==
    <<IF negative THEN INT_NEG_BIG ELSE INT_POS_BIG>>
      \o Signed(negative, <<Len(ToBE(Len(mag)))>> \o ToBE(Len(mag)) \o mag)
ExcessForm(low) ==
    <<INT_ZERO - Len(IF low = <<>> THEN <<0>> ELSE low)>>
      \o Complement(IF low = <<>> THEN <<0>> ELSE low)

LEMMA EncIntForms ==
    ASSUME NEW negative, NEW m, Trimmed(m) \in Seq(Byte)
    PROVE  /\ Trimmed(m) = <<>> => EncInt(negative, m) = <<INT_ZERO>>
           /\ Trimmed(m) # <<>> /\ ~FitsSigned(negative, Trimmed(m), FixedWidth)
                => EncInt(negative, m) = BigForm(negative, Trimmed(m))
           /\ Trimmed(m) # <<>> /\ FitsSigned(negative, Trimmed(m), FixedWidth) /\ ~negative
                => EncInt(negative, m) = <<INT_ZERO + Len(Trimmed(m))>> \o Trimmed(m)
           /\ (/\ Trimmed(m) # <<>> /\ FitsSigned(negative, Trimmed(m), FixedWidth) /\ negative
               /\ Trimmed(MinusOne(Trimmed(m))) \in Seq(Byte))
                => EncInt(negative, m) = ExcessForm(Trimmed(MinusOne(Trimmed(m))))
  <1> DEFINE excess[low \in Seq(Byte)] == ExcessForm(low)
             enc[mag \in Seq(Byte)] ==
                CASE mag = <<>> -> <<INT_ZERO>>
                  [] mag # <<>> /\ ~FitsSigned(negative, mag, FixedWidth) -> BigForm(negative, mag)
                  [] OTHER -> IF negative THEN excess[Trimmed(MinusOne(mag))]
                              ELSE <<INT_ZERO + Len(mag)>> \o mag
             t == Trimmed(m)
  <1>1. EncInt(negative, m) = enc[t]
    BY Zenon DEF EncInt, BigForm, ExcessForm
  <1>2. \A low \in Seq(Byte) : excess[low] = ExcessForm(low)
    BY Zenon
  <1> HIDE DEF excess
  <1>3. enc[t] = CASE t = <<>> -> <<INT_ZERO>>
                   [] t # <<>> /\ ~FitsSigned(negative, t, FixedWidth) -> BigForm(negative, t)
                   [] OTHER -> IF negative THEN excess[Trimmed(MinusOne(t))]
                               ELSE <<INT_ZERO + Len(t)>> \o t
    BY Zenon
  <1> HIDE DEF enc
  <1> SUFFICES /\ t = <<>> => EncInt(negative, m) = <<INT_ZERO>>
               /\ t # <<>> /\ ~FitsSigned(negative, t, FixedWidth)
                    => EncInt(negative, m) = BigForm(negative, t)
               /\ t # <<>> /\ FitsSigned(negative, t, FixedWidth) /\ ~negative
                    => EncInt(negative, m) = <<INT_ZERO + Len(t)>> \o t
               /\ (/\ t # <<>> /\ FitsSigned(negative, t, FixedWidth) /\ negative
                   /\ Trimmed(MinusOne(t)) \in Seq(Byte))
                    => EncInt(negative, m) = ExcessForm(Trimmed(MinusOne(t)))
    OBVIOUS
  <1>0. t \in Seq(Byte)
    OBVIOUS
  <1> HIDE DEF t
  <1>4. t = <<>> => EncInt(negative, m) = <<INT_ZERO>>
    BY <1>1, <1>3, Zenon
  <1>5. t # <<>> /\ ~FitsSigned(negative, t, FixedWidth) => EncInt(negative, m) = BigForm(negative, t)
    BY <1>1, <1>3, Zenon
  <1>6. t # <<>> /\ FitsSigned(negative, t, FixedWidth)
          => EncInt(negative, m) = IF negative THEN excess[Trimmed(MinusOne(t))]
                                   ELSE <<INT_ZERO + Len(t)>> \o t
    BY <1>1, <1>3, Zenon
  <1>7. t # <<>> /\ FitsSigned(negative, t, FixedWidth) /\ ~negative
          => EncInt(negative, m) = <<INT_ZERO + Len(t)>> \o t
    BY <1>6, Zenon
  <1>8. (/\ t # <<>> /\ FitsSigned(negative, t, FixedWidth) /\ negative
         /\ Trimmed(MinusOne(t)) \in Seq(Byte))
          => EncInt(negative, m) = ExcessForm(Trimmed(MinusOne(t)))
    <2> DEFINE low == Trimmed(MinusOne(t))
    <2> SUFFICES ASSUME t # <<>>, FitsSigned(negative, t, FixedWidth), negative, low \in Seq(Byte)
                 PROVE  EncInt(negative, m) = ExcessForm(low)
      OBVIOUS
    <2> HIDE DEF low
    <2>1. excess[low] = ExcessForm(low)
      BY <1>2, Zenon
    <2>2. EncInt(negative, m) = excess[low]
      BY <1>6, Zenon DEF low
    <2>3. QED
      BY <2>1, <2>2, Zenon
  <1>9. QED
    BY <1>4, <1>5, <1>7, <1>8, Zenon

LEMMA SlotCodes ==
    \A n \in 1..16 : INT_ZERO + n \in Byte /\ INT_ZERO - n \in Byte
  BY DEF INT_ZERO, Byte

(* An integer of any encodable magnitude is written as bytes.              *)
LEMMA EncIntBytes ==
    ASSUME NEW negative, NEW m \in Magnitude
    PROVE  EncInt(negative, m) \in Seq(Byte)
  <1> DEFINE t == Trimmed(m)
  <1>0. m \in Seq(Byte) /\ Len(m) \in Nat /\ ByteLen(Len(m)) <= LenOfLen
    BY LenProperties DEF Magnitude
  <1>1. t \in Seq(Byte) /\ Len(t) \in Nat /\ Len(t) <= Len(m) /\ (t # <<>> => t[1] # 0 /\ Len(t) >= 1)
    BY <1>0, TrimmedProperties
  <1>2. <<INT_ZERO>> \in Seq(Byte)
    BY DEF INT_ZERO, Byte
  <1>3. BigForm(negative, t) \in Seq(Byte)
    <2> DEFINE len  == ToBE(Len(t))
               code == IF negative THEN INT_NEG_BIG ELSE INT_POS_BIG
    <2>1. len \in Seq(Byte) /\ Len(len) \in Byte
      <3>1. len \in Seq(Byte) /\ Len(len) = ByteLen(Len(t)) /\ ByteLen(Len(t)) \in Nat
        BY <1>1, ToBEBytes
      <3>2. ByteLen(Len(t)) <= ByteLen(Len(m)) /\ ByteLen(Len(m)) \in Nat
        BY <1>0, <1>1, ByteLenMonotone, ToBEBytes
      <3> HIDE DEF len, t
      <3>3. ByteLen(Len(t)) <= 8
        <4> DEFINE a == ByteLen(Len(t))
                   b == ByteLen(Len(m))
        <4>1. a \in Nat /\ b \in Nat /\ a <= b /\ b <= LenOfLen
          BY <1>0, <3>1, <3>2
        <4> HIDE DEF a, b
        <4>2. LenOfLen \in 1..8
          BY WidthAssumption
        <4>3. a <= 8
          BY <4>1, <4>2
        <4>4. QED
          BY <4>3 DEF a
      <3>4. Len(len) \in Byte
        <4> DEFINE a == ByteLen(Len(t))
        <4>1. a \in Nat /\ a <= 8
          BY <3>1, <3>3
        <4> HIDE DEF a
        <4>2. a \in Byte
          BY <4>1 DEF Byte
        <4>3. QED
          BY <3>1, <4>2 DEF a
      <3>5. QED
        BY <3>1, <3>4
    <2>2. <<code>> \in Seq(Byte)
      BY DEF INT_NEG_BIG, INT_POS_BIG, Byte
    <2> HIDE DEF len, code, t
    <2>3. <<Len(len)>> \in Seq(Byte)
      BY <2>1
    <2>4. <<Len(len)>> \o len \in Seq(Byte)
      BY <2>1, <2>3, ConcatProperties
    <2>5. <<Len(len)>> \o len \o t \in Seq(Byte)
      BY <1>1, <2>4, ConcatProperties
    <2>6. Signed(negative, <<Len(len)>> \o len \o t) \in Seq(Byte)
      BY <2>5, ComplementBytes
    <2>7. <<code>> \o Signed(negative, <<Len(len)>> \o len \o t) \in Seq(Byte)
      BY <2>2, <2>6, ConcatProperties
    <2>8. QED
      BY <2>7 DEF BigForm, len, code
  <1>4. ASSUME t # <<>>, FitsSigned(negative, t, FixedWidth)
        PROVE  Len(t) \in 1..16
    <2> HIDE DEF t
    <2> DEFINE w == FixedWidth
               n == Len(t)
    <2>1. w \in Nat /\ w <= 16
      BY WidthAssumption
    <2>2. n < w \/ n = w
      BY <1>4, Zenon DEF FitsSigned
    <2>3. n \in Nat /\ n >= 1
      BY <1>1, <1>4
    <2> HIDE DEF w, n
    <2>4. n \in 1..16
      BY <2>1, <2>2, <2>3
    <2>5. QED
      BY <2>4 DEF n
  <1>5. ASSUME t # <<>>, FitsSigned(negative, t, FixedWidth)
        PROVE  <<INT_ZERO + Len(t)>> \o t \in Seq(Byte)
    <2> HIDE DEF t
    <2> DEFINE c == INT_ZERO + Len(t)
    <2>0. c \in Byte
      BY <1>4, <1>5, SlotCodes, Zenon
    <2> HIDE DEF c
    <2>1. <<c>> \in Seq(Byte)
      BY <2>0
    <2>2. QED
      BY <1>1, <2>1, ConcatProperties DEF c
  <1>6. ASSUME t # <<>>, FitsSigned(negative, t, FixedWidth)
        PROVE  /\ Trimmed(MinusOne(t)) \in Seq(Byte)
               /\ ExcessForm(Trimmed(MinusOne(t))) \in Seq(Byte)
    <2> DEFINE low == Trimmed(MinusOne(t))
               payload == IF low = <<>> THEN <<0>> ELSE low
    <2>1. MinusOne(t) \in Seq(Byte) /\ Len(MinusOne(t)) = Len(t)
      BY <1>1, <1>6, MinusOneBytes
    <2>2. Len(t) \in 1..16
      BY <1>4, <1>6
    <2> HIDE DEF t
    <2>3. low \in Seq(Byte) /\ Len(low) \in Nat /\ Len(low) <= Len(t) /\ (low # <<>> => Len(low) >= 1)
      BY <2>1, TrimmedProperties
    <2> HIDE DEF low
    <2>4. <<0>> \in Seq(Byte) /\ Len(<<0>>) = 1
      BY DEF Byte
    <2>5. payload \in Seq(Byte) /\ Len(payload) \in 1..16
      <3>1. CASE low = <<>>
        <4>1. payload = <<0>>
          BY <3>1
        <4> HIDE DEF payload
        <4>2. QED
          BY <2>4, <4>1
      <3>2. CASE low # <<>>
        <4>1. payload = low
          BY <3>2
        <4> HIDE DEF payload
        <4> DEFINE n == Len(t)
                   k == Len(low)
        <4>2. n \in 1..16 /\ k \in Nat /\ k <= n /\ k >= 1
          BY <2>2, <2>3, <3>2
        <4> HIDE DEF n, k
        <4>3. k \in 1..16
          BY <4>2
        <4>4. QED
          BY <2>3, <4>1, <4>3 DEF k
      <3>3. QED
        BY <3>1, <3>2
    <2> HIDE DEF payload
    <2> DEFINE c == INT_ZERO - Len(payload)
    <2>55. c \in Byte
      BY <2>5, SlotCodes, Zenon
    <2> HIDE DEF c
    <2>6. <<c>> \in Seq(Byte)
      BY <2>55
    <2>7. Complement(payload) \in Seq(Byte)
      BY <2>5, ComplementBytes
    <2>8. <<INT_ZERO - Len(payload)>> \o Complement(payload) \in Seq(Byte)
      BY <2>6, <2>7, ConcatProperties DEF c
    <2>9. QED
      BY <2>3, <2>8 DEF ExcessForm, payload, low
  <1>7. CASE t = <<>>
    BY <1>1, <1>2, <1>7, EncIntForms
  <1>8. CASE t # <<>> /\ ~FitsSigned(negative, t, FixedWidth)
    BY <1>1, <1>3, <1>8, EncIntForms
  <1>9. CASE t # <<>> /\ FitsSigned(negative, t, FixedWidth) /\ ~negative
    BY <1>1, <1>5, <1>9, EncIntForms
  <1>10. CASE t # <<>> /\ FitsSigned(negative, t, FixedWidth) /\ negative
    BY <1>1, <1>6, <1>10, EncIntForms
  <1>11. QED
    BY <1>7, <1>8, <1>9, <1>10
-----------------------------------------------------------------------------
(* The byte that holds the sign bit stays a byte.                          *)
LEMMA FlipSignBytes ==
    ASSUME NEW s \in Seq(Byte)
    PROVE  FlipSign(s) \in Seq(Byte)
  <1> DEFINE n == Len(s)
  <1>1. n \in Nat /\ DOMAIN s = 1..n
    BY LenProperties
  <1>2. ASSUME NEW i \in 1..n
        PROVE  (IF i = 1 THEN (s[1] + 128) % 256 ELSE s[i]) \in Byte
    <2>1. s[i] \in Byte /\ 1 \in 1..n
      BY <1>1, ElementOfSeq
    <2>2. s[1] \in Byte
      BY <2>1, ElementOfSeq
    <2>3. (s[1] + 128) % 256 \in Byte
      <3>1. \A x \in Nat : (x + 128) % 256 \in 0..255
        OBVIOUS
      <3>2. s[1] \in Nat
        BY <2>2, ByteProperties
      <3>3. QED
        BY <3>1, <3>2 DEF Byte
    <2>4. QED
      BY <2>1, <2>3
  <1> HIDE DEF n
  <1>3. FlipSign(s) \in [1..n -> Byte]
    BY <1>1, <1>2 DEF FlipSign
  <1>4. QED
    BY <1>1, <1>3

LEMMA EncFloatBytes ==
    ASSUME NEW bits \in Seq(Byte)
    PROVE  EncFloatBits(bits) \in Seq(Byte)
  <1> DEFINE n == Len(bits)
             b == CanonicalBits(bits)
  <1>1. n \in Nat
    BY LenProperties
  <1>2. CanonicalNaN(n) \in Seq(Byte) /\ Zeroes(n) \in Seq(Byte)
    <2> HIDE DEF n
    <2>1. 127 \in Byte /\ 128 \in Byte /\ 0 \in Byte
      BY DEF Byte
    <2>2. CanonicalNaN(n) \in [1..n -> Byte] /\ Zeroes(n) \in [1..n -> Byte]
      BY <2>1 DEF CanonicalNaN, Zeroes
    <2>3. QED
      BY <1>1, <2>2
  <1>3. b \in Seq(Byte)
    BY <1>2, Zenon DEF CanonicalBits
  <1>4. EncFloatBits(bits) = Complement(b) \/ EncFloatBits(bits) = FlipSign(b)
    BY DEF EncFloatBits
  <1> HIDE DEF b
  <1>5. QED
    BY <1>3, <1>4, ComplementBytes, FlipSignBytes

(* Two digits are stored in a byte.                                        *)
LEMMA DigitPairsBytes ==
    ASSUME NEW d \in Seq(0..9)
    PROVE  DigitPairs(d) \in Seq(Byte)
  <1> DEFINE n == Len(d)
             h == (n + 1) \div 2
             P(k) == d[2*k - 1] * 10 + (IF 2*k <= n THEN d[2*k] ELSE 0) + 1
  <1>1. n \in Nat
    BY LenProperties
  <1>2. DigitPairs(d) = [k \in 1..h |-> P(k)]
    BY DEF DigitPairs
  <1>3. ASSUME NEW k \in 1..h
        PROVE  P(k) \in Byte
    <2>1. 2*k - 1 \in 1..n /\ (2*k <= n => 2*k \in 1..n)
      BY <1>1
    <2>2. d[2*k - 1] \in 0..9 /\ (2*k <= n => d[2*k] \in 0..9)
      BY <2>1, ElementOfSeq
    <2> DEFINE x == d[2*k - 1]
               y == IF 2*k <= n THEN d[2*k] ELSE 0
    <2>3. x \in 0..9 /\ y \in 0..9
      BY <2>2
    <2> HIDE DEF x, y
    <2>4. x * 10 + y + 1 \in Byte
      BY <2>3 DEF Byte
    <2>5. QED
      BY <2>4 DEF x, y
  <1>4. h \in Nat
    BY <1>1
  <1> HIDE DEF P, h
  <1>5. DigitPairs(d) \in [1..h -> Byte]
    BY <1>2, <1>3
  <1>6. QED
    BY <1>4, <1>5

(* An exponent in range is an encodable integer.                           *)
LEMMA EncAdjExpBytes ==
    ASSUME NEW e \in Int, InExpRange(e)
    PROVE  EncAdjExp(e) \in Seq(Byte)
  <1> DEFINE a == IF e < 0 THEN -e ELSE e
             m == ToBE(a)
  <1>1. MaxExp \in Nat
    BY WidthAssumption
  <1>2. a \in Nat /\ MaxExp + 1 \in Nat /\ a <= MaxExp + 1
    BY <1>1 DEF InExpRange
  <1>3. EncAdjExp(e) = EncInt(e < 0, m)
    BY Zenon DEF EncAdjExp
  <1> HIDE DEF a
  <1>4. m \in Seq(Byte) /\ Len(m) = ByteLen(a) /\ ByteLen(a) \in Nat
    BY <1>2, ToBEBytes
  <1>5. ByteLen(a) <= 4
    <2> DEFINE x == ByteLen(a)
               y == ByteLen(MaxExp + 1)
    <2>1. x <= y /\ y <= 4 /\ x \in Nat /\ y \in Nat
      BY <1>2, ByteLenMonotone, ExponentAssumption, ToBEBytes
    <2> HIDE DEF x, y
    <2>2. x <= 4
      BY <2>1
    <2>3. QED
      BY <2>2 DEF x
  <1>6. ByteLen(a) \in Byte
    <2> DEFINE x == ByteLen(a)
    <2>1. x \in Nat /\ x <= 4
      BY <1>4, <1>5
    <2> HIDE DEF x
    <2>2. x \in Byte
      BY <2>1 DEF Byte
    <2>3. QED
      BY <2>2 DEF x
  <1>7. ByteLen(Len(m)) <= LenOfLen
    <2> DEFINE x == ByteLen(Len(m))
    <2>1. x <= 1 /\ x \in Nat
      BY <1>4, <1>6, ShortNumbers, ToBEBytes
    <2> HIDE DEF x
    <2>2. LenOfLen \in 1..8
      BY WidthAssumption
    <2>3. x <= LenOfLen
      BY <2>1, <2>2
    <2>4. QED
      BY <2>3 DEF x
  <1> HIDE DEF m
  <1>8. m \in Magnitude
    BY <1>4, <1>7 DEF Magnitude
  <1>9. QED
    BY <1>3, <1>8, EncIntBytes

(* The decimal of any digits and exponent: bytes, or none when rejected.   *)
LEMMA EncDecimalBytes ==
    ASSUME NEW negative, NEW digits \in Seq(0..9), NEW exp \in Int
    PROVE  EncDecimal(negative, digits, exp) \in Seq(Byte)
  <1> DEFINE sig == Trimmed(digits)
             Stop(n) == (n = 0 \/ sig[n] # 0) /\ \A i \in (n + 1)..Len(sig) : sig[i] = 0
             top  == CHOOSE n \in 0..Len(sig) : Stop(n)
             kept == SubSeq(sig, 1, top)
             sign == IF negative THEN DEC_SIGN_NEG ELSE DEC_SIGN_POS
             tail == EncAdjExp(Len(sig) + exp) \o DigitPairs(kept) \o <<TERMINATOR>>
             body == <<DECIMAL, sign>> \o Signed(negative, tail)
  <1>1. sig \in Seq(0..9) /\ Len(sig) \in Nat
    BY TrimmedProperties
  <1>2. sig = <<>> => EncDecimal(negative, digits, exp) = <<DECIMAL, DEC_SIGN_ZERO>>
    BY Zenon DEF EncDecimal, DecimalRejected
  <1>3. sig # <<>> /\ DecimalRejected(digits, exp) => EncDecimal(negative, digits, exp) = <<>>
    BY Zenon DEF EncDecimal
  <1>4. ASSUME sig # <<>>, ~DecimalRejected(digits, exp)
        PROVE  tail \in Seq(Byte)
    <2>1. InExpRange(Len(sig) + exp)
      BY <1>4, Zenon DEF DecimalRejected
    <2> HIDE DEF sig
    <2>2. Len(sig) + exp \in Int
      BY <1>1
    <2>3. EncAdjExp(Len(sig) + exp) \in Seq(Byte)
      BY <2>1, <2>2, EncAdjExpBytes
    <2>4. top \in 0..Len(sig)
      <3>1. \E n \in 0..Len(sig) : Stop(n)
        BY <1>1, LastSignificant
      <3> HIDE DEF Stop
      <3>2. QED
        BY <3>1, Zenon
    <2> HIDE DEF top
    <2>5. kept \in Seq(0..9)
      <3>1. \A i \in 1..top : i \in 1..Len(sig)
        BY <1>1, <2>4
      <3>2. \A i \in 1..top : sig[i] \in 0..9
        BY <1>1, <3>1, ElementOfSeq
      <3>3. 1 \in Int /\ top \in Int
        BY <2>4
      <3>4. QED
        BY <3>2, <3>3, SubSeqProperties
    <2> HIDE DEF kept
    <2>6. DigitPairs(kept) \in Seq(Byte)
      BY <2>5, DigitPairsBytes
    <2>7. <<TERMINATOR>> \in Seq(Byte)
      BY DEF TERMINATOR, Byte
    <2>8. EncAdjExp(Len(sig) + exp) \o DigitPairs(kept) \in Seq(Byte)
      BY <2>3, <2>6, ConcatProperties
    <2>9. QED
      BY <2>7, <2>8, ConcatProperties
  <1>5. ASSUME sig # <<>>, ~DecimalRejected(digits, exp)
        PROVE  EncDecimal(negative, digits, exp) = body
    <2> DEFINE stored[t \in Seq(Byte)] == <<DECIMAL, sign>> \o Signed(negative, t)
    <2>1. EncDecimal(negative, digits, exp) = stored[tail]
      BY <1>5, Zenon DEF EncDecimal
    <2>2. stored[tail] = body
      <3> HIDE DEF tail
      <3>1. tail \in Seq(Byte)
        BY <1>4, <1>5
      <3>2. QED
        BY <3>1, Zenon
    <2> HIDE DEF stored, body, tail
    <2>3. QED
      BY <2>1, <2>2
  <1>6. ASSUME sig # <<>>, ~DecimalRejected(digits, exp)
        PROVE  body \in Seq(Byte)
    <2>1. tail \in Seq(Byte)
      BY <1>4, <1>6
    <2> HIDE DEF tail
    <2>2. <<DECIMAL, sign>> \in Seq(Byte)
      BY DEF DECIMAL, DEC_SIGN_NEG, DEC_SIGN_POS, Byte
    <2> HIDE DEF sign
    <2>3. Signed(negative, tail) \in Seq(Byte)
      BY <2>1, ComplementBytes
    <2>4. QED
      BY <2>2, <2>3, ConcatProperties
  <1>7. <<DECIMAL, DEC_SIGN_ZERO>> \in Seq(Byte) /\ <<>> \in Seq(Byte)
    BY EmptySeq DEF DECIMAL, DEC_SIGN_ZERO, Byte
  <1> HIDE DEF sig, body
  <1>8. QED
    BY <1>2, <1>3, <1>5, <1>6, <1>7

-----------------------------------------------------------------------------
(* Escaping and framing.                                                   *)
LEMMA FramedBytes ==
    ASSUME NEW code \in Byte, NEW content \in Seq(Byte)
    PROVE  EncFramed(code, content) \in Seq(Byte)
  <1> DEFINE n == Len(content)
             pieces == [i \in DOMAIN content |->
                          IF content[i] = 0 THEN <<0, 255>> ELSE <<content[i]>>]
  <1>1. n \in Nat /\ DOMAIN content = 1..n
    BY LenProperties
  <1>2. \A i \in 1..n : content[i] \in Byte
    BY ElementOfSeq
  <1>3. <<0, 255>> \in Seq(Byte) /\ \A x \in Byte : <<x>> \in Seq(Byte)
    BY DEF Byte
  <1> HIDE DEF n
  <1>4. pieces \in [1..n -> Seq(Byte)]
    BY <1>1, <1>2, <1>3
  <1>5. Escaped(content) = FlattenSeq(pieces)
    BY Zenon DEF Escaped
  <1> HIDE DEF pieces
  <1>6. pieces \in Seq(Seq(Byte))
    BY <1>1, <1>4
  <1>7. Escaped(content) \in Seq(Byte)
    BY <1>5, <1>6, FlattenType
  <1>8. <<code>> \in Seq(Byte) /\ <<TERMINATOR>> \in Seq(Byte)
    BY DEF TERMINATOR, Byte
  <1>9. <<code>> \o Escaped(content) \in Seq(Byte)
    BY <1>7, <1>8, ConcatProperties
  <1>10. (<<code>> \o Escaped(content)) \o <<TERMINATOR>> \in Seq(Byte)
    BY <1>8, <1>9, ConcatProperties
  <1>11. QED
    BY <1>10, Zenon DEF EncFramed

(* Members and entries in any order.                                       *)
LEMMA SetInnerBytes ==
    ASSUME NEW elems \in Seq(Seq(Byte)), NEW p \in Arrangements(elems)
    PROVE  SetInner(elems, p) \in Seq(Byte)
  <1> DEFINE n == Len(elems)
             pieces == [i \in DOMAIN elems |->
                          IF i > 1 /\ elems[p[i - 1]] = elems[p[i]] THEN <<>> ELSE elems[p[i]]]
  <1>1. n \in Nat /\ DOMAIN elems = 1..n
    BY LenProperties
  <1>2. p \in [1..n -> 1..n]
    BY <1>1 DEF Arrangements
  <1>3. \A i \in 1..n : elems[p[i]] \in Seq(Byte)
    <2> TAKE i \in 1..n
    <2>1. p[i] \in 1..Len(elems)
      BY <1>2
    <2>2. QED
      BY <2>1, ElementOfSeq
  <1>4. <<>> \in Seq(Byte)
    BY EmptySeq
  <1>5. SetInner(elems, p) = FlattenSeq(pieces)
    BY Zenon DEF SetInner
  <1> HIDE DEF n
  <1>6. pieces \in [1..n -> Seq(Byte)]
    BY <1>1, <1>3, <1>4
  <1> HIDE DEF pieces
  <1>7. pieces \in Seq(Seq(Byte))
    BY <1>1, <1>6
  <1>8. QED
    BY <1>5, <1>7, FlattenType

LEMMA MapInnerBytes ==
    ASSUME NEW n \in Nat, NEW entries, DOMAIN entries = 1..n,
           \A i \in 1..n : entries[i].key \in Seq(Byte) /\ entries[i].value \in Seq(Byte),
           NEW p \in [1..n -> 1..n]
    PROVE  MapInner(entries, p) \in Seq(Byte)
  <1> DEFINE pieces == [i \in DOMAIN entries |-> entries[p[i]].key \o entries[p[i]].value]
  <1>1. \A i \in 1..n : p[i] \in 1..n
    OBVIOUS
  <1>2. ASSUME NEW i \in 1..n
        PROVE  entries[p[i]].key \o entries[p[i]].value \in Seq(Byte)
    <2>1. entries[p[i]].key \in Seq(Byte) /\ entries[p[i]].value \in Seq(Byte)
      BY <1>1
    <2>2. QED
      BY <2>1, ConcatProperties
  <1>3. MapInner(entries, p) = FlattenSeq(pieces)
    BY Zenon DEF MapInner
  <1>4. pieces \in [1..n -> Seq(Byte)]
    BY <1>2
  <1> HIDE DEF pieces
  <1>5. pieces \in Seq(Seq(Byte))
    BY <1>4
  <1>6. QED
    BY <1>3, <1>5, FlattenType

-----------------------------------------------------------------------------
LEMMA WrapExpInt == \A e \in Int : WrapExp(e) \in Int
  <1>1. MaxExp \in Nat
    BY WidthAssumption
  <1>2. \A e \in Int : (e + MaxExp + 1) % (2 * (MaxExp + 1)) \in Int
    BY <1>1
  <1>3. QED
    BY <1>1, <1>2 DEF WrapExp

LEMMA FramedCodes ==
    /\ DOMAIN FramedCode = {"string", "bytes", "array", "map", "set"}
    /\ \A k \in DOMAIN FramedCode : FramedCode[k] \in Byte
  BY DEF FramedCode, STRING_CODE, BYTES, ARRAY, MAP, SET, Byte

(* Every append call emits bytes.                                          *)
LEMMA EncElementBytes ==
    ASSUME NEW e \in Encodable
    PROVE  EncElement(e) \in Seq(Byte)
  <1>1. ASSUME e \in [kind : {"nil", "undef"}]
        PROVE  EncElement(e) \in Seq(Byte)
    <2>1. e.kind = "nil" \/ e.kind = "undef"
      BY <1>1
    <2>2. <<NIL>> \in Seq(Byte) /\ <<UNDEF>> \in Seq(Byte)
      BY DEF NIL, UNDEF, Byte
    <2>3. EncElement(e) = <<NIL>> \/ EncElement(e) = <<UNDEF>>
      BY <2>1, FramedCodes DEF EncElement
    <2>4. QED
      BY <2>2, <2>3
  <1>2. ASSUME e \in [kind : {"bool"}, val : BOOLEAN]
        PROVE  EncElement(e) \in Seq(Byte)
    <2>1. e.kind = "bool"
      BY <1>2
    <2>2. EncElement(e) = <<IF e.val THEN BOOL_TRUE ELSE BOOL_FALSE>>
      BY <2>1, FramedCodes DEF EncElement
    <2>3. <<BOOL_TRUE>> \in Seq(Byte) /\ <<BOOL_FALSE>> \in Seq(Byte)
      BY DEF BOOL_TRUE, BOOL_FALSE, Byte
    <2>4. QED
      BY <2>2, <2>3
  <1>3. ASSUME e \in [kind : {"int", "bigint"}, neg : BOOLEAN, mag : Magnitude]
        PROVE  EncElement(e) \in Seq(Byte)
    <2>1. e.kind \in {"int", "bigint"} /\ e.mag \in Magnitude
      BY <1>3
    <2>2. EncElement(e) = EncInt(e.neg, e.mag)
      BY <2>1, FramedCodes DEF EncElement
    <2>3. QED
      BY <2>1, <2>2, EncIntBytes
  <1>4. ASSUME e \in [kind : {"f32"}, bits : [1..F32Width -> Byte]]
        PROVE  EncElement(e) \in Seq(Byte)
    <2>1. e.kind = "f32" /\ e.bits \in [1..F32Width -> Byte]
      BY <1>4
    <2>2. EncElement(e) = <<FLOAT32>> \o EncFloatBits(e.bits)
      BY <2>1, FramedCodes DEF EncElement
    <2>3. F32Width \in Nat
      BY WidthAssumption
    <2>4. e.bits \in Seq(Byte)
      BY <2>1, <2>3
    <2>5. <<FLOAT32>> \in Seq(Byte)
      BY DEF FLOAT32, Byte
    <2>6. <<FLOAT32>> \o EncFloatBits(e.bits) \in Seq(Byte)
      BY <2>4, <2>5, EncFloatBytes, ConcatProperties
    <2>7. QED
      BY <2>2, <2>6
  <1>5. ASSUME e \in [kind : {"f64"}, bits : [1..F64Width -> Byte]]
        PROVE  EncElement(e) \in Seq(Byte)
    <2>1. e.kind = "f64" /\ e.bits \in [1..F64Width -> Byte]
      BY <1>5
    <2>2. EncElement(e) = <<FLOAT64>> \o EncFloatBits(e.bits)
      BY <2>1, FramedCodes DEF EncElement
    <2>3. F64Width \in Nat
      BY WidthAssumption
    <2>4. e.bits \in Seq(Byte)
      BY <2>1, <2>3
    <2>5. <<FLOAT64>> \in Seq(Byte)
      BY DEF FLOAT64, Byte
    <2>6. <<FLOAT64>> \o EncFloatBits(e.bits) \in Seq(Byte)
      BY <2>4, <2>5, EncFloatBytes, ConcatProperties
    <2>7. QED
      BY <2>2, <2>6
  <1>6. ASSUME e \in [kind : {"decimal"}, neg : BOOLEAN, digits : Seq(0..9), exp : Int]
        PROVE  EncElement(e) \in Seq(Byte)
    <2>1. e.kind = "decimal" /\ e.digits \in Seq(0..9) /\ e.exp \in Int
      BY <1>6
    <2>2. EncElement(e) = EncDecimal(e.neg, e.digits, WrapExp(e.exp))
      BY <2>1, FramedCodes DEF EncElement
    <2>3. QED
      BY <2>1, <2>2, WrapExpInt, EncDecimalBytes
  <1>7. ASSUME e \in [kind : {"timestamp"}, data : [1..NativeWidth -> Byte]]
        PROVE  EncElement(e) \in Seq(Byte)
    <2>1. e.kind = "timestamp" /\ e.data \in [1..NativeWidth -> Byte]
      BY <1>7
    <2>2. EncElement(e) = <<TIMESTAMP>> \o FlipSign(e.data)
      BY <2>1, FramedCodes DEF EncElement
    <2>3. NativeWidth \in Nat
      BY WidthAssumption
    <2>4. e.data \in Seq(Byte)
      BY <2>1, <2>3
    <2>5. <<TIMESTAMP>> \in Seq(Byte)
      BY DEF TIMESTAMP, Byte
    <2>6. <<TIMESTAMP>> \o FlipSign(e.data) \in Seq(Byte)
      BY <2>4, <2>5, FlipSignBytes, ConcatProperties
    <2>7. QED
      BY <2>2, <2>6
  <1>8. ASSUME e \in [kind : {"uuid"}, data : [1..UuidWidth -> Byte]]
        PROVE  EncElement(e) \in Seq(Byte)
    <2>1. e.kind = "uuid" /\ e.data \in [1..UuidWidth -> Byte]
      BY <1>8
    <2>2. EncElement(e) = <<UUID>> \o e.data
      BY <2>1, FramedCodes DEF EncElement
    <2>3. UuidWidth \in Nat
      BY WidthAssumption
    <2>4. e.data \in Seq(Byte)
      BY <2>1, <2>3
    <2>5. <<UUID>> \in Seq(Byte)
      BY DEF UUID, Byte
    <2>6. <<UUID>> \o e.data \in Seq(Byte)
      BY <2>4, <2>5, ConcatProperties
    <2>7. QED
      BY <2>2, <2>6
  <1>9. ASSUME e \in [kind : DOMAIN FramedCode, data : Seq(Byte)]
        PROVE  EncElement(e) \in Seq(Byte)
    <2>1. e.kind \in DOMAIN FramedCode /\ e.data \in Seq(Byte)
      BY <1>9
    <2>2. EncElement(e) = EncFramed(FramedCode[e.kind], e.data)
      BY <2>1, FramedCodes DEF EncElement
    <2>3. QED
      BY <2>1, <2>2, FramedCodes, FramedBytes
  <1>10. QED
    BY <1>1, <1>2, <1>3, <1>4, <1>5, <1>6, <1>7, <1>8, <1>9, Zenon DEF Encodable

-----------------------------------------------------------------------------
(* What the decoder hands out can be appended again.                       *)
LEMMA ShortMagnitude ==
    ASSUME NEW s \in Seq(Byte), Len(s) <= 255
    PROVE  s \in Magnitude
  <1> DEFINE n == Len(s)
             x == ByteLen(n)
  <1>1. n \in Nat /\ n <= 255
    BY LenProperties
  <1> HIDE DEF n
  <1>2. n \in Byte
    BY <1>1 DEF Byte
  <1>3. x <= 1 /\ x \in Nat
    BY <1>1, <1>2, ShortNumbers, ToBEBytes
  <1> HIDE DEF x
  <1>4. LenOfLen \in 1..8
    BY WidthAssumption
  <1>5. x <= LenOfLen
    BY <1>3, <1>4
  <1>6. QED
    BY <1>5 DEF Magnitude, x, n

LEMMA BytesProperties ==
    ASSUME NEW b \in Seq(Byte), NEW q \in 0..Len(b), NEW n \in Nat, CanTake(b, q, n)
    PROVE  /\ Bytes(b, q, n) \in Seq(Byte)
           /\ Len(Bytes(b, q, n)) = n
           /\ Bytes(b, q, n) \in [1..n -> Byte]
           /\ \A k \in 1..n : Bytes(b, q, n)[k] = b[q + k]
  <1>1. Len(b) \in Nat /\ n <= Len(b) - q
    BY LenProperties DEF CanTake
  <1>2. \A k \in (q + 1)..(q + n) : k \in 1..Len(b)
    BY <1>1
  <1>3. \A k \in (q + 1)..(q + n) : b[k] \in Byte
    BY <1>2, ElementOfSeq
  <1>4. q + 1 \in Int /\ q + n \in Int
    BY <1>1
  <1> DEFINE s == SubSeq(b, q + 1, q + n)
  <1>5. /\ s \in Seq(Byte)
        /\ Len(s) = IF q + 1 <= q + n THEN (q + n) - (q + 1) + 1 ELSE 0
        /\ \A k \in 1..((q + n) - (q + 1) + 1) : s[k] = b[(q + 1) + k - 1]
    BY <1>3, <1>4, SubSeqProperties
  <1> HIDE DEF s
  <1>6. Len(s) = n
    BY <1>1, <1>5
  <1>7. ASSUME NEW k \in 1..n
        PROVE  s[k] = b[q + k]
    <2>1. k \in 1..((q + n) - (q + 1) + 1) /\ (q + 1) + k - 1 = q + k
      BY <1>1
    <2>2. QED
      BY <1>5, <2>1
  <1>8. s \in [1..n -> Byte]
    BY <1>5, <1>6, LenProperties
  <1>9. QED
    BY <1>5, <1>6, <1>7, <1>8 DEF s, Bytes

LEMMA NegatedBytes ==
    ASSUME NEW s \in Seq(Byte)
    PROVE  Negated(s) \in Seq(Byte) /\ Len(Negated(s)) = Len(s)
  <1> DEFINE n == Len(s)
  <1>1. n \in Nat /\ DOMAIN s = 1..n
    BY LenProperties
  <1>2. ASSUME NEW i \in 1..n
        PROVE  (IF \A k \in (i + 1)..n : s[k] = 0 THEN (256 - s[i]) % 256 ELSE 255 - s[i]) \in Byte
    <2>1. s[i] \in Byte
      BY ElementOfSeq
    <2>2. \A x \in 0..255 : (256 - x) % 256 \in 0..255
      OBVIOUS
    <2>3. (256 - s[i]) % 256 \in Byte /\ 255 - s[i] \in Byte
      BY <2>1, <2>2, ByteProperties DEF Byte
    <2>4. QED
      BY <2>3, Zenon
  <1>3. Negated(s) = [i \in 1..n |-> IF \A k \in (i + 1)..n : s[k] = 0 THEN (256 - s[i]) % 256 ELSE 255 - s[i]]
    BY <1>1 DEF Negated
  <1> HIDE DEF n
  <1>4. Negated(s) \in [1..n -> Byte]
    BY <1>2, <1>3
  <1>5. Negated(s) \in Seq(Byte) /\ Len(Negated(s)) = n
    BY <1>1, <1>4
  <1>6. QED
    BY <1>5 DEF n

LEMMA ExcessMagnitudeBytes ==
    ASSUME NEW p \in Seq(Byte)
    PROVE  ExcessMagnitude(p) \in Seq(Byte) /\ Len(ExcessMagnitude(p)) <= Len(p) + 1
  <1> DEFINE m == Trimmed(Negated(p))
  <1>1. Len(p) \in Nat
    BY LenProperties
  <1>2. Negated(p) \in Seq(Byte) /\ Len(Negated(p)) = Len(p)
    BY NegatedBytes
  <1>3. m \in Seq(Byte) /\ Len(m) \in Nat /\ Len(m) <= Len(p)
    BY <1>2, TrimmedProperties
  <1>4. <<1>> \in Seq(Byte) /\ <<0>> \in Seq(Byte) /\ Len(<<0>>) = 1 /\ Len(<<1>>) = 1
    BY DEF Byte
  <1>5. <<1>> \o p \in Seq(Byte) /\ Len(<<1>> \o p) = Len(<<1>>) + Len(p)
    BY <1>4, ConcatProperties
  <1>6. ExcessMagnitude(p) \in {m, <<1>> \o p, <<0>>}
    BY DEF ExcessMagnitude
  <1> HIDE DEF m
  <1>7. ASSUME NEW x \in {m, << 1 >> \o p, << 0 >>}
        PROVE  x \in Seq(Byte) /\ Len(x) <= Len(p) + 1
    <2>1. CASE x = m
      BY <1>1, <1>3, <2>1
    <2>2. CASE x = <<1>> \o p
      <3>1. x \in Seq(Byte) /\ Len(x) = 1 + Len(p)
        BY <1>4, <1>5, <2>2
      <3>2. QED
        BY <1>1, <3>1
    <2>3. CASE x = <<0>>
      BY <1>1, <1>4, <2>3
    <2>4. QED
      BY <2>1, <2>2, <2>3
  <1>8. QED
    BY <1>6, <1>7

LEMMA FixedIntEncodable ==
    ASSUME NEW b \in Seq(Byte), NEW q \in 0..Len(b), NEW t \in FixedNeg \cup FixedPos,
           ReadFixedInt(b, t, q).rc = 1
    PROVE  ReadFixedInt(b, t, q).el \in Encodable
  <1> DEFINE n == SlotWidth(t)
             p == Bytes(b, q, n)
             positive == t > INT_ZERO
  <1>1. CanTake(b, q, n) /\ ReadFixedInt(b, t, q).el \in {IntElement(n, FALSE, p), IntElement(n, TRUE, ExcessMagnitude(p))}
    <2> DEFINE x == IntElement(n, FALSE, p)
               y == IntElement(n, TRUE, ExcessMagnitude(p))
               r == ReadFixedInt(b, t, q)
    <2>1. \/ r \in {Failed(q), Failed(q + n)}
          \/ CanTake(b, q, n) /\ r \in {Decoded(q + n, x), Decoded(q + n, y)}
      BY Zenon DEF ReadFixedInt
    <2>2. r.rc = 1
      OBVIOUS
    <2> SUFFICES CanTake(b, q, n) /\ r.el \in {x, y}
      OBVIOUS
    <2> HIDE DEF n, x, y, r
    <2>3. QED
      BY <2>1, <2>2 DEF Failed, Decoded
  <1>2. n \in 1..16
    BY SlotWidthProperties
  <1> HIDE DEF n
  <1>3. p \in Seq(Byte) /\ Len(p) = n
    BY <1>1, <1>2, BytesProperties
  <1> HIDE DEF p
  <1>4. ExcessMagnitude(p) \in Seq(Byte) /\ Len(ExcessMagnitude(p)) <= n + 1
    BY <1>3, ExcessMagnitudeBytes
  <1> DEFINE x == ExcessMagnitude(p)
  <1>5. p \in Magnitude /\ x \in Magnitude
    <2>1. Len(p) <= 255
      BY <1>2, <1>3
    <2>2. Len(x) <= 255
      <3>1. Len(x) \in Nat
        BY <1>4, LenProperties
      <3>2. QED
        BY <1>2, <1>4, <3>1
    <2>3. QED
      BY <1>3, <1>4, <2>1, <2>2, ShortMagnitude
  <1> HIDE DEF x
  <1>6. \A neg \in BOOLEAN, mag \in Magnitude : IntElement(n, neg, mag) \in Encodable
    BY DEF IntElement, Encodable
  <1>7. QED
    BY <1>1, <1>5, <1>6 DEF x

LEMMA BigIntEncodable ==
    ASSUME NEW b \in Seq(Byte), NEW q \in 0..Len(b), NEW t, ReadBigInt(b, t, q).rc = 1
    PROVE  ReadBigInt(b, t, q).el \in Encodable
  <1> DEFINE negative == t = INT_NEG_BIG
             m    == LenBytes(b, negative, q)
             lens == MagLens(b, negative, q)
             n    == FirstOf(lens)
             mag  == Signed(negative, Bytes(b, q + 1 + m, n))
  <1>1. /\ CanTake(b, q, 1)
        /\ ~(m > LenOfLen \/ ~CanTake(b, q + 1, m))
        /\ lens # {}
        /\ ~(n = 0 \/ m # ByteLen(n))
        /\ ReadBigInt(b, t, q).el = [kind |-> "bigint", neg |-> negative, mag |-> mag]
    BY DEF ReadBigInt, Failed, Decoded
  <1>2. m \in Nat /\ Len(b) \in Nat
    BY <1>1, LengthByte, LenProperties
  <1>3. lens \in SUBSET Nat /\ \A v \in lens : v <= Len(b) - (q + 1 + m)
    BY <1>1, <1>2 DEF MagLens, DecodedIn, CanTake
  <1>4. n \in Nat /\ n <= Len(b) - (q + 1 + m)
    BY <1>1, <1>3, FirstOfProperties
  <1>5. m <= LenOfLen /\ m = ByteLen(n)
    BY <1>1, <1>2, WidthAssumption
  <1> HIDE DEF n, m, lens, negative
  <1>6. q + 1 + m \in 0..Len(b) /\ CanTake(b, q + 1 + m, n)
    BY <1>1, <1>2, <1>4 DEF CanTake
  <1>7. Bytes(b, q + 1 + m, n) \in Seq(Byte) /\ Len(Bytes(b, q + 1 + m, n)) = n
    BY <1>4, <1>6, BytesProperties
  <1>8. mag \in Seq(Byte) /\ Len(mag) = n
    BY <1>7, ComplementBytes
  <1> HIDE DEF mag
  <1>9. mag \in Magnitude
    BY <1>5, <1>8 DEF Magnitude
  <1>10. negative \in BOOLEAN
    BY DEF negative
  <1>11. QED
    BY <1>1, <1>9, <1>10 DEF Encodable

(* The first of some integers that are bounded below.                      *)
LEMMA FirstOfBounded ==
    ASSUME NEW S \in SUBSET Int, S # {}, NEW k \in Nat, \A i \in S : -k <= i
    PROVE  FirstOf(S) \in S /\ \A j \in S : FirstOf(S) <= j
  <1> DEFINE T == {i + k : i \in S}
             n == FirstOf(T)
  <1>1. T \in SUBSET Nat /\ T # {}
    <2>1. \A i \in S : i \in Int /\ -k <= i
      OBVIOUS
    <2>2. \A i \in S : i + k \in Nat
      BY <2>1
    <2>3. PICK i \in S : TRUE
      OBVIOUS
    <2>4. i + k \in T
      BY <2>3
    <2> QED
      BY <2>2, <2>4
  <1>2. n \in T /\ \A j \in T : n <= j
    <2> HIDE DEF T
    <2>1. QED
      BY <1>1, FirstOfProperties
  <1> HIDE DEF n
  <1>3. n - k \in S /\ \A j \in S : n - k <= j
    BY <1>2
  <1>4. QED
    BY <1>3, Zenon DEF FirstOf

LEMMA ExpValuesInts ==
    ASSUME NEW t, NEW p, ExpValues(t, p) # {}
    PROVE  FirstOf(ExpValues(t, p)) \in ExpValues(t, p) /\ ExpValues(t, p) \in SUBSET Int
  <1> DEFINE S == ExpValues(t, p)
             m == SlotMagnitude(p)
             E == DecodedIn(m, 1..(MaxExp + 1))
  <1>1. MaxExp \in Nat
    BY WidthAssumption
  <1>2. DecodedIn(p, 0..MaxExp) \in SUBSET (0..MaxExp) /\ E \in SUBSET (1..(MaxExp + 1))
    BY DEF DecodedIn
  <1>3. S = DecodedIn(p, 0..MaxExp) \/ S = {0} \/ S = {-e : e \in E}
    BY DEF ExpValues
  <1> HIDE DEF E, S
  <1>4. S \in SUBSET Int /\ MaxExp + 1 \in Nat /\ \A i \in S : -(MaxExp + 1) <= i
    <2>1. CASE S = DecodedIn(p, 0..MaxExp)
      BY <1>1, <1>2, <2>1
    <2>2. CASE S = {0}
      BY <1>1, <2>2
    <2>3. CASE S = {-e : e \in E}
      BY <1>1, <1>2, <2>3
    <2>4. QED
      BY <1>3, <2>1, <2>2, <2>3
  <1>5. S # {}
    BY DEF S
  <1> DEFINE k == MaxExp + 1
  <1>6. k \in Nat /\ \A i \in S : -k <= i
    BY <1>4
  <1> HIDE DEF k
  <1>7. FirstOf(S) \in S
    BY <1>4, <1>5, <1>6, FirstOfBounded
  <1>8. QED
    BY <1>4, <1>7 DEF S

LEMMA ExponentInt ==
    ASSUME NEW b, NEW negative, NEW q, ReadExponent(b, negative, q).rc = 1
    PROVE  ReadExponent(b, negative, q).el \in Int
  <1> DEFINE t == Signed(negative, Bytes(b, q, 1))[1]
             n == SlotWidth(t)
             p == Signed(negative, Bytes(b, q + 1, n))
             r == ReadExponent(b, negative, q)
             x == FirstOf(ExpValues(t, p))
  <1>1. \/ r \in {Failed(q), Failed(q + 1), Failed(q + 1 + n), Decoded(q + 1, 0)}
        \/ ExpValues(t, p) # {} /\ r = Decoded(q + 1 + n, x)
    BY Zenon DEF ReadExponent
  <1>2. ExpValues(t, p) # {} => x \in Int
    BY ExpValuesInts
  <1>3. r.rc = 1
    OBVIOUS
  <1> SUFFICES r.el \in Int
    OBVIOUS
  <1> HIDE DEF r, x, n, p, t
  <1>4. QED
    BY <1>1, <1>2, <1>3 DEF Failed, Decoded

(* Base-100 pairs hold decimal digits.                                     *)
LEMMA DigitsDecimal ==
    ASSUME NEW pairs \in Seq(Byte), \A k \in DOMAIN pairs : pairs[k] \in 1..100
    PROVE  Digits(pairs) \in Seq(0..9)
  <1> DEFINE n == Len(pairs)
             D(k) == LET pair == pairs[k] - 1
                     IN  IF k = Len(pairs) /\ pair % 10 = 0 THEN <<pair \div 10>>
                         ELSE <<pair \div 10, pair % 10>>
             pieces == [k \in DOMAIN pairs |-> D(k)]
  <1>1. n \in Nat /\ DOMAIN pairs = 1..n
    BY LenProperties
  <1>2. ASSUME NEW x \in 1..100
        PROVE  (x - 1) \div 10 \in 0..9 /\ (x - 1) % 10 \in 0..9
    OBVIOUS
  <1>3. ASSUME NEW k \in DOMAIN pairs
        PROVE  D(k) \in Seq(0..9)
    <2> DEFINE hi == (pairs[k] - 1) \div 10
               lo == (pairs[k] - 1) % 10
    <2>1. hi \in 0..9 /\ lo \in 0..9
      BY <1>2
    <2>2. D(k) = <<hi>> \/ D(k) = <<hi, lo>>
      OBVIOUS
    <2> HIDE DEF hi, lo, D
    <2>3. <<hi>> \in Seq(0..9) /\ <<hi, lo>> \in Seq(0..9)
      BY <2>1
    <2>4. QED
      BY <2>2, <2>3
  <1>4. Digits(pairs) = FlattenSeq(pieces)
    BY Zenon DEF Digits
  <1> HIDE DEF D, n
  <1>5. pieces \in [1..n -> Seq(0..9)]
    BY <1>1, <1>3
  <1> HIDE DEF pieces
  <1>6. pieces \in Seq(Seq(0..9))
    BY <1>1, <1>5
  <1>7. QED
    BY <1>4, <1>6, FlattenType

LEMMA DecimalEncodable ==
    ASSUME NEW b \in Seq(Byte), NEW q \in 0..Len(b), ReadDecimal(b, q).rc = 1
    PROVE  ReadDecimal(b, q).el \in Encodable
  <1> DEFINE negative == b[q + 1] = DEC_SIGN_NEG
             e     == ReadExponent(b, negative, q + 1)
             ends  == {i \in (e.pos + 1)..Len(b) : b[i] = IF negative THEN 255 ELSE 0}
             end   == FirstOf(ends)
             pairs == Signed(negative, SubSeq(b, e.pos + 1, end - 1))
             ds    == Digits(pairs)
             zero  == [kind |-> "decimal", neg |-> FALSE, digits |-> <<>>, exp |-> 0]
             some  == [kind |-> "decimal", neg |-> negative, digits |-> ds, exp |-> e.el - Len(ds)]
             r     == ReadDecimal(b, q)
  <1>1. \/ r \in {Failed(q), Failed(q + 1), Decoded(q + 1, zero)}
        \/ CanTake(b, q, 1) /\ r = DecimalAfter(b, negative, e)
    BY Zenon DEF ReadDecimal
  <1>2. \/ DecimalAfter(b, negative, e) \in {Failed(e.pos), Failed(end)}
        \/ /\ e.rc = 1 /\ ends # {}
           /\ ~\E k \in DOMAIN pairs : pairs[k] \notin 1..100
           /\ DecimalAfter(b, negative, e) = Decoded(end, some)
    BY Zenon DEF DecimalAfter, ReadDigits
  <1>3. r.rc = 1 /\ negative \in BOOLEAN
    OBVIOUS
  <1>4. /\ CanTake(b, q, 1) => e.pos \in (q + 1)..Len(b)
        /\ e.rc = 1 => e.el \in Int
    <2>1. CanTake(b, q, 1) => q + 1 \in 0..Len(b)
      BY LenProperties DEF CanTake
    <2>2. CanTake(b, q, 1) => Advances(e, q + 1, b)
      BY <1>3, <2>1, ExponentAdvances
    <2>3. e.rc = 1 => e.el \in Int
      BY ExponentInt
    <2> HIDE DEF e
    <2>4. QED
      BY <2>2, <2>3 DEF Advances
  <1>5. zero \in Encodable
    BY EmptySeq DEF Encodable
  <1>6. ASSUME CanTake(b, q, 1), ends # {}
        PROVE  pairs \in Seq(Byte)
    <2>1. Len(b) \in Nat /\ e.pos \in Nat
      BY <1>4, <1>6, LenProperties
    <2>2. ends \in SUBSET Nat /\ \A i \in ends : i \in (e.pos + 1)..Len(b)
      BY <2>1
    <2> HIDE DEF ends
    <2>3. end \in (e.pos + 1)..Len(b)
      BY <1>6, <2>2, FirstOfProperties
    <2> HIDE DEF end, e
    <2>4. \A k \in (e.pos + 1)..(end - 1) : k \in 1..Len(b)
      BY <2>1, <2>3
    <2>5. \A k \in (e.pos + 1)..(end - 1) : b[k] \in Byte
      BY <2>4, ElementOfSeq
    <2>6. e.pos + 1 \in Int /\ end - 1 \in Int
      BY <2>1, <2>3
    <2>7. SubSeq(b, e.pos + 1, end - 1) \in Seq(Byte)
      BY <2>5, <2>6, SubSeqProperties
    <2>8. QED
      BY <2>7, ComplementBytes
  <1>7. ASSUME CanTake(b, q, 1), ends # {}, e.rc = 1, ~\E k \in DOMAIN pairs : pairs[k] \notin 1..100
        PROVE  some \in Encodable
    <2>1. pairs \in Seq(Byte)
      BY <1>6, <1>7
    <2> HIDE DEF pairs
    <2>2. ds \in Seq(0..9)
      BY <1>7, <2>1, DigitsDecimal
    <2> HIDE DEF ds
    <2>3. Len(ds) \in Nat /\ e.el \in Int
      BY <1>4, <1>7, <2>2, LenProperties
    <2> HIDE DEF e
    <2>4. e.el - Len(ds) \in Int
      BY <2>3
    <2> HIDE DEF negative
    <2>5. QED
      BY <1>3, <2>2, <2>4, SMTT(30) DEF Encodable
  <1> SUFFICES r.el \in Encodable
    OBVIOUS
  <1> HIDE DEF r, e, ends, end, pairs, zero, some, negative
  <1>8. CASE r \in {Failed(q), Failed(q + 1), Decoded(q + 1, zero)}
    BY <1>3, <1>5, <1>8 DEF Failed, Decoded
  <1>9. CASE CanTake(b, q, 1) /\ r = DecimalAfter(b, negative, e)
    <2>1. ~(r \in {Failed(e.pos), Failed(end)})
      BY <1>3 DEF Failed
    <2>2. /\ e.rc = 1 /\ ends # {}
          /\ ~\E k \in DOMAIN pairs : pairs[k] \notin 1..100
          /\ r = Decoded(end, some)
      BY <1>2, <1>9, <2>1, Zenon
    <2>3. some \in Encodable
      BY <1>7, <1>9, <2>2, Zenon
    <2>4. QED
      BY <2>2, <2>3 DEF Decoded
  <1>10. QED
    BY <1>1, <1>8, <1>9

LEMMA KindOfFramed == \A t \in Framed : KindOf[t] \in DOMAIN FramedCode /\ FramedCode[KindOf[t]] = t
  <1>1. ASSUME NEW t \in Framed
        PROVE  \E k \in DOMAIN FramedCode : FramedCode[k] = t
    BY FramedCodes DEF Framed, FramedCode
  <1>2. ASSUME NEW t \in Framed
        PROVE  KindOf[t] = CHOOSE k \in DOMAIN FramedCode : FramedCode[k] = t
    BY Zenon DEF KindOf
  <1>3. QED
    BY <1>1, <1>2, Zenon

LEMMA FramedEncodable ==
    ASSUME NEW b \in Seq(Byte), NEW q \in 0..Len(b), NEW t \in Framed, ReadFramed(b, t, q).rc = 1
    PROVE  ReadFramed(b, t, q).el \in Encodable
  <1> DEFINE ends == Terminators(b, q)
             slice == SubSeq(b, q + 1, FirstOf(ends) - 1)
  <1>1. ends # {} /\ ReadFramed(b, t, q).el = [kind |-> KindOf[t], data |-> Unescaped(slice)]
    BY DEF ReadFramed, Failed, Decoded
  <1>2. Len(b) \in Nat /\ ends \in SUBSET Nat /\ \A i \in ends : i \in (q + 1)..Len(b)
    BY LenProperties DEF Terminators
  <1> HIDE DEF ends
  <1>3. FirstOf(ends) \in (q + 1)..Len(b)
    BY <1>1, <1>2, FirstOfProperties
  <1>4. slice \in Seq(Byte)
    <2>1. \A k \in (q + 1)..(FirstOf(ends) - 1) : k \in 1..Len(b)
      BY <1>2, <1>3
    <2>2. \A k \in (q + 1)..(FirstOf(ends) - 1) : b[k] \in Byte
      BY <2>1, ElementOfSeq
    <2>3. q + 1 \in Int /\ FirstOf(ends) - 1 \in Int
      BY <1>3
    <2>4. QED
      BY <2>2, <2>3, SubSeqProperties
  <1> HIDE DEF slice
  <1>5. Unescaped(slice) \in Seq(Byte)
    BY <1>4, UnescapedBytes
  <1>6. KindOf[t] \in DOMAIN FramedCode
    BY KindOfFramed
  <1>7. QED
    BY <1>1, <1>5, <1>6 DEF Encodable

LEMMA FlipSignLen ==
    ASSUME NEW n \in Nat, NEW s \in [1..n -> Byte]
    PROVE  FlipSign(s) \in [1..n -> Byte] /\ Complement(s) \in [1..n -> Byte]
  <1>1. s \in Seq(Byte) /\ Len(s) = n
    OBVIOUS
  <1>2. FlipSign(s) \in Seq(Byte) /\ DOMAIN FlipSign(s) = 1..n
    <2>1. DOMAIN s = 1..n
      OBVIOUS
    <2>2. QED
      BY <1>1, <2>1, FlipSignBytes DEF FlipSign
  <1>3. FlipSign(s) \in [1..n -> Byte]
    <2>1. FlipSign(s) \in [1..Len(FlipSign(s)) -> Byte] /\ DOMAIN FlipSign(s) = 1..Len(FlipSign(s))
      BY <1>2, LenProperties
    <2>2. QED
      BY <1>2, <2>1
  <1>4. Complement(s) \in Seq(Byte) /\ Len(Complement(s)) = n
    BY <1>1, ComplementBytes
  <1>5. Complement(s) \in [1..n -> Byte]
    BY <1>4, LenProperties
  <1>6. QED
    BY <1>3, <1>5

(* The elements of the bare codes and of the codes with a fixed payload.   *)
LEMMA BareDecodes ==
    ASSUME NEW b, NEW q, NEW t
    PROVE  /\ t = NIL => DecodeElement(b, t, q) = Decoded(q, [kind |-> "nil"])
           /\ t = UNDEF => DecodeElement(b, t, q) = Decoded(q, [kind |-> "undef"])
           /\ t = BOOL_FALSE => DecodeElement(b, t, q) = Decoded(q, [kind |-> "bool", val |-> FALSE])
           /\ t = BOOL_TRUE => DecodeElement(b, t, q) = Decoded(q, [kind |-> "bool", val |-> TRUE])
           /\ t = INT_ZERO => DecodeElement(b, t, q) = Decoded(q, IntElement(0, FALSE, <<>>))
  <1> USE DEF Bare, Framed, NIL, UNDEF, BOOL_FALSE, BOOL_TRUE, INT_ZERO, INT_NEG_BIG, INT_POS_BIG, FLOAT32, FLOAT64,
              DECIMAL, TIMESTAMP, UUID, STRING_CODE, BYTES, ARRAY, MAP, SET
  <1>1. t = NIL => DecodeElement(b, t, q) = Decoded(q, [kind |-> "nil"])
    BY NotFixed DEF DecodeElement, OtherCodes
  <1>2. t = UNDEF => DecodeElement(b, t, q) = Decoded(q, [kind |-> "undef"])
    BY NotFixed DEF DecodeElement, OtherCodes
  <1>3. t = BOOL_FALSE => DecodeElement(b, t, q) = Decoded(q, [kind |-> "bool", val |-> FALSE])
    BY NotFixed DEF DecodeElement, OtherCodes
  <1>4. t = BOOL_TRUE => DecodeElement(b, t, q) = Decoded(q, [kind |-> "bool", val |-> TRUE])
    BY NotFixed DEF DecodeElement, OtherCodes
  <1>5. t = INT_ZERO => DecodeElement(b, t, q) = Decoded(q, IntElement(0, FALSE, <<>>))
    BY NotFixed DEF DecodeElement, OtherCodes
  <1>6. QED
    BY <1>1, <1>2, <1>3, <1>4, <1>5, Zenon

LEMMA BareForms ==
    ASSUME NEW b, NEW q, NEW t \in Bare
    PROVE  DecodeElement(b, t, q).el \in
              {[kind |-> "nil"], [kind |-> "undef"], [kind |-> "bool", val |-> FALSE],
               [kind |-> "bool", val |-> TRUE], IntElement(0, FALSE, <<>>)}
  <1>1. /\ t = NIL => DecodeElement(b, t, q) = Decoded(q, [kind |-> "nil"])
        /\ t = UNDEF => DecodeElement(b, t, q) = Decoded(q, [kind |-> "undef"])
        /\ t = BOOL_FALSE => DecodeElement(b, t, q) = Decoded(q, [kind |-> "bool", val |-> FALSE])
        /\ t = BOOL_TRUE => DecodeElement(b, t, q) = Decoded(q, [kind |-> "bool", val |-> TRUE])
        /\ t = INT_ZERO => DecodeElement(b, t, q) = Decoded(q, IntElement(0, FALSE, <<>>))
    BY BareDecodes
  <1>2. t \in {NIL, UNDEF, BOOL_FALSE, BOOL_TRUE, INT_ZERO}
    BY DEF Bare
  <1>3. \A e : Decoded(q, e).el = e
    BY DEF Decoded
  <1>4. QED
    BY <1>1, <1>2, <1>3, Zenon

LEMMA PayloadForms ==
    ASSUME NEW b, NEW q, NEW t
    PROVE  /\ t = FLOAT32 => DecodeElement(b, t, q) = ReadPayload(b, q, F32Width,
                               [kind |-> "f32", bits |-> DecFloatBits(Bytes(b, q, F32Width))])
           /\ t = FLOAT64 => DecodeElement(b, t, q) = ReadPayload(b, q, F64Width,
                               [kind |-> "f64", bits |-> DecFloatBits(Bytes(b, q, F64Width))])
           /\ t = TIMESTAMP => DecodeElement(b, t, q) = ReadPayload(b, q, NativeWidth,
                                 [kind |-> "timestamp", data |-> FlipSign(Bytes(b, q, NativeWidth))])
           /\ t = UUID => DecodeElement(b, t, q) = ReadPayload(b, q, UuidWidth,
                            [kind |-> "uuid", data |-> Bytes(b, q, UuidWidth)])
  <1> USE DEF Bare, Framed, NIL, UNDEF, BOOL_FALSE, BOOL_TRUE, INT_ZERO, INT_NEG_BIG, INT_POS_BIG, FLOAT32, FLOAT64,
              DECIMAL, TIMESTAMP, UUID, STRING_CODE, BYTES, ARRAY, MAP, SET
  <1>1. t = FLOAT32 => DecodeElement(b, t, q) = ReadPayload(b, q, F32Width,
                         [kind |-> "f32", bits |-> DecFloatBits(Bytes(b, q, F32Width))])
    BY NotFixed DEF DecodeElement, OtherCodes
  <1>2. t = FLOAT64 => DecodeElement(b, t, q) = ReadPayload(b, q, F64Width,
                         [kind |-> "f64", bits |-> DecFloatBits(Bytes(b, q, F64Width))])
    BY NotFixed DEF DecodeElement, OtherCodes
  <1>3. t = TIMESTAMP => DecodeElement(b, t, q) = ReadPayload(b, q, NativeWidth,
                           [kind |-> "timestamp", data |-> FlipSign(Bytes(b, q, NativeWidth))])
    BY NotFixed DEF DecodeElement, OtherCodes
  <1>4. t = UUID => DecodeElement(b, t, q) = ReadPayload(b, q, UuidWidth,
                      [kind |-> "uuid", data |-> Bytes(b, q, UuidWidth)])
    BY NotFixed DEF DecodeElement, OtherCodes
  <1>5. QED
    BY <1>1, <1>2, <1>3, <1>4, Zenon

LEMMA PayloadEncodable ==
    ASSUME NEW b \in Seq(Byte), NEW q \in 0..Len(b), NEW t \in {FLOAT32, FLOAT64, TIMESTAMP, UUID},
           DecodeElement(b, t, q).rc = 1
    PROVE  DecodeElement(b, t, q).el \in Encodable
  <1> DEFINE r == DecodeElement(b, t, q)
  <1>1. ASSUME NEW n \in Nat, CanTake(b, q, n)
        PROVE  /\ Bytes(b, q, n) \in [1..n -> Byte]
               /\ FlipSign(Bytes(b, q, n)) \in [1..n -> Byte]
               /\ DecFloatBits(Bytes(b, q, n)) \in [1..n -> Byte]
    <2>1. Bytes(b, q, n) \in [1..n -> Byte]
      BY <1>1, BytesProperties
    <2>2. QED
      BY <2>1, FlipSignLen DEF DecFloatBits
  <1>2. ASSUME NEW n, NEW e, r = ReadPayload(b, q, n, e)
        PROVE  CanTake(b, q, n) /\ r.el = e
    BY <1>2 DEF ReadPayload, Failed, Decoded
  <1>3. /\ t = FLOAT32 => r = ReadPayload(b, q, F32Width,
                                [kind |-> "f32", bits |-> DecFloatBits(Bytes(b, q, F32Width))])
        /\ t = FLOAT64 => r = ReadPayload(b, q, F64Width,
                                [kind |-> "f64", bits |-> DecFloatBits(Bytes(b, q, F64Width))])
        /\ t = TIMESTAMP => r = ReadPayload(b, q, NativeWidth,
                                  [kind |-> "timestamp", data |-> FlipSign(Bytes(b, q, NativeWidth))])
        /\ t = UUID => r = ReadPayload(b, q, UuidWidth, [kind |-> "uuid", data |-> Bytes(b, q, UuidWidth)])
    BY PayloadForms, Zenon
  <1>4. F32Width \in Nat /\ F64Width \in Nat /\ NativeWidth \in Nat /\ UuidWidth \in Nat
    BY WidthAssumption
  <1> SUFFICES r.el \in Encodable
    OBVIOUS
  <1> HIDE DEF r
  <1>5. CASE t = FLOAT32
    <2> DEFINE x == DecFloatBits(Bytes(b, q, F32Width))
    <2>1. CanTake(b, q, F32Width) /\ r.el = [kind |-> "f32", bits |-> x]
      BY <1>2, <1>3, <1>5
    <2>2. x \in [1..F32Width -> Byte]
      BY <1>1, <1>4, <2>1
    <2> HIDE DEF x
    <2>3. QED
      BY <2>1, <2>2 DEF Encodable
  <1>6. CASE t = FLOAT64
    <2> DEFINE x == DecFloatBits(Bytes(b, q, F64Width))
    <2>1. CanTake(b, q, F64Width) /\ r.el = [kind |-> "f64", bits |-> x]
      BY <1>2, <1>3, <1>6
    <2>2. x \in [1..F64Width -> Byte]
      BY <1>1, <1>4, <2>1
    <2> HIDE DEF x
    <2>3. QED
      BY <2>1, <2>2 DEF Encodable
  <1>7. CASE t = TIMESTAMP
    <2> DEFINE x == FlipSign(Bytes(b, q, NativeWidth))
    <2>1. CanTake(b, q, NativeWidth) /\ r.el = [kind |-> "timestamp", data |-> x]
      BY <1>2, <1>3, <1>7
    <2>2. x \in [1..NativeWidth -> Byte]
      BY <1>1, <1>4, <2>1
    <2> HIDE DEF x
    <2>3. QED
      BY <2>1, <2>2 DEF Encodable
  <1>8. CASE t = UUID
    <2> DEFINE x == Bytes(b, q, UuidWidth)
    <2>1. CanTake(b, q, UuidWidth) /\ r.el = [kind |-> "uuid", data |-> x]
      BY <1>2, <1>3, <1>8
    <2>2. x \in [1..UuidWidth -> Byte]
      BY <1>1, <1>4, <2>1
    <2> HIDE DEF x
    <2>3. QED
      BY <2>1, <2>2 DEF Encodable
  <1>9. QED
    BY <1>5, <1>6, <1>7, <1>8

(* Whatever the buffer holds, an element next() hands out is one that an   *)
(* append call takes.                                                      *)
LEMMA NextEncodable ==
    ASSUME NEW b \in Seq(Byte), NEW p \in 0..Len(b), Next(b, p).rc = 1
    PROVE  Next(b, p).el \in Encodable
  <1> DEFINE t == b[p + 1]
             q == p + 1
  <1>1. ~(p >= Len(b)) /\ q \in 0..Len(b)
    BY LenProperties DEF Next
  <1>2. Next(b, p) = DecodeElement(b, t, q)
    BY <1>1 DEF Next
  <1>3. DecodeElement(b, t, q).rc = 1
    BY <1>2
  <1> HIDE DEF t, q
  <1> SUFFICES DecodeElement(b, t, q).el \in Encodable
    BY <1>2
  <1>4. CASE t \in Bare
    <2>1. <<>> \in Magnitude
      <3>1. <<>> \in Seq(Byte) /\ Len(<<>>) <= 255
        BY EmptySeq
      <3>2. QED
        BY <3>1, ShortMagnitude
    <2>2. PICK e : \A c, z : DecodeElement(c, t, z) = Decoded(z, e)
      BY <1>4, BareDispatch
    <2>3. e \in {[kind |-> "nil"], [kind |-> "undef"], [kind |-> "bool", val |-> FALSE],
                 [kind |-> "bool", val |-> TRUE], IntElement(0, FALSE, <<>>)}
      <3>1. DecodeElement(b, t, q) = Decoded(q, e)
        BY <2>2, Zenon
      <3>2. DecodeElement(b, t, q).el \in
              {[kind |-> "nil"], [kind |-> "undef"], [kind |-> "bool", val |-> FALSE],
               [kind |-> "bool", val |-> TRUE], IntElement(0, FALSE, <<>>)}
        BY <1>4, BareForms
      <3>3. DecodeElement(b, t, q).el = e
        BY <3>1 DEF Decoded
      <3>4. QED
        BY <3>2, <3>3
    <2>4. IntElement(0, FALSE, <<>>) \in Encodable
      BY <2>1 DEF IntElement, Encodable
    <2>5. /\ [kind |-> "nil"] \in Encodable /\ [kind |-> "undef"] \in Encodable
          /\ [kind |-> "bool", val |-> FALSE] \in Encodable /\ [kind |-> "bool", val |-> TRUE] \in Encodable
      BY DEF Encodable
    <2>6. e \in Encodable
      BY <2>3, <2>4, <2>5
    <2>7. DecodeElement(b, t, q).el = e
      BY <2>2 DEF Decoded
    <2>8. QED
      BY <2>6, <2>7
  <1>5. CASE t \in FixedNeg \cup FixedPos
    BY <1>1, <1>3, <1>5, FixedDispatch, FixedIntEncodable
  <1>6. CASE t \in {INT_NEG_BIG, INT_POS_BIG}
    BY <1>1, <1>3, <1>6, BigIntDispatch, BigIntEncodable
  <1>7. CASE t \in {FLOAT32, FLOAT64, TIMESTAMP, UUID}
    BY <1>1, <1>3, <1>7, PayloadEncodable
  <1>8. CASE t = DECIMAL
    BY <1>1, <1>3, <1>8, DecimalDispatch, DecimalEncodable
  <1>9. CASE t \in Framed
    BY <1>1, <1>3, <1>9, FramedDispatch, FramedEncodable
  <1>10. CASE t \notin OtherCodes \cup FixedNeg \cup FixedPos
    BY <1>3, <1>10, NoCodeDispatch DEF Failed
  <1>11. QED
    BY <1>4, <1>5, <1>6, <1>7, <1>8, <1>9, <1>10 DEF OtherCodes

-----------------------------------------------------------------------------
(***************************************************************************)
(* Round trips: what the encoder writes is what the decoder reads, and     *)
(* what is read is written again as the same bytes.                        *)
(***************************************************************************)

(* b holds the bytes s from offset p on.                                   *)
At(b, p, s) == p + Len(s) <= Len(b) /\ \A k \in 1..Len(s) : b[p + k] = s[k]

(* What follows offset e in b cannot be taken for an escape.               *)
Guarded(b, e) == e < Len(b) => b[e + 1] # 255

LEMMA AtBytes ==
    ASSUME NEW b \in Seq(Byte), NEW p \in 0..Len(b), NEW s \in Seq(Byte), At(b, p, s)
    PROVE  CanTake(b, p, Len(s)) /\ Bytes(b, p, Len(s)) = s /\ p + Len(s) \in 0..Len(b)
  <1> DEFINE n == Len(s)
             w == Bytes(b, p, n)
  <1>1. n \in Nat /\ Len(b) \in Nat /\ p + n <= Len(b) /\ \A k \in 1..n : b[p + k] = s[k]
    BY LenProperties DEF At
  <1>2. CanTake(b, p, n) /\ p + n \in 0..Len(b)
    <2> HIDE DEF n
    <2>1. QED
      BY <1>1 DEF CanTake
  <1> HIDE DEF n
  <1>3. w \in Seq(Byte) /\ Len(w) = n /\ \A k \in 1..n : w[k] = b[p + k]
    BY <1>1, <1>2, BytesProperties
  <1> HIDE DEF w
  <1>4. Len(w) = Len(s) /\ \A k \in 1..Len(w) : w[k] = s[k]
    BY <1>1, <1>3 DEF n
  <1>5. w = s
    BY <1>3, <1>4, SeqEqual
  <1>6. QED
    BY <1>2, <1>5 DEF w, n

LEMMA AtConcat ==
    ASSUME NEW b \in Seq(Byte), NEW p \in 0..Len(b), NEW s \in Seq(Byte), NEW t \in Seq(Byte),
           At(b, p, s \o t)
    PROVE  /\ At(b, p, s)
           /\ p + Len(s) \in 0..Len(b)
           /\ At(b, p + Len(s), t)
           /\ p + Len(s \o t) = (p + Len(s)) + Len(t)
  <1> DEFINE m == Len(s)
             n == Len(t)
             c == s \o t
  <1>1. m \in Nat /\ n \in Nat /\ Len(b) \in Nat
    BY LenProperties
  <1>2. /\ Len(c) = m + n
        /\ \A i \in 1..(m + n) : c[i] = IF i <= m THEN s[i] ELSE t[i - m]
    BY ConcatProperties
  <1>3. p + Len(c) <= Len(b) /\ \A k \in 1..Len(c) : b[p + k] = c[k]
    BY DEF At
  <1> HIDE DEF m, n, c
  <1>4. p + m <= Len(b) /\ (p + m) + n <= Len(b)
    BY <1>1, <1>2, <1>3
  <1>5. ASSUME NEW k \in 1..m
        PROVE  b[p + k] = s[k]
    <2>1. k \in 1..(m + n) /\ k <= m
      BY <1>1
    <2>2. QED
      BY <1>2, <1>3, <2>1
  <1>6. ASSUME NEW k \in 1..n
        PROVE  b[(p + m) + k] = t[k]
    <2>1. /\ m + k \in 1..(m + n) /\ ~(m + k <= m)
          /\ (p + m) + k = p + (m + k) /\ (m + k) - m = k
      BY <1>1
    <2>2. b[p + (m + k)] = c[m + k] /\ c[m + k] = t[(m + k) - m]
      BY <1>2, <1>3, <2>1
    <2>3. QED
      BY <2>1, <2>2
  <1>7. p + m \in 0..Len(b) /\ p + Len(c) = (p + m) + n
    BY <1>1, <1>2, <1>4
  <1>8. QED
    BY <1>4, <1>5, <1>6, <1>7 DEF At, m, n, c

-----------------------------------------------------------------------------
(* A magnitude without leading zeros is its own.                           *)
LEMMA TrimmedIdentity ==
    ASSUME NEW S, NEW s \in Seq(S), s # <<>> => s[1] # 0
    PROVE  Trimmed(s) = s
  <1> DEFINE sig == {i \in DOMAIN s : s[i] # 0}
  <1>1. CASE s = <<>>
    <2>1. sig = {}
      BY <1>1
    <2>2. QED
      BY <1>1, <2>1 DEF Trimmed
  <1>2. CASE s # <<>>
    <2>1. Len(s) \in Nat \ {0} /\ DOMAIN s = 1..Len(s)
      BY <1>2, LenProperties, EmptySeq
    <2>2. 1 \in sig /\ sig \in SUBSET Nat /\ \A i \in sig : 1 <= i
      BY <1>2, <2>1
    <2> HIDE DEF sig
    <2>3. FirstOf(sig) \in sig /\ \A j \in sig : FirstOf(sig) <= j
      BY <2>2, FirstOfProperties
    <2>4. FirstOf(sig) = 1
      <3>1. FirstOf(sig) \in Nat /\ FirstOf(sig) <= 1 /\ 1 <= FirstOf(sig)
        BY <2>2, <2>3, Zenon
      <3> HIDE DEF FirstOf
      <3>2. QED
        BY <3>1
    <2>5. Trimmed(s) = SubSeq(s, FirstOf(sig), Len(s))
      BY <2>2 DEF Trimmed, sig
    <2>6. QED
      BY <2>4, <2>5, SubSeqFull
  <1>3. QED
    BY <1>1, <1>2

(* A string of zeros carries no value.                                     *)
LEMMA TrimmedZeros ==
    ASSUME NEW s, \A i \in DOMAIN s : s[i] = 0
    PROVE  Trimmed(s) = <<>>
  BY DEF Trimmed

(* The bytes of a number have no leading zero, and tell it from others.    *)
LEMMA LittleEndianLast ==
    \A n \in Nat \ {0} : LittleEndian[n][Len(LittleEndian[n])] # 0
  <1> DEFINE S == {k \in Nat : \A n \in Nat \ {0} : n <= k => LittleEndian[n][Len(LittleEndian[n])] # 0}
  <1>1. 0 \in S
    OBVIOUS
  <1>2. ASSUME NEW k \in Nat, k \in S
        PROVE  k + 1 \in S
    <2>1. ASSUME NEW n \in Nat \ {0}, n <= k + 1
          PROVE  LittleEndian[n][Len(LittleEndian[n])] # 0
      <3> DEFINE low == n % 256
                 m == n \div 256
                 high == LittleEndian[m]
      <3>1. low \in 0..255 /\ m \in Nat /\ m <= k /\ (m = 0 => low # 0)
        BY <2>1
      <3>2. LittleEndian[n] = <<low>> \o high
        BY LittleEndianUnfold
      <3>3. high \in Seq(Byte)
        BY <3>1, LittleEndianBytes
      <3>4. m = 0 => high = <<>>
        BY LittleEndianUnfold
      <3>5. m # 0 => Len(high) >= 1 /\ high[Len(high)] # 0
        <4> SUFFICES ASSUME m # 0 PROVE Len(high) >= 1 /\ high[Len(high)] # 0
          OBVIOUS
        <4>1. m \in Nat \ {0} /\ m <= k
          BY <3>1
        <4>2. Len(high) = 1 + Len(LittleEndian[m \div 256])
          BY <4>1, LittleEndianBytes
        <4>3. m \div 256 \in Nat
          BY <4>1
        <4>4. Len(LittleEndian[m \div 256]) \in Nat
          BY <4>3, LittleEndianBytes, LenProperties
        <4>5. high[Len(high)] # 0
          BY <1>2, <4>1
        <4> HIDE DEF high, m
        <4>6. QED
          BY <4>2, <4>4, <4>5
      <3> HIDE DEF low, m, high
      <3>6. <<low>> \in Seq(Byte) /\ Len(<<low>>) = 1 /\ <<low>>[1] = low
        BY <3>1 DEF Byte
      <3> DEFINE c == <<low>> \o high
                 h == Len(high)
      <3>7. h \in Nat
        BY <3>3, LenProperties
      <3>8. Len(c) = 1 + h /\ \A i \in 1..(1 + h) : c[i] = IF i <= 1 THEN <<low>>[i] ELSE high[i - 1]
        BY <3>3, <3>6, ConcatProperties
      <3>9. m = 0 => h = 0
        BY <3>4
      <3>10. m # 0 => h >= 1 /\ high[h] # 0
        BY <3>5
      <3> HIDE DEF c, h
      <3>11. c[Len(c)] # 0
        <4>1. CASE m = 0
          BY <3>1, <3>6, <3>8, <3>9, <4>1
        <4>2. CASE m # 0
          <5>1. 1 + h \in 1..(1 + h) /\ ~(1 + h <= 1) /\ (1 + h) - 1 = h
            BY <3>7, <3>10, <4>2
          <5>2. QED
            BY <3>8, <3>10, <4>2, <5>1
        <4>3. QED
          BY <4>1, <4>2
      <3>12. QED
        BY <3>2, <3>11 DEF c
    <2>2. QED
      BY <2>1
  <1> HIDE DEF S
  <1>3. \A k \in Nat : k \in S
    BY <1>1, <1>2, NatSetInduction
  <1>4. ASSUME NEW n \in Nat \ {0}
        PROVE  LittleEndian[n][Len(LittleEndian[n])] # 0
    <2>1. n \in S /\ n <= n
      BY <1>3
    <2>2. QED
      BY <2>1 DEF S
  <1>5. QED
    BY <1>4

LEMMA ReverseAt ==
    ASSUME NEW S, NEW s \in Seq(S)
    PROVE  \A i \in 1..Len(s) : Reverse(s)[i] = s[(Len(s) - i) + 1]
  BY DEF Reverse

LEMMA ToBETrimmed ==
    ASSUME NEW n \in Nat
    PROVE  Trimmed(ToBE(n)) = ToBE(n)
  <1> DEFINE l == LittleEndian[n]
             k == Len(l)
             r == ToBE(n)
  <1>1. l \in Seq(Byte) /\ k \in Nat
    BY LittleEndianBytes, LenProperties
  <1>2. r \in Seq(Byte) /\ Len(r) = k
    BY <1>1, ReverseType DEF ToBE
  <1>3. \A i \in 1..k : r[i] = l[(k - i) + 1]
    BY <1>1, ReverseAt DEF ToBE
  <1>4. n # 0 => l[k] # 0
    BY LittleEndianLast
  <1>5. n = 0 => l = <<>>
    BY LittleEndianUnfold
  <1>5a. l = <<>> => k = 0
    OBVIOUS
  <1>5b. r # <<>> => Len(r) \in Nat \ {0}
    BY <1>2, EmptySeq
  <1> HIDE DEF l, k, r
  <1>6. r # <<>> => r[1] # 0
    <2> SUFFICES ASSUME r # <<>> PROVE r[1] # 0
      OBVIOUS
    <2>1. k \in Nat \ {0}
      BY <1>2, <1>5b
    <2>2. 1 \in 1..k /\ (k - 1) + 1 = k /\ n # 0
      BY <2>1, <1>5, <1>5a
    <2>3. QED
      BY <1>3, <1>4, <2>2
  <1>7. Trimmed(r) = r
    BY <1>2, <1>6, TrimmedIdentity
  <1>8. QED
    BY <1>7 DEF r

LEMMA LittleEndianInjective ==
    \A n, m \in Nat : LittleEndian[n] = LittleEndian[m] => n = m
  <1> DEFINE S == {k \in Nat : \A n, m \in Nat : n <= k /\ LittleEndian[n] = LittleEndian[m] => n = m}
  <1>0. ASSUME NEW n \in Nat, NEW m \in Nat, LittleEndian[n] = LittleEndian[m], n = 0
        PROVE  n = m
    <2>1. LittleEndian[n] = <<>>
      BY <1>0, LittleEndianUnfold
    <2>2. m # 0 => LittleEndian[m] # <<>>
      <3>1. m # 0 => Len(LittleEndian[m]) = 1 + Len(LittleEndian[m \div 256])
        BY LittleEndianBytes
      <3>2. m \div 256 \in Nat
        OBVIOUS
      <3>3. Len(LittleEndian[m \div 256]) \in Nat
        BY <3>2, LittleEndianBytes, LenProperties
      <3>4. LittleEndian[m] = <<>> => Len(LittleEndian[m]) = 0
        BY EmptySeq
      <3>5. QED
        BY <3>1, <3>3, <3>4
    <2>3. QED
      BY <1>0, <2>1, <2>2
  <1>1. 0 \in S
    <2>1. \A n \in Nat : n <= 0 => n = 0
      OBVIOUS
    <2>2. QED
      BY <1>0, <2>1
  <1>2. ASSUME NEW k \in Nat, k \in S
        PROVE  k + 1 \in S
    <2>1. ASSUME NEW n \in Nat, NEW m \in Nat, n <= k + 1, LittleEndian[n] = LittleEndian[m]
          PROVE  n = m
      <3>1. CASE n = 0 \/ m = 0
        BY <1>0, <2>1, <3>1
      <3>2. CASE n # 0 /\ m # 0
        <4>1. /\ LittleEndian[n] = <<n % 256>> \o LittleEndian[n \div 256]
              /\ LittleEndian[m] = <<m % 256>> \o LittleEndian[m \div 256]
          BY <3>2, LittleEndianUnfold, ZenonT(40)
        <4>2. /\ n \div 256 \in Nat /\ m \div 256 \in Nat /\ n \div 256 <= k
              /\ n % 256 \in 0..255 /\ m % 256 \in 0..255
              /\ n = 256 * (n \div 256) + (n % 256) /\ m = 256 * (m \div 256) + (m % 256)
          BY <2>1, <3>2
        <4> DEFINE a == n % 256
                   c == m % 256
                   x == LittleEndian[n \div 256]
                   y == LittleEndian[m \div 256]
        <4>3. x \in Seq(Byte) /\ y \in Seq(Byte)
          BY <4>2, LittleEndianBytes
        <4>4. a \in Byte /\ c \in Byte /\ <<a>> \o x = <<c>> \o y
          BY <2>1, <4>1, <4>2, ZenonT(40) DEF Byte
        <4> HIDE DEF a, c, x, y
        <4>5. a = c /\ x = y
          <5>1. Append(<<>>, a) = <<a>>
            OBVIOUS
          <5>2. /\ <<a>> \in Seq(Byte) /\ <<c>> \in Seq(Byte) /\ Len(<<a>>) = 1 /\ Len(<<c>>) = 1
                /\ <<a>>[1] = a /\ <<c>>[1] = c
            BY <4>4
          <5>3. Len(x) \in Nat /\ Len(y) \in Nat
            BY <4>3, LenProperties
          <5> DEFINE u == <<a>> \o x
                     v == <<c>> \o y
          <5>4. /\ Len(u) = 1 + Len(x)
                /\ \A i \in 1..(1 + Len(x)) : u[i] = IF i <= 1 THEN <<a>>[i] ELSE x[i - 1]
            BY <4>3, <5>2, ConcatProperties
          <5>5. /\ Len(v) = 1 + Len(y)
                /\ \A i \in 1..(1 + Len(y)) : v[i] = IF i <= 1 THEN <<c>>[i] ELSE y[i - 1]
            BY <4>3, <5>2, ConcatProperties
          <5>6. u = v
            BY <4>4
          <5> HIDE DEF u, v
          <5>7. Len(x) = Len(y)
            BY <5>3, <5>4, <5>5, <5>6
          <5>8. a = c
            <6>1. 1 \in 1..(1 + Len(x)) /\ 1 \in 1..(1 + Len(y)) /\ 1 <= 1
              BY <5>3
            <6>2. QED
              BY <5>2, <5>4, <5>5, <5>6, <6>1
          <5>9. ASSUME NEW i \in 1..Len(x)
                PROVE  x[i] = y[i]
            <6>1. i + 1 \in 1..(1 + Len(x)) /\ ~(i + 1 <= 1) /\ (i + 1) - 1 = i
              BY <5>3
            <6>2. u[i + 1] = x[(i + 1) - 1] /\ v[i + 1] = y[(i + 1) - 1]
              BY <5>4, <5>5, <5>7, <6>1
            <6>3. QED
              BY <5>6, <6>1, <6>2
          <5>10. QED
            BY <4>3, <5>7, <5>8, <5>9, SeqEqual
        <4>6. n \div 256 = m \div 256
          BY <1>2, <4>2, <4>5 DEF x, y
        <4>7. a = n % 256 /\ c = m % 256
          BY DEF a, c
        <4>8. QED
          BY <4>2, <4>5, <4>6, <4>7, ZenonT(40)
      <3>3. QED
        BY <3>1, <3>2
    <2>2. QED
      BY <2>1
  <1> HIDE DEF S
  <1>3. \A k \in Nat : k \in S
    BY <1>1, <1>2, NatSetInduction
  <1>4. ASSUME NEW n \in Nat, NEW m \in Nat, LittleEndian[n] = LittleEndian[m]
        PROVE  n = m
    <2>1. n \in S /\ n <= n
      BY <1>3
    <2>2. QED
      BY <1>4, <2>1 DEF S
  <1>5. QED
    BY <1>4

LEMMA ToBEInjective ==
    ASSUME NEW n \in Nat, NEW m \in Nat, ToBE(n) = ToBE(m)
    PROVE  n = m
  <1> DEFINE x == LittleEndian[n]
             y == LittleEndian[m]
             k == Len(x)
  <1>1. x \in Seq(Byte) /\ y \in Seq(Byte) /\ k \in Nat
    BY LittleEndianBytes, LenProperties
  <1>2. Reverse(x) = Reverse(y)
    BY DEF ToBE
  <1>3. Len(y) = k
    BY <1>1, <1>2, ReverseType
  <1>4. /\ \A i \in 1..k : Reverse(x)[i] = x[(k - i) + 1]
        /\ \A i \in 1..Len(y) : Reverse(y)[i] = y[(Len(y) - i) + 1]
    BY <1>1, ReverseAt
  <1>5. k = Len(x)
    OBVIOUS
  <1> HIDE DEF x, y, k
  <1>6. ASSUME NEW i \in 1..Len(x)
        PROVE  x[i] = y[i]
    <2>1. (k - i) + 1 \in 1..k /\ (k - ((k - i) + 1)) + 1 = i
      BY <1>1, <1>5
    <2>2. /\ Reverse(x)[(k - i) + 1] = x[(k - ((k - i) + 1)) + 1]
          /\ Reverse(y)[(k - i) + 1] = y[(k - ((k - i) + 1)) + 1]
      BY <1>3, <1>4, <2>1
    <2>3. QED
      BY <1>2, <2>1, <2>2
  <1>7. x = y
    BY <1>1, <1>3, <1>5, <1>6, SeqEqual
  <1>8. QED
    BY <1>7, LittleEndianInjective DEF x, y

(* The bytes of a number are read back as that number.                     *)
LEMMA DecodedBack ==
    ASSUME NEW S \in SUBSET Nat, NEW n \in S, NEW s, Trimmed(s) = ToBE(n)
    PROVE  DecodedIn(s, S) = {n}
  <1>1. \A v \in S : ToBE(v) = ToBE(n) => v = n
    BY ToBEInjective
  <1> HIDE DEF ToBE, Trimmed
  <1>2. QED
    BY <1>1, Zenon DEF DecodedIn

LEMMA FirstOfOne == \A n \in Int : FirstOf({n}) = n
  BY DEF FirstOf

-----------------------------------------------------------------------------
(* The last nonzero byte of a magnitude.                                   *)
IsLast(s, j) == j \in 1..Len(s) /\ s[j] # 0 /\ \A k \in (j + 1)..Len(s) : s[k] = 0

LEMMA LastExists ==
    ASSUME NEW s \in Seq(Byte), NEW i \in 1..Len(s), s[i] # 0
    PROVE  \E j \in 1..Len(s) : IsLast(s, j) /\ i <= j
  <1>1. Len(s) \in Nat
    BY LenProperties
  <1>2. PICK n \in 0..Len(s) : (n = 0 \/ s[n] # 0) /\ \A k \in (n + 1)..Len(s) : s[k] = 0
    BY <1>1, LastSignificant
  <1>3. i <= n
    <2> SUFFICES ASSUME ~(i <= n) PROVE FALSE
      OBVIOUS
    <2>1. i \in (n + 1)..Len(s)
      BY <1>1
    <2>2. QED
      BY <1>2, <2>1
  <1>4. n \in 1..Len(s) /\ n # 0
    BY <1>1, <1>3
  <1>5. IsLast(s, n)
    BY <1>2, <1>4 DEF IsLast
  <1>6. QED
    BY <1>3, <1>4, <1>5

(* The borrow reaches back to the last nonzero byte.                       *)
LEMMA MinusOneAt ==
    ASSUME NEW s \in Seq(Byte), NEW j, IsLast(s, j)
    PROVE  MinusOne(s) = [i \in 1..Len(s) |-> IF i < j THEN s[i] ELSE IF i = j THEN s[i] - 1 ELSE 255]
  <1> DEFINE L == Len(s)
             P(i) == s[i] # 0 /\ \A k \in (i + 1)..Len(s) : s[k] = 0
             c == CHOOSE i \in DOMAIN s : P(i)
  <1>1. L \in Nat /\ DOMAIN s = 1..L
    BY LenProperties
  <1>2. j \in DOMAIN s /\ P(j)
    BY <1>1 DEF IsLast
  <1>3. c \in DOMAIN s /\ P(c)
    <2> HIDE DEF P
    <2>1. QED
      BY <1>2, Zenon
  <1>4. MinusOne(s) = [i \in DOMAIN s |-> IF i < c THEN s[i] ELSE IF i = c THEN s[i] - 1 ELSE 255]
    BY Zenon DEF MinusOne
  <1> HIDE DEF c
  <1>5. c = j
    <2>1. ~(c < j)
      <3> SUFFICES ASSUME c < j PROVE FALSE
        OBVIOUS
      <3>1. j \in (c + 1)..Len(s)
        BY <1>1, <1>2, <1>3
      <3>2. QED
        BY <1>2, <1>3, <3>1
    <2>2. ~(j < c)
      <3> SUFFICES ASSUME j < c PROVE FALSE
        OBVIOUS
      <3>1. c \in (j + 1)..Len(s)
        BY <1>1, <1>2, <1>3
      <3>2. QED
        BY <1>2, <1>3, <3>1
    <2>3. QED
      BY <1>1, <1>2, <1>3, <2>1, <2>2
  <1>6. QED
    BY <1>1, <1>4, <1>5

(* The carry reaches back to the same place.                               *)
LEMMA NegatedAt ==
    ASSUME NEW s \in Seq(Byte), NEW j, IsLast(s, j)
    PROVE  Negated(s) = [i \in 1..Len(s) |-> IF i < j THEN 255 - s[i] ELSE IF i = j THEN 256 - s[i] ELSE 0]
  <1> DEFINE L == Len(s)
             Z(i) == \A k \in (i + 1)..L : s[k] = 0
             N(i) == IF Z(i) THEN (256 - s[i]) % 256 ELSE 255 - s[i]
             M(i) == IF i < j THEN 255 - s[i] ELSE IF i = j THEN 256 - s[i] ELSE 0
  <1>1. L \in Nat /\ DOMAIN s = 1..L /\ \A i \in 1..L : s[i] \in 0..255
    BY LenProperties, ElementOfSeq DEF Byte
  <1>2. j \in 1..L /\ s[j] # 0 /\ \A k \in (j + 1)..L : s[k] = 0
    BY DEF IsLast
  <1>3. Negated(s) = [i \in DOMAIN s |-> N(i)]
    BY DEF Negated
  <1> HIDE DEF L
  <1>4. ASSUME NEW i \in 1..L
        PROVE  N(i) = M(i)
    <2>1. CASE i < j
      <3>1. j \in (i + 1)..L
        BY <1>1, <1>2, <2>1
      <3>2. ~Z(i)
        BY <1>2, <3>1
      <3>3. QED
        BY <2>1, <3>2
    <2>2. CASE i = j
      <3>1. Z(i)
        BY <1>2, <2>2
      <3>2. (256 - s[i]) % 256 = 256 - s[i]
        <4>1. s[i] \in 1..255
          BY <1>1, <1>2, <2>2
        <4>2. \A x \in 1..255 : (256 - x) % 256 = 256 - x
          OBVIOUS
        <4>3. QED
          BY <4>1, <4>2
      <3>3. N(i) = 256 - s[i]
        BY <3>1, <3>2, Zenon
      <3>4. M(i) = 256 - s[i]
        BY <1>2, <2>2
      <3>5. QED
        BY <3>3, <3>4
    <2>3. CASE i > j
      <3>1. i \in (j + 1)..L /\ \A k \in (i + 1)..L : k \in (j + 1)..L
        BY <1>1, <1>2, <2>3
      <3>2. Z(i) /\ s[i] = 0
        BY <1>2, <3>1
      <3>3. (256 - 0) % 256 = 0
        OBVIOUS
      <3>4. N(i) = 0
        BY <3>2, <3>3, Zenon
      <3>5. M(i) = 0
        BY <1>2, <2>3
      <3>6. QED
        BY <3>4, <3>5
    <2>4. QED
      BY <1>1, <1>2, <2>1, <2>2, <2>3
  <1> HIDE DEF N, M
  <1>5. Negated(s) = [i \in 1..L |-> M(i)]
    BY <1>1, <1>3, <1>4
  <1>6. QED
    BY <1>5, Zenon DEF M, L

LEMMA TrimmedNonempty ==
    ASSUME NEW S, NEW s \in Seq(S), NEW i \in 1..Len(s), s[i] # 0
    PROVE  Trimmed(s) # <<>>
  <1> DEFINE sig == {k \in DOMAIN s : s[k] # 0}
             f == FirstOf(sig)
             t == SubSeq(s, f, Len(s))
  <1>1. Len(s) \in Nat /\ DOMAIN s = 1..Len(s)
    BY LenProperties
  <1>2. i \in sig /\ sig \in SUBSET Nat
    BY <1>1
  <1>3. f \in sig
    <2> HIDE DEF sig
    <2>1. QED
      BY <1>2, FirstOfProperties
  <1>4. Trimmed(s) = t
    BY <1>2 DEF Trimmed
  <1>5. f \in 1..Len(s)
    BY <1>1, <1>3
  <1> HIDE DEF f
  <1>6. \A k \in f..Len(s) : k \in 1..Len(s)
    BY <1>1, <1>5
  <1>7. \A k \in f..Len(s) : s[k] \in S
    BY <1>6, ElementOfSeq
  <1>8. Len(t) = IF f <= Len(s) THEN Len(s) - f + 1 ELSE 0
    BY <1>1, <1>5, <1>7, SubSeqProperties
  <1> HIDE DEF t
  <1>9. Len(t) >= 1
    BY <1>1, <1>5, <1>8
  <1>10. t # <<>>
    BY <1>9, SMTT(30)
  <1>11. QED
    BY <1>4, <1>10

(* A string that starts with one zero byte.                                *)
LEMMA TrimmedTail ==
    ASSUME NEW S, NEW s \in Seq(S), Len(s) >= 2, s[1] = 0, s[2] # 0
    PROVE  /\ Trimmed(s) \in Seq(S) /\ Len(Trimmed(s)) = Len(s) - 1
           /\ \A k \in 1..(Len(s) - 1) : Trimmed(s)[k] = s[k + 1]
  <1> DEFINE sig == {k \in DOMAIN s : s[k] # 0}
             f == FirstOf(sig)
             t == SubSeq(s, 2, Len(s))
  <1>1. Len(s) \in Nat /\ DOMAIN s = 1..Len(s)
    BY LenProperties
  <1>2. 2 \in sig /\ sig \in SUBSET Nat /\ \A k \in sig : 2 <= k
    BY <1>1
  <1>3. f \in sig /\ \A k \in sig : f <= k
    <2> HIDE DEF sig
    <2>1. QED
      BY <1>2, FirstOfProperties
  <1>4. Trimmed(s) = SubSeq(s, f, Len(s))
    BY <1>2 DEF Trimmed
  <1>5. f = 2
    <2>1. f \in Nat /\ f <= 2 /\ 2 <= f
      BY <1>2, <1>3, Zenon
    <2> HIDE DEF f
    <2>2. QED
      BY <2>1
  <1>6. \A k \in 2..Len(s) : s[k] \in S
    <2>1. \A k \in 2..Len(s) : k \in 1..Len(s)
      BY <1>1
    <2>2. QED
      BY <2>1, ElementOfSeq
  <1>7. /\ t \in Seq(S)
        /\ Len(t) = IF 2 <= Len(s) THEN Len(s) - 2 + 1 ELSE 0
        /\ \A k \in 1..(Len(s) - 2 + 1) : t[k] = s[2 + k - 1]
    BY <1>1, <1>6, SubSeqProperties
  <1>8. Trimmed(s) = t
    BY <1>4, <1>5
  <1> HIDE DEF t
  <1>9. Len(s) - 2 + 1 = Len(s) - 1
    BY <1>1
  <1>10. \A k \in 1..(Len(s) - 1) : 2 + k - 1 = k + 1
    BY <1>1
  <1>11. QED
    BY <1>1, <1>7, <1>8, <1>9, <1>10

(* The bytes a negative number of this magnitude is stored as.             *)
Payload(mag) ==
    Complement(IF Trimmed(MinusOne(mag)) = <<>> THEN <<0>> ELSE Trimmed(MinusOne(mag)))

(* 1, then powers of 256, then everything else: only a power of 256 loses  *)
(* a byte to the borrow.                                                   *)
LEMMA PayloadOfOne == Payload(<<1>>) = <<255>> /\ SlotMagnitude(<<255>>) = <<1>>
  <1> DEFINE a == <<1>>
             c == <<255>>
             z == <<0>>
  <1>0. 0 \in Byte /\ 1 \in Byte /\ 255 \in Byte
    BY DEF Byte
  <1>1. /\ a \in Seq(Byte) /\ Len(a) = 1 /\ a[1] = 1 /\ a # <<>>
        /\ c \in Seq(Byte) /\ Len(c) = 1 /\ c[1] = 255
        /\ Complement(z) = c /\ Trimmed(z) = <<>>
    <2>1. Complement(z) = c
      BY DEF Complement
    <2>2. Trimmed(z) = <<>>
      BY TrimmedZeros
    <2>3. QED
      BY <1>0, <2>1, <2>2
  <1>2. z = [i \in 1..1 |-> 0] /\ a = [i \in 1..1 |-> 1]
    OBVIOUS
  <1> HIDE DEF a, c, z
  <1>3. IsLast(a, 1) /\ IsLast(c, 1)
    BY <1>1 DEF IsLast
  <1>4. MinusOne(a) = [i \in 1..Len(a) |-> IF i < 1 THEN a[i] ELSE IF i = 1 THEN a[i] - 1 ELSE 255]
    BY <1>1, <1>3, MinusOneAt
  <1>5. MinusOne(a) = z
    <2>1. \A i \in 1..1 : (IF i < 1 THEN a[i] ELSE IF i = 1 THEN a[i] - 1 ELSE 255) = 0
      BY <1>1
    <2>2. QED
      BY <1>1, <1>2, <1>4, <2>1
  <1>6. Payload(a) = c
    <2>1. (IF Trimmed(MinusOne(a)) = <<>> THEN <<0>> ELSE Trimmed(MinusOne(a))) = z
      BY <1>1, <1>5, Zenon DEF z
    <2>2. QED
      BY <1>1, <2>1 DEF Payload
  <1>7. Trimmed(c) # <<>>
    <2>1. 1 \in 1..Len(c) /\ c[1] # 0
      BY <1>1
    <2>2. QED
      BY <1>1, <2>1, TrimmedNonempty
  <1>8. Negated(c) = [i \in 1..Len(c) |-> IF i < 1 THEN 255 - c[i] ELSE IF i = 1 THEN 256 - c[i] ELSE 0]
    BY <1>1, <1>3, NegatedAt
  <1>9. Negated(c) = a
    <2>1. \A i \in 1..1 : (IF i < 1 THEN 255 - c[i] ELSE IF i = 1 THEN 256 - c[i] ELSE 0) = 1
      BY <1>1
    <2>2. QED
      BY <1>1, <1>2, <1>8, <2>1
  <1>10. Trimmed(a) = a
    <2>1. a # <<>> => a[1] # 0
      BY <1>1
    <2>2. QED
      BY <1>1, <2>1, TrimmedIdentity
  <1>11. SlotMagnitude(c) = a
    BY <1>7, <1>9, <1>10 DEF SlotMagnitude
  <1>12. QED
    BY <1>6, <1>11 DEF a, c

LEMMA PayloadOfPower ==
    ASSUME NEW mag \in Seq(Byte), Len(mag) >= 2, mag[1] = 1, \A i \in 2..Len(mag) : mag[i] = 0
    PROVE  /\ Payload(mag) \in Seq(Byte) /\ Len(Payload(mag)) = Len(mag) - 1
           /\ \A i \in 1..(Len(mag) - 1) : Payload(mag)[i] = 0
           /\ <<1>> \o Payload(mag) = mag
           /\ SlotMagnitude(Payload(mag)) = mag
  <1> DEFINE L == Len(mag)
             m == MinusOne(mag)
             low == Trimmed(m)
             p == Complement(low)
  <1>1. L \in Nat /\ L >= 2
    BY LenProperties
  <1>2. IsLast(mag, 1)
    <2>1. 1 \in 1..L
      BY <1>1
    <2>2. QED
      BY <2>1 DEF IsLast
  <1>3. m = [i \in 1..L |-> IF i < 1 THEN mag[i] ELSE IF i = 1 THEN mag[i] - 1 ELSE 255]
    BY <1>2, MinusOneAt
  <1>4. m \in Seq(Byte) /\ Len(m) = L
    <2>1. mag # <<>>
      BY <1>1, EmptySeq
    <2>2. QED
      BY <2>1, MinusOneBytes
  <1> HIDE DEF L, m
  <1>5. m[1] = 0 /\ \A i \in 2..L : m[i] = 255
    BY <1>1, <1>3
  <1>6. m[2] # 0 /\ Len(m) >= 2
    BY <1>1, <1>4, <1>5
  <1>7. low \in Seq(Byte) /\ Len(low) = L - 1 /\ \A k \in 1..(L - 1) : low[k] = m[k + 1]
    BY <1>4, <1>5, <1>6, TrimmedTail
  <1> HIDE DEF low
  <1>8. low # <<>>
    BY <1>1, <1>7
  <1>9. Payload(mag) = p
    BY <1>8, Zenon DEF Payload, low, m
  <1>10. p \in Seq(Byte) /\ Len(p) = L - 1
    BY <1>7, ComplementBytes
  <1>11. ASSUME NEW i \in 1..(L - 1)
         PROVE  p[i] = 0
    <2>1. i + 1 \in 2..L
      BY <1>1
    <2>2. low[i] = 255
      BY <1>5, <1>7, <2>1
    <2>3. DOMAIN low = 1..(L - 1)
      BY <1>7, LenProperties
    <2>4. p[i] = 255 - low[i]
      BY <2>3 DEF Complement
    <2>5. QED
      BY <2>2, <2>4
  <1> HIDE DEF p
  <1>12. <<1>> \o p = mag
    <2> DEFINE a == <<1>>
    <2>1. a \in Seq(Byte) /\ Len(a) = 1 /\ a[1] = 1
      BY DEF Byte
    <2> HIDE DEF a
    <2> DEFINE c == a \o p
    <2>2. /\ c \in Seq(Byte) /\ Len(c) = Len(a) + Len(p)
          /\ \A i \in 1..(Len(a) + Len(p)) : c[i] = IF i <= Len(a) THEN a[i] ELSE p[i - Len(a)]
      BY <1>10, <2>1, ConcatProperties
    <2> HIDE DEF c
    <2>3. c \in Seq(Byte) /\ Len(c) = L
      BY <1>1, <1>10, <2>1, <2>2
    <2>4. ASSUME NEW i \in 1..L
          PROVE  c[i] = mag[i]
      <3>1. c[i] = IF i <= 1 THEN a[i] ELSE p[i - 1]
        BY <1>1, <1>10, <2>1, <2>2
      <3>2. CASE i = 1
        BY <2>1, <3>1, <3>2
      <3>3. CASE i # 1
        <4>1. i - 1 \in 1..(L - 1) /\ ~(i <= 1) /\ i \in 2..L
          BY <1>1, <3>3
        <4>2. mag[i] = 0
          BY <4>1 DEF L
        <4>3. QED
          BY <1>11, <3>1, <4>1, <4>2
      <3>4. QED
        BY <3>2, <3>3
    <2>5. c = mag
      BY <2>3, <2>4, SeqEqual DEF L
    <2>6. QED
      BY <2>5 DEF a, c
  <1>13. SlotMagnitude(p) = mag
    <2>1. \A i \in DOMAIN p : p[i] = 0
      BY <1>10, <1>11, LenProperties
    <2>2. Trimmed(p) = <<>>
      BY <2>1, TrimmedZeros
    <2>3. QED
      BY <1>12, <2>2 DEF SlotMagnitude
  <1>14. QED
    BY <1>9, <1>10, <1>11, <1>12, <1>13 DEF L

LEMMA PayloadOfOthers ==
    ASSUME NEW mag \in Seq(Byte), NEW j, IsLast(mag, j), mag[1] # 0, j > 1 \/ mag[1] > 1
    PROVE  /\ Payload(mag) \in Seq(Byte) /\ Len(Payload(mag)) = Len(mag)
           /\ Payload(mag) = [i \in 1..Len(mag) |-> IF i < j THEN 255 - mag[i] ELSE IF i = j THEN 256 - mag[i] ELSE 0]
           /\ SlotMagnitude(Payload(mag)) = mag
  <1> DEFINE L == Len(mag)
             m == MinusOne(mag)
             p == Complement(m)
             n == Negated(p)
  <1>1. L \in Nat /\ j \in 1..L /\ mag[j] # 0 /\ \A k \in (j + 1)..L : mag[k] = 0
    BY LenProperties DEF IsLast
  <1>2. mag # <<>> /\ \A i \in 1..L : mag[i] \in 0..255
    BY <1>1, ElementOfSeq, EmptySeq DEF Byte
  <1>3. m \in Seq(Byte) /\ Len(m) = L
    BY <1>2, MinusOneBytes
  <1>4. m = [i \in 1..L |-> IF i < j THEN mag[i] ELSE IF i = j THEN mag[i] - 1 ELSE 255]
    BY MinusOneAt
  <1> HIDE DEF m
  <1>5. p \in Seq(Byte) /\ Len(p) = L
    BY <1>3, ComplementBytes
  <1>6. p = [i \in 1..L |-> 255 - m[i]]
    BY <1>3, LenProperties DEF Complement
  <1> HIDE DEF L, p
  <1>7. m[1] # 0
    BY <1>1, <1>2, <1>4
  <1>8. Trimmed(m) = m /\ m # <<>>
    <2>1. m # <<>>
      BY <1>1, <1>3
    <2>2. QED
      BY <1>3, <1>7, <2>1, TrimmedIdentity
  <1>9. Payload(mag) = p
    BY <1>8, Zenon DEF Payload, p, m
  <1>10. p = [i \in 1..L |-> IF i < j THEN 255 - mag[i] ELSE IF i = j THEN 256 - mag[i] ELSE 0]
    <2>1. ASSUME NEW i \in 1..L
          PROVE  255 - m[i] = IF i < j THEN 255 - mag[i] ELSE IF i = j THEN 256 - mag[i] ELSE 0
      <3>1. m[i] = IF i < j THEN mag[i] ELSE IF i = j THEN mag[i] - 1 ELSE 255
        BY <1>4
      <3>2. mag[i] \in 0..255
        BY <1>2
      <3>3. i \in Int /\ j \in Int
        BY <1>1
      <3> DEFINE a == mag[i]
                 x == m[i]
      <3> SUFFICES 255 - x = IF i < j THEN 255 - a ELSE IF i = j THEN 256 - a ELSE 0
        OBVIOUS
      <3>4. a \in Int
        <4>1. \A v \in 0..255 : v \in Int
          OBVIOUS
        <4>2. QED
          BY <3>2, <4>1, Zenon
      <3>5. x = IF i < j THEN a ELSE IF i = j THEN a - 1 ELSE 255
        BY <3>1, Zenon
      <3> HIDE DEF a, x
      <3>6. QED
        BY <3>3, <3>4, <3>5
    <2>2. QED
      BY <1>6, <2>1
  <1>11. p[j] # 0 /\ \A k \in (j + 1)..L : p[k] = 0
    <2>1. p[j] = 256 - mag[j] /\ mag[j] \in 0..255
      BY <1>1, <1>2, <1>10
    <2>2. ASSUME NEW k \in (j + 1)..L
          PROVE  p[k] = 0
      <3>1. k \in 1..L /\ ~(k < j) /\ k # j
        BY <1>1
      <3>2. QED
        BY <1>10, <3>1
    <2>3. \A x \in 0..255 : 256 - x # 0
      OBVIOUS
    <2>4. QED
      BY <2>1, <2>2, <2>3
  <1>12. IsLast(p, j)
    BY <1>1, <1>5, <1>11 DEF IsLast
  <1>13. n = [i \in 1..L |-> IF i < j THEN 255 - p[i] ELSE IF i = j THEN 256 - p[i] ELSE 0]
    BY <1>5, <1>12, NegatedAt
  <1>14. n \in Seq(Byte) /\ Len(n) = L
    BY <1>5, NegatedBytes
  <1> HIDE DEF n
  <1>15. ASSUME NEW i \in 1..L
         PROVE  n[i] = mag[i]
    <2>1. mag[i] \in 0..255
      BY <1>2
    <2>2. n[i] = IF i < j THEN 255 - p[i] ELSE IF i = j THEN 256 - p[i] ELSE 0
      BY <1>13
    <2>3. p[i] = IF i < j THEN 255 - mag[i] ELSE IF i = j THEN 256 - mag[i] ELSE 0
      BY <1>10
    <2>4. i > j => mag[i] = 0
      <3> SUFFICES ASSUME i > j PROVE mag[i] = 0
        OBVIOUS
      <3>1. i \in (j + 1)..L
        BY <1>1
      <3>2. QED
        BY <1>1, <3>1
    <2>5. j \in Int /\ i \in Int
      BY <1>1
    <2> DEFINE a == mag[i]
               x == p[i]
               y == n[i]
    <2> SUFFICES y = a
      OBVIOUS
    <2>6. a \in Int
      <3>1. \A v \in 0..255 : v \in Int
        OBVIOUS
      <3>2. QED
        BY <2>1, <3>1, Zenon
    <2>7. /\ (i > j => a = 0)
          /\ y = IF i < j THEN 255 - x ELSE IF i = j THEN 256 - x ELSE 0
          /\ x = IF i < j THEN 255 - a ELSE IF i = j THEN 256 - a ELSE 0
      BY <2>2, <2>3, <2>4, Zenon
    <2> HIDE DEF a, x, y
    <2>8. QED
      BY <2>5, <2>6, <2>7
  <1>16. n = mag
    BY <1>14, <1>15, SeqEqual DEF L
  <1>17. Trimmed(p) # <<>>
    BY <1>1, <1>5, <1>11, TrimmedNonempty
  <1>18. Trimmed(mag) = mag
    BY TrimmedIdentity
  <1>19. SlotMagnitude(p) = mag
    BY <1>16, <1>17, <1>18 DEF SlotMagnitude, n
  <1>20. QED
    BY <1>5, <1>9, <1>10, <1>19 DEF L

(* A negative number that a fixed slot can hold, as the slot stores it:    *)
(* minimal, and read back as the same magnitude.                           *)
LEMMA NegativeSlot ==
    ASSUME NEW mag \in Seq(Byte), mag # <<>>, mag[1] # 0
    PROVE  /\ Payload(mag) \in Seq(Byte)
           /\ Len(Payload(mag)) \in 1..Len(mag)
           /\ Payload(mag)[1] # 255 \/ Len(Payload(mag)) = 1
           /\ SlotMagnitude(Payload(mag)) = mag
           /\ FitsSigned(TRUE, mag, FixedWidth) =>
                Len(Payload(mag)) <= FixedWidth
                  /\ (Len(Payload(mag)) = FixedWidth => Payload(mag)[1] >= 128)
  <1> DEFINE L == Len(mag)
             F == FixedWidth
             p == Payload(mag)
  <1>1. L \in Nat \ {0} /\ F \in Nat /\ F >= 2
    BY EmptySeq, WidthAssumption
  <1>2. \A i \in 1..L : mag[i] \in 0..255
    BY ElementOfSeq DEF Byte
  <1>3. 1 \in 1..L
    BY <1>1
  <1>4. PICK j \in 1..L : IsLast(mag, j)
    BY <1>3, LastExists
  <1>5. mag[1] \in 1..255
    <2>1. \A v \in 0..255 : v # 0 => v \in 1..255
      OBVIOUS
    <2>2. QED
      BY <1>2, <1>3, <2>1, Zenon
  <1>6. \A k \in (j + 1)..L : mag[k] = 0
    BY <1>4 DEF IsLast
  <1>7. FitsSigned(TRUE, mag, F) => L < F \/ (L = F /\ (mag[1] < 128 \/ (mag[1] = 128 /\ \A i \in 2..F : mag[i] = 0)))
    BY DEF FitsSigned
  <1> SUFFICES /\ p \in Seq(Byte)
               /\ Len(p) \in 1..L
               /\ p[1] # 255 \/ Len(p) = 1
               /\ SlotMagnitude(p) = mag
               /\ FitsSigned(TRUE, mag, F) => Len(p) <= F /\ (Len(p) = F => p[1] >= 128)
    OBVIOUS
  <1>8. CASE L = 1 /\ mag[1] = 1
    <2>1. mag = <<1>>
      <3>1. mag = [i \in 1..1 |-> mag[i]]
        BY <1>8, LenProperties
      <3>2. QED
        BY <1>8, <3>1
    <2>2. p = <<255>> /\ SlotMagnitude(p) = mag
      BY <2>1, PayloadOfOne
    <2>3. <<255>> \in Seq(Byte) /\ Len(<<255>>) = 1
      BY DEF Byte
    <2>4. p \in Seq(Byte) /\ Len(p) = 1
      BY <2>2, <2>3
    <2> HIDE DEF p, F, L
    <2>5. Len(p) \in 1..L /\ Len(p) <= F /\ Len(p) # F
      BY <1>1, <1>8, <2>4
    <2>6. QED
      BY <2>2, <2>4, <2>5, Zenon
  <1>9. CASE L >= 2 /\ mag[1] = 1 /\ j = 1
    <2>1. \A i \in 2..L : mag[i] = 0
      BY <1>6, <1>9
    <2>2. /\ p \in Seq(Byte) /\ Len(p) = L - 1
          /\ \A i \in 1..(L - 1) : p[i] = 0
          /\ SlotMagnitude(p) = mag
      BY <1>9, <2>1, PayloadOfPower
    <2> HIDE DEF p, F, L
    <2>3. p[1] = 0
      <3>1. 1 \in 1..(L - 1)
        BY <1>1, <1>9
      <3>2. QED
        BY <2>2, <3>1
    <2>4. FitsSigned(TRUE, mag, F) => Len(p) <= F /\ Len(p) # F
      BY <1>1, <1>7, <2>2
    <2>5. Len(p) \in 1..L /\ p[1] # 255
      BY <1>1, <1>9, <2>2, <2>3
    <2>6. QED
      BY <2>2, <2>4, <2>5, Zenon
  <1>10. CASE j > 1 \/ mag[1] > 1
    <2>1. /\ p \in Seq(Byte) /\ Len(p) = L
          /\ p = [i \in 1..L |-> IF i < j THEN 255 - mag[i] ELSE IF i = j THEN 256 - mag[i] ELSE 0]
          /\ SlotMagnitude(p) = mag
      BY <1>4, <1>10, PayloadOfOthers
    <2> DEFINE a == mag[1]
               x == p[1]
    <2>2. x = IF 1 < j THEN 255 - a ELSE 256 - a
      <3>1. x = IF 1 < j THEN 255 - mag[1] ELSE IF 1 = j THEN 256 - mag[1] ELSE 0
        BY <1>3, <2>1, Zenon
      <3>2. 1 < j \/ 1 = j
        BY <1>4
      <3>3. QED
        BY <3>1, <3>2, Zenon
    <2>3. FitsSigned(TRUE, mag, F) => L < F \/ (L = F /\ (a < 128 \/ (a = 128 /\ j = 1)))
      <3> SUFFICES ASSUME L = F, a = 128, \A i \in 2..F : mag[i] = 0
                   PROVE  j = 1
        BY <1>7
      <3>1. mag[j] # 0
        BY <1>4 DEF IsLast
      <3>2. j # 1 => j \in 2..F
        BY <1>1, <1>4
      <3>3. QED
        BY <3>1, <3>2
    <2>4. a \in 1..255 /\ (1 < j \/ a > 1) /\ j \in Nat
      BY <1>5, <1>10, <1>4
    <2> SUFFICES x # 255 /\ (FitsSigned(TRUE, mag, F) => L <= F /\ (L = F => x >= 128))
      <3>1. L \in 1..L
        BY <1>1
      <3>2. QED
        BY <2>1, <3>1
    <2> HIDE DEF a, x, F, L, p
    <2>5. x # 255
      BY <2>2, <2>4
    <2>6. L = F /\ (a < 128 \/ (a = 128 /\ j = 1)) => x >= 128
      BY <2>2, <2>4
    <2>7. L < F => L <= F /\ L # F
      BY <1>1
    <2>8. L = F => L <= F
      BY <1>1
    <2>9. QED
      BY <2>3, <2>5, <2>6, <2>7, <2>8, Zenon
  <1>11. QED
    <2>1. L = 1 \/ L >= 2
      <3> HIDE DEF L
      <3>1. QED
        BY <1>1
    <2>2. mag[1] = 1 \/ mag[1] > 1
      <3>1. \A v \in 1..255 : v = 1 \/ v > 1
        OBVIOUS
      <3>2. QED
        BY <1>5, <3>1, Zenon
    <2>3. j = 1 \/ j > 1
      BY <1>4
    <2>4. QED
      BY <1>8, <1>9, <1>10, <2>1, <2>2, <2>3

(* The other way round: the magnitude of a minimal slot is stored as that  *)
(* slot.                                                                   *)
LEMMA SlotOfNegative ==
    ASSUME NEW p \in Seq(Byte), p # <<>>, p[1] # 255 \/ Len(p) = 1
    PROVE  /\ SlotMagnitude(p) \in Seq(Byte)
           /\ SlotMagnitude(p) # <<>>
           /\ SlotMagnitude(p)[1] # 0
           /\ Payload(SlotMagnitude(p)) = p
           /\ Len(p) < FixedWidth \/ (Len(p) = FixedWidth /\ p[1] >= 128)
                => FitsSigned(TRUE, SlotMagnitude(p), FixedWidth)
  <1> DEFINE L == Len(p)
             F == FixedWidth
             m == SlotMagnitude(p)
  <1>1. L \in Nat \ {0} /\ F \in Nat /\ F >= 2
    BY EmptySeq, WidthAssumption
  <1>2. DOMAIN p = 1..L /\ \A i \in 1..L : p[i] \in 0..255
    BY ElementOfSeq, LenProperties DEF Byte
  <1>3. CASE \A i \in 1..L : p[i] = 0
    <2>1. Trimmed(p) = <<>>
      BY <1>2, <1>3, TrimmedZeros
    <2> DEFINE a == <<1>>
    <2>2. a \in Seq(Byte) /\ Len(a) = 1 /\ a[1] = 1
      BY DEF Byte
    <2>3. m = a \o p
      BY <2>1 DEF SlotMagnitude
    <2> HIDE DEF a
    <2> DEFINE c == a \o p
    <2>3a. /\ c \in Seq(Byte) /\ Len(c) = Len(a) + Len(p)
           /\ \A i \in 1..(Len(a) + Len(p)) : c[i] = IF i <= Len(a) THEN a[i] ELSE p[i - Len(a)]
      BY <2>2, ConcatProperties
    <2> HIDE DEF m
    <2>3b. m = c
      BY <2>3
    <2> HIDE DEF c
    <2>4. /\ m \in Seq(Byte) /\ Len(m) = Len(a) + Len(p)
          /\ \A i \in 1..(Len(a) + Len(p)) : m[i] = IF i <= Len(a) THEN a[i] ELSE p[i - Len(a)]
      BY <2>3a, <2>3b
    <2>5. /\ Len(m) = L + 1
          /\ \A i \in 1..(L + 1) : m[i] = IF i <= 1 THEN a[i] ELSE p[i - 1]
      <3>1. Len(a) + Len(p) = L + 1
        BY <1>1, <2>2
      <3>2. QED
        BY <2>2, <2>4, <3>1
    <2> HIDE DEF L
    <2>6. m[1] = 1 /\ \A i \in 2..(L + 1) : m[i] = 0
      <3>1. 1 \in 1..(L + 1) /\ 1 <= 1
        BY <1>1
      <3>2. m[1] = a[1]
        BY <2>5, <3>1
      <3>3. ASSUME NEW i \in 2..(L + 1)
            PROVE  m[i] = 0
        <4>1. i \in 1..(L + 1) /\ ~(i <= 1) /\ i - 1 \in 1..L
          BY <1>1
        <4>2. QED
          BY <1>3, <2>5, <4>1
      <3>4. QED
        BY <2>2, <3>2, <3>3
    <2>7. Len(m) >= 2 /\ \A i \in 2..Len(m) : m[i] = 0
      BY <1>1, <2>5, <2>6
    <2>8. /\ Payload(m) \in Seq(Byte) /\ Len(Payload(m)) = Len(m) - 1
          /\ \A i \in 1..(Len(m) - 1) : Payload(m)[i] = 0
      BY <2>4, <2>6, <2>7, PayloadOfPower
    <2>9. Payload(m) = p
      <3> DEFINE x == Payload(m)
      <3>1. x \in Seq(Byte) /\ Len(x) = Len(p)
        BY <1>1, <2>5, <2>8 DEF L
      <3>2. \A i \in 1..Len(x) : x[i] = p[i]
        BY <1>1, <1>3, <2>5, <2>8, <3>1 DEF L
      <3> HIDE DEF x
      <3>3. x = p
        BY <3>1, <3>2, SeqEqual
      <3>4. QED
        BY <3>3 DEF x
    <2>10. ASSUME L < F \/ (L = F /\ p[1] >= 128)
           PROVE  FitsSigned(TRUE, m, F)
      <3>1. p[1] = 0
        BY <1>1, <1>3
      <3>2. L < F
        BY <2>10, <3>1
      <3>3. Len(m) < F \/ (Len(m) = F /\ m[1] < 128)
        BY <1>1, <2>5, <2>6, <3>2
      <3>4. QED
        BY <3>3 DEF FitsSigned
    <2>11. m # <<>>
      BY <2>7
    <2>12. QED
      <3>1. m[1] # 0
        BY <2>6
      <3>2. QED
        BY <2>4, <2>9, <2>10, <2>11, <3>1, Zenon DEF m, L
  <1>4. CASE ~\A i \in 1..L : p[i] = 0
    <2>1. PICK i \in 1..L : p[i] # 0
      BY <1>4
    <2>2. PICK j \in 1..L : IsLast(p, j)
      BY <2>1, LastExists
    <2>3. Trimmed(p) # <<>>
      BY <2>1, TrimmedNonempty
    <2> DEFINE n == Negated(p)
    <2>4. n = [k \in 1..L |-> IF k < j THEN 255 - p[k] ELSE IF k = j THEN 256 - p[k] ELSE 0]
      BY <2>2, NegatedAt
    <2>5. n \in Seq(Byte) /\ Len(n) = L
      BY NegatedBytes
    <2>6. m = Trimmed(n)
      BY <2>3 DEF SlotMagnitude
    <2>7. p[j] # 0 /\ \A k \in (j + 1)..L : p[k] = 0
      BY <2>2 DEF IsLast
    <2> HIDE DEF n
    <2>8. p[j] \in 1..255 /\ p[1] \in 0..255 /\ (j = 1 => p[1] \in 1..255)
      <3>1. \A v \in 0..255 : v # 0 => v \in 1..255
        OBVIOUS
      <3>2. 1 \in 1..L
        BY <1>1
      <3>3. p[j] \in 0..255 /\ p[1] \in 0..255
        BY <1>2, <3>2
      <3>4. p[j] \in 1..255
        BY <2>7, <3>1, <3>3, Zenon
      <3>5. j = 1 => p[1] \in 1..255
        BY <3>4, Zenon
      <3>6. QED
        BY <3>3, <3>4, <3>5
    <2> DEFINE x == p[1]
               y == n[1]
    <2>9. y = IF 1 < j THEN 255 - x ELSE 256 - x
      <3>1. 1 \in 1..L /\ (1 < j \/ 1 = j)
        BY <1>1
      <3>2. y = IF 1 < j THEN 255 - x ELSE IF 1 = j THEN 256 - x ELSE 0
        BY <2>4, <3>1, Zenon
      <3>3. QED
        BY <3>1, <3>2, Zenon
    <2>10. j \in Nat /\ j >= 1 /\ j <= L
      BY <1>1
    <2>11. x \in 0..255 /\ (j = 1 => x \in 1..255) /\ (x # 255 \/ L = 1)
      BY <2>8, Zenon
    <2>12. y # 0
      <3> HIDE DEF x, y, L
      <3>1. QED
        BY <2>9, <2>10, <2>11
    <2>13. n # <<>> /\ Trimmed(n) = n
      BY <1>1, <2>5, <2>12, TrimmedIdentity
    <2>14. m = n
      BY <2>6, <2>13
    <2>15. n[j] # 0 /\ \A k \in (j + 1)..L : n[k] = 0
      <3>1. n[j] = 256 - p[j]
        BY <2>4
      <3>2. \A v \in 1..255 : 256 - v # 0
        OBVIOUS
      <3>3. n[j] # 0
        BY <2>8, <3>1, <3>2
      <3>4. ASSUME NEW k \in (j + 1)..L
            PROVE  n[k] = 0
        <4>1. k \in 1..L /\ ~(k < j) /\ k # j
          BY <2>10
        <4>2. QED
          BY <2>4, <4>1
      <3>5. QED
        BY <3>3, <3>4
    <2>16. IsLast(n, j)
      BY <2>5, <2>15 DEF IsLast
    <2>17. Payload(n) = p
      <3>1. CASE j > 1 \/ y > 1
        <4>1. Payload(n) = [k \in 1..L |-> IF k < j THEN 255 - n[k] ELSE IF k = j THEN 256 - n[k] ELSE 0]
          BY <2>5, <2>12, <2>16, <3>1, PayloadOfOthers
        <4>2. ASSUME NEW k \in 1..L
              PROVE  (IF k < j THEN 255 - n[k] ELSE IF k = j THEN 256 - n[k] ELSE 0) = p[k]
          <5>1. k > j => p[k] = 0
            <6> SUFFICES ASSUME k > j PROVE p[k] = 0
              OBVIOUS
            <6>1. k \in (j + 1)..L
              BY <2>10
            <6>2. QED
              BY <2>7, <6>1
          <5> DEFINE a == p[k]
                     c == n[k]
          <5>2. a \in Int
            <6>1. \A v \in 0..255 : v \in Int
              OBVIOUS
            <6>2. QED
              BY <1>2, <6>1, Zenon
          <5>3. c = IF k < j THEN 255 - a ELSE IF k = j THEN 256 - a ELSE 0
            BY <2>4, Zenon
          <5> SUFFICES (IF k < j THEN 255 - c ELSE IF k = j THEN 256 - c ELSE 0) = a
            OBVIOUS
          <5>4. k \in Int /\ (k > j => a = 0)
            BY <1>1, <5>1
          <5> HIDE DEF a, c, L
          <5>5. QED
            BY <2>10, <5>2, <5>3, <5>4
        <4>3. Payload(n) = [k \in 1..L |-> p[k]]
          BY <4>1, <4>2
        <4>4. p = [k \in 1..L |-> p[k]]
          BY LenProperties
        <4>5. QED
          BY <4>3, <4>4
      <3>2. CASE ~(j > 1 \/ y > 1)
        <4>1. j = 1 /\ x = 255 /\ L = 1 /\ y = 1
          <5> HIDE DEF x, y, L
          <5>1. QED
            BY <2>9, <2>10, <2>11, <2>12, <3>2
        <4>2. p = [k \in 1..1 |-> p[k]] /\ n = [k \in 1..1 |-> n[k]]
          BY <2>5, <4>1, LenProperties
        <4>3. p = <<255>> /\ n = <<1>>
          BY <4>1, <4>2
        <4>4. QED
          BY <4>3, PayloadOfOne
      <3>3. QED
        BY <3>1, <3>2
    <2>18. ASSUME L < F \/ (L = F /\ x >= 128)
           PROVE  FitsSigned(TRUE, n, F)
      <3>1. CASE L < F
        BY <2>5, <3>1 DEF FitsSigned
      <3>2. CASE L = F /\ x >= 128
        <4>1. y < 128 \/ (y = 128 /\ j = 1)
          <5> HIDE DEF x, y, L
          <5>1. QED
            BY <2>9, <2>10, <2>11, <3>2
        <4>2. j = 1 => \A k \in 2..F : n[k] = 0
          BY <2>15, <3>2
        <4>3. QED
          BY <2>5, <3>2, <4>1, <4>2 DEF FitsSigned
      <3>3. QED
        BY <2>18, <3>1, <3>2
    <2> HIDE DEF F, L, m
    <2>19. QED
      BY <2>5, <2>12, <2>13, <2>14, <2>17, <2>18 DEF m, F, L
  <1>5. QED
    BY <1>3, <1>4

-----------------------------------------------------------------------------
(* The first byte of an encoding is its type code.                         *)
LEMMA NextCode ==
    ASSUME NEW b \in Seq(Byte), NEW p \in 0..Len(b), NEW t \in Byte, NEW s \in Seq(Byte),
           At(b, p, <<t>> \o s)
    PROVE  /\ p + 1 \in 0..Len(b)
           /\ b[p + 1] = t
           /\ Next(b, p) = DecodeElement(b, t, p + 1)
           /\ At(b, p + 1, s)
           /\ CanTake(b, p + 1, Len(s)) /\ Bytes(b, p + 1, Len(s)) = s
           /\ p + Len(<<t>> \o s) = (p + 1) + Len(s)
  <1> DEFINE a == <<t>>
  <1>1. a \in Seq(Byte) /\ Len(a) = 1 /\ a[1] = t
    OBVIOUS
  <1>2. At(b, p, a \o s)
    OBVIOUS
  <1> HIDE DEF a
  <1>3. /\ At(b, p, a) /\ p + Len(a) \in 0..Len(b) /\ At(b, p + Len(a), s)
        /\ p + Len(a \o s) = (p + Len(a)) + Len(s)
    BY <1>1, <1>2, AtConcat
  <1>4. /\ p + 1 \in 0..Len(b) /\ At(b, p + 1, s) /\ p + Len(a \o s) = (p + 1) + Len(s)
    BY <1>1, <1>3
  <1>5. b[p + 1] = t
    BY <1>1, <1>3 DEF At
  <1>6. Next(b, p) = DecodeElement(b, t, p + 1)
    <2>1. ~(p >= Len(b))
      BY <1>4, LenProperties
    <2>2. QED
      BY <1>5, <2>1 DEF Next
  <1>7. CanTake(b, p + 1, Len(s)) /\ Bytes(b, p + 1, Len(s)) = s
    BY <1>4, AtBytes
  <1>8. QED
    BY <1>4, <1>5, <1>6, <1>7 DEF a

(* In every slot but one kind, the magnitude read is the slot's: the wider *)
(* slots lose the carry out of an all-zero payload.                        *)
LEMMA ExcessIsSlot ==
    ASSUME NEW p \in Seq(Byte), Len(p) <= NativeWidth \/ Trimmed(p) # <<>>
    PROVE  ExcessMagnitude(p) = SlotMagnitude(p)
  <1>1. Len(p) \in Nat /\ DOMAIN p = 1..Len(p) /\ \A i \in 1..Len(p) : p[i] \in 0..255
    BY LenProperties, ElementOfSeq DEF Byte
  <1>2. CASE Trimmed(p) = <<>>
    <2>1. \A i \in 1..Len(p) : p[i] = 0
      BY <1>2, TrimmedNonempty
    <2>2. \A i \in DOMAIN Negated(p) : Negated(p)[i] = 0
      <3>1. (256 - 0) % 256 = 0
        OBVIOUS
      <3>2. ASSUME NEW i \in DOMAIN p
            PROVE  (IF \A k \in (i + 1)..Len(p) : p[k] = 0 THEN (256 - p[i]) % 256 ELSE 255 - p[i]) = 0
        <4>1. \A k \in (i + 1)..Len(p) : k \in 1..Len(p)
          BY <1>1
        <4>2. p[i] = 0 /\ \A k \in (i + 1)..Len(p) : p[k] = 0
          BY <1>1, <2>1, <4>1
        <4>3. QED
          BY <3>1, <4>2, Zenon
      <3>3. QED
        BY <3>2 DEF Negated
    <2>3. Trimmed(Negated(p)) = <<>>
      BY <2>2, TrimmedZeros
    <2>4. QED
      BY <1>2, <2>3 DEF ExcessMagnitude, SlotMagnitude
  <1>3. CASE Trimmed(p) # <<>>
    <2>1. PICK i \in 1..Len(p) : p[i] # 0
      BY <1>1, <1>3, TrimmedZeros
    <2>2. PICK j \in 1..Len(p) : IsLast(p, j)
      BY <2>1, LastExists
    <2>3. Negated(p) = [k \in 1..Len(p) |-> IF k < j THEN 255 - p[k] ELSE IF k = j THEN 256 - p[k] ELSE 0]
      BY <2>2, NegatedAt
    <2>4. Negated(p)[j] = 256 - p[j] /\ p[j] \in 0..255
      BY <1>1, <2>2, <2>3
    <2>5. \A v \in 0..255 : 256 - v # 0
      OBVIOUS
    <2>6. Negated(p)[j] # 0
      BY <2>4, <2>5
    <2>7. Negated(p) \in Seq(Byte) /\ Len(Negated(p)) = Len(p)
      BY NegatedBytes
    <2>8. Trimmed(Negated(p)) # <<>>
      BY <2>6, <2>7, TrimmedNonempty
    <2>9. QED
      BY <1>3, <2>8 DEF ExcessMagnitude, SlotMagnitude
  <1>4. QED
    BY <1>2, <1>3

LEMMA EncIntTrimmed ==
    ASSUME NEW negative, NEW m, Trimmed(Trimmed(m)) = Trimmed(m)
    PROVE  EncInt(negative, Trimmed(m)) = EncInt(negative, m)
  BY DEF EncInt

(* The element of a slot carries the sign and the magnitude of the slot.   *)
IntRead(r, pos, negative, mag) ==
    /\ r.rc = 1 /\ r.pos = pos
    /\ r.el.kind \in {"int", "bigint"} /\ r.el.neg = negative /\ r.el.mag = mag

LEMMA IntElementRead ==
    ASSUME NEW pos, NEW n, NEW negative, NEW mag
    PROVE  IntRead(Decoded(pos, IntElement(n, negative, mag)), pos, negative, mag)
  BY DEF IntRead, Decoded, IntElement

LEMMA SlotCode ==
    ASSUME NEW n \in 1..FixedWidth
    PROVE  /\ INT_ZERO + n \in FixedPos /\ INT_ZERO + n \in Byte /\ SlotWidth(INT_ZERO + n) = n
           /\ INT_ZERO - n \in FixedNeg /\ INT_ZERO - n \in Byte /\ SlotWidth(INT_ZERO - n) = n
           /\ INT_ZERO + n > INT_ZERO /\ ~(INT_ZERO - n > INT_ZERO)
  <1>1. FixedWidth \in Nat /\ FixedWidth <= 16
    BY WidthAssumption
  <1>2. n \in 1..16
    BY <1>1
  <1>3. QED
    BY <1>1, <1>2 DEF FixedPos, FixedNeg, Byte, SlotWidth, INT_ZERO

LEMMA PositiveSlotRead ==
    ASSUME NEW b \in Seq(Byte), NEW p \in 0..Len(b), NEW mag \in Seq(Byte), mag # <<>>, mag[1] # 0,
           FitsSigned(FALSE, mag, FixedWidth), At(b, p, <<INT_ZERO + Len(mag)>> \o mag)
    PROVE  IntRead(Next(b, p), p + Len(<<INT_ZERO + Len(mag)>> \o mag), FALSE, mag)
  <1> DEFINE n == Len(mag)
             t == INT_ZERO + n
             s == <<t>> \o mag
             q == p + 1
  <1>0. n \in Nat \ {0} /\ FixedWidth \in Nat
    BY EmptySeq, WidthAssumption
  <1>1. n < FixedWidth \/ (n = FixedWidth /\ mag[1] < 128)
    BY DEF FitsSigned
  <1>2. n \in 1..FixedWidth
    <2> HIDE DEF n
    <2>1. QED
      BY <1>0, <1>1
  <1>3. t \in FixedPos /\ t \in Byte /\ SlotWidth(t) = n /\ t > INT_ZERO
    BY <1>2, SlotCode
  <1> HIDE DEF t
  <1>4. At(b, p, s)
    BY DEF t
  <1>5. /\ q \in 0..Len(b) /\ Next(b, p) = DecodeElement(b, t, q)
        /\ CanTake(b, q, n) /\ Bytes(b, q, n) = mag /\ p + Len(s) = q + n
    BY <1>3, <1>4, NextCode
  <1>6. DecodeElement(b, t, q) = ReadFixedInt(b, t, q)
    BY <1>3, FixedDispatch
  <1>7. ~NonMinimalSlot(TRUE, mag)
    <2> DEFINE x == mag[1]
    <2>1. n = FixedWidth => ~(x >= 128)
      <3>1. x \in Int
        <4>1. 1 \in 1..n
          BY <1>2
        <4>2. x \in Byte
          BY <4>1, ElementOfSeq
        <4>3. \A v \in Byte : v \in Int
          BY DEF Byte
        <4>4. QED
          BY <4>2, <4>3, Zenon
      <3> HIDE DEF x
      <3>2. QED
        BY <1>0, <1>1, <3>1 DEF x
    <2>2. QED
      BY <2>1 DEF NonMinimalSlot
  <1> HIDE DEF n, s, q
  <1>8. ReadFixedInt(b, t, q) = Decoded(q + n, IntElement(n, FALSE, mag))
    <2>1. (t > INT_ZERO) = TRUE
      BY <1>3
    <2>2. QED
      BY <1>3, <1>5, <1>7, <2>1, Zenon DEF ReadFixedInt
  <1>9. IntRead(Next(b, p), p + Len(s), FALSE, mag)
    BY <1>5, <1>6, <1>8, IntElementRead
  <1>10. QED
    BY <1>9 DEF s, t, n

LEMMA NegativeSlotRead ==
    ASSUME NEW b \in Seq(Byte), NEW p \in 0..Len(b), NEW mag \in Seq(Byte), mag # <<>>, mag[1] # 0,
           FitsSigned(TRUE, mag, FixedWidth), ~Lost(mag),
           At(b, p, <<INT_ZERO - Len(Payload(mag))>> \o Payload(mag))
    PROVE  IntRead(Next(b, p), p + Len(<<INT_ZERO - Len(Payload(mag))>> \o Payload(mag)), TRUE, mag)
  <1> DEFINE w == Payload(mag)
             n == Len(w)
             t == INT_ZERO - n
             s == <<t>> \o w
             q == p + 1
  <1>1. /\ w \in Seq(Byte) /\ n \in 1..Len(mag) /\ (w[1] # 255 \/ n = 1) /\ SlotMagnitude(w) = mag
        /\ n <= FixedWidth /\ (n = FixedWidth => w[1] >= 128)
    BY NegativeSlot
  <1>2. FixedWidth \in Nat /\ FixedWidth >= NativeWidth + 1 /\ NativeWidth \in Nat /\ Len(mag) \in Nat
    BY WidthAssumption, LenProperties
  <1>3. n \in 1..FixedWidth
    <2> HIDE DEF n
    <2>1. QED
      BY <1>1, <1>2
  <1>4. t \in FixedNeg /\ t \in Byte /\ SlotWidth(t) = n /\ ~(t > INT_ZERO)
    BY <1>3, SlotCode
  <1> HIDE DEF t
  <1>5. At(b, p, s)
    BY DEF t
  <1>6. n <= NativeWidth \/ Trimmed(w) # <<>>
    <2> SUFFICES ASSUME ~(n <= NativeWidth), Trimmed(w) = <<>>
                 PROVE  FALSE
      OBVIOUS
    <2>1. mag = <<1>> \o w
      BY <1>1 DEF SlotMagnitude
    <2> DEFINE a == <<1>>
               c == a \o w
    <2>2. a \in Seq(Byte) /\ Len(a) = 1 /\ a[1] = 1
      BY DEF Byte
    <2> HIDE DEF a, w
    <2>3. /\ Len(c) = Len(a) + Len(w)
          /\ \A i \in 1..(Len(a) + Len(w)) : c[i] = IF i <= Len(a) THEN a[i] ELSE w[i - Len(a)]
      BY <1>1, <2>2, ConcatProperties
    <2>4. mag = c
      BY <2>1 DEF a
    <2> HIDE DEF c
    <2>5. /\ Len(mag) = n + 1
          /\ \A i \in 1..(n + 1) : mag[i] = IF i <= 1 THEN a[i] ELSE w[i - 1]
      <3>1. Len(a) + Len(w) = n + 1
        BY <1>1, <1>2, <2>2
      <3>2. QED
        BY <2>2, <2>3, <2>4, <3>1
    <2> HIDE DEF n
    <2>6. \A i \in 1..n : w[i] = 0
      BY <1>1, TrimmedNonempty DEF n
    <2>7. mag[1] = 1
      BY <1>1, <1>2, <2>2, <2>5
    <2>8. ASSUME NEW i \in 2..Len(mag)
          PROVE  mag[i] = 0
      <3>1. i \in 1..(n + 1) /\ ~(i <= 1) /\ i - 1 \in 1..n
        BY <1>1, <1>2, <2>5
      <3>2. QED
        BY <2>5, <2>6, <3>1
    <2>9. Len(mag) <= FixedWidth
      <3>1. Len(mag) < FixedWidth \/ Len(mag) = FixedWidth
        BY Zenon DEF FitsSigned
      <3>2. QED
        BY <1>2, <3>1
    <2>10. Len(mag) \in (NativeWidth + 2)..FixedWidth
      BY <1>1, <1>2, <2>5, <2>9
    <2>11. QED
      BY <2>7, <2>8, <2>10 DEF Lost
  <1>7. ExcessMagnitude(w) = mag
    BY <1>1, <1>6, ExcessIsSlot
  <1> HIDE DEF w
  <1>8. /\ q \in 0..Len(b) /\ Next(b, p) = DecodeElement(b, t, q)
        /\ CanTake(b, q, n) /\ Bytes(b, q, n) = w /\ p + Len(s) = q + n
    BY <1>1, <1>4, <1>5, NextCode
  <1>9. DecodeElement(b, t, q) = ReadFixedInt(b, t, q)
    BY <1>4, FixedDispatch
  <1>10. ~NonMinimalSlot(FALSE, w)
    <2>1. ~(w[1] = 255 /\ Len(w) > 1)
      <3>1. ~(1 > 1)
        OBVIOUS
      <3>2. QED
        BY <1>1, <3>1, Zenon DEF n
    <2>2. QED
      BY <1>1, <2>1 DEF NonMinimalSlot
  <1> HIDE DEF n, s, q
  <1>11. ReadFixedInt(b, t, q) = Decoded(q + n, IntElement(n, TRUE, mag))
    <2>1. (t > INT_ZERO) = FALSE
      BY <1>4
    <2>2. QED
      BY <1>4, <1>7, <1>8, <1>10, <2>1, Zenon DEF ReadFixedInt
  <1>12. IntRead(Next(b, p), p + Len(s), TRUE, mag)
    BY <1>8, <1>9, <1>11, IntElementRead
  <1>13. QED
    BY <1>12 DEF s, t, n, w

-----------------------------------------------------------------------------
LEMMA ComplementTwice ==
    ASSUME NEW s \in Seq(Byte)
    PROVE  Complement(Complement(s)) = s
  <1>1. DOMAIN s = 1..Len(s) /\ \A i \in 1..Len(s) : s[i] \in 0..255
    BY LenProperties, ElementOfSeq DEF Byte
  <1>2. \A v \in 0..255 : 255 - (255 - v) = v
    OBVIOUS
  <1>3. Complement(Complement(s)) = [i \in DOMAIN s |-> 255 - (255 - s[i])]
    BY DEF Complement
  <1>4. ASSUME NEW i \in DOMAIN s
        PROVE  255 - (255 - s[i]) = s[i]
    <2>1. s[i] \in 0..255
      BY <1>1
    <2>2. QED
      BY <1>2, <2>1, Zenon
  <1>5. s = [i \in DOMAIN s |-> s[i]]
    BY LenProperties
  <1>6. QED
    BY <1>3, <1>4, <1>5

LEMMA SignedTwice ==
    ASSUME NEW s \in Seq(Byte), NEW negative
    PROVE  Signed(negative, Signed(negative, s)) = s
  BY ComplementTwice DEF Signed

LEMMA SignedConcat ==
    ASSUME NEW s \in Seq(Byte), NEW t \in Seq(Byte), NEW negative
    PROVE  Signed(negative, s \o t) = Signed(negative, s) \o Signed(negative, t)
  <1> DEFINE m == Len(s)
             n == Len(t)
             c == s \o t
             x == Complement(s)
             y == Complement(t)
             u == x \o y
             v == Complement(c)
  <1>1. m \in Nat /\ n \in Nat
    BY LenProperties
  <1>2. /\ c \in Seq(Byte) /\ Len(c) = m + n
        /\ \A i \in 1..(m + n) : c[i] = IF i <= m THEN s[i] ELSE t[i - m]
    BY ConcatProperties
  <1>3. x \in Seq(Byte) /\ y \in Seq(Byte) /\ Len(x) = m /\ Len(y) = n
    BY ComplementBytes
  <1>4. /\ u \in Seq(Byte) /\ Len(u) = Len(x) + Len(y)
        /\ \A i \in 1..(Len(x) + Len(y)) : u[i] = IF i <= Len(x) THEN x[i] ELSE y[i - Len(x)]
    BY <1>3, ConcatProperties
  <1>5. v \in Seq(Byte) /\ Len(v) = m + n
    BY <1>2, ComplementBytes
  <1>6. /\ \A i \in 1..m : x[i] = 255 - s[i]
        /\ \A i \in 1..n : y[i] = 255 - t[i]
    BY LenProperties DEF Complement
  <1>7. \A i \in 1..(m + n) : v[i] = 255 - c[i]
    BY <1>2, LenProperties DEF Complement
  <1> HIDE DEF m, n, c, x, y, u, v
  <1>8. ASSUME NEW i \in 1..(m + n)
        PROVE  v[i] = u[i]
    <2>1. v[i] = 255 - (IF i <= m THEN s[i] ELSE t[i - m])
      BY <1>2, <1>7
    <2>2. u[i] = IF i <= m THEN x[i] ELSE y[i - m]
      BY <1>3, <1>4
    <2>3. CASE i <= m
      <3>1. i \in 1..m
        BY <1>1, <2>3
      <3>2. QED
        BY <1>6, <2>1, <2>2, <2>3, <3>1
    <2>4. CASE ~(i <= m)
      <3>1. i - m \in 1..n
        BY <1>1, <2>4
      <3>2. QED
        BY <1>6, <2>1, <2>2, <2>4, <3>1
    <2>5. QED
      BY <2>3, <2>4
  <1>9. v = u
    BY <1>3, <1>4, <1>5, <1>8, SeqEqual
  <1>10. QED
    BY <1>9 DEF Signed, v, c, u, x, y

LEMMA BigRead ==
    ASSUME NEW b \in Seq(Byte), NEW p \in 0..Len(b), NEW mag \in Seq(Byte), mag # <<>>, mag[1] # 0,
           ByteLen(Len(mag)) <= LenOfLen, NEW negative \in BOOLEAN, ~FitsSigned(negative, mag, FixedWidth),
           At(b, p, BigForm(negative, mag))
    PROVE  IntRead(Next(b, p), p + Len(BigForm(negative, mag)), negative, mag)
  <1> DEFINE n == Len(mag)
             len == ToBE(n)
             k == Len(len)
             t == IF negative THEN INT_NEG_BIG ELSE INT_POS_BIG
             q == p + 1
             x == Signed(negative, <<k>>)
             y == Signed(negative, len)
             z == Signed(negative, mag)
             body == Signed(negative, <<k>> \o len \o mag)
             rest == Len(b) - (q + 1 + k)
  <1>1. n \in Nat \ {0} /\ Len(b) \in Nat
    BY EmptySeq, LenProperties
  <1>2. /\ len \in Seq(Byte) /\ k = ByteLen(n) /\ k \in Nat /\ k <= LenOfLen
        /\ Trimmed(len) = len
    BY <1>1, ToBEBytes, ToBETrimmed
  <1>3. k \in Byte
    <2> HIDE DEF k
    <2>1. LenOfLen \in Nat /\ LenOfLen <= 8
      BY WidthAssumption
    <2>2. k \in Nat /\ k <= LenOfLen
      BY <1>2
    <2>3. k <= 8
      BY <2>1, <2>2
    <2>4. QED
      BY <2>2, <2>3 DEF Byte
  <1>4. t \in Byte /\ t \in {INT_NEG_BIG, INT_POS_BIG} /\ (t = INT_NEG_BIG) = negative
    BY DEF INT_NEG_BIG, INT_POS_BIG, Byte
  <1> HIDE DEF n, len, t
  <1>5. BigForm(negative, mag) = <<t>> \o body
    BY DEF BigForm, t, len, n
  <1>6. <<k>> \in Seq(Byte) /\ Len(<<k>>) = 1 /\ <<k>>[1] = k
    <2> HIDE DEF k
    <2>1. QED
      BY <1>3
  <1> HIDE DEF k
  <1> DEFINE a == <<k>>
  <1>7. a \in Seq(Byte) /\ Len(a) = 1 /\ a[1] = k
    BY <1>6
  <1> HIDE DEF a
  <1>8. a \o len \in Seq(Byte)
    BY <1>2, <1>7, ConcatProperties
  <1>9. /\ x \in Seq(Byte) /\ Len(x) = 1 /\ y \in Seq(Byte) /\ Len(y) = k
        /\ z \in Seq(Byte) /\ Len(z) = n
    <2>1. x = Signed(negative, a)
      BY DEF a
    <2>2. k = Len(len) /\ n = Len(mag)
      BY DEF k, n
    <2>3. QED
      BY <1>2, <1>7, <2>1, <2>2, ComplementBytes
  <1>10. body = (x \o y) \o z
    <2>1. Signed(negative, (a \o len) \o mag) = Signed(negative, a \o len) \o z
      BY <1>8, SignedConcat
    <2>2. Signed(negative, a \o len) = Signed(negative, a) \o y
      BY <1>2, <1>7, SignedConcat
    <2>3. QED
      BY <2>1, <2>2 DEF a
  <1>11. /\ Signed(negative, x) = a /\ Signed(negative, y) = len /\ Signed(negative, z) = mag
    <2>1. x = Signed(negative, a)
      BY DEF a
    <2>2. QED
      BY <1>2, <1>7, <2>1, SignedTwice
  <1> HIDE DEF x, y, z, body
  <1>12. x \o y \in Seq(Byte) /\ Len(x \o y) = Len(x) + Len(y)
    BY <1>9, ConcatProperties
  <1>13. body \in Seq(Byte) /\ Len(body) = (1 + k) + n
    <2>1. body \in Seq(Byte) /\ Len(body) = Len(x \o y) + Len(z)
      BY <1>9, <1>10, <1>12, ConcatProperties
    <2>2. QED
      BY <1>9, <1>12, <2>1
  <1>14. At(b, p, <<t>> \o body)
    BY <1>5
  <1>15. /\ q \in 0..Len(b) /\ Next(b, p) = DecodeElement(b, t, q)
         /\ At(b, q, body) /\ p + Len(<<t>> \o body) = q + Len(body)
    <2>1. t \in Byte /\ body \in Seq(Byte)
      BY <1>4, <1>13
    <2>2. q \in 0..Len(b)
      BY <1>14, <2>1, NextCode
    <2>3. Next(b, p) = DecodeElement(b, t, q)
      BY <1>14, <2>1, NextCode
    <2>4. At(b, q, body)
      BY <1>14, <2>1, NextCode
    <2>5. p + Len(<<t>> \o body) = q + Len(body)
      BY <1>14, <2>1, NextCode
    <2>6. QED
      BY <2>2, <2>3, <2>4, <2>5
  <1> HIDE DEF q
  <1>16. At(b, q, x \o y) /\ q + Len(x \o y) \in 0..Len(b) /\ At(b, q + Len(x \o y), z)
    BY <1>9, <1>10, <1>12, <1>15, AtConcat
  <1>17. At(b, q, x) /\ q + Len(x) \in 0..Len(b) /\ At(b, q + Len(x), y)
    BY <1>9, <1>15, <1>16, AtConcat
  <1>18. q + Len(x \o y) = q + 1 + k /\ q + Len(x) = q + 1
    BY <1>2, <1>9, <1>12, <1>15
  <1>19. CanTake(b, q, 1) /\ Bytes(b, q, 1) = x
    BY ZenonT(40), <1>9, <1>15, <1>17, AtBytes
  <1>20. CanTake(b, q + 1, k) /\ Bytes(b, q + 1, k) = y
    BY <1>9, <1>17, <1>18, AtBytes
  <1>21. CanTake(b, q + 1 + k, n) /\ Bytes(b, q + 1 + k, n) = z /\ q + 1 + k \in 0..Len(b)
    BY <1>9, <1>16, <1>18, AtBytes
  <1>22. LenBytes(b, negative, q) = k
    BY <1>7, <1>11, <1>19 DEF LenBytes
  <1>23. MagLens(b, negative, q) = {n}
    <2>1. MagLens(b, negative, q) = DecodedIn(len, 0..rest)
      BY <1>11, <1>20, <1>22 DEF MagLens
    <2>2. n \in 0..rest /\ 0..rest \in SUBSET Nat
      BY <1>1, <1>2, <1>15, <1>21 DEF CanTake
    <2>3. Trimmed(len) = ToBE(n)
      BY <1>2 DEF len
    <2> HIDE DEF rest
    <2>4. QED
      BY <2>1, <2>2, <2>3, DecodedBack
  <1>24. FirstOf({n}) = n
    BY <1>1, FirstOfOne
  <1>25. ReadBigInt(b, t, q) = Decoded(q + 1 + k + n, [kind |-> "bigint", neg |-> negative, mag |-> mag])
    <2>1. ~(k > LenOfLen) /\ n # 0 /\ k = ByteLen(n)
      BY <1>1, <1>2, WidthAssumption
    <2>2. {n} # {}
      OBVIOUS
    <2>3. QED
      BY <1>4, <1>11, <1>19, <1>20, <1>21, <1>22, <1>23, <1>24, <2>1, <2>2, Zenon DEF ReadBigInt
  <1>26. DecodeElement(b, t, q) = ReadBigInt(b, t, q)
    BY <1>4, BigIntDispatch
  <1>27. q + 1 + k + n = p + Len(BigForm(negative, mag))
    BY <1>1, <1>2, <1>5, <1>13, <1>15, SMTT(30)
  <1>28. QED
    BY <1>15, <1>25, <1>26, <1>27 DEF IntRead, Decoded

-----------------------------------------------------------------------------
(* Bytes that next() reads, wherever they lie in a buffer, as an element   *)
(* that append_element writes as these bytes again.                        *)
Stable(s) ==
    /\ s # <<>> /\ s[1] # 255
    /\ \A b \in Seq(Byte) : \A p \in 0..Len(b) :
         At(b, p, s) /\ Guarded(b, p + Len(s)) =>
            /\ Next(b, p).rc = 1 /\ Next(b, p).pos = p + Len(s)
            /\ EncElement(Next(b, p).el) = s

LEMMA SelfAt ==
    ASSUME NEW s \in Seq(Byte)
    PROVE  0 \in 0..Len(s) /\ At(s, 0, s) /\ Guarded(s, 0 + Len(s)) /\ 0 + Len(s) = Len(s)
  <1>1. Len(s) \in Nat
    BY LenProperties
  <1>2. QED
    BY <1>1 DEF At, Guarded

LEMMA EncElementInt ==
    ASSUME NEW e, e.kind \in {"int", "bigint"}
    PROVE  EncElement(e) = EncInt(e.neg, e.mag)
  <1>1. CASE e.kind = "int"
    BY <1>1, FramedCodes DEF EncElement
  <1>2. CASE e.kind = "bigint"
    BY <1>2, FramedCodes DEF EncElement
  <1>3. QED
    BY <1>1, <1>2

LEMMA CodedHead ==
    ASSUME NEW t, NEW s, NEW w \in Seq(Byte), s = <<t>> \o w
    PROVE  s # <<>> /\ s[1] = t
  OBVIOUS

LEMMA IntStable ==
    ASSUME NEW negative \in BOOLEAN, NEW m \in Magnitude, ~(negative /\ Lost(Trimmed(m)))
    PROVE  /\ Stable(EncInt(negative, m))
           /\ IntRead(Next(EncInt(negative, m), 0), Len(EncInt(negative, m)),
                      negative /\ Trimmed(m) # <<>>, Trimmed(m))
  <1> DEFINE mag == Trimmed(m)
             s == EncInt(negative, m)
  <1>1. /\ m \in Seq(Byte) /\ mag \in Seq(Byte) /\ Len(mag) \in Nat /\ Len(mag) <= Len(m)
        /\ (mag # <<>> => mag[1] # 0)
    BY TrimmedProperties DEF Magnitude
  <1>2. Trimmed(mag) = mag
    BY <1>1, TrimmedIdentity
  <1>3. EncInt(negative, mag) = s
    BY <1>2, EncIntTrimmed
  <1>4. ByteLen(Len(mag)) <= LenOfLen
    <2> DEFINE x == ByteLen(Len(mag))
               y == ByteLen(Len(m))
    <2>1. Len(m) \in Nat
      BY <1>1, LenProperties
    <2>2. x <= y /\ x \in Nat /\ y \in Nat
      BY <1>1, <2>1, ByteLenMonotone, ToBEBytes
    <2>3. y <= LenOfLen /\ LenOfLen \in Nat
      BY WidthAssumption DEF Magnitude
    <2> HIDE DEF x, y
    <2>4. x <= LenOfLen
      BY <2>2, <2>3
    <2>5. QED
      BY <2>4 DEF x
  <1>5. ASSUME NEW b \in Seq(Byte), NEW p \in 0..Len(b), IntRead(Next(b, p), p + Len(s), negative, mag)
        PROVE  /\ Next(b, p).rc = 1 /\ Next(b, p).pos = p + Len(s)
               /\ EncElement(Next(b, p).el) = s
    <2> DEFINE r == Next(b, p)
    <2>1. r.rc = 1 /\ r.pos = p + Len(s) /\ r.el.kind \in {"int", "bigint"} /\ r.el.neg = negative /\ r.el.mag = mag
      BY <1>5 DEF IntRead
    <2> HIDE DEF r
    <2>2. EncElement(r.el) = EncInt(r.el.neg, r.el.mag)
      BY <2>1, EncElementInt
    <2>3. EncElement(r.el) = s
      BY <1>3, <2>1, <2>2, Zenon
    <2>4. QED
      BY <2>1, <2>3 DEF r
  <1>6. s \in Seq(Byte)
    BY EncIntBytes
  <1> HIDE DEF s, mag
  <1>7. CASE mag = <<>>
    <2>1. s = <<INT_ZERO>>
      BY <1>1, <1>7, EncIntForms DEF s, mag
    <2>2. s = <<INT_ZERO>> \o <<>> /\ <<>> \in Seq(Byte) /\ INT_ZERO \in Byte
      BY <2>1 DEF INT_ZERO, Byte
    <2>3. s # <<>> /\ s[1] # 255
      BY <2>1 DEF INT_ZERO
    <2>4. ASSUME NEW b \in Seq(Byte), NEW p \in 0..Len(b), At(b, p, s)
          PROVE  /\ Next(b, p).rc = 1 /\ Next(b, p).pos = p + Len(s)
                 /\ EncElement(Next(b, p).el) = s
                 /\ IntRead(Next(b, p), p + Len(s), FALSE, mag)
      <3>1. At(b, p, <<INT_ZERO>> \o <<>>)
        BY <2>2, <2>4
      <3>2. Next(b, p) = DecodeElement(b, INT_ZERO, p + 1)
        BY <2>2, <3>1, NextCode
      <3>3. DecodeElement(b, INT_ZERO, p + 1) = Decoded(p + 1, IntElement(0, FALSE, <<>>))
        BY BareDecodes
      <3>4. IntRead(Next(b, p), p + 1, FALSE, <<>>)
        BY <3>2, <3>3, IntElementRead
      <3>5. Len(s) = 1
        BY <2>1
      <3> DEFINE r == Next(b, p)
      <3>6. r.rc = 1 /\ r.pos = p + 1 /\ r.el.kind \in {"int", "bigint"} /\ r.el.neg = FALSE /\ r.el.mag = <<>>
        BY <3>4 DEF IntRead
      <3> HIDE DEF r
      <3>7. EncElement(r.el) = EncInt(FALSE, <<>>)
        <4>1. EncElement(r.el) = EncInt(r.el.neg, r.el.mag)
          BY <3>6, EncElementInt
        <4>2. QED
          BY <3>6, <4>1
      <3>8. EncInt(FALSE, <<>>) = <<INT_ZERO>>
        <4>1. Trimmed(<<>>) = <<>>
          BY <1>2, <1>7
        <4>2. QED
          BY <4>1, <2>2, EncIntForms
      <3>9. IntRead(r, p + Len(s), FALSE, mag)
        BY <1>7, <3>5, <3>6 DEF IntRead
      <3>10. QED
        BY <2>1, <3>5, <3>6, <3>7, <3>8, <3>9 DEF r
    <2>5. Stable(s)
      BY ZenonT(40), <2>3, <2>4 DEF Stable
    <2>6. IntRead(Next(s, 0), Len(s), FALSE, mag)
      BY <1>6, <2>4, SelfAt
    <2>7. (negative /\ mag # <<>>) = FALSE
      BY <1>7
    <2>8. QED
      BY <2>5, <2>6, <2>7 DEF s, mag
  <1>8. CASE mag # <<>> /\ ~FitsSigned(negative, mag, FixedWidth)
    <2>1. s = BigForm(negative, mag)
      BY <1>1, <1>8, EncIntForms DEF s, mag
    <2>2. s # <<>> /\ s[1] # 255
      <3> DEFINE t == IF negative THEN INT_NEG_BIG ELSE INT_POS_BIG
                 w == Signed(negative, <<Len(ToBE(Len(mag)))>> \o ToBE(Len(mag)) \o mag)
      <3>1. s = <<t>> \o w
        BY <2>1 DEF BigForm
      <3>2. t # 255
        BY DEF INT_NEG_BIG, INT_POS_BIG
      <3> HIDE DEF t, w
      <3>3. <<t>> \o w \in Seq(Byte)
        BY <3>1, EncIntBytes DEF s
      <3>4. Len(<<t>> \o w) # 0 /\ (<<t>> \o w)[1] = t
        OBVIOUS
      <3>5. QED
        BY <3>1, <3>2, <3>4
    <2>3. ASSUME NEW b \in Seq(Byte), NEW p \in 0..Len(b), At(b, p, s)
          PROVE  IntRead(Next(b, p), p + Len(s), negative, mag)
      <3>1. At(b, p, BigForm(negative, mag))
        BY <2>1, <2>3
      <3>2. IntRead(Next(b, p), p + Len(BigForm(negative, mag)), negative, mag)
        BY <1>1, <1>4, <1>8, <3>1, BigRead
      <3>3. QED
        BY <2>1, <3>2
    <2>4. Stable(s)
      BY <1>5, <2>2, <2>3 DEF Stable
    <2>5. IntRead(Next(s, 0), Len(s), negative, mag)
      BY <1>6, <2>3, SelfAt
    <2>6. (negative /\ mag # <<>>) = negative
      BY <1>8
    <2>7. QED
      BY <2>4, <2>5, <2>6 DEF s, mag
  <1>9. CASE mag # <<>> /\ FitsSigned(negative, mag, FixedWidth) /\ ~negative
    <2>1. s = <<INT_ZERO + Len(mag)>> \o mag
      BY <1>1, <1>9, EncIntForms DEF s, mag
    <2>2. s # <<>> /\ s[1] # 255
      <3>1. s # <<>> /\ s[1] = INT_ZERO + Len(mag)
        BY <1>1, <2>1, CodedHead
      <3>2. Len(mag) < FixedWidth \/ Len(mag) = FixedWidth
        BY <1>9, Zenon DEF FitsSigned
      <3>3. FixedWidth \in Nat /\ FixedWidth <= 16
        BY WidthAssumption
      <3>4. INT_ZERO + Len(mag) # 255
        BY <1>1, <3>2, <3>3 DEF INT_ZERO
      <3>5. QED
        BY <3>1, <3>4
    <2>3. ASSUME NEW b \in Seq(Byte), NEW p \in 0..Len(b), At(b, p, s)
          PROVE  IntRead(Next(b, p), p + Len(s), negative, mag)
      <3>1. At(b, p, <<INT_ZERO + Len(mag)>> \o mag)
        BY <2>1, <2>3
      <3>2. IntRead(Next(b, p), p + Len(<<INT_ZERO + Len(mag)>> \o mag), FALSE, mag)
        BY <1>1, <1>9, <3>1, PositiveSlotRead
      <3>3. negative = FALSE
        BY <1>9
      <3>4. QED
        BY <2>1, <3>2, <3>3
    <2>4. Stable(s)
      BY <1>5, <2>2, <2>3 DEF Stable
    <2>5. IntRead(Next(s, 0), Len(s), negative, mag)
      BY <1>6, <2>3, SelfAt
    <2>6. (negative /\ mag # <<>>) = negative
      BY <1>9
    <2>7. QED
      BY <2>4, <2>5, <2>6 DEF s, mag
  <1>10. CASE mag # <<>> /\ FitsSigned(negative, mag, FixedWidth) /\ negative
    <2> DEFINE low == Trimmed(MinusOne(mag))
               w == Payload(mag)
               t == INT_ZERO - Len(w)
    <2>0. negative = TRUE
      BY <1>10
    <2>1. w \in Seq(Byte) /\ Len(w) \in 1..Len(mag) /\ Len(w) <= FixedWidth
      BY <1>1, <1>10, <2>0, NegativeSlot
    <2>2. s = <<t>> \o w
      <3>1. MinusOne(mag) \in Seq(Byte)
        BY <1>1, <1>10, MinusOneBytes
      <3>2. low \in Seq(Byte)
        BY <3>1, TrimmedProperties
      <3>3. s = ExcessForm(low)
        BY <1>1, <1>10, <3>2, EncIntForms DEF s, mag
      <3>4. Len(w) = Len(IF low = <<>> THEN <<0>> ELSE low)
        <4> DEFINE x == IF low = <<>> THEN <<0>> ELSE low
        <4>1. x \in Seq(Byte)
          <5>1. <<0>> \in Seq(Byte)
            BY DEF Byte
          <5> HIDE DEF low
          <5>2. QED
            BY <3>2, <5>1
        <4>2. w = Complement(x)
          BY Zenon DEF Payload
        <4> HIDE DEF x
        <4>3. Len(w) = Len(x)
          BY <4>1, <4>2, ComplementBytes
        <4>4. QED
          BY <4>3, Zenon DEF x
      <3>5. QED
        BY <3>3, <3>4, Zenon DEF ExcessForm, Payload
    <2> HIDE DEF w
    <2>3. s # <<>> /\ s[1] # 255
      <3>1. s # <<>> /\ s[1] = t
        BY <2>1, <2>2, CodedHead
      <3>2. t # 255
        BY <2>1 DEF INT_ZERO
      <3>3. QED
        BY <3>1, <3>2
    <2>4. ASSUME NEW b \in Seq(Byte), NEW p \in 0..Len(b), At(b, p, s)
          PROVE  IntRead(Next(b, p), p + Len(s), negative, mag)
      <3>1. At(b, p, <<INT_ZERO - Len(Payload(mag))>> \o Payload(mag))
        BY <2>2, <2>4 DEF w
      <3>2. ~Lost(mag) /\ FitsSigned(TRUE, mag, FixedWidth)
        BY <1>10, <2>0 DEF mag
      <3>3. IntRead(Next(b, p), p + Len(<<INT_ZERO - Len(Payload(mag))>> \o Payload(mag)), TRUE, mag)
        BY <1>1, <1>10, <3>1, <3>2, NegativeSlotRead
      <3>4. QED
        BY <2>0, <2>2, <3>3 DEF w
    <2>5. Stable(s)
      BY <1>5, <2>3, <2>4 DEF Stable
    <2>6. IntRead(Next(s, 0), Len(s), negative, mag)
      BY <1>6, <2>4, SelfAt
    <2>7. (negative /\ mag # <<>>) = negative
      BY <1>10
    <2>8. QED
      BY <2>5, <2>6, <2>7 DEF s, mag
  <1>11. QED
    BY <1>7, <1>8, <1>9, <1>10

(* Elements without a payload.                                             *)
LEMMA BareStable ==
    ASSUME NEW e, e = [kind |-> "nil"] \/ e = [kind |-> "undef"]
                    \/ e = [kind |-> "bool", val |-> FALSE] \/ e = [kind |-> "bool", val |-> TRUE]
    PROVE  Stable(EncElement(e)) /\ Next(EncElement(e), 0).el = e
  <1>1. ASSUME NEW t \in Byte, t # 255, EncElement(e) = <<t>>,
               \A b, q : DecodeElement(b, t, q) = Decoded(q, e)
        PROVE  Stable(EncElement(e)) /\ Next(EncElement(e), 0).el = e
    <2> DEFINE s == <<t>>
    <2>1. /\ s # <<>> /\ s[1] # 255 /\ Len(s) = 1
          /\ s \in Seq(Byte) /\ <<>> \in Seq(Byte) /\ s = <<t>> \o <<>>
      BY <1>1
    <2>2. ASSUME NEW b \in Seq(Byte), NEW p \in 0..Len(b), At(b, p, s)
          PROVE  /\ Next(b, p).rc = 1 /\ Next(b, p).pos = p + Len(s)
                 /\ EncElement(Next(b, p).el) = s /\ Next(b, p).el = e
      <3> DEFINE none == <<>>
      <3>0. none \in Seq(Byte)
        OBVIOUS
      <3>1. At(b, p, <<t>> \o none)
        BY <2>1, <2>2
      <3> HIDE DEF none, s
      <3>2. Next(b, p) = DecodeElement(b, t, p + 1)
        BY <3>0, <3>1, NextCode, Zenon
      <3>3. Next(b, p) = Decoded(p + 1, e)
        BY <1>1, <3>2
      <3>4. Next(b, p).rc = 1 /\ Next(b, p).pos = p + Len(s) /\ Next(b, p).el = e
        BY <2>1, <3>3 DEF Decoded
      <3>5. QED
        BY <1>1, <3>4 DEF s
    <2> HIDE DEF s
    <2>3. EncElement(e) = s
      BY <1>1 DEF s
    <2>4. Stable(s)
      BY <2>1, <2>2 DEF Stable
    <2>5. Next(s, 0).el = e
      BY <2>1, <2>2, SelfAt
    <2>6. QED
      BY <2>3, <2>4, <2>5
  <1>2. CASE e = [kind |-> "nil"]
    <2>1. EncElement(e) = <<NIL>>
      BY <1>2, FramedCodes DEF EncElement
    <2>2. \A b, q : DecodeElement(b, NIL, q) = Decoded(q, e)
      BY <1>2, BareDecodes
    <2>3. NIL \in Byte /\ NIL # 255
      BY DEF NIL, Byte
    <2>4. QED
      BY <1>1, <2>1, <2>2, <2>3
  <1>3. CASE e = [kind |-> "undef"]
    <2>1. EncElement(e) = <<UNDEF>>
      BY <1>3, FramedCodes DEF EncElement
    <2>2. \A b, q : DecodeElement(b, UNDEF, q) = Decoded(q, e)
      BY <1>3, BareDecodes
    <2>3. UNDEF \in Byte /\ UNDEF # 255
      BY DEF UNDEF, Byte
    <2>4. QED
      BY <1>1, <2>1, <2>2, <2>3
  <1>4. CASE e = [kind |-> "bool", val |-> FALSE]
    <2>1. EncElement(e) = <<BOOL_FALSE>>
      BY <1>4, FramedCodes DEF EncElement
    <2>2. \A b, q : DecodeElement(b, BOOL_FALSE, q) = Decoded(q, e)
      BY <1>4, BareDecodes
    <2>3. BOOL_FALSE \in Byte /\ BOOL_FALSE # 255
      BY DEF BOOL_FALSE, Byte
    <2>4. QED
      BY <1>1, <2>1, <2>2, <2>3
  <1>5. CASE e = [kind |-> "bool", val |-> TRUE]
    <2>1. EncElement(e) = <<BOOL_TRUE>>
      BY <1>5, FramedCodes DEF EncElement
    <2>2. \A b, q : DecodeElement(b, BOOL_TRUE, q) = Decoded(q, e)
      BY <1>5, BareDecodes
    <2>3. BOOL_TRUE \in Byte /\ BOOL_TRUE # 255
      BY DEF BOOL_TRUE, Byte
    <2>4. QED
      BY <1>1, <2>1, <2>2, <2>3
  <1>6. QED
    BY <1>2, <1>3, <1>4, <1>5

-----------------------------------------------------------------------------
(* Floats and timestamps: the sign bit flips back, and a pattern that is   *)
(* canonical stays what it is.                                             *)
LEMMA FlipSignTwice ==
    ASSUME NEW n \in Nat, NEW x \in [1..n -> Byte]
    PROVE  FlipSign(FlipSign(x)) = x
  <1>1. \A v \in 0..255 : (((v + 128) % 256) + 128) % 256 = v
    OBVIOUS
  <1>2. DOMAIN x = 1..n /\ \A i \in 1..n : x[i] \in 0..255
    BY DEF Byte
  <1> DEFINE y == FlipSign(x)
  <1>3. DOMAIN y = 1..n /\ \A i \in 1..n : y[i] = IF i = 1 THEN (x[1] + 128) % 256 ELSE x[i]
    BY <1>2 DEF FlipSign
  <1>4. FlipSign(y) = [i \in 1..n |-> IF i = 1 THEN (y[1] + 128) % 256 ELSE y[i]]
    BY <1>3 DEF FlipSign
  <1> HIDE DEF y
  <1>5. ASSUME NEW i \in 1..n
        PROVE  (IF i = 1 THEN (y[1] + 128) % 256 ELSE y[i]) = x[i]
    <2>1. CASE i = 1
      <3>1. y[1] = (x[1] + 128) % 256 /\ x[1] \in 0..255
        BY <1>2, <1>3, <2>1
      <3>2. (y[1] + 128) % 256 = x[1]
        BY <1>1, <3>1
      <3>3. QED
        BY <2>1, <3>2
    <2>2. CASE i # 1
      BY <1>3, <2>2
    <2>3. QED
      BY <2>1, <2>2
  <1>6. x = [i \in 1..n |-> x[i]]
    OBVIOUS
  <1>7. FlipSign(y) = x
    BY <1>4, <1>5, <1>6
  <1>8. QED
    BY <1>7 DEF y

LEMMA CanonicalTwice ==
    ASSUME NEW n \in Nat \ {0}, NEW bits \in [1..n -> Byte]
    PROVE  /\ CanonicalBits(bits) \in [1..n -> Byte]
           /\ CanonicalBits(CanonicalBits(bits)) = CanonicalBits(bits)
  <1>1. Len(bits) = n
    OBVIOUS
  <1>2. CASE IsNaN(bits)
    <2> DEFINE c == CanonicalNaN(n)
    <2>1. CanonicalBits(bits) = c
      BY <1>1, <1>2 DEF CanonicalBits
    <2>2. c \in [1..n -> Byte] /\ c[1] = 127
      BY DEF CanonicalNaN, Byte
    <2>3. Len(c) = n
      BY DEF CanonicalNaN
    <2> HIDE DEF c
    <2>4. ~IsNegZero(c)
      BY <2>2 DEF IsNegZero
    <2>5. CanonicalBits(c) = c
      BY <2>3, <2>4 DEF CanonicalBits, c
    <2>6. QED
      BY <2>1, <2>2, <2>5
  <1>3. CASE ~IsNaN(bits) /\ IsNegZero(bits)
    <2> DEFINE c == Zeroes(n)
    <2>1. CanonicalBits(bits) = c
      BY <1>1, <1>3 DEF CanonicalBits
    <2>2. c \in [1..n -> Byte] /\ c[1] = 0
      BY DEF Zeroes, Byte
    <2> HIDE DEF c
    <2>3. ~IsNegZero(c)
      BY <2>2 DEF IsNegZero
    <2>4. 0 % 128 # 127
      OBVIOUS
    <2>5. ~IsNaN(c)
      BY <2>2, <2>4 DEF IsNaN
    <2>6. CanonicalBits(c) = c
      BY <2>3, <2>5 DEF CanonicalBits
    <2>7. QED
      BY <2>1, <2>2, <2>6
  <1>4. CASE ~IsNaN(bits) /\ ~IsNegZero(bits)
    BY <1>4 DEF CanonicalBits
  <1>5. QED
    BY <1>2, <1>3, <1>4

LEMMA FloatTwice ==
    ASSUME NEW n \in Nat \ {0}, NEW bits \in [1..n -> Byte]
    PROVE  /\ EncFloatBits(bits) \in [1..n -> Byte]
           /\ EncFloatBits(DecFloatBits(EncFloatBits(bits))) = EncFloatBits(bits)
           /\ DecFloatBits(EncFloatBits(bits)) = CanonicalBits(bits)
  <1> DEFINE c == CanonicalBits(bits)
             w == EncFloatBits(bits)
  <1>1. c \in [1..n -> Byte] /\ CanonicalBits(c) = c
    BY CanonicalTwice
  <1>2. w = IF c[1] >= 128 THEN Complement(c) ELSE FlipSign(c)
    BY DEF EncFloatBits
  <1>3. EncFloatBits(c) = w
    BY <1>1, <1>2 DEF EncFloatBits
  <1> HIDE DEF c, w
  <1>4. 1 \in 1..n /\ c[1] \in 0..255 /\ DOMAIN c = 1..n
    BY <1>1 DEF Byte
  <1>5. w \in [1..n -> Byte]
    BY <1>1, <1>2, FlipSignLen
  <1>6. DecFloatBits(w) = c
    <2>1. CASE c[1] >= 128
      <3>1. w = Complement(c) /\ w[1] = 255 - c[1]
        BY <1>2, <1>4, <2>1 DEF Complement
      <3>2. ~(w[1] >= 128)
        <4>1. \A v \in 0..255 : v >= 128 => ~(255 - v >= 128)
          OBVIOUS
        <4>2. QED
          BY <1>4, <2>1, <3>1, <4>1
      <3>3. c \in Seq(Byte)
        BY <1>1
      <3>4. Complement(w) = c
        BY <3>1, <3>3, ComplementTwice
      <3>5. QED
        BY <3>2, <3>4 DEF DecFloatBits
    <2>2. CASE ~(c[1] >= 128)
      <3>1. w = FlipSign(c)
        BY <1>2, <2>2
      <3>2. w[1] = (c[1] + 128) % 256
        BY <1>4, <3>1 DEF FlipSign
      <3>3. w[1] >= 128
        <4>1. \A v \in 0..255 : ~(v >= 128) => (v + 128) % 256 >= 128
          OBVIOUS
        <4>2. QED
          BY <1>4, <2>2, <3>2, <4>1
      <3>4. FlipSign(w) = c
        BY <1>1, <3>1, FlipSignTwice
      <3>5. QED
        BY <3>3, <3>4 DEF DecFloatBits
    <2>3. QED
      BY <2>1, <2>2
  <1>7. QED
    BY <1>3, <1>5, <1>6 DEF w, c

(* The elements with a payload of a fixed width.                           *)
LEMMA PayloadStable ==
    ASSUME NEW t \in Byte, t # 255, NEW n \in Nat, NEW w \in [1..n -> Byte], NEW e,
           EncElement(e) = <<t>> \o w,
           \A b, q : Bytes(b, q, n) = w => DecodeElement(b, t, q) = ReadPayload(b, q, n, e)
    PROVE  Stable(<<t>> \o w) /\ Next(<<t>> \o w, 0).el = e
  <1> DEFINE s == <<t>> \o w
  <1>1. w \in Seq(Byte) /\ Len(w) = n
    OBVIOUS
  <1>2. s # <<>> /\ s[1] # 255
    BY <1>1, CodedHead
  <1>3. ASSUME NEW b \in Seq(Byte), NEW p \in 0..Len(b), At(b, p, s)
        PROVE  /\ Next(b, p).rc = 1 /\ Next(b, p).pos = p + Len(s)
               /\ EncElement(Next(b, p).el) = s /\ Next(b, p).el = e
    <2>1. At(b, p, <<t>> \o w)
      BY <1>3
    <2>2. /\ Next(b, p) = DecodeElement(b, t, p + 1)
          /\ CanTake(b, p + 1, Len(w)) /\ Bytes(b, p + 1, Len(w)) = w
          /\ p + Len(<<t>> \o w) = (p + 1) + Len(w)
      BY <1>1, <2>1, NextCode
    <2>3. Next(b, p) = Decoded((p + 1) + n, e)
      BY <1>1, <2>2 DEF ReadPayload
    <2>4. p + Len(s) = (p + 1) + n
      BY <1>1, <2>2
    <2> HIDE DEF s
    <2>5. Next(b, p).rc = 1 /\ Next(b, p).pos = p + Len(s) /\ Next(b, p).el = e
      BY <2>3, <2>4 DEF Decoded
    <2>6. QED
      BY <2>5 DEF s
  <1>4. s \in Seq(Byte)
    BY <1>1, ConcatProperties
  <1> HIDE DEF s
  <1>5. Stable(s)
    BY <1>2, <1>3 DEF Stable
  <1>6. Next(s, 0).el = e
    BY <1>3, <1>4, SelfAt
  <1>7. QED
    BY <1>5, <1>6 DEF s

LEMMA FixedPayloadStable ==
    ASSUME NEW e, \/ e \in [kind : {"f32"}, bits : [1..F32Width -> Byte]]
                  \/ e \in [kind : {"f64"}, bits : [1..F64Width -> Byte]]
                  \/ e \in [kind : {"timestamp"}, data : [1..NativeWidth -> Byte]]
                  \/ e \in [kind : {"uuid"}, data : [1..UuidWidth -> Byte]]
    PROVE  /\ Stable(EncElement(e))
           /\ Next(EncElement(e), 0).el =
                IF e.kind \in {"f32", "f64"} THEN [kind |-> e.kind, bits |-> CanonicalBits(e.bits)] ELSE e
  <1>1. /\ F32Width \in Nat \ {0} /\ F64Width \in Nat \ {0}
        /\ NativeWidth \in Nat /\ UuidWidth \in Nat
    BY WidthAssumption
  <1>2. CASE e \in [kind : {"f32"}, bits : [1..F32Width -> Byte]]
    <2> DEFINE w == EncFloatBits(e.bits)
               d == [kind |-> "f32", bits |-> DecFloatBits(w)]
    <2>1. e.bits \in [1..F32Width -> Byte] /\ e.kind = "f32"
      BY <1>2
    <2>2. /\ w \in [1..F32Width -> Byte] /\ EncFloatBits(DecFloatBits(w)) = w
          /\ DecFloatBits(w) = CanonicalBits(e.bits)
      BY <1>1, <2>1, FloatTwice
    <2>3. EncElement(e) = <<FLOAT32>> \o w
      BY <2>1, FramedCodes DEF EncElement
    <2>4. EncElement(d) = <<FLOAT32>> \o w
      <3>1. EncElement(d) = <<FLOAT32>> \o EncFloatBits(d.bits)
        BY FramedCodes DEF EncElement
      <3>2. QED
        BY <2>2, <3>1
    <2>5. \A b, q : Bytes(b, q, F32Width) = w =>
                      DecodeElement(b, FLOAT32, q) = ReadPayload(b, q, F32Width, d)
      BY PayloadForms
    <2>6. FLOAT32 \in Byte /\ FLOAT32 # 255
      BY DEF FLOAT32, Byte
    <2>7. d = [kind |-> e.kind, bits |-> CanonicalBits(e.bits)]
      BY <2>1, <2>2
    <2> HIDE DEF d, w
    <2>8. Stable(<<FLOAT32>> \o w) /\ Next(<<FLOAT32>> \o w, 0).el = d
      BY <1>1, <2>2, <2>4, <2>5, <2>6, PayloadStable
    <2>9. QED
      BY <2>1, <2>3, <2>7, <2>8
  <1>3. CASE e \in [kind : {"f64"}, bits : [1..F64Width -> Byte]]
    <2> DEFINE w == EncFloatBits(e.bits)
               d == [kind |-> "f64", bits |-> DecFloatBits(w)]
    <2>1. e.bits \in [1..F64Width -> Byte] /\ e.kind = "f64"
      BY <1>3
    <2>2. /\ w \in [1..F64Width -> Byte] /\ EncFloatBits(DecFloatBits(w)) = w
          /\ DecFloatBits(w) = CanonicalBits(e.bits)
      BY <1>1, <2>1, FloatTwice
    <2>3. EncElement(e) = <<FLOAT64>> \o w
      BY <2>1, FramedCodes DEF EncElement
    <2>4. EncElement(d) = <<FLOAT64>> \o w
      <3>1. EncElement(d) = <<FLOAT64>> \o EncFloatBits(d.bits)
        BY FramedCodes DEF EncElement
      <3>2. QED
        BY <2>2, <3>1
    <2>5. \A b, q : Bytes(b, q, F64Width) = w =>
                      DecodeElement(b, FLOAT64, q) = ReadPayload(b, q, F64Width, d)
      BY PayloadForms
    <2>6. FLOAT64 \in Byte /\ FLOAT64 # 255
      BY DEF FLOAT64, Byte
    <2>7. d = [kind |-> e.kind, bits |-> CanonicalBits(e.bits)]
      BY <2>1, <2>2
    <2> HIDE DEF d, w
    <2>8. Stable(<<FLOAT64>> \o w) /\ Next(<<FLOAT64>> \o w, 0).el = d
      BY <1>1, <2>2, <2>4, <2>5, <2>6, PayloadStable
    <2>9. QED
      BY <2>1, <2>3, <2>7, <2>8
  <1>4. CASE e \in [kind : {"timestamp"}, data : [1..NativeWidth -> Byte]]
    <2> DEFINE w == FlipSign(e.data)
               d == [kind |-> "timestamp", data |-> FlipSign(w)]
    <2>1. e.data \in [1..NativeWidth -> Byte] /\ e.kind = "timestamp"
      BY <1>4
    <2>2. w \in [1..NativeWidth -> Byte] /\ FlipSign(w) = e.data
      BY <1>1, <2>1, FlipSignTwice, FlipSignLen
    <2>3. EncElement(e) = <<TIMESTAMP>> \o w
      BY <2>1, FramedCodes DEF EncElement
    <2>4. EncElement(d) = <<TIMESTAMP>> \o w
      <3>1. EncElement(d) = <<TIMESTAMP>> \o FlipSign(d.data)
        BY FramedCodes DEF EncElement
      <3>2. QED
        BY <2>2, <3>1
    <2>5. \A b, q : Bytes(b, q, NativeWidth) = w =>
                      DecodeElement(b, TIMESTAMP, q) = ReadPayload(b, q, NativeWidth, d)
      BY PayloadForms
    <2>6. TIMESTAMP \in Byte /\ TIMESTAMP # 255
      BY DEF TIMESTAMP, Byte
    <2>7. d = e
      BY <1>4, <2>2
    <2> HIDE DEF d, w
    <2>8. Stable(<<TIMESTAMP>> \o w) /\ Next(<<TIMESTAMP>> \o w, 0).el = d
      <3>1. NativeWidth \in Nat
        BY <1>1
      <3>2. w \in [1..NativeWidth -> Byte]
        BY <2>2
      <3>3. TIMESTAMP \in Byte
        BY <2>6
      <3>4. TIMESTAMP # 255
        BY <2>6
      <3>5. QED
        BY <2>4, <2>5, <3>1, <3>2, <3>3, <3>4, PayloadStable, SMTT(30)
    <2>9. QED
      BY <2>1, <2>3, <2>7, <2>8
  <1>5. CASE e \in [kind : {"uuid"}, data : [1..UuidWidth -> Byte]]
    <2> DEFINE w == e.data
               d == [kind |-> "uuid", data |-> w]
    <2>1. w \in [1..UuidWidth -> Byte] /\ e.kind = "uuid"
      BY <1>5
    <2>2. EncElement(e) = <<UUID>> \o w
      BY <2>1, FramedCodes DEF EncElement
    <2>3. EncElement(d) = <<UUID>> \o w
      BY FramedCodes DEF EncElement
    <2>4. \A b, q : Bytes(b, q, UuidWidth) = w =>
                      DecodeElement(b, UUID, q) = ReadPayload(b, q, UuidWidth, d)
      BY PayloadForms
    <2>5. UUID \in Byte /\ UUID # 255
      BY DEF UUID, Byte
    <2>6. d = e
      BY <1>5
    <2> HIDE DEF d, w
    <2>7. Stable(<<UUID>> \o w) /\ Next(<<UUID>> \o w, 0).el = d
      BY <1>1, <2>1, <2>3, <2>4, <2>5, PayloadStable
    <2>8. QED
      BY <2>1, <2>2, <2>6, <2>7
  <1>6. QED
    BY <1>2, <1>3, <1>4, <1>5

-----------------------------------------------------------------------------
(* Frames: escaping leaves no lone 0, so the first terminator found is the *)
(* frame's own, and unescaping gives the content back.                     *)
LEMMA EscapedEmpty == Escaped(<<>>) = <<>> /\ Unescaped(<<>>) = <<>>
  <1>1. DOMAIN <<>> = {}
    OBVIOUS
  <1>2. [i \in DOMAIN <<>> |-> IF <<>>[i] = 0 THEN <<0, 255>> ELSE << <<>>[i] >>] = <<>>
    BY <1>1
  <1>3. [i \in DOMAIN <<>> |-> IF i > 1 /\ <<>>[i - 1] = 0 THEN <<>> ELSE << <<>>[i] >>] = <<>>
    BY <1>1
  <1>4. QED
    BY <1>2, <1>3, FlattenEmpty DEF Escaped, Unescaped

LEMMA EscapedAppend ==
    ASSUME NEW d \in Seq(Byte), NEW x \in Byte
    PROVE  Escaped(Append(d, x)) = Escaped(d) \o (IF x = 0 THEN <<0, 255>> ELSE <<x>>)
  <1> DEFINE n == Len(d)
             e == Append(d, x)
             last == IF x = 0 THEN <<0, 255>> ELSE <<x>>
             f == [i \in DOMAIN d |-> IF d[i] = 0 THEN <<0, 255>> ELSE <<d[i]>>]
             g == [i \in DOMAIN e |-> IF e[i] = 0 THEN <<0, 255>> ELSE <<e[i]>>]
  <1>1. n \in Nat /\ DOMAIN d = 1..n /\ \A i \in 1..n : d[i] \in Byte
    BY LenProperties, ElementOfSeq
  <1>2. DOMAIN e = 1..(n + 1) /\ (\A i \in 1..n : e[i] = d[i]) /\ e[n + 1] = x
    BY AppendProperties, LenProperties
  <1>3. \A v \in Byte : (IF v = 0 THEN <<0, 255>> ELSE <<v>>) \in Seq(Byte)
    <2>1. <<0, 255>> \in Seq(Byte)
      BY DEF Byte
    <2>2. \A v \in Byte : <<v>> \in Seq(Byte)
      OBVIOUS
    <2>3. QED
      BY <2>1, <2>2
  <1>4. last \in Seq(Byte)
    BY <1>3
  <1>5. /\ f \in [1..n -> Seq(Byte)]
        /\ \A i \in 1..n : f[i] = IF d[i] = 0 THEN <<0, 255>> ELSE <<d[i]>>
    BY <1>1, <1>3
  <1>6. /\ g = [i \in 1..(n + 1) |-> IF e[i] = 0 THEN <<0, 255>> ELSE <<e[i]>>]
    BY <1>2
  <1>7. Escaped(d) = FlattenSeq(f) /\ Escaped(e) = FlattenSeq(g)
    BY Zenon DEF Escaped
  <1>8. g[n + 1] = last
    <2>1. n + 1 \in 1..(n + 1)
      BY <1>1
    <2>2. g[n + 1] = IF e[n + 1] = 0 THEN <<0, 255>> ELSE <<e[n + 1]>>
      BY <1>6, <2>1, Zenon
    <2>3. QED
      BY <1>2, <2>2
  <1>9. \A i \in 1..n : g[i] = f[i]
    <2>1. \A i \in 1..n : i \in 1..(n + 1)
      BY <1>1
    <2>2. \A i \in 1..n : g[i] = IF e[i] = 0 THEN <<0, 255>> ELSE <<e[i]>>
      BY <1>6, <2>1, Zenon
    <2>3. QED
      BY <1>2, <1>5, <2>2
  <1>10. DOMAIN g = 1..(n + 1)
    BY <1>6
  <1> HIDE DEF e, last, f, g, n
  <1>11. f \in Seq(Seq(Byte)) /\ Len(f) = n
    BY <1>1, <1>5
  <1>12. g = Append(f, last)
    <2> DEFINE h == Append(f, last)
    <2>1. /\ h \in Seq(Seq(Byte)) /\ Len(h) = n + 1
          /\ (\A i \in 1..n : h[i] = f[i]) /\ h[n + 1] = last
      BY <1>4, <1>11, AppendProperties
    <2> HIDE DEF h
    <2>2. \A i \in 1..(n + 1) : g[i] = h[i]
      <3>1. \A i \in 1..(n + 1) : i \in 1..n \/ i = n + 1
        BY <1>1
      <3>2. QED
        BY <1>8, <1>9, <2>1, <3>1
    <2>3. \A i \in 1..(n + 1) : h[i] \in Seq(Byte)
      BY <2>1, ElementOfSeq
    <2>4. g \in Seq(Seq(Byte)) /\ Len(g) = n + 1
      <3>1. g \in [1..(n + 1) -> Seq(Byte)]
        <4>1. g = [i \in 1..(n + 1) |-> g[i]]
          BY <1>6 DEF g
        <4>2. QED
          BY <2>2, <2>3, <4>1
      <3>2. n + 1 \in Nat
        BY <1>1
      <3>3. QED
        BY <3>1, <3>2
    <2>5. g = h
      BY <2>1, <2>2, <2>4, SeqEqual
    <2>6. QED
      BY <2>5 DEF h
  <1>13. FlattenSeq(g) = FlattenSeq(f) \o last
    BY <1>4, <1>11, <1>12, FlattenAppend
  <1>14. Escaped(e) = Escaped(d) \o last
    BY <1>7, <1>13
  <1>15. QED
    BY <1>14 DEF e, last

LEMMA UnescapedAppend ==
    ASSUME NEW d \in Seq(Byte), NEW x \in Byte
    PROVE  Unescaped(Append(d, x)) =
              Unescaped(d) \o (IF d # <<>> /\ d[Len(d)] = 0 THEN <<>> ELSE <<x>>)
  <1> DEFINE n == Len(d)
             e == Append(d, x)
             last == IF d # <<>> /\ d[Len(d)] = 0 THEN <<>> ELSE <<x>>
             f == [i \in DOMAIN d |-> IF i > 1 /\ d[i - 1] = 0 THEN <<>> ELSE <<d[i]>>]
             g == [i \in DOMAIN e |-> IF i > 1 /\ e[i - 1] = 0 THEN <<>> ELSE <<e[i]>>]
  <1>1. n \in Nat /\ DOMAIN d = 1..n /\ \A i \in 1..n : d[i] \in Byte
    BY LenProperties, ElementOfSeq
  <1>2. DOMAIN e = 1..(n + 1) /\ (\A i \in 1..n : e[i] = d[i]) /\ e[n + 1] = x
    BY AppendProperties, LenProperties
  <1>3. <<>> \in Seq(Byte) /\ \A v \in Byte : <<v>> \in Seq(Byte)
    OBVIOUS
  <1>4. last \in Seq(Byte)
    BY <1>3
  <1>5. /\ f \in [1..n -> Seq(Byte)]
        /\ \A i \in 1..n : f[i] = IF i > 1 /\ d[i - 1] = 0 THEN <<>> ELSE <<d[i]>>
    BY <1>1, <1>3
  <1>6. /\ g = [i \in 1..(n + 1) |-> IF i > 1 /\ e[i - 1] = 0 THEN <<>> ELSE <<e[i]>>]
    BY <1>2
  <1>7. Unescaped(d) = FlattenSeq(f) /\ Unescaped(e) = FlattenSeq(g)
    BY Zenon DEF Unescaped
  <1>8. g[n + 1] = last
    <2>1. n + 1 \in 1..(n + 1) /\ (n + 1) - 1 = n
      BY <1>1
    <2>2. g[n + 1] = IF n + 1 > 1 /\ e[(n + 1) - 1] = 0 THEN <<>> ELSE <<e[n + 1]>>
      BY <1>6, <2>1, Zenon
    <2>3. d # <<>> <=> n + 1 > 1
      BY <1>1, EmptySeq
    <2>4. n + 1 > 1 => n \in 1..n
      BY <1>1
    <2>5. n + 1 > 1 => e[n] = d[n]
      BY <1>2, <2>4, SMTT(30)
    <2>6. CASE n + 1 > 1
      BY <1>2, <2>1, <2>2, <2>3, <2>5, <2>6
    <2>7. CASE ~(n + 1 > 1)
      BY <1>2, <2>2, <2>3, <2>7
    <2>8. QED
      BY <2>6, <2>7
  <1>9. \A i \in 1..n : g[i] = f[i]
    <2>1. \A i \in 1..n : i \in 1..(n + 1)
      BY <1>1
    <2>2. \A i \in 1..n : g[i] = IF i > 1 /\ e[i - 1] = 0 THEN <<>> ELSE <<e[i]>>
      BY <1>6, <2>1, Zenon
    <2>3. \A i \in 1..n : i > 1 => i - 1 \in 1..n
      BY <1>1
    <2>4. ASSUME NEW i \in 1..n
          PROVE  g[i] = f[i]
      <3>1. CASE i > 1
        BY <1>2, <1>5, <2>2, <2>3, <3>1
      <3>2. CASE ~(i > 1)
        BY <1>2, <1>5, <2>2, <3>2
      <3>3. QED
        BY <3>1, <3>2
    <2>5. QED
      BY <2>4
  <1>10. DOMAIN g = 1..(n + 1)
    BY <1>6
  <1> HIDE DEF e, last, f, g, n
  <1>11. f \in Seq(Seq(Byte)) /\ Len(f) = n
    BY <1>1, <1>5
  <1>12. g = Append(f, last)
    <2> DEFINE h == Append(f, last)
    <2>1. /\ h \in Seq(Seq(Byte)) /\ Len(h) = n + 1
          /\ (\A i \in 1..n : h[i] = f[i]) /\ h[n + 1] = last
      BY <1>4, <1>11, AppendProperties
    <2> HIDE DEF h
    <2>2. \A i \in 1..(n + 1) : g[i] = h[i]
      <3>1. \A i \in 1..(n + 1) : i \in 1..n \/ i = n + 1
        BY <1>1
      <3>2. QED
        BY <1>8, <1>9, <2>1, <3>1
    <2>3. \A i \in 1..(n + 1) : h[i] \in Seq(Byte)
      BY <2>1, ElementOfSeq
    <2>4. g \in Seq(Seq(Byte)) /\ Len(g) = n + 1
      <3>1. g \in [1..(n + 1) -> Seq(Byte)]
        <4>1. g = [i \in 1..(n + 1) |-> g[i]]
          BY <1>6 DEF g
        <4>2. QED
          BY <2>2, <2>3, <4>1
      <3>2. n + 1 \in Nat
        BY <1>1
      <3>3. QED
        BY <3>1, <3>2
    <2>5. g = h
      BY <2>1, <2>2, <2>4, SeqEqual
    <2>6. QED
      BY <2>5 DEF h
  <1>13. FlattenSeq(g) = FlattenSeq(f) \o last
    BY <1>4, <1>11, <1>12, FlattenAppend
  <1>14. Unescaped(e) = Unescaped(d) \o last
    BY <1>7, <1>13
  <1>15. QED
    BY <1>14 DEF e, last

(* Every 0 inside is followed by the escape.                               *)
Enclosed(w) == \A i \in 1..Len(w) : w[i] = 0 => i < Len(w) /\ w[i + 1] = 255

LEMMA EscapedProperties ==
    ASSUME NEW d \in Seq(Byte)
    PROVE  Escaped(d) \in Seq(Byte) /\ Enclosed(Escaped(d)) /\ Unescaped(Escaped(d)) = d
  <1> DEFINE P == {x \in Seq(Byte) : /\ Escaped(x) \in Seq(Byte) /\ Enclosed(Escaped(x))
                                     /\ Unescaped(Escaped(x)) = x}
  <1>1. <<>> \in P
    <2> DEFINE none == <<>>
    <2>1. none \in Seq(Byte) /\ Escaped(none) = none /\ Unescaped(none) = none /\ Len(none) = 0
      BY EscapedEmpty
    <2> HIDE DEF none
    <2>2. Enclosed(none)
      BY <2>1 DEF Enclosed
    <2>3. none \in P
      BY <2>1, <2>2
    <2>4. QED
      BY <2>3 DEF none
  <1>2. ASSUME NEW x \in Seq(Byte), NEW v \in Byte, x \in P
        PROVE  Append(x, v) \in P
    <2> DEFINE w == Escaped(x)
               n == Len(w)
               y == Append(x, v)
    <2>1. w \in Seq(Byte) /\ Enclosed(w) /\ Unescaped(w) = x
      BY <1>2
    <2>2. n \in Nat /\ y \in Seq(Byte)
      BY <2>1, LenProperties, AppendProperties
    <2>3. Escaped(y) = w \o (IF v = 0 THEN <<0, 255>> ELSE <<v>>)
      BY EscapedAppend
    <2>4. y = x \o <<v>>
      BY AppendIsConcat
    <2>5. ~(w # <<>> /\ w[Len(w)] = 0)
      <3>1. w # <<>> => Len(w) \in 1..Len(w)
        BY <2>1, EmptySeq
      <3>2. ~(Len(w) < Len(w))
        BY <2>2
      <3>3. QED
        BY <2>1, <3>1, <3>2 DEF Enclosed
    <2> HIDE DEF w, y
    <2>6. CASE v # 0
      <3> DEFINE u == Append(w, v)
      <3>1. Escaped(y) = u
        BY <2>1, <2>3, <2>6, AppendIsConcat
      <3>2. /\ u \in Seq(Byte) /\ Len(u) = n + 1
            /\ (\A i \in 1..n : u[i] = w[i]) /\ u[n + 1] = v
        BY <2>1, AppendProperties
      <3>3. Unescaped(u) = Unescaped(w) \o <<v>>
        BY <2>1, <2>5, UnescapedAppend
      <3> HIDE DEF u
      <3>4. Enclosed(u)
        <4> SUFFICES ASSUME NEW i \in 1..(n + 1), u[i] = 0
                     PROVE  i < n + 1 /\ u[i + 1] = 255
          BY <3>2 DEF Enclosed
        <4>1. i \in 1..n
          BY <2>2, <2>6, <3>2
        <4>2. w[i] = 0 /\ i \in 1..Len(w)
          BY <3>2, <4>1
        <4>3. i < n /\ w[i + 1] = 255
          BY <2>1, <4>2 DEF Enclosed
        <4>4. i + 1 \in 1..n
          BY <2>2, <4>1, <4>3
        <4>5. QED
          BY <2>2, <3>2, <4>3, <4>4
      <3>5. QED
        BY <2>1, <2>2, <2>4, <3>1, <3>2, <3>3, <3>4 DEF y
    <2>7. CASE v = 0
      <3> DEFINE u == Append(w, 0)
                 z == Append(u, 255)
      <3>0. 0 \in Byte /\ 255 \in Byte
        BY DEF Byte
      <3>1. /\ u \in Seq(Byte) /\ Len(u) = n + 1 /\ u # <<>>
            /\ (\A i \in 1..n : u[i] = w[i]) /\ u[n + 1] = 0
        BY <2>1, <3>0, AppendProperties
      <3>2. u = w \o <<0>> /\ Unescaped(u) = Unescaped(w) \o <<0>>
        BY <2>1, <2>5, <3>0, AppendIsConcat, UnescapedAppend
      <3> HIDE DEF u
      <3>3. /\ z \in Seq(Byte) /\ Len(z) = n + 2
            /\ (\A i \in 1..(n + 1) : z[i] = u[i]) /\ z[n + 2] = 255
        <4>1. (n + 1) + 1 = n + 2
          BY <2>2
        <4>2. QED
          BY <3>0, <3>1, <4>1, AppendProperties
      <3>4. Unescaped(z) = Unescaped(u) \o <<>>
        <4>1. u[Len(u)] = 0
          BY <3>1
        <4>2. QED
          BY <3>0, <3>1, <4>1, UnescapedAppend
      <3>5. z = u \o <<255>>
        BY <3>0, <3>1, AppendIsConcat
      <3> HIDE DEF z
      <3>6. Escaped(y) = z
        <4>1. <<0>> \in Seq(Byte) /\ <<255>> \in Seq(Byte) /\ <<0, 255>> = <<0>> \o <<255>>
          BY <3>0
        <4>2. (w \o <<0>>) \o <<255>> = w \o (<<0>> \o <<255>>)
          BY <2>1, <4>1, ConcatAssociative
        <4>3. QED
          BY <2>3, <2>7, <3>2, <3>5, <4>1, <4>2
      <3>7. Unescaped(z) = y
        <4>1. Unescaped(u) = y
          BY <2>1, <2>4, <2>7, <3>2
        <4>2. y \o <<>> = y
          BY <2>2, ConcatEmptySeq
        <4>3. QED
          BY <3>4, <4>1, <4>2
      <3>8. Enclosed(z)
        <4> SUFFICES ASSUME NEW i \in 1..(n + 2), z[i] = 0
                     PROVE  i < n + 2 /\ z[i + 1] = 255
          BY <3>3 DEF Enclosed
        <4>1. i # n + 2
          BY <3>3
        <4>2. CASE i = n + 1
          BY <2>2, <3>3, <4>2
        <4>3. CASE i \in 1..n
          <5>1. i \in 1..(n + 1)
            BY <2>2, <4>3
          <5>2. w[i] = 0 /\ i \in 1..Len(w)
            BY <3>1, <3>3, <4>3, <5>1
          <5>3. i < n /\ w[i + 1] = 255
            BY <2>1, <5>2 DEF Enclosed
          <5>4. i + 1 \in 1..n /\ i + 1 \in 1..(n + 1)
            BY <2>2, <4>3, <5>3
          <5>5. QED
            BY <2>2, <3>1, <3>3, <5>3, <5>4
        <4>4. i \in 1..n \/ i = n + 1
          BY <2>2, <4>1
        <4>5. QED
          BY <4>2, <4>3, <4>4
      <3>9. QED
        BY <2>2, <3>3, <3>6, <3>7, <3>8 DEF y
    <2>8. QED
      BY <2>6, <2>7
  <1> HIDE DEF P
  <1>3. Seq(Byte) \subseteq P
    BY <1>1, <1>2, SeqSetInduction
  <1>4. QED
    BY <1>3 DEF P

LEMMA FirstOfIs ==
    ASSUME NEW S \in SUBSET Nat, NEW e \in S, \A i \in S : e <= i
    PROVE  FirstOf(S) = e
  <1>1. FirstOf(S) \in S /\ FirstOf(S) <= e
    BY FirstOfProperties
  <1>2. e <= FirstOf(S) /\ FirstOf(S) \in Nat /\ e \in Nat
    BY <1>1
  <1>3. QED
    BY <1>1, <1>2

LEMMA FramedStable ==
    ASSUME NEW t \in Framed, NEW d \in Seq(Byte)
    PROVE  Stable(EncFramed(t, d)) /\ Next(EncFramed(t, d), 0).el = [kind |-> KindOf[t], data |-> d]
  <1> DEFINE w == Escaped(d)
             z == <<TERMINATOR>>
             s == EncFramed(t, d)
             body == w \o z
  <1>1. w \in Seq(Byte) /\ Enclosed(w) /\ Unescaped(w) = d
    BY EscapedProperties
  <1>2. z \in Seq(Byte) /\ Len(z) = 1 /\ z[1] = 0
    BY DEF TERMINATOR, Byte
  <1>3. t \in Byte /\ t # 255
    BY DEF Framed, STRING_CODE, BYTES, ARRAY, MAP, SET, Byte
  <1> HIDE DEF w, z
  <1>4. body \in Seq(Byte)
    BY <1>1, <1>2, ConcatProperties
  <1>5. s = <<t>> \o body
    <2>1. s = (<<t>> \o w) \o z
      BY Zenon DEF EncFramed, w, z
    <2>2. <<t>> \in Seq(Byte)
      BY <1>3
    <2>3. (<<t>> \o w) \o z = <<t>> \o (w \o z)
      BY <1>1, <1>2, <2>2, ConcatAssociative
    <2>4. QED
      BY <2>1, <2>3
  <1> HIDE DEF s, body
  <1>6. s # <<>> /\ s[1] # 255
    BY <1>3, <1>4, <1>5, CodedHead
  <1>7. ASSUME NEW b \in Seq(Byte), NEW p \in 0..Len(b), At(b, p, s), Guarded(b, p + Len(s))
        PROVE  /\ Next(b, p).rc = 1 /\ Next(b, p).pos = p + Len(s)
               /\ EncElement(Next(b, p).el) = s /\ Next(b, p).el = [kind |-> KindOf[t], data |-> d]
    <2> DEFINE q == p + 1
               n == Len(w)
               e == (q + n) + 1
               ends == Terminators(b, q)
    <2>1. At(b, p, <<t>> \o body)
      BY <1>5, <1>7
    <2>2. /\ q \in 0..Len(b) /\ Next(b, p) = DecodeElement(b, t, q) /\ At(b, q, body)
          /\ p + Len(<<t>> \o body) = q + Len(body)
      BY <1>3, <1>4, <2>1, NextCode
    <2> HIDE DEF q
    <2>3. /\ At(b, q, w) /\ q + n \in 0..Len(b) /\ At(b, q + n, z)
          /\ q + Len(body) = (q + n) + 1
      <3>1. At(b, q, w \o z)
        BY <2>2 DEF body
      <3>2. /\ At(b, q, w) /\ q + Len(w) \in 0..Len(b) /\ At(b, q + Len(w), z)
            /\ q + Len(w \o z) = (q + Len(w)) + Len(z)
        <4>1. w \in Seq(Byte) /\ z \in Seq(Byte) /\ q \in 0..Len(b)
          BY <1>1, <1>2, <2>2
        <4>2. QED
          BY <3>1, <4>1, AtConcat
      <3>3. QED
        BY <1>2, <3>2 DEF body
    <2>4. p + Len(s) = e
      BY <1>5, <2>2, <2>3
    <2>5. n \in Nat /\ Len(b) \in Nat /\ q \in Nat
      BY <1>1, <2>2, LenProperties
    <2>6. e <= Len(b) /\ b[e] = 0
      <3>1. 1 \in 1..Len(z)
        BY <1>2
      <3>2. (q + n) + Len(z) <= Len(b) /\ b[(q + n) + 1] = z[1]
        BY <2>3, <3>1 DEF At
      <3>3. QED
        BY <1>2, <3>2
    <2>7. Guarded(b, e)
      BY <1>7, <2>4
    <2> HIDE DEF n
    <2>8. e \in ends
      <3>1. e \in (q + 1)..Len(b)
        BY <2>5, <2>6
      <3>2. QED
        BY <2>6, <2>7, <3>1 DEF Terminators, Guarded
    <2>9. ASSUME NEW i \in ends
          PROVE  e <= i
      <3>1. i \in (q + 1)..Len(b) /\ b[i] = 0 /\ ~(i < Len(b) /\ b[i + 1] = 255)
        BY DEF Terminators
      <3> SUFFICES ASSUME ~(e <= i)
                   PROVE  FALSE
        OBVIOUS
      <3> DEFINE k == i - q
      <3>2. k \in 1..n /\ i = q + k /\ i < Len(b) /\ (k < n => k + 1 \in 1..n) /\ i + 1 = q + (k + 1)
        BY <2>5, <2>6, <3>1
      <3> HIDE DEF k
      <3>3. \A j \in 1..n : b[q + j] = w[j]
        BY <2>3 DEF At, n
      <3>4. w[k] = 0
        BY <3>1, <3>2, <3>3
      <3>5. k < n /\ w[k + 1] = 255
        BY <1>1, <3>2, <3>4 DEF Enclosed, n
      <3>6. b[i + 1] = 255
        BY <3>2, <3>3, <3>5
      <3>7. QED
        BY <3>1, <3>2, <3>6
    <2>10. ends \in SUBSET Nat
      BY <2>5 DEF Terminators
    <2> HIDE DEF e, ends
    <2>11. FirstOf(ends) = e /\ ends # {}
      BY <2>8, <2>9, <2>10, FirstOfIs
    <2>12. SubSeq(b, q + 1, FirstOf(ends) - 1) = w
      <3>1. Bytes(b, q, Len(w)) = w
        BY <1>1, <2>2, <2>3, AtBytes
      <3>2. e - 1 = q + n
        BY <2>5 DEF e
      <3>3. QED
        BY <2>11, <3>1, <3>2 DEF Bytes, n
    <2>13. ReadFramed(b, t, q) = Decoded(e, [kind |-> KindOf[t], data |-> d])
      <3>1. Unescaped(SubSeq(b, q + 1, FirstOf(ends) - 1)) = d
        BY <1>1, <2>12
      <3>2. QED
        BY <2>11, <3>1 DEF ReadFramed, ends
    <2>14. Next(b, p) = Decoded(e, [kind |-> KindOf[t], data |-> d])
      BY <2>2, <2>13, FramedDispatch
    <2>15. EncElement([kind |-> KindOf[t], data |-> d]) = EncFramed(t, d)
      <3>1. KindOf[t] \in DOMAIN FramedCode /\ FramedCode[KindOf[t]] = t
        BY KindOfFramed
      <3> DEFINE f == [kind |-> KindOf[t], data |-> d]
      <3>2. f.kind \in DOMAIN FramedCode /\ FramedCode[f.kind] = t /\ f.data = d
        BY <3>1
      <3> HIDE DEF f
      <3>3. EncElement(f) = EncFramed(FramedCode[f.kind], f.data)
        BY <3>2, FramedCodes DEF EncElement
      <3>4. QED
        BY <3>2, <3>3 DEF f
    <2>16. QED
      BY <2>4, <2>14, <2>15 DEF Decoded, s
  <1>8. Stable(s)
    BY <1>6, <1>7 DEF Stable
  <1>9. s \in Seq(Byte)
    BY <1>3, FramedBytes DEF s
  <1>10. Next(s, 0).el = [kind |-> KindOf[t], data |-> d]
    BY <1>7, <1>9, SelfAt
  <1>11. QED
    BY <1>8, <1>10 DEF s

-----------------------------------------------------------------------------
(* Complemented or not, the bytes of a number that are read one part after *)
(* the other are the parts.                                                *)
LEMMA SignedAt ==
    ASSUME NEW b \in Seq(Byte), NEW q \in 0..Len(b), NEW negative, NEW u \in Seq(Byte), NEW w \in Seq(Byte),
           At(b, q, Signed(negative, u \o w))
    PROVE  /\ CanTake(b, q, Len(u))
           /\ Signed(negative, Bytes(b, q, Len(u))) = u
           /\ q + Len(u) \in 0..Len(b)
           /\ At(b, q, Signed(negative, u))
           /\ At(b, q + Len(u), Signed(negative, w))
  <1> DEFINE x == Signed(negative, u)
             y == Signed(negative, w)
  <1>1. x \in Seq(Byte) /\ y \in Seq(Byte) /\ Len(x) = Len(u)
    BY ComplementBytes
  <1>2. At(b, q, x \o y)
    <2>1. Signed(negative, u \o w) = x \o y
      BY SignedConcat
    <2>2. QED
      BY <2>1
  <1>3. Signed(negative, x) = u
    BY SignedTwice
  <1> HIDE DEF x, y
  <1>4. At(b, q, x) /\ q + Len(x) \in 0..Len(b) /\ At(b, q + Len(x), y)
    BY <1>1, <1>2, AtConcat
  <1>5. CanTake(b, q, Len(x)) /\ Bytes(b, q, Len(x)) = x
    BY <1>1, <1>4, AtBytes
  <1>6. CanTake(b, q, Len(u)) /\ Bytes(b, q, Len(u)) = x
    BY <1>1, <1>5
  <1>7. q + Len(u) \in 0..Len(b) /\ At(b, q + Len(u), y)
    BY <1>1, <1>4
  <1>8. QED
    BY <1>3, <1>4, <1>6, <1>7 DEF x, y

(* A negative number that fits a slot is written as its payload.           *)
LEMMA EncIntNegative ==
    ASSUME NEW mag \in Seq(Byte), mag # <<>>, mag[1] # 0, FitsSigned(TRUE, mag, FixedWidth)
    PROVE  EncInt(TRUE, mag) = <<INT_ZERO - Len(Payload(mag))>> \o Payload(mag)
  <1> DEFINE low == Trimmed(MinusOne(mag))
             x == IF low = <<>> THEN <<0>> ELSE low
             w == Payload(mag)
  <1>1. Trimmed(mag) = mag
    BY TrimmedIdentity
  <1>2. low \in Seq(Byte)
    BY MinusOneBytes, TrimmedProperties
  <1>3. EncInt(TRUE, mag) = ExcessForm(low)
    BY <1>1, <1>2, EncIntForms
  <1>4. w = Complement(x)
    BY Zenon DEF Payload
  <1>5. ExcessForm(low) = <<INT_ZERO - Len(x)>> \o Complement(x)
    BY Zenon DEF ExcessForm
  <1>6. x \in Seq(Byte)
    <2>1. <<0>> \in Seq(Byte)
      BY DEF Byte
    <2> HIDE DEF low
    <2>2. QED
      BY <1>2, <2>1
  <1> HIDE DEF x, w, low
  <1>7. Len(w) = Len(x)
    BY <1>4, <1>6, ComplementBytes
  <1>8. EncInt(TRUE, mag) = <<INT_ZERO - Len(w)>> \o w
    BY <1>3, <1>4, <1>5, <1>7
  <1>9. QED
    BY <1>8 DEF w

-----------------------------------------------------------------------------
(* Decimals.  The exponent is read back from its slot.                     *)
LEMMA AdjExpRead ==
    ASSUME NEW b \in Seq(Byte), NEW q \in 0..Len(b), NEW negative, NEW adj \in Int, InExpRange(adj),
           NEW tail \in Seq(Byte), At(b, q, Signed(negative, EncAdjExp(adj) \o tail))
    PROVE  ReadExponent(b, negative, q) = Decoded(q + Len(EncAdjExp(adj)), adj)
  <1> DEFINE a == IF adj < 0 THEN -adj ELSE adj
             mag == ToBE(a)
             n == Len(mag)
             x == EncAdjExp(adj)
  <1>1. MaxExp \in Nat \ {0} /\ NativeWidth \in Nat \ {0} /\ FixedWidth \in Nat /\ FixedWidth > NativeWidth
    BY WidthAssumption
  <1>2. a \in Nat /\ a <= MaxExp + 1 /\ (adj >= 0 => adj = a /\ a <= MaxExp) /\ (adj < 0 => adj = -a /\ a >= 1)
    BY <1>1 DEF InExpRange
  <1>3. x = EncInt(adj < 0, mag)
    BY Zenon DEF EncAdjExp
  <1> HIDE DEF a
  <1>4. mag \in Seq(Byte) /\ n = ByteLen(a) /\ n \in Nat /\ Trimmed(mag) = mag
    BY <1>2, ToBEBytes, ToBETrimmed
  <1>5. n <= NativeWidth
    <2> DEFINE u == ByteLen(a)
               v == ByteLen(MaxExp + 1)
    <2>1. MaxExp + 1 \in Nat
      BY <1>1
    <2>2. u <= v /\ v <= NativeWidth /\ u \in Nat /\ v \in Nat
      BY <1>2, <2>1, ByteLenMonotone, ExponentAssumption, ToBEBytes
    <2>3. n = u
      BY <1>4
    <2> HIDE DEF u, v, n
    <2>4. QED
      BY <1>1, <2>2, <2>3
  <1>6. mag # <<>> => mag[1] # 0 /\ n >= 1
    BY <1>4, TrimmedProperties
  <1>7. x \in Seq(Byte)
    BY EncAdjExpBytes
  <1>8. /\ q + Len(x) \in 0..Len(b)
        /\ At(b, q, Signed(negative, x))
    BY <1>7, SignedAt
  <1>9. mag = <<>> <=> a = 0
    <2>1. ToBE(0) = <<>>
      <3>1. LittleEndian[0] = <<>>
        BY LittleEndianUnfold
      <3>2. Reverse(<<>>) = <<>>
        BY DEF Reverse
      <3>3. QED
        BY <3>1, <3>2 DEF ToBE
    <2>2. mag = ToBE(0) => a = 0
      BY <1>2, ToBEInjective
    <2>3. QED
      BY <2>1, <2>2
  <1>10. \A S \in SUBSET Nat : a \in S => DecodedIn(mag, S) = {a}
    BY <1>4, DecodedBack
  <1> HIDE DEF mag, x
  <1>11. ASSUME NEW t \in Byte, NEW w \in Seq(Byte), x = <<t>> \o w
         PROVE  /\ CanTake(b, q, 1) /\ Signed(negative, Bytes(b, q, 1))[1] = t
                /\ CanTake(b, q + 1, Len(w)) /\ Signed(negative, Bytes(b, q + 1, Len(w))) = w
                /\ q + Len(x) = q + 1 + Len(w)
    <2> DEFINE c == <<t>>
    <2>1. c \in Seq(Byte) /\ Len(c) = 1 /\ c[1] = t /\ <<>> \in Seq(Byte) /\ x = c \o w
      BY <1>11
    <2> HIDE DEF c
    <2>2. At(b, q, Signed(negative, c \o w))
      BY <1>8, <2>1
    <2>3. /\ CanTake(b, q, Len(c)) /\ Signed(negative, Bytes(b, q, Len(c))) = c
          /\ q + Len(c) \in 0..Len(b) /\ At(b, q + Len(c), Signed(negative, w))
      BY <2>1, <2>2, SignedAt, ZenonT(40)
    <2>4. w \o <<>> = w
      BY ConcatEmptySeq
    <2> DEFINE none == <<>>
    <2>5. none \in Seq(Byte) /\ w \o none = w
      BY <2>4
    <2> HIDE DEF none
    <2>6. At(b, q + Len(c), Signed(negative, w \o none))
      BY <2>3, <2>5
    <2>7. /\ CanTake(b, q + Len(c), Len(w))
          /\ Signed(negative, Bytes(b, q + Len(c), Len(w))) = w
      <3> DEFINE z == q + Len(c)
      <3>1. z \in 0..Len(b) /\ At(b, z, Signed(negative, w \o none))
        BY <2>3, <2>6
      <3> HIDE DEF z
      <3>2. CanTake(b, z, Len(w)) /\ Signed(negative, Bytes(b, z, Len(w))) = w
        BY <2>5, <3>1, SignedAt, ZenonT(40)
      <3>3. QED
        BY <3>2 DEF z
    <2>8. Len(x) = Len(c) + Len(w) /\ Len(w) \in Nat
      BY <2>1, ConcatProperties, LenProperties
    <2>9. q + Len(x) = q + 1 + Len(w)
      BY <2>1, <2>8
    <2>10. QED
      BY <2>1, <2>3, <2>7, <2>9
  <1> SUFFICES ReadExponent(b, negative, q) = Decoded(q + Len(x), adj)
    BY DEF x
  <1>12. CASE mag = <<>>
    <2>1. a = 0
      BY <1>9, <1>12
    <2>2. adj = 0
      BY <1>2, <2>1
    <2>3. x = <<INT_ZERO>>
      BY <1>3, <1>4, <1>12, EncIntForms
    <2>4. INT_ZERO \in Byte /\ <<>> \in Seq(Byte) /\ <<INT_ZERO>> = <<INT_ZERO>> \o <<>>
      BY DEF INT_ZERO, Byte
    <2>5. CanTake(b, q, 1) /\ Signed(negative, Bytes(b, q, 1))[1] = INT_ZERO
      <3> DEFINE none == <<>>
      <3>1. none \in Seq(Byte) /\ x = <<INT_ZERO>> \o none
        BY <2>3, <2>4
      <3> HIDE DEF none
      <3>2. QED
        BY <1>11, <2>4, <3>1
    <2>6. Len(x) = 1
      BY <2>3
    <2>7. ReadExponent(b, negative, q) = Decoded(q + 1, 0)
      BY <2>5, Zenon DEF ReadExponent
    <2>8. QED
      BY <2>2, <2>6, <2>7
  <1>13. CASE mag # <<>> /\ adj >= 0
    <2> DEFINE t == INT_ZERO + n
    <2>1. FitsSigned(FALSE, mag, FixedWidth)
      BY <1>1, <1>4, <1>5 DEF FitsSigned
    <2>2. n \in 1..FixedWidth
      BY <1>1, <1>4, <1>5, <1>6, <1>13
    <2>3. (adj < 0) = FALSE
      BY <1>13
    <2>4. x = <<t>> \o mag
      <3>1. x = EncInt(FALSE, mag)
        BY <1>3, <2>3
      <3>2. QED
        BY <1>4, <1>13, <2>1, <3>1, EncIntForms
    <2>5. t \in FixedPos /\ t \in Byte /\ SlotWidth(t) = n /\ t > INT_ZERO
      BY <2>2, SlotCode
    <2> HIDE DEF t
    <2>6. /\ CanTake(b, q, 1) /\ Signed(negative, Bytes(b, q, 1))[1] = t
          /\ CanTake(b, q + 1, n) /\ Signed(negative, Bytes(b, q + 1, n)) = mag
          /\ q + Len(x) = q + 1 + n
      BY <1>4, <1>11, <2>4, <2>5
    <2>7. ExpValues(t, mag) = {adj}
      <3>1. a \in 0..MaxExp /\ 0..MaxExp \in SUBSET Nat /\ adj = a
        BY <1>1, <1>2, <1>13
      <3>2. QED
        BY <1>10, <2>5, <3>1 DEF ExpValues
    <2>8. t # INT_ZERO /\ ~(n > NativeWidth)
      <3>1. t # INT_ZERO
        BY <2>5 DEF INT_ZERO
      <3> HIDE DEF n
      <3>2. QED
        BY <1>1, <1>4, <1>5, <3>1
    <2>9. FirstOf({adj}) = adj /\ {adj} # {}
      BY FirstOfOne
    <2>10. ReadExponent(b, negative, q) = Decoded(q + 1 + n, adj)
      BY <2>5, <2>6, <2>7, <2>8, <2>9, Zenon DEF ReadExponent
    <2>11. QED
      BY <2>6, <2>10
  <1>14. CASE mag # <<>> /\ adj < 0
    <2> DEFINE w == Payload(mag)
               k == Len(w)
               t == INT_ZERO - k
    <2>1. FitsSigned(TRUE, mag, FixedWidth)
      BY <1>1, <1>4, <1>5 DEF FitsSigned
    <2>2. w \in Seq(Byte) /\ k \in 1..n /\ SlotMagnitude(w) = mag
      BY <1>4, <1>6, <1>14, NegativeSlot
    <2>3. (adj < 0) = TRUE
      BY <1>14
    <2>4. x = <<t>> \o w
      <3>1. x = EncInt(TRUE, mag)
        BY <1>3, <2>3
      <3>2. QED
        BY <1>4, <1>6, <1>14, <2>1, <3>1, EncIntNegative
    <2> HIDE DEF w, n
    <2>5. k \in 1..FixedWidth /\ k <= NativeWidth /\ k \in Nat
      BY <1>1, <1>4, <1>5, <2>2
    <2>6. t \in FixedNeg /\ t \in Byte /\ SlotWidth(t) = k /\ ~(t > INT_ZERO)
      BY <2>5, SlotCode
    <2>7. t # INT_ZERO
      BY <2>5 DEF INT_ZERO
    <2> HIDE DEF t
    <2>8. /\ CanTake(b, q, 1) /\ Signed(negative, Bytes(b, q, 1))[1] = t
          /\ CanTake(b, q + 1, k) /\ Signed(negative, Bytes(b, q + 1, k)) = w
          /\ q + Len(x) = q + 1 + k
      BY <1>11, <2>2, <2>4, <2>6
    <2>9. ~(k = NativeWidth /\ Trimmed(w) = <<>>)
      <3> SUFFICES ASSUME k = NativeWidth, Trimmed(w) = <<>> PROVE FALSE
        OBVIOUS
      <3> DEFINE one == <<1>>
      <3>1. one \in Seq(Byte) /\ Len(one) = 1
        BY DEF Byte
      <3>2. mag = one \o w
        BY <2>2 DEF SlotMagnitude
      <3> HIDE DEF one
      <3>3. Len(mag) = 1 + k
        BY <2>2, <3>1, <3>2, ConcatProperties, ZenonT(40)
      <3>4. Len(mag) = n
        BY DEF n
      <3>5. QED
        BY <1>1, <1>5, <3>3, <3>4
    <2>10. ExpValues(t, w) = {adj}
      <3>1. a \in 1..(MaxExp + 1) /\ 1..(MaxExp + 1) \in SUBSET Nat /\ adj = -a
        BY <1>1, <1>2, <1>14
      <3>2. DecodedIn(SlotMagnitude(w), 1..(MaxExp + 1)) = {a}
        BY <1>10, <2>2, <3>1
      <3>3. ExpValues(t, w) = {-e : e \in {a}}
        BY <2>6, <2>9, <3>2 DEF ExpValues
      <3>4. QED
        BY <3>1, <3>3
    <2>11. FirstOf({adj}) = adj /\ {adj} # {} /\ ~(k > NativeWidth)
      BY <1>1, <2>5, FirstOfOne
    <2> HIDE DEF k
    <2>12. ReadExponent(b, negative, q) = Decoded(q + 1 + k, adj)
      BY <2>6, <2>7, <2>8, <2>10, <2>11, Zenon DEF ReadExponent
    <2>13. QED
      BY <2>8, <2>12
  <1>15. QED
    BY <1>2, <1>12, <1>13, <1>14

-----------------------------------------------------------------------------
(* Two digits of a pair come apart again, and only the pad of an odd last  *)
(* pair is dropped.                                                        *)
LEMMA PairConcat ==
    ASSUME NEW S, NEW u \in S, NEW v \in S
    PROVE  <<u>> \o <<v>> = <<u, v>>
  <1> DEFINE a == <<u>>
             c == <<v>>
             e == <<u, v>>
  <1>1. /\ a \in Seq(S) /\ Len(a) = 1 /\ a[1] = u
        /\ c \in Seq(S) /\ Len(c) = 1 /\ c[1] = v
        /\ e \in Seq(S) /\ Len(e) = 2 /\ e[1] = u /\ e[2] = v
    OBVIOUS
  <1> HIDE DEF a, c, e
  <1> DEFINE w == a \o c
  <1>2. /\ w \in Seq(S) /\ Len(w) = Len(a) + Len(c)
        /\ \A i \in 1..(Len(a) + Len(c)) : w[i] = IF i <= Len(a) THEN a[i] ELSE c[i - Len(a)]
    BY <1>1, ConcatProperties
  <1> HIDE DEF w
  <1>3. Len(w) = 2 /\ w[1] = u /\ w[2] = v
    BY <1>1, <1>2
  <1>4. \A i \in 1..2 : i = 1 \/ i = 2
    OBVIOUS
  <1>5. \A i \in 1..2 : w[i] = e[i]
    BY <1>1, <1>3, <1>4
  <1>6. w = e
    BY <1>1, <1>2, <1>3, <1>5, SeqEqual
  <1>7. QED
    BY <1>6 DEF a, c, e, w

LEMMA DigitsBack ==
    ASSUME NEW d \in Seq(0..9), d # <<>>, d[Len(d)] # 0
    PROVE  Digits(DigitPairs(d)) = d /\ Len(DigitPairs(d)) >= 1 /\ \A k \in 1..Len(DigitPairs(d)) : DigitPairs(d)[k] \in 1..100
  <1> DEFINE n == Len(d)
             h == (n + 1) \div 2
             pairs == DigitPairs(d)
             P(k) == d[2*k - 1] * 10 + (IF 2*k <= n THEN d[2*k] ELSE 0) + 1
             Piece(k) == IF 2*k <= n THEN <<d[2*k - 1], d[2*k]>> ELSE <<d[2*k - 1]>>
             Cut(k) == LET pair == pairs[k] - 1
                       IN  IF k = Len(pairs) /\ pair % 10 = 0 THEN <<pair \div 10>>
                           ELSE <<pair \div 10, pair % 10>>
             g == [k \in DOMAIN pairs |-> Cut(k)]
  <1>1. n \in Nat \ {0}
    BY EmptySeq
  <1>2. h \in Nat \ {0} /\ (n = 2*h \/ n = 2*h - 1)
    BY <1>1
  <1>3. pairs = [k \in 1..h |-> P(k)]
    BY DEF DigitPairs
  <1>4. \A i \in 1..n : d[i] \in 0..9
    BY ElementOfSeq
  <1> HIDE DEF n, h
  <1>5. DOMAIN pairs = 1..h /\ Len(pairs) = h /\ \A k \in 1..h : pairs[k] = P(k)
    BY <1>2, <1>3
  <1> HIDE DEF pairs
  <1>6. \A x, y \in 0..9 : /\ (x * 10 + y + 1) - 1 = x * 10 + y
                           /\ (x * 10 + y) % 10 = y /\ (x * 10 + y) \div 10 = x
                           /\ x * 10 + y + 1 \in 1..100
    OBVIOUS
  <1>7. ASSUME NEW k \in 1..h
        PROVE  P(k) \in 1..100 /\ Cut(k) = Piece(k)
    <2> DEFINE x == d[2*k - 1]
               y == IF 2*k <= n THEN d[2*k] ELSE 0
    <2>1. 2*k - 1 \in 1..n /\ (2*k <= n => 2*k \in 1..n)
      BY <1>1, <1>2
    <2>2. x \in 0..9 /\ y \in 0..9
      BY <1>4, <2>1
    <2>3. P(k) = x * 10 + y + 1
      OBVIOUS
    <2>4. Piece(k) = IF 2*k <= n THEN <<x, y>> ELSE <<x>>
      OBVIOUS
    <2>5. ~(2*k <= n) => y = 0
      OBVIOUS
    <2>6. 2*k <= n /\ k = h => y # 0
      <3> SUFFICES ASSUME 2*k <= n, k = h PROVE y # 0
        OBVIOUS
      <3>1. 2*k = n
        BY <1>1, <1>2
      <3>2. y = d[n]
        BY <3>1
      <3>3. QED
        BY <3>2 DEF n
    <2> HIDE DEF x, y
    <2>7. pairs[k] - 1 = x * 10 + y
      BY <1>5, <1>6, <2>2, <2>3
    <2>8. (pairs[k] - 1) % 10 = y /\ (pairs[k] - 1) \div 10 = x
      BY <1>6, <2>2, <2>7
    <2>9. Cut(k) = IF k = h /\ y = 0 THEN <<x>> ELSE <<x, y>>
      BY <1>5, <2>8
    <2>10. ~(2*k <= n) => k = h
      BY <1>1, <1>2
    <2>11. Cut(k) = Piece(k)
      BY <2>4, <2>5, <2>6, <2>9, <2>10
    <2>12. P(k) \in 1..100
      BY <1>6, <2>2, <2>3
    <2>13. QED
      BY <2>11, <2>12
  <1>8. Digits(pairs) = FlattenSeq(g)
    BY Zenon DEF Digits
  <1>9. DOMAIN g = 1..h /\ \A k \in 1..h : g[k] = Piece(k)
    BY <1>5, <1>7
  <1> HIDE DEF g, Cut
  <1>10. g \in Seq(Seq(0..9)) /\ Len(g) = h /\ g # <<>>
    <2>1. ASSUME NEW k \in 1..h
          PROVE  Piece(k) \in Seq(0..9)
      <3>1. 2*k - 1 \in 1..n /\ (2*k <= n => 2*k \in 1..n)
        BY <1>1, <1>2
      <3>2. d[2*k - 1] \in 0..9 /\ (2*k <= n => d[2*k] \in 0..9)
        BY <1>4, <3>1
      <3> DEFINE x == d[2*k - 1]
                 y == d[2*k]
      <3>3. \A u, v \in 0..9 : <<u, v>> \in Seq(0..9) /\ <<u>> \in Seq(0..9)
        OBVIOUS
      <3>4. Piece(k) = IF 2*k <= n THEN <<x, y>> ELSE <<x>>
        OBVIOUS
      <3>5. x \in 0..9 /\ (2*k <= n => y \in 0..9)
        BY <3>2
      <3> HIDE DEF x, y, Piece
      <3>6. CASE 2*k <= n
        BY <3>3, <3>4, <3>5, <3>6
      <3>7. CASE ~(2*k <= n)
        BY <3>3, <3>4, <3>5, <3>7
      <3>8. QED
        BY <3>6, <3>7
    <2>2. g = [k \in 1..h |-> g[k]]
      BY <1>9 DEF g
    <2>3. g \in [1..h -> Seq(0..9)]
      BY <1>9, <2>1, <2>2
    <2>4. g \in Seq(Seq(0..9)) /\ Len(g) = h
      BY <1>2, <2>3
    <2>5. QED
      BY <1>2, <2>4, EmptySeq
  <1>11. PICK f : Flattens(f, g, h) /\ FlattenSeq(g) = f[h]
    BY <1>10, FlattenUnfold
  <1>12. \A i \in 1..h : f[i] = IF i = 1 THEN g[i] ELSE f[i - 1] \o g[i]
    BY <1>11 DEF Flattens
  <1>13. ASSUME NEW i \in 1..n
         PROVE  SubSeq(d, 1, i) = SubSeq(d, 1, i - 1) \o <<d[i]>>
    <2>1. 1 \in 1..Len(d) /\ i \in 1..Len(d)
      BY <1>1 DEF n
    <2>2. QED
      BY <2>1, SubSeqRecursiveSecond
  <1>14. \A i \in 0..n : SubSeq(d, 1, i) \in Seq(0..9)
    <2>1. ASSUME NEW i \in 0..n
          PROVE  SubSeq(d, 1, i) \in Seq(0..9)
      <3>1. \A j \in 1..i : j \in 1..n
        BY <1>1
      <3>2. \A j \in 1..i : d[j] \in 0..9
        BY <1>4, <3>1
      <3>3. 1 \in Int /\ i \in Int
        OBVIOUS
      <3>4. QED
        BY <3>2, <3>3, SubSeqProperties
    <2>2. QED
      BY <2>1
  <1>15. ASSUME NEW k \in Nat, 2*(k + 1) <= n
         PROVE  SubSeq(d, 1, 2*(k + 1)) = SubSeq(d, 1, 2*k) \o Piece(k + 1)
    <2> DEFINE i == 2*k
               x == d[i + 1]
               y == d[i + 2]
               u == SubSeq(d, 1, i)
    <2>1. /\ i + 1 \in 1..n /\ i + 2 \in 1..n /\ i \in 0..n
          /\ (i + 1) - 1 = i /\ (i + 2) - 1 = i + 1
          /\ 2*(k + 1) - 1 = i + 1 /\ 2*(k + 1) = i + 2
      BY <1>1, <1>15
    <2>2. Piece(k + 1) = <<x, y>>
      BY <1>15, <2>1
    <2>3. x \in 0..9 /\ y \in 0..9 /\ u \in Seq(0..9)
      BY <1>4, <1>14, <2>1
    <2>4. SubSeq(d, 1, i + 1) = u \o <<x>>
      BY <1>13, <2>1
    <2>5. SubSeq(d, 1, i + 2) = (u \o <<x>>) \o <<y>>
      BY <1>13, <2>1, <2>4
    <2> HIDE DEF u, x, y
    <2>6. <<x>> \in Seq(0..9) /\ <<y>> \in Seq(0..9) /\ <<x>> \o <<y>> = <<x, y>>
      <3>1. \A v \in 0..9 : <<v>> \in Seq(0..9)
        OBVIOUS
      <3>2. \A c, v \in 0..9 : <<c>> \o <<v>> = <<c, v>>
        BY PairConcat
      <3>3. QED
        BY <2>3, <3>1, <3>2
    <2>7. (u \o <<x>>) \o <<y>> = u \o (<<x>> \o <<y>>)
      BY <2>3, <2>6, ConcatAssociative
    <2>8. SubSeq(d, 1, i + 2) = u \o <<x, y>>
      BY <2>5, <2>6, <2>7
    <2>9. SubSeq(d, 1, 2*(k + 1)) = u \o Piece(k + 1)
      BY <2>1, <2>2, <2>8
    <2>10. QED
      BY <2>9 DEF u
  <1> DEFINE S == {k \in Nat : k >= 1 /\ 2*k <= n => f[k] = SubSeq(d, 1, 2*k)}
  <1>16. 0 \in S
    OBVIOUS
  <1>17. ASSUME NEW k \in Nat, k \in S
         PROVE  k + 1 \in S
    <2> SUFFICES ASSUME 2*(k + 1) <= n
                 PROVE  f[k + 1] = SubSeq(d, 1, 2*(k + 1))
      OBVIOUS
    <2>1. k + 1 \in 1..h /\ (k + 1) - 1 = k
      BY <1>1, <1>2
    <2>2. f[k + 1] = IF k + 1 = 1 THEN Piece(k + 1) ELSE f[k] \o Piece(k + 1)
      BY <1>9, <1>12, <2>1
    <2>3. SubSeq(d, 1, 2*(k + 1)) = SubSeq(d, 1, 2*k) \o Piece(k + 1)
      BY <1>15
    <2> HIDE DEF Piece
    <2>4. CASE k = 0
      <3>1. SubSeq(d, 1, 2*k) = <<>>
        <4>1. 1 \in Int /\ 2*k \in Int /\ 2*k < 1
          BY <2>4
        <4>2. QED
          BY <4>1, SubSeqEmpty
      <3>2. Piece(k + 1) \in Seq(0..9)
        <4>1. g[k + 1] \in Seq(0..9)
          BY <1>10, <2>1, ElementOfSeq
        <4>2. QED
          BY <1>9, <2>1, <4>1
      <3>3. <<>> \o Piece(k + 1) = Piece(k + 1)
        BY <3>2, ConcatEmptySeq
      <3>4. f[k + 1] = Piece(k + 1)
        BY <2>2, <2>4
      <3>5. QED
        BY <2>3, <3>1, <3>3, <3>4
    <2>5. CASE k # 0
      <3>1. k >= 1 /\ 2*k <= n /\ k + 1 # 1
        BY <1>1, <2>5
      <3>2. f[k] = SubSeq(d, 1, 2*k)
        BY <1>17, <3>1
      <3>3. QED
        BY <2>2, <2>3, <3>1, <3>2
    <2>6. QED
      BY <2>4, <2>5
  <1> HIDE DEF S
  <1>18. \A k \in Nat : k \in S
    BY <1>16, <1>17, NatSetInduction
  <1>19. f[h] = d
    <2>1. SubSeq(d, 1, n) = d
      BY SubSeqFull DEF n
    <2>2. CASE n = 2*h
      <3>1. f[h] = SubSeq(d, 1, 2*h)
        BY <1>1, <1>2, <1>18, <2>2 DEF S
      <3>2. QED
        BY <2>1, <2>2, <3>1
    <2>3. CASE n = 2*h - 1
      <3>1. h \in 1..h /\ ~(2*h <= n)
        BY <1>2, <2>3
      <3>2. g[h] = <<d[n]>>
        BY <1>9, <2>3, <3>1
      <3>3. f[h] = IF h = 1 THEN <<d[n]>> ELSE f[h - 1] \o <<d[n]>>
        BY <1>12, <3>1, <3>2
      <3>4. n \in 1..n
        BY <1>1
      <3>5. d = SubSeq(d, 1, n - 1) \o <<d[n]>>
        BY <1>13, <2>1, <3>4
      <3>6. CASE h = 1
        <4>1. SubSeq(d, 1, n - 1) = <<>>
          <5>1. 1 \in Int /\ n - 1 \in Int /\ n - 1 < 1
            BY <2>3, <3>6
          <5>2. QED
            BY <5>1, SubSeqEmpty
        <4>2. <<d[n]>> \in Seq(0..9)
          BY <1>4, <3>4
        <4>3. <<>> \o <<d[n]>> = <<d[n]>>
          BY <4>2, ConcatEmptySeq
        <4>4. f[h] = <<d[n]>>
          BY <3>3, <3>6
        <4>5. QED
          BY <3>5, <4>1, <4>3, <4>4
      <3>7. CASE h # 1
        <4>1. h - 1 \in Nat /\ h - 1 >= 1 /\ 2*(h - 1) <= n /\ 2*(h - 1) = n - 1
          BY <1>2, <2>3, <3>7
        <4>2. f[h - 1] = SubSeq(d, 1, 2*(h - 1))
          BY <1>18, <4>1 DEF S
        <4>3. QED
          BY <3>3, <3>5, <3>7, <4>1, <4>2
      <3>8. QED
        BY <3>6, <3>7
    <2>4. QED
      BY <1>2, <2>2, <2>3
  <1>20. Digits(pairs) = d
    BY <1>8, <1>11, <1>19
  <1>21. Len(pairs) >= 1 /\ \A k \in 1..Len(pairs) : pairs[k] \in 1..100
    <2>1. \A k \in 1..h : pairs[k] \in 1..100
      <3>1. ASSUME NEW k \in 1..h
            PROVE  pairs[k] \in 1..100
        <4>1. P(k) \in 1..100
          BY <1>7
        <4> HIDE DEF P
        <4>2. QED
          BY <1>5, <4>1
      <3>2. QED
        BY <3>1
    <2>2. Len(pairs) = h /\ h >= 1
      BY <1>2, <1>5
    <2>3. QED
      BY <2>1, <2>2
  <1>22. QED
    BY <1>20, <1>21 DEF pairs

-----------------------------------------------------------------------------
(* EncDecimal's local definitions: the digits up to the last that is not   *)
(* 0, and what follows the sign.                                           *)
Kept(sig) ==
    SubSeq(sig, 1, CHOOSE n \in 0..Len(sig) :
                      /\ n = 0 \/ sig[n] # 0
                      /\ \A i \in (n + 1)..Len(sig) : sig[i] = 0)
DecimalTail(adj, kept) == EncAdjExp(adj) \o DigitPairs(kept) \o <<TERMINATOR>>
DecimalForm(negative, adj, kept) ==
    <<DECIMAL, IF negative THEN DEC_SIGN_NEG ELSE DEC_SIGN_POS>> \o Signed(negative, DecimalTail(adj, kept))

LEMMA KeptProperties ==
    ASSUME NEW sig \in Seq(0..9), sig # <<>>, sig[1] # 0
    PROVE  /\ Kept(sig) \in Seq(0..9) /\ Len(Kept(sig)) \in 1..Len(sig)
           /\ Kept(sig)[1] # 0 /\ Kept(sig)[Len(Kept(sig))] # 0
  <1> DEFINE L == Len(sig)
             Stop(n) == (n = 0 \/ sig[n] # 0) /\ \A i \in (n + 1)..L : sig[i] = 0
             top == CHOOSE n \in 0..L : Stop(n)
             k == Kept(sig)
  <1>1. L \in Nat \ {0}
    BY EmptySeq
  <1>2. top \in 0..L /\ Stop(top)
    <2>1. \E n \in 0..L : Stop(n)
      BY <1>1, LastSignificant
    <2> HIDE DEF Stop
    <2>2. QED
      BY <2>1, Zenon
  <1>3. k = SubSeq(sig, 1, top)
    BY Zenon DEF Kept
  <1> HIDE DEF top, L, k
  <1>4. top # 0
    <2>1. 1 \in (0 + 1)..L
      BY <1>1
    <2>2. QED
      BY <1>2, <2>1
  <1>5. top \in 1..L
    BY <1>1, <1>2, <1>4
  <1>6. \A i \in 1..top : sig[i] \in 0..9
    <2>1. \A i \in 1..top : i \in 1..L
      BY <1>1, <1>5
    <2>2. QED
      BY <2>1, ElementOfSeq DEF L
  <1>7. k \in Seq(0..9) /\ Len(k) = top /\ \A i \in 1..top : k[i] = sig[i]
    <2>1. 1 \in Int /\ top \in Int /\ 1 <= top /\ (top - 1) + 1 = top /\ top - 1 + 1 = top
      BY <1>1, <1>5
    <2>2. /\ k \in Seq(0..9)
          /\ Len(k) = IF 1 <= top THEN top - 1 + 1 ELSE 0
          /\ \A i \in 1..(top - 1 + 1) : k[i] = sig[1 + i - 1]
      BY <1>3, <1>6, <2>1, SubSeqProperties
    <2>3. \A i \in 1..top : 1 + i - 1 = i
      BY <1>5
    <2>4. QED
      BY <2>1, <2>2, <2>3
  <1>8. 1 \in 1..top /\ top \in 1..top
    BY <1>1, <1>5
  <1>9. k[1] # 0 /\ k[top] # 0
    BY <1>2, <1>4, <1>7, <1>8
  <1>10. QED
    BY <1>5, <1>7, <1>9 DEF k, L

LEMMA KeptIdentity ==
    ASSUME NEW d \in Seq(0..9), d # <<>>, d[Len(d)] # 0
    PROVE  Kept(d) = d
  <1> DEFINE L == Len(d)
             Stop(n) == (n = 0 \/ d[n] # 0) /\ \A i \in (n + 1)..L : d[i] = 0
             top == CHOOSE n \in 0..L : Stop(n)
  <1>1. L \in Nat \ {0}
    BY EmptySeq
  <1>2. top \in 0..L /\ Stop(top)
    <2>1. \E n \in 0..L : Stop(n)
      BY <1>1, LastSignificant
    <2> HIDE DEF Stop
    <2>2. QED
      BY <2>1, Zenon
  <1>3. Kept(d) = SubSeq(d, 1, top)
    BY Zenon DEF Kept
  <1> HIDE DEF top
  <1>4. top = L
    <2> SUFFICES ASSUME top # L PROVE FALSE
      OBVIOUS
    <2>1. L \in (top + 1)..L
      BY <1>1, <1>2
    <2>2. QED
      BY <1>2, <2>1
  <1>5. QED
    BY <1>3, <1>4, SubSeqFull

LEMMA DecimalTailBytes ==
    ASSUME NEW adj \in Int, InExpRange(adj), NEW kept \in Seq(0..9)
    PROVE  /\ EncAdjExp(adj) \in Seq(Byte) /\ DigitPairs(kept) \in Seq(Byte) /\ <<TERMINATOR>> \in Seq(Byte)
           /\ DigitPairs(kept) \o <<TERMINATOR>> \in Seq(Byte)
           /\ DecimalTail(adj, kept) = EncAdjExp(adj) \o (DigitPairs(kept) \o <<TERMINATOR>>)
           /\ DecimalTail(adj, kept) \in Seq(Byte)
  <1> DEFINE x == EncAdjExp(adj)
             y == DigitPairs(kept)
             z == <<TERMINATOR>>
  <1>1. x \in Seq(Byte) /\ y \in Seq(Byte)
    BY EncAdjExpBytes, DigitPairsBytes
  <1>2. z \in Seq(Byte)
    BY DEF TERMINATOR, Byte
  <1>3. DecimalTail(adj, kept) = (x \o y) \o z
    BY Zenon DEF DecimalTail
  <1> HIDE DEF x, y, z
  <1>4. y \o z \in Seq(Byte) /\ (x \o y) \o z = x \o (y \o z)
    BY <1>1, <1>2, ConcatProperties, ConcatAssociative, SMTT(30)
  <1>5. x \o (y \o z) \in Seq(Byte)
    BY <1>1, <1>4, ConcatProperties
  <1>6. QED
    BY <1>1, <1>2, <1>3, <1>4, <1>5 DEF x, y, z

LEMMA EncDecimalForms ==
    ASSUME NEW negative, NEW digits \in Seq(0..9), NEW exp \in Int
    PROVE  /\ Trimmed(digits) = <<>> => EncDecimal(negative, digits, exp) = <<DECIMAL, DEC_SIGN_ZERO>>
           /\ Trimmed(digits) # <<>> /\ DecimalRejected(digits, exp) => EncDecimal(negative, digits, exp) = <<>>
           /\ Trimmed(digits) # <<>> /\ ~DecimalRejected(digits, exp) =>
                /\ InExpRange(Len(Trimmed(digits)) + exp)
                /\ EncDecimal(negative, digits, exp) =
                      DecimalForm(negative, Len(Trimmed(digits)) + exp, Kept(Trimmed(digits)))
  <1> DEFINE sig == Trimmed(digits)
             adj == Len(sig) + exp
             kept == Kept(sig)
             tail == DecimalTail(adj, kept)
             form == <<DECIMAL, IF negative THEN DEC_SIGN_NEG ELSE DEC_SIGN_POS>> \o Signed(negative, tail)
             stored[t \in Seq(Byte)] ==
                <<DECIMAL, IF negative THEN DEC_SIGN_NEG ELSE DEC_SIGN_POS>> \o Signed(negative, t)
  <1>1. sig = <<>> => EncDecimal(negative, digits, exp) = <<DECIMAL, DEC_SIGN_ZERO>>
    BY Zenon DEF EncDecimal, DecimalRejected
  <1>2. sig # <<>> /\ DecimalRejected(digits, exp) => EncDecimal(negative, digits, exp) = <<>>
    BY Zenon DEF EncDecimal
  <1>3. ASSUME sig # <<>>, ~DecimalRejected(digits, exp)
        PROVE  InExpRange(adj) /\ EncDecimal(negative, digits, exp) = DecimalForm(negative, adj, kept)
    <2>1. InExpRange(adj)
      BY <1>3, Zenon DEF DecimalRejected
    <2>2. EncDecimal(negative, digits, exp) = stored[tail]
      BY <1>3, Zenon DEF EncDecimal, DecimalTail, Kept
    <2>3. tail \in Seq(Byte)
      <3>1. sig \in Seq(0..9) /\ sig[1] # 0 /\ Len(sig) \in Nat
        BY <1>3, TrimmedProperties
      <3> HIDE DEF sig
      <3>2. kept \in Seq(0..9) /\ adj \in Int
        BY <1>3, <3>1, KeptProperties
      <3>3. QED
        BY <2>1, <3>2, DecimalTailBytes
    <2> HIDE DEF tail
    <2>4. stored[tail] = form
      BY <2>3, Zenon
    <2> HIDE DEF stored
    <2>5. form = DecimalForm(negative, adj, kept)
      BY Zenon DEF DecimalForm, tail
    <2>6. QED
      BY <2>1, <2>2, <2>4, <2>5, Zenon
  <1> HIDE DEF stored, form, tail
  <1>4. QED
    BY <1>1, <1>2, <1>3, Zenon

LEMMA WrapExpRange ==
    ASSUME NEW e \in Int
    PROVE  WrapExp(e) \in Int /\ InExpRange(WrapExp(e)) /\ (InExpRange(e) => WrapExp(e) = e)
  <1> DEFINE n == 2 * (MaxExp + 1)
             x == (e + MaxExp + 1) % n
  <1>1. MaxExp \in Nat /\ n \in Nat \ {0} /\ n = 2*MaxExp + 2
    BY WidthAssumption
  <1>2. WrapExp(e) = x - (MaxExp + 1)
    BY DEF WrapExp
  <1>3. x \in 0..(n - 1)
    <2> DEFINE y == e + MaxExp + 1
    <2>1. y \in Int
      BY <1>1
    <2> HIDE DEF y, n
    <2>2. y % n \in 0..(n - 1)
      BY <1>1, <2>1
    <2>3. QED
      BY <2>2 DEF y
  <1>4. InExpRange(e) => x = e + MaxExp + 1
    <2> DEFINE y == e + MaxExp + 1
    <2>1. InExpRange(e) => y \in 0..(n - 1)
      BY <1>1 DEF InExpRange
    <2> HIDE DEF y, n
    <2>2. \A v \in 0..(n - 1) : v % n = v
      BY <1>1
    <2>3. QED
      BY <2>1, <2>2 DEF y
  <1> HIDE DEF x, n
  <1>5. QED
    BY <1>1, <1>2, <1>3, <1>4 DEF InExpRange

(* The digits end at the first terminator, since no stored pair is one.    *)
LEMMA PairsRead ==
    ASSUME NEW b \in Seq(Byte), NEW z \in 0..Len(b), NEW negative \in BOOLEAN, NEW kept \in Seq(0..9),
           kept # <<>>, kept[Len(kept)] # 0, NEW adj \in Int,
           At(b, z, Signed(negative, DigitPairs(kept) \o <<TERMINATOR>>))
    PROVE  DecimalAfter(b, negative, Decoded(z, adj)) =
              Decoded(z + Len(DigitPairs(kept)) + 1,
                      [kind |-> "decimal", neg |-> negative, digits |-> kept, exp |-> adj - Len(kept)])
  <1> DEFINE y == DigitPairs(kept)
             n == Len(y)
             c == <<TERMINATOR>>
             e == (z + n) + 1
             stop == IF negative THEN 255 ELSE 0
             ends == {i \in (z + 1)..Len(b) : b[i] = stop}
             el == [kind |-> "decimal", neg |-> negative, digits |-> kept, exp |-> adj - Len(kept)]
  <1>1. /\ y \in Seq(Byte) /\ n \in Nat /\ n >= 1 /\ Digits(y) = kept
        /\ \A k \in 1..n : y[k] \in 1..100
    BY DigitPairsBytes, DigitsBack, LenProperties
  <1>2. c \in Seq(Byte) /\ Len(c) = 1 /\ c[1] = 0
    BY DEF TERMINATOR, Byte
  <1>3. Len(b) \in Nat /\ z \in Nat
    BY LenProperties
  <1> HIDE DEF y, n, c
  <1>4. /\ CanTake(b, z, n) /\ Signed(negative, Bytes(b, z, n)) = y
        /\ z + n \in 0..Len(b) /\ At(b, z, Signed(negative, y)) /\ At(b, z + n, Signed(negative, c))
    <2>1. At(b, z, Signed(negative, y \o c))
      BY DEF y, c
    <2>2. /\ CanTake(b, z, Len(y)) /\ Signed(negative, Bytes(b, z, Len(y))) = y
          /\ z + Len(y) \in 0..Len(b) /\ At(b, z, Signed(negative, y)) /\ At(b, z + Len(y), Signed(negative, c))
      BY <1>1, <1>2, <2>1, SignedAt
    <2>3. QED
      BY <2>2 DEF n
  <1>5. e <= Len(b) /\ b[e] = stop
    <2> DEFINE w == Signed(negative, c)
    <2>1. Len(w) = 1 /\ w[1] = stop
      <3>1. Len(w) = Len(c)
        BY <1>2, ComplementBytes
      <3>2. 1 \in DOMAIN c
        BY <1>2, LenProperties
      <3>3. Complement(c)[1] = 255 - c[1]
        BY <3>2 DEF Complement
      <3>4. QED
        BY <1>2, <3>1, <3>3 DEF Signed
    <2> HIDE DEF w
    <2>2. (z + n) + Len(w) <= Len(b) /\ \A k \in 1..Len(w) : b[(z + n) + k] = w[k]
      BY <1>4 DEF At, w
    <2>3. 1 \in 1..Len(w)
      BY <2>1
    <2>4. b[(z + n) + 1] = w[1]
      BY <2>2, <2>3
    <2>5. QED
      BY <2>1, <2>2, <2>4
  <1>6. ASSUME NEW k \in 1..n
        PROVE  b[z + k] # stop
    <2> DEFINE w == Signed(negative, y)
    <2>1. Len(w) = n /\ w[k] = IF negative THEN 255 - y[k] ELSE y[k]
      <3>1. Len(w) = n
        BY <1>1, ComplementBytes DEF n
      <3>2. k \in DOMAIN y
        BY <1>1, LenProperties DEF n
      <3>3. Complement(y)[k] = 255 - y[k]
        BY <3>2 DEF Complement
      <3>4. QED
        BY <3>1, <3>3 DEF Signed
    <2> HIDE DEF w
    <2>2. b[z + k] = w[k]
      BY <1>4, <2>1 DEF At, w
    <2> DEFINE v == y[k]
    <2>3. v \in 1..100
      BY <1>1
    <2>4. w[k] = IF negative THEN 255 - v ELSE v
      BY <2>1
    <2> HIDE DEF v
    <2>5. v # 0 /\ 255 - v # 255
      BY <2>3
    <2>6. QED
      BY <2>2, <2>4, <2>5
  <1> HIDE DEF stop, e, ends
  <1>7. e \in ends
    BY <1>1, <1>3, <1>5 DEF ends, e
  <1>8. ASSUME NEW i \in ends
        PROVE  e <= i
    <2> SUFFICES ASSUME ~(e <= i)
                 PROVE  FALSE
      OBVIOUS
    <2>1. i \in (z + 1)..Len(b) /\ b[i] = stop
      BY DEF ends
    <2>2. i - z \in 1..n /\ z + (i - z) = i
      BY <1>1, <1>3, <2>1 DEF e
    <2>3. b[z + (i - z)] # stop
      BY <1>6, <2>2
    <2>4. QED
      BY <2>1, <2>2, <2>3
  <1>9. ends \in SUBSET Nat
    BY <1>3 DEF ends
  <1>10. FirstOf(ends) = e /\ ends # {}
    BY <1>7, <1>8, <1>9, FirstOfIs
  <1>11. ReadDigits(b, negative, adj, z, e) = Decoded(e, el)
    <2>1. Signed(negative, SubSeq(b, z + 1, e - 1)) = y
      <3>1. e - 1 = z + n
        BY <1>1, <1>3 DEF e
      <3>2. QED
        BY <1>4, <3>1 DEF Bytes
    <2>2. e # z + 1
      BY <1>1, <1>3 DEF e
    <2>3. ~\E k \in DOMAIN y : y[k] \notin 1..100
      BY <1>1, LenProperties DEF n
    <2>4. ReadDigits(b, negative, adj, z, e) =
            Decoded(e, [kind |-> "decimal", neg |-> negative, digits |-> Digits(y), exp |-> adj - Len(Digits(y))])
      BY <2>1, <2>2, <2>3, Zenon DEF ReadDigits
    <2>5. QED
      BY <1>1, <2>4
  <1>12. DecimalAfter(b, negative, Decoded(z, adj)) = ReadDigits(b, negative, adj, z, e)
    <2> DEFINE r == Decoded(z, adj)
    <2>1. r.rc = 1 /\ r.pos = z /\ r.el = adj
      BY DEF Decoded
    <2> HIDE DEF r
    <2>2. ends = {i \in (r.pos + 1)..Len(b) : b[i] = IF negative THEN 255 ELSE 0}
      BY <2>1 DEF ends, stop
    <2>3. DecimalAfter(b, negative, r) = ReadDigits(b, negative, r.el, r.pos, FirstOf(ends))
      BY <1>10, <2>1, <2>2 DEF DecimalAfter
    <2>4. QED
      BY <1>10, <2>1, <2>3 DEF r
  <1>13. e = z + n + 1
    BY <1>1, <1>3 DEF e
  <1>14. QED
    BY <1>11, <1>12, <1>13 DEF n, y

(* The decimals append_decimal writes.  Digits without zeros at either end *)
(* and an exponent lowered by their number are written as they were.       *)
LEMMA DecimalFormStable ==
    ASSUME NEW negative \in BOOLEAN, NEW adj \in Int, InExpRange(adj), NEW kept \in Seq(0..9),
           kept # <<>>, kept[1] # 0, kept[Len(kept)] # 0, InExpRange(adj - Len(kept))
    PROVE  /\ Stable(DecimalForm(negative, adj, kept))
           /\ Next(DecimalForm(negative, adj, kept), 0).el =
                [kind |-> "decimal", neg |-> negative, digits |-> kept, exp |-> adj - Len(kept)]
  <1> DEFINE sign == IF negative THEN DEC_SIGN_NEG ELSE DEC_SIGN_POS
             tail == DecimalTail(adj, kept)
             x == EncAdjExp(adj)
             y == DigitPairs(kept)
             c == <<TERMINATOR>>
             body == Signed(negative, tail)
             s == DecimalForm(negative, adj, kept)
             el == [kind |-> "decimal", neg |-> negative, digits |-> kept, exp |-> adj - Len(kept)]
  <1>1. /\ x \in Seq(Byte) /\ y \in Seq(Byte) /\ c \in Seq(Byte) /\ y \o c \in Seq(Byte)
        /\ tail = x \o (y \o c) /\ tail \in Seq(Byte) /\ Len(c) = 1
    BY DecimalTailBytes
  <1>2. body \in Seq(Byte) /\ Len(body) = Len(tail)
    BY <1>1, ComplementBytes
  <1>3. sign \in Byte /\ DECIMAL \in Byte /\ DECIMAL # 255
    BY DEF DEC_SIGN_NEG, DEC_SIGN_POS, DECIMAL, Byte
  <1>4. /\ sign # DEC_SIGN_ZERO /\ sign \in {DEC_SIGN_NEG, DEC_SIGN_POS}
        /\ (sign = DEC_SIGN_NEG) = negative
    BY DEF DEC_SIGN_NEG, DEC_SIGN_POS, DEC_SIGN_ZERO
  <1>5. s = <<DECIMAL, sign>> \o body
    BY Zenon DEF DecimalForm
  <1>6. EncElement(el) = s
    <2>1. kept \in Seq(0..9) /\ Len(kept) \in Nat /\ Len(kept) >= 1
      BY EmptySeq
    <2>2. el.kind = "decimal" /\ el.neg = negative /\ el.digits = kept /\ el.exp = adj - Len(kept)
      OBVIOUS
    <2> HIDE DEF el, s
    <2>3. EncElement(el) = EncDecimal(negative, kept, WrapExp(adj - Len(kept)))
      BY <2>2, FramedCodes DEF EncElement
    <2> DEFINE v == adj - Len(kept)
    <2>4. v \in Int /\ Len(kept) + v = adj
      BY <2>1
    <2>5. WrapExp(v) = v
      BY <2>4, WrapExpRange
    <2>6. Trimmed(kept) = kept /\ Kept(kept) = kept
      BY TrimmedIdentity, KeptIdentity
    <2> HIDE DEF v
    <2>7. ~DecimalRejected(kept, v)
      BY <2>4, <2>6, Zenon DEF DecimalRejected
    <2>8. EncDecimal(negative, kept, v) = DecimalForm(negative, Len(kept) + v, Kept(kept))
      <3>1. /\ Trimmed(kept) # <<>> /\ ~DecimalRejected(kept, v)
        BY <2>6, <2>7
      <3>2. EncDecimal(negative, kept, v) = DecimalForm(negative, Len(Trimmed(kept)) + v, Kept(Trimmed(kept)))
        BY <2>4, <3>1, EncDecimalForms
      <3>3. QED
        BY <2>6, <3>2
    <2>9. QED
      BY <2>3, <2>4, <2>5, <2>6, <2>8 DEF v, s
  <1> HIDE DEF sign, tail, x, y, c, body, s, el
  <1> DEFINE rest == <<sign>> \o body
             mark == <<sign>>
  <1>7. s = <<DECIMAL>> \o rest /\ rest \in Seq(Byte) /\ mark \in Seq(Byte) /\ Len(mark) = 1 /\ mark[1] = sign
    <2>1. <<DECIMAL>> \in Seq(Byte) /\ <<sign>> \in Seq(Byte) /\ <<DECIMAL>> \o <<sign>> = <<DECIMAL, sign>>
      BY <1>3, PairConcat
    <2>2. (<<DECIMAL>> \o <<sign>>) \o body = <<DECIMAL>> \o (<<sign>> \o body)
      BY <1>2, <2>1, ConcatAssociative
    <2>3. <<sign>> \o body \in Seq(Byte)
      BY <1>2, <2>1, ConcatProperties
    <2>4. Len(<<sign>>) = 1 /\ <<sign>>[1] = sign
      OBVIOUS
    <2>5. QED
      BY <1>5, <2>1, <2>2, <2>3, <2>4
  <1>8. rest = mark \o body
    OBVIOUS
  <1> HIDE DEF rest, mark
  <1>9. s # <<>> /\ s[1] # 255
    BY <1>3, <1>7, CodedHead
  <1>10. ASSUME NEW b \in Seq(Byte), NEW p \in 0..Len(b), At(b, p, s)
         PROVE  Next(b, p) = Decoded(p + Len(s), el)
    <2> DEFINE q == p + 1
               z == (q + 1) + Len(x)
    <2>1. At(b, p, <<DECIMAL>> \o rest)
      BY <1>7, <1>10
    <2>2. /\ q \in 0..Len(b) /\ Next(b, p) = DecodeElement(b, DECIMAL, q) /\ At(b, q, rest)
          /\ p + Len(<<DECIMAL>> \o rest) = q + Len(rest)
      BY <1>3, <1>7, <2>1, NextCode
    <2> HIDE DEF q
    <2>3. At(b, q, mark \o body)
      BY <1>8, <2>2
    <2>4. /\ At(b, q, mark) /\ q + Len(mark) \in 0..Len(b) /\ At(b, q + Len(mark), body)
          /\ q + Len(mark \o body) = (q + Len(mark)) + Len(body)
      BY <1>2, <1>7, <2>2, <2>3, AtConcat
    <2>5. q + 1 \in 0..Len(b) /\ At(b, q + 1, body) /\ q + Len(rest) = (q + 1) + Len(body)
      BY <1>7, <1>8, <2>4
    <2>6. b[q + 1] = sign
      BY <1>7, <2>4 DEF At
    <2>7. CanTake(b, q, 1)
      <3>1. Len(b) \in Nat
        BY LenProperties
      <3>2. QED
        BY <2>2, <2>5, <3>1 DEF CanTake
    <2>8. At(b, q + 1, Signed(negative, x \o (y \o c)))
      BY <1>1, <2>5 DEF body
    <2> DEFINE q1 == q + 1
    <2>9. q1 \in 0..Len(b) /\ At(b, q1, Signed(negative, x \o (y \o c)))
      BY <2>5, <2>8
    <2> HIDE DEF q1
    <2>10. ReadExponent(b, negative, q1) = Decoded(q1 + Len(x), adj)
      <3> DEFINE u == y \o c
      <3>1. u \in Seq(Byte) /\ At(b, q1, Signed(negative, EncAdjExp(adj) \o u))
        BY <1>1, <2>9 DEF x
      <3> HIDE DEF u
      <3>2. ReadExponent(b, negative, q1) = Decoded(q1 + Len(EncAdjExp(adj)), adj)
        BY <2>9, <3>1, AdjExpRead
      <3>3. QED
        BY <3>2 DEF x
    <2>11. q1 + Len(x) \in 0..Len(b) /\ At(b, q1 + Len(x), Signed(negative, y \o c))
      BY <1>1, <2>9, SignedAt
    <2>12. DecimalAfter(b, negative, Decoded(q1 + Len(x), adj)) = Decoded((q1 + Len(x)) + Len(y) + 1, el)
      <3> DEFINE w == q1 + Len(x)
      <3>1. w \in 0..Len(b) /\ At(b, w, Signed(negative, DigitPairs(kept) \o <<TERMINATOR>>))
        BY <2>11 DEF y, c
      <3> HIDE DEF w
      <3>2. DecimalAfter(b, negative, Decoded(w, adj)) = Decoded(w + Len(DigitPairs(kept)) + 1, el)
        BY <3>1, PairsRead DEF el
      <3>3. QED
        BY <3>2 DEF w, y
    <2>13. ReadDecimal(b, q) = Decoded((q1 + Len(x)) + Len(y) + 1, el)
      <3>1. ReadDecimal(b, q) = DecimalAfter(b, b[q + 1] = DEC_SIGN_NEG, ReadExponent(b, b[q + 1] = DEC_SIGN_NEG, q + 1))
        BY <1>4, <2>6, <2>7, Zenon DEF ReadDecimal
      <3>2. (b[q + 1] = DEC_SIGN_NEG) = negative
        BY <1>4, <2>6
      <3>3. ReadDecimal(b, q) = DecimalAfter(b, negative, ReadExponent(b, negative, q1))
        BY <3>1, <3>2 DEF q1
      <3>4. QED
        BY <2>10, <2>12, <3>3
    <2>14. (q1 + Len(x)) + Len(y) + 1 = p + Len(s)
      <3>1. Len(tail) = Len(x) + (Len(y) + Len(c))
        <4> DEFINE u == y \o c
        <4>1. u \in Seq(Byte) /\ tail = x \o u
          BY <1>1
        <4>2. Len(u) = Len(y) + Len(c)
          BY <1>1, ConcatProperties
        <4> HIDE DEF u
        <4>3. Len(tail) = Len(x) + Len(u)
          BY <1>1, <4>1, ConcatProperties
        <4>4. QED
          BY <4>2, <4>3
      <3>2. Len(x) \in Nat /\ Len(y) \in Nat /\ Len(c) = 1
        BY <1>1, LenProperties
      <3>3. p + Len(s) = q1 + Len(tail)
        BY <1>2, <1>7, <2>2, <2>5 DEF q1
      <3>4. q1 \in Nat
        BY <2>9
      <3>5. QED
        BY <3>1, <3>2, <3>3, <3>4
    <2>15. QED
      BY <2>2, <2>13, <2>14, DecimalDispatch
  <1>11. ASSUME NEW b \in Seq(Byte), NEW p \in 0..Len(b), At(b, p, s)
         PROVE  Next(b, p).rc = 1 /\ Next(b, p).pos = p + Len(s) /\ EncElement(Next(b, p).el) = s
    BY <1>6, <1>10, <1>11 DEF Decoded
  <1>12. Stable(s)
    BY <1>9, <1>11 DEF Stable
  <1>13. s \in Seq(Byte)
    BY <1>3, <1>7, ConcatProperties
  <1>14. Next(s, 0).el = el
    BY <1>10, <1>13, SelfAt DEF Decoded
  <1>15. QED
    BY <1>12, <1>14 DEF s, el

(* The element that the bytes of a decimal read as.                        *)
DecimalRead(negative, digits, exp) ==
    IF Trimmed(digits) = <<>> THEN [kind |-> "decimal", neg |-> FALSE, digits |-> <<>>, exp |-> 0]
    ELSE [kind |-> "decimal", neg |-> negative, digits |-> Kept(Trimmed(digits)),
          exp |-> (Len(Trimmed(digits)) + exp) - Len(Kept(Trimmed(digits)))]

LEMMA DecimalStable ==
    ASSUME NEW negative \in BOOLEAN, NEW digits \in Seq(0..9), NEW exp \in Int, InExpRange(exp)
    PROVE  IF DecimalRejected(digits, exp) THEN EncDecimal(negative, digits, exp) = <<>>
           ELSE /\ Stable(EncDecimal(negative, digits, exp))
                /\ Next(EncDecimal(negative, digits, exp), 0).el = DecimalRead(negative, digits, exp)
  <1> DEFINE sig == Trimmed(digits)
             kept == Kept(sig)
             adj == Len(sig) + exp
  <1>1. CASE sig = <<>>
    <2> DEFINE s == <<DECIMAL, DEC_SIGN_ZERO>>
               el == [kind |-> "decimal", neg |-> FALSE, digits |-> <<>>, exp |-> 0]
               mark == <<DEC_SIGN_ZERO>>
    <2>1. EncDecimal(negative, digits, exp) = s
      BY <1>1, EncDecimalForms
    <2>2. /\ DECIMAL \in Byte /\ DEC_SIGN_ZERO \in Byte /\ DECIMAL # 255
          /\ mark \in Seq(Byte) /\ Len(mark) = 1 /\ mark[1] = DEC_SIGN_ZERO /\ Len(s) = 2
      BY DEF DECIMAL, DEC_SIGN_ZERO, Byte
    <2>3. s = <<DECIMAL>> \o mark
      BY <2>2, PairConcat
    <2>4. EncElement(el) = s
      <3>1. el.kind = "decimal" /\ el.neg = FALSE /\ el.digits = <<>> /\ el.exp = 0
        OBVIOUS
      <3> HIDE DEF el, s
      <3>2. EncElement(el) = EncDecimal(FALSE, <<>>, WrapExp(0))
        BY <3>1, FramedCodes DEF EncElement
      <3>3. Trimmed(<<>>) = <<>> /\ <<>> \in Seq(0..9) /\ WrapExp(0) \in Int
        <4>1. <<>> \in Seq(0..9)
          OBVIOUS
        <4>2. Trimmed(<<>>) = <<>>
          BY TrimmedZeros
        <4>3. QED
          BY <4>1, <4>2, WrapExpRange
      <3>4. EncDecimal(FALSE, <<>>, WrapExp(0)) = s
        BY <3>3, EncDecimalForms DEF s
      <3>5. QED
        BY <3>2, <3>4
    <2> HIDE DEF s, mark, el
    <2>5. s # <<>> /\ s[1] # 255
      BY <2>2, <2>3, CodedHead
    <2>6. ASSUME NEW b \in Seq(Byte), NEW p \in 0..Len(b), At(b, p, s)
          PROVE  /\ Next(b, p).rc = 1 /\ Next(b, p).pos = p + Len(s)
                 /\ EncElement(Next(b, p).el) = s /\ Next(b, p).el = el
      <3> DEFINE q == p + 1
      <3>1. At(b, p, <<DECIMAL>> \o mark)
        BY <2>3, <2>6
      <3>2. /\ p + 1 \in 0..Len(b) /\ Next(b, p) = DecodeElement(b, DECIMAL, p + 1)
            /\ At(b, p + 1, mark) /\ CanTake(b, p + 1, Len(mark))
        <4>1. DECIMAL \in Byte /\ mark \in Seq(Byte)
          BY <2>2
        <4>2. QED
          BY <3>1, <4>1, NextCode, Zenon
      <3> HIDE DEF q
      <3>3. b[q + 1] = DEC_SIGN_ZERO /\ CanTake(b, q, 1)
        BY <2>2, <3>2 DEF At, q
      <3>4. ReadDecimal(b, q) = Decoded(q + 1, el)
        BY <3>3, Zenon DEF ReadDecimal, el
      <3>5. Next(b, p) = Decoded(q + 1, el)
        BY <3>2, <3>4, DecimalDispatch DEF q
      <3>6. q + 1 = p + Len(s)
        BY <2>2 DEF q
      <3>7. QED
        BY <2>4, <3>5, <3>6 DEF Decoded
    <2>7. Stable(s)
      BY <2>5, <2>6 DEF Stable
    <2>8. s \in Seq(Byte)
      BY <2>2, <2>3, ConcatProperties
    <2>9. Next(s, 0).el = el
      BY <2>6, <2>8, SelfAt
    <2>10. ~DecimalRejected(digits, exp)
      BY <1>1 DEF DecimalRejected
    <2>11. DecimalRead(negative, digits, exp) = el
      BY <1>1, Zenon DEF DecimalRead, el
    <2>12. QED
      BY <2>1, <2>7, <2>9, <2>10, <2>11
  <1>2. CASE sig # <<>> /\ DecimalRejected(digits, exp)
    BY <1>2, EncDecimalForms
  <1>3. CASE sig # <<>> /\ ~DecimalRejected(digits, exp)
    <2>1. InExpRange(adj) /\ EncDecimal(negative, digits, exp) = DecimalForm(negative, adj, kept)
      BY <1>3, EncDecimalForms
    <2>2. sig \in Seq(0..9) /\ sig[1] # 0 /\ Len(sig) \in Nat
      BY <1>3, TrimmedProperties
    <2> HIDE DEF sig
    <2>3. /\ kept \in Seq(0..9) /\ Len(kept) \in 1..Len(sig)
          /\ kept[1] # 0 /\ kept[Len(kept)] # 0
      BY <1>3, <2>2, KeptProperties
    <2> HIDE DEF kept
    <2>4. kept # <<>>
      BY <2>3, EmptySeq
    <2>5. MaxExp \in Nat
      BY WidthAssumption
    <2>6. adj \in Int /\ InExpRange(adj - Len(kept))
      BY <2>1, <2>2, <2>3, <2>5 DEF InExpRange
    <2> HIDE DEF adj
    <2>7. /\ Stable(DecimalForm(negative, adj, kept))
          /\ Next(DecimalForm(negative, adj, kept), 0).el =
               [kind |-> "decimal", neg |-> negative, digits |-> kept, exp |-> adj - Len(kept)]
      BY <2>1, <2>3, <2>4, <2>6, DecimalFormStable
    <2>8. DecimalRead(negative, digits, exp) =
            [kind |-> "decimal", neg |-> negative, digits |-> kept, exp |-> adj - Len(kept)]
      BY <1>3, Zenon DEF DecimalRead, sig, kept, adj
    <2>9. QED
      BY <1>3, <2>1, <2>7, <2>8
  <1>4. QED
    BY <1>1, <1>2, <1>3

-----------------------------------------------------------------------------
(* Integers come from the integer codes only.                              *)
Integers == {"int", "bigint"}
IntegerCodes == {INT_ZERO, INT_NEG_BIG, INT_POS_BIG} \cup FixedNeg \cup FixedPos

LEMMA OthersNoInteger ==
    ASSUME NEW b, NEW q, NEW t, t \notin IntegerCodes, DecodeElement(b, t, q).rc = 1
    PROVE  DecodeElement(b, t, q).el.kind \notin Integers
  <1> DEFINE NoInteger(r) == r.rc = 1 => r.el.kind \notin Integers
  <1>1. \A k : NoInteger(Failed(k))
    BY DEF Failed
  <1>2. ASSUME NEW k, NEW e, e.kind \notin Integers
        PROVE  NoInteger(Decoded(k, e))
    BY <1>2 DEF Decoded
  <1>3. \A k, neg, d, x :
          NoInteger(Decoded(k, [kind |-> "decimal", neg |-> neg, digits |-> d, exp |-> x]))
    BY DEF Decoded, Integers
  <1>4. /\ NoInteger(Decoded(q, [kind |-> "nil"]))
        /\ NoInteger(Decoded(q, [kind |-> "undef"]))
        /\ NoInteger(Decoded(q, [kind |-> "bool", val |-> FALSE]))
        /\ NoInteger(Decoded(q, [kind |-> "bool", val |-> TRUE]))
    BY DEF Decoded, Integers
  <1>5. /\ NoInteger(ReadPayload(b, q, F32Width, [kind |-> "f32", bits |-> DecFloatBits(Bytes(b, q, F32Width))]))
        /\ NoInteger(ReadPayload(b, q, F64Width, [kind |-> "f64", bits |-> DecFloatBits(Bytes(b, q, F64Width))]))
        /\ NoInteger(ReadPayload(b, q, NativeWidth,
                                 [kind |-> "timestamp", data |-> FlipSign(Bytes(b, q, NativeWidth))]))
        /\ NoInteger(ReadPayload(b, q, UuidWidth, [kind |-> "uuid", data |-> Bytes(b, q, UuidWidth)]))
    <2>1. ASSUME NEW n, NEW e, e.kind \notin Integers
          PROVE  NoInteger(ReadPayload(b, q, n, e))
      BY <2>1 DEF ReadPayload, Failed, Decoded
    <2>2. QED
      BY <2>1 DEF Integers
  <1>6. t \in Framed => NoInteger(ReadFramed(b, t, q))
    <2>1. \A x : NoInteger(Decoded(x, [kind |-> KindOf[t], data |-> Unescaped(SubSeq(b, q + 1, x - 1))]))
            \/ t \notin Framed
      BY KindOfFramed, FramedCodes DEF Decoded, Integers
    <2> HIDE DEF NoInteger
    <2>2. QED
      BY <1>1, <2>1, Zenon DEF ReadFramed
  <1> HIDE DEF NoInteger
  <1>7. NoInteger(ReadDecimal(b, q))
    BY <1>1, <1>3, ZenonT(40) DEF ReadDecimal, DecimalAfter, ReadDigits
  <1>8. NoInteger(DecodeElement(b, t, q))
    BY <1>1, <1>4, <1>5, <1>6, <1>7 DEF DecodeElement, IntegerCodes
  <1>9. QED
    BY <1>8 DEF NoInteger

(* The one payload whose magnitude is lost.                                *)
LEMMA ExcessLost ==
    ASSUME NEW p \in Seq(Byte), ~(Len(p) <= NativeWidth), Trimmed(p) = <<>>
    PROVE  ExcessMagnitude(p) = <<0>>
  <1>1. Len(p) \in Nat
    BY LenProperties
  <1>2. \A i \in 1..Len(p) : p[i] = 0
    BY TrimmedNonempty
  <1>3. \A i \in DOMAIN Negated(p) : Negated(p)[i] = 0
    <2>1. (256 - 0) % 256 = 0
      OBVIOUS
    <2>2. ASSUME NEW i \in DOMAIN p
          PROVE  (IF \A k \in (i + 1)..Len(p) : p[k] = 0 THEN (256 - p[i]) % 256 ELSE 255 - p[i]) = 0
      <3>1. DOMAIN p = 1..Len(p)
        BY LenProperties
      <3>2. \A k \in (i + 1)..Len(p) : k \in 1..Len(p)
        BY <1>1, <3>1
      <3>3. p[i] = 0 /\ \A k \in (i + 1)..Len(p) : p[k] = 0
        BY <1>2, <3>1, <3>2
      <3>4. QED
        BY <2>1, <3>3, Zenon
    <2>3. QED
      BY <2>2 DEF Negated
  <1>4. Trimmed(Negated(p)) = <<>>
    BY <1>3, TrimmedZeros
  <1>5. QED
    BY <1>4 DEF ExcessMagnitude

(* What a negative slot is read as is stored as that slot again.           *)
LEMMA ExcessKept ==
    ASSUME NEW p \in Seq(Byte), p # <<>>, Len(p) <= FixedWidth, p[1] # 255 \/ Len(p) = 1
    PROVE  ~Lost(Trimmed(ExcessMagnitude(p)))
  <1> DEFINE m == ExcessMagnitude(p)
  <1>1. m \in Seq(Byte) /\ Len(m) <= Len(p) + 1 /\ Len(m) \in Nat /\ Len(p) \in Nat
    BY ExcessMagnitudeBytes, LenProperties
  <1>2. Trimmed(m) \in Seq(Byte) /\ Len(Trimmed(m)) \in Nat /\ Len(Trimmed(m)) <= Len(m)
    BY <1>1, TrimmedProperties
  <1>3. NativeWidth \in Nat /\ FixedWidth \in Nat
    BY WidthAssumption
  <1>4. CASE Len(p) <= NativeWidth
    <2> DEFINE n == Len(Trimmed(m))
    <2>1. n \in Nat /\ n <= NativeWidth + 1
      BY <1>1, <1>2, <1>3, <1>4
    <2> HIDE DEF n
    <2>2. n \notin (NativeWidth + 2)..FixedWidth
      BY <1>3, <2>1
    <2>3. QED
      BY <2>2 DEF Lost, n
  <1>5. CASE ~(Len(p) <= NativeWidth) /\ Trimmed(p) = <<>>
    <2>5. m = <<0>>
      BY <1>5, ExcessLost
    <2>6. \A i \in DOMAIN <<0>> : <<0>>[i] = 0
      OBVIOUS
    <2>7. Trimmed(m) = <<>>
      BY <2>5, <2>6, TrimmedZeros
    <2> HIDE DEF m
    <2>8. Len(Trimmed(m)) = 0
      BY <2>7, EmptySeq
    <2>9. 0 \notin (NativeWidth + 2)..FixedWidth
      BY <1>3
    <2>10. QED
      BY <2>8, <2>9 DEF Lost, m
  <1>6. CASE ~(Len(p) <= NativeWidth) /\ Trimmed(p) # <<>>
    <2>1. m = SlotMagnitude(p)
      BY <1>6, ExcessIsSlot
    <2>2. m # <<>> /\ m[1] # 0 /\ Payload(m) = p
      BY <2>1, SlotOfNegative
    <2> HIDE DEF m
    <2>3. Trimmed(m) = m
      BY <1>1, <2>2, TrimmedIdentity
    <2>4. ASSUME Lost(m)
          PROVE  FALSE
      <3>1. Len(m) >= 2 /\ m[1] = 1 /\ \A i \in 2..Len(m) : m[i] = 0
        BY <1>1, <1>3, <2>4 DEF Lost
      <3>2. \A i \in DOMAIN p : p[i] = 0
        BY <1>1, <2>2, <3>1, PayloadOfPower
      <3>3. Trimmed(p) = <<>>
        BY <3>2, TrimmedZeros
      <3>4. QED
        BY <1>6, <3>3
    <2>5. QED
      BY <2>3, <2>4 DEF m
  <1>7. QED
    BY <1>4, <1>5, <1>6

(* The decoder hands out no negative number that it would not read back.   *)
LEMMA NegativeKept ==
    ASSUME NEW b \in Seq(Byte), NEW p \in 0..Len(b), Next(b, p).rc = 1,
           Next(b, p).el.kind \in Integers, Next(b, p).el.neg
    PROVE  ~Lost(Trimmed(Next(b, p).el.mag))
  <1> DEFINE t == b[p + 1]
             q == p + 1
             r == DecodeElement(b, t, q)
  <1>1. ~(p >= Len(b)) /\ q \in 0..Len(b)
    BY LenProperties DEF Next
  <1>2. Next(b, p) = r
    BY <1>1 DEF Next
  <1> HIDE DEF t, q
  <1>3. t \in IntegerCodes
    BY <1>2, OthersNoInteger
  <1>4. CASE t = INT_ZERO
    <2>1. r = Decoded(q, IntElement(0, FALSE, <<>>))
      BY <1>4, BareDecodes
    <2>2. QED
      BY <1>2, <2>1 DEF Decoded, IntElement
  <1>5. CASE t \in FixedNeg \cup FixedPos
    <2> DEFINE n == SlotWidth(t)
               w == Bytes(b, q, n)
               pos == t > INT_ZERO
               x == IntElement(n, FALSE, w)
               y == IntElement(n, TRUE, ExcessMagnitude(w))
               z == ReadFixedInt(b, t, q)
    <2>1. \/ z \in {Failed(q), Failed(q + n), Decoded(q + n, x)}
          \/ /\ CanTake(b, q, n) /\ ~pos /\ ~NonMinimalSlot(pos, w)
             /\ z = Decoded(q + n, y)
      BY Zenon DEF ReadFixedInt
    <2>2. r = z
      BY <1>5, FixedDispatch
    <2>3. n \in 1..16
      BY <1>5, SlotWidthProperties
    <2>4. n <= FixedWidth
      BY <1>5, WidthAssumption DEF SlotWidth, FixedNeg, FixedPos, INT_ZERO
    <2>5. x.neg = FALSE /\ y.mag = ExcessMagnitude(w)
      BY DEF IntElement
    <2> HIDE DEF z, x, y, r, n, pos
    <2>6. CanTake(b, q, n) /\ ~pos /\ ~NonMinimalSlot(pos, w) /\ r.el = y
      BY <1>2, <2>1, <2>2, <2>5 DEF Failed, Decoded
    <2>7. w \in Seq(Byte) /\ Len(w) = n
      BY <1>1, <2>3, <2>6, BytesProperties
    <2> HIDE DEF w
    <2>8. w[1] # 255 \/ Len(w) = 1
      <3>1. ~(w[1] = 255 /\ Len(w) > 1)
        BY <2>6 DEF NonMinimalSlot
      <3>2. QED
        BY <2>3, <2>7, <3>1
    <2>9. w # <<>>
      BY <2>3, <2>7
    <2>10. ~Lost(Trimmed(ExcessMagnitude(w)))
      BY <2>4, <2>7, <2>8, <2>9, ExcessKept
    <2>11. QED
      BY <1>2, <2>5, <2>6, <2>10
  <1>6. CASE t \in {INT_NEG_BIG, INT_POS_BIG}
    <2> DEFINE negative == t = INT_NEG_BIG
               m    == LenBytes(b, negative, q)
               lens == MagLens(b, negative, q)
               n    == FirstOf(lens)
               mag  == Signed(negative, Bytes(b, q + 1 + m, n))
    <2>1. r = ReadBigInt(b, t, q)
      BY <1>6, BigIntDispatch
    <2>2. ReadBigInt(b, t, q).rc = 1
      BY <1>2, <2>1
    <2>3. /\ mag[1] # 0 /\ ~FitsSigned(negative, mag, FixedWidth)
          /\ ReadBigInt(b, t, q).el = [kind |-> "bigint", neg |-> negative, mag |-> mag]
      BY <2>2 DEF ReadBigInt, Failed, Decoded
    <2>4. r.el.mag = mag /\ r.el.neg = negative
      BY <2>1, <2>3
    <2>5. negative
      BY <1>2, <2>4
    <2>6. ReadBigInt(b, t, q).el \in Encodable
      BY <1>1, <2>2, BigIntEncodable
    <2> HIDE DEF mag, negative
    <2>7. mag \in Seq(Byte)
      <3>1. ReadBigInt(b, t, q).el.kind = "bigint" /\ ReadBigInt(b, t, q).el.mag = mag
        BY <2>3
      <3>2. QED
        BY <2>6, <3>1, FramedCodes DEF Encodable, Magnitude
    <2>8. Trimmed(mag) = mag
      BY <2>3, <2>7, TrimmedIdentity
    <2>9. ASSUME Lost(mag)
          PROVE  FALSE
      <3> DEFINE k == Len(mag)
      <3>1. k \in Nat /\ FixedWidth \in Nat
        BY <2>7, LenProperties, WidthAssumption
      <3>2. k <= FixedWidth /\ mag[1] = 1
        BY <2>9, <3>1 DEF Lost
      <3> HIDE DEF k
      <3>3. k < FixedWidth \/ k = FixedWidth
        BY <3>1, <3>2
      <3>4. QED
        BY <2>3, <3>2, <3>3 DEF FitsSigned, k
    <2>10. QED
      BY <1>2, <2>4, <2>8, <2>9
  <1>7. QED
    BY <1>3, <1>4, <1>5, <1>6 DEF IntegerCodes

(* An element the append calls take, unless it is a negative integer whose *)
(* magnitude next() loses, is written as bytes that next() reads back and  *)
(* append_element writes once more; or nothing is written.                 *)
LEMMA ElementStable ==
    ASSUME NEW e \in Encodable, KeptElement(e)
    PROVE  EncElement(e) = <<>> \/ Stable(EncElement(e))
  <1>1. CASE e \in [kind : {"nil", "undef"}]
    <2>1. e = [kind |-> "nil"] \/ e = [kind |-> "undef"]
      BY <1>1
    <2>2. QED
      BY <2>1, BareStable
  <1>2. CASE e \in [kind : {"bool"}, val : BOOLEAN]
    <2>1. e = [kind |-> "bool", val |-> FALSE] \/ e = [kind |-> "bool", val |-> TRUE]
      BY <1>2
    <2>2. QED
      BY <2>1, BareStable
  <1>3. CASE e \in [kind : {"int", "bigint"}, neg : BOOLEAN, mag : Magnitude]
    <2>1. e.kind \in {"int", "bigint"} /\ e.neg \in BOOLEAN /\ e.mag \in Magnitude
      BY <1>3
    <2>2. ~(e.neg /\ Lost(Trimmed(e.mag)))
      BY <2>1 DEF KeptElement, Integers
    <2>3. EncElement(e) = EncInt(e.neg, e.mag)
      BY <2>1, EncElementInt
    <2>4. QED
      BY <2>1, <2>2, <2>3, IntStable
  <1>4. CASE \/ e \in [kind : {"f32"}, bits : [1..F32Width -> Byte]]
             \/ e \in [kind : {"f64"}, bits : [1..F64Width -> Byte]]
             \/ e \in [kind : {"timestamp"}, data : [1..NativeWidth -> Byte]]
             \/ e \in [kind : {"uuid"}, data : [1..UuidWidth -> Byte]]
    <2>1. Stable(EncElement(e))
      BY <1>4, FixedPayloadStable
    <2>2. QED
      BY <2>1
  <1>5. CASE e \in [kind : {"decimal"}, neg : BOOLEAN, digits : Seq(0..9), exp : Int]
    <2>1. e.kind = "decimal" /\ e.neg \in BOOLEAN /\ e.digits \in Seq(0..9) /\ e.exp \in Int
      BY <1>5
    <2>2. WrapExp(e.exp) \in Int /\ InExpRange(WrapExp(e.exp))
      BY <2>1, WrapExpRange
    <2>3. EncElement(e) = EncDecimal(e.neg, e.digits, WrapExp(e.exp))
      BY <2>1, FramedCodes DEF EncElement
    <2>4. QED
      BY <2>1, <2>2, <2>3, DecimalStable
  <1>6. CASE e \in [kind : DOMAIN FramedCode, data : Seq(Byte)]
    <2>1. e.kind \in DOMAIN FramedCode /\ e.data \in Seq(Byte)
      BY <1>6
    <2>2. EncElement(e) = EncFramed(FramedCode[e.kind], e.data)
      BY <2>1, FramedCodes DEF EncElement
    <2>3. FramedCode[e.kind] \in Framed
      BY <2>1, FramedCodes DEF FramedCode, Framed
    <2>4. QED
      BY <2>1, <2>2, <2>3, FramedStable
  <1>7. QED
    BY <1>1, <1>2, <1>3, <1>4, <1>5, <1>6 DEF Encodable

(* Whatever next() accepts is such an element.                             *)
LEMMA NextStable ==
    ASSUME NEW b \in Seq(Byte), NEW p \in 0..Len(b), Next(b, p).rc = 1
    PROVE  EncElement(Next(b, p).el) = <<>> \/ Stable(EncElement(Next(b, p).el))
  BY NextEncodable, NegativeKept, ElementStable DEF KeptElement, Integers

-----------------------------------------------------------------------------
(* Concatenations of such bytes: what the writer holds.                    *)
StableStrings == {s \in Seq(Byte) : Stable(s)}
Canonicals    == {FlattenSeq(t) : t \in Seq(StableStrings)}

LEMMA CanonicalAppend ==
    /\ Canonicals \subseteq Seq(Byte)
    /\ <<>> \in Canonicals
    /\ \A c \in Canonicals, s \in StableStrings : c \o s \in Canonicals
  <1>1. StableStrings \subseteq Seq(Byte)
    BY DEF StableStrings
  <1>2. Seq(StableStrings) \subseteq Seq(Seq(Byte))
    BY <1>1
  <1>3. Canonicals \subseteq Seq(Byte)
    BY <1>2, FlattenType DEF Canonicals
  <1>4. <<>> \in Canonicals
    <2>1. <<>> \in Seq(StableStrings)
      BY EmptySeq
    <2>2. QED
      BY <2>1, FlattenEmpty DEF Canonicals
  <1>5. ASSUME NEW c \in Canonicals, NEW s \in StableStrings
        PROVE  c \o s \in Canonicals
    <2>1. PICK t \in Seq(StableStrings) : c = FlattenSeq(t)
      BY DEF Canonicals
    <2>2. Append(t, s) \in Seq(StableStrings)
      BY AppendProperties
    <2>3. FlattenSeq(Append(t, s)) = c \o s
      BY <1>1, <1>2, <2>1, FlattenAppend
    <2>4. QED
      BY <2>2, <2>3 DEF Canonicals
  <1>6. QED
    BY <1>3, <1>4, <1>5

LEMMA HeadTail ==
    ASSUME NEW S, NEW t \in Seq(S), t # <<>>
    PROVE  Head(t) \in S /\ Tail(t) \in Seq(S) /\ t = <<Head(t)>> \o Tail(t)
  <1> DEFINE h == <<Head(t)>>
             u == Tail(t)
             w == h \o u
  <1>1. /\ Head(t) \in S /\ Head(t) = t[1] /\ u \in Seq(S)
        /\ Len(u) = Len(t) - 1 /\ \A i \in 1..Len(u) : u[i] = t[i + 1]
    BY HeadTailProperties
  <1>2. h \in Seq(S) /\ Len(h) = 1 /\ h[1] = t[1]
    BY <1>1
  <1>3. Len(t) \in Nat \ {0}
    BY EmptySeq
  <1> HIDE DEF h, u
  <1>4. /\ w \in Seq(S) /\ Len(w) = Len(h) + Len(u)
        /\ \A i \in 1..(Len(h) + Len(u)) : w[i] = IF i <= Len(h) THEN h[i] ELSE u[i - Len(h)]
    <2>1. h \in Seq(S) /\ u \in Seq(S)
      BY <1>1, <1>2
    <2>2. QED
      BY <2>1, ConcatProperties
  <1> HIDE DEF w
  <1>5. Len(w) = Len(t)
    BY <1>1, <1>2, <1>3, <1>4
  <1>6. ASSUME NEW i \in 1..Len(w)
        PROVE  w[i] = t[i]
    <2>1. CASE i = 1
      BY <1>1, <1>2, <1>3, <1>4, <1>5, <2>1
    <2>2. CASE i # 1
      <3>1. i - 1 \in 1..Len(u) /\ ~(i <= Len(h)) /\ i \in 1..(Len(h) + Len(u)) /\ (i - 1) + 1 = i
        BY <1>1, <1>2, <1>3, <1>5, <2>2
      <3>2. QED
        BY <1>1, <1>2, <1>4, <3>1
    <2>3. QED
      BY <2>1, <2>2
  <1>7. w = t
    BY <1>4, <1>5, <1>6, SeqEqual
  <1>8. QED
    BY <1>1, <1>7 DEF w, h, u

LEMMA CanonicalSplit ==
    ASSUME NEW c \in Canonicals, c # <<>>
    PROVE  /\ c[1] # 255
           /\ \E s \in StableStrings : \E d \in Canonicals : c = s \o d
  <1>1. PICK t \in Seq(StableStrings) : c = FlattenSeq(t)
    BY DEF Canonicals
  <1>2. t # <<>>
    BY <1>1, FlattenEmpty
  <1> DEFINE s == Head(t)
             u == Tail(t)
             d == FlattenSeq(u)
             h == <<s>>
  <1>3. s \in StableStrings /\ u \in Seq(StableStrings) /\ t = h \o u
    BY <1>2, HeadTail
  <1>4. StableStrings \subseteq Seq(Byte)
    BY DEF StableStrings
  <1>5. s \in Seq(Byte) /\ u \in Seq(Seq(Byte)) /\ h \in Seq(Seq(Byte)) /\ FlattenSeq(h) = s
    BY <1>3, <1>4, FlattenOne
  <1> HIDE DEF h, u
  <1>6. c = s \o d
    BY <1>1, <1>3, <1>5, FlattenConcat
  <1>7. d \in Canonicals
    BY <1>3 DEF Canonicals
  <1>8. d \in Seq(Byte)
    BY <1>7, CanonicalAppend
  <1>9. s # <<>> /\ s[1] # 255
    BY <1>3 DEF StableStrings, Stable
  <1> HIDE DEF s, d
  <1>10. (s \o d)[1] = s[1]
    <2>1. Len(s) \in Nat \ {0} /\ Len(d) \in Nat
      BY <1>5, <1>8, <1>9, EmptySeq, LenProperties
    <2>2. 1 \in 1..(Len(s) + Len(d)) /\ 1 <= Len(s)
      BY <2>1
    <2>3. QED
      BY <1>5, <1>8, <2>2, ConcatProperties
  <1>11. QED
    BY <1>3, <1>6, <1>7, <1>9, <1>10 DEF s

(* After a prefix, next() reads the first of such strings, or ends.        *)
LEMMA CanonicalNext ==
    ASSUME NEW a \in Seq(Byte), NEW c \in Canonicals, c # <<>>
    PROVE  \E s \in StableStrings : \E d \in Canonicals :
              /\ a \o c = (a \o s) \o d
              /\ Next(a \o c, Len(a)).rc = 1
              /\ Next(a \o c, Len(a)).pos = Len(a \o s)
              /\ EncElement(Next(a \o c, Len(a)).el) = s
  <1>1. PICK s \in StableStrings : \E d \in Canonicals : c = s \o d
    BY CanonicalSplit, Zenon
  <1>2. PICK d \in Canonicals : c = s \o d
    BY <1>1
  <1>3. s \in Seq(Byte) /\ d \in Seq(Byte) /\ c \in Seq(Byte) /\ Stable(s)
    BY CanonicalAppend DEF StableStrings
  <1> DEFINE b == a \o c
             p == Len(a)
             n == Len(s)
             k == Len(d)
             l == Len(c)
  <1>4. p \in Nat /\ n \in Nat /\ k \in Nat /\ l \in Nat
    BY <1>3, LenProperties
  <1>5. /\ b \in Seq(Byte) /\ Len(b) = p + l
        /\ \A i \in 1..(p + l) : b[i] = IF i <= p THEN a[i] ELSE c[i - p]
    BY <1>3, ConcatProperties
  <1>6. l = n + k /\ \A i \in 1..(n + k) : c[i] = IF i <= n THEN s[i] ELSE d[i - n]
    BY <1>2, <1>3, ConcatProperties
  <1>7. Len(a \o s) = p + n
    BY <1>3, ConcatProperties
  <1>8. b = (a \o s) \o d
    <2>1. (a \o s) \o d = a \o (s \o d)
      BY <1>3, ConcatAssociative, SMTT(30)
    <2>2. QED
      BY <1>2, <2>1
  <1>9. k # 0 => d[1] # 255
    BY <1>3, EmptySeq, CanonicalSplit
  <1>10. n # 0
    BY <1>3, EmptySeq DEF Stable
  <1> SUFFICES Next(b, p).rc = 1 /\ Next(b, p).pos = p + n /\ EncElement(Next(b, p).el) = s
    BY <1>7, <1>8
  <1>11. \A bb \in Seq(Byte) : \A pp \in 0..Len(bb) :
           At(bb, pp, s) /\ Guarded(bb, pp + n) =>
              /\ Next(bb, pp).rc = 1 /\ Next(bb, pp).pos = pp + n
              /\ EncElement(Next(bb, pp).el) = s
    BY <1>3 DEF Stable
  <1> HIDE DEF b, p, n, k, l
  <1>12. p \in 0..Len(b)
    BY <1>4, <1>5
  <1>13. p + n <= Len(b) /\ \A i \in 1..n : b[p + i] = s[i]
    <2>1. p + n <= Len(b)
      BY <1>4, <1>5, <1>6
    <2>2. ASSUME NEW i \in 1..n
          PROVE  b[p + i] = s[i]
      <3>1. p + i \in 1..(p + l) /\ ~(p + i <= p) /\ (p + i) - p = i /\ i \in 1..(n + k) /\ i <= n
        BY <1>4, <1>6
      <3>2. QED
        BY <1>5, <1>6, <3>1
    <2>3. QED
      BY <2>1, <2>2
  <1>14. p + n < Len(b) => b[(p + n) + 1] # 255
    <2>1. ASSUME p + n < Len(b)
          PROVE  b[(p + n) + 1] # 255
      <3>1. /\ (p + n) + 1 \in 1..(p + l) /\ ~((p + n) + 1 <= p) /\ ((p + n) + 1) - p = n + 1
            /\ n + 1 \in 1..(n + k) /\ ~(n + 1 <= n) /\ (n + 1) - n = 1 /\ k # 0
        BY <1>4, <1>5, <1>6, <2>1
      <3>2. b[(p + n) + 1] = d[1]
        BY <1>5, <1>6, <3>1
      <3>3. QED
        BY <1>9, <3>1, <3>2
    <2>2. QED
      BY <2>1
  <1>15. At(b, p, s) /\ Guarded(b, p + n)
    BY <1>13, <1>14 DEF At, Guarded, n
  <1>16. QED
    BY <1>5, <1>11, <1>12, <1>15

LEMMA StableCanonical == \A s \in Seq(Byte) : s = <<>> \/ Stable(s) => s \in Canonicals
  <1>1. ASSUME NEW s \in Seq(Byte), Stable(s)
        PROVE  s \in Canonicals
    <2>1. s \in StableStrings
      BY <1>1 DEF StableStrings
    <2>2. <<>> \o s \in Canonicals
      BY <2>1, CanonicalAppend
    <2>3. QED
      BY <2>2, ConcatEmptySeq
  <1>2. QED
    BY <1>1, CanonicalAppend

LEMMA CanonicalConcat == \A c, d \in Canonicals : c \o d \in Canonicals
  <1>1. StableStrings \subseteq Seq(Byte)
    BY DEF StableStrings
  <1>2. Seq(StableStrings) \subseteq Seq(Seq(Byte))
    BY <1>1
  <1>3. ASSUME NEW c \in Canonicals, NEW d \in Canonicals
        PROVE  c \o d \in Canonicals
    <2>1. PICK t \in Seq(StableStrings) : c = FlattenSeq(t)
      BY DEF Canonicals
    <2>2. PICK u \in Seq(StableStrings) : d = FlattenSeq(u)
      BY DEF Canonicals
    <2>3. t \o u \in Seq(StableStrings)
      BY ConcatProperties
    <2>4. FlattenSeq(t \o u) = c \o d
      BY <1>2, <2>1, <2>2, FlattenConcat
    <2>5. QED
      BY <2>3, <2>4 DEF Canonicals
  <1>4. QED
    BY <1>3

(* The definition of Transcoded, unfolded once, as for Split.              *)
LEMMA TranscodedUnfold ==
    ASSUME NEW b \in Seq(Byte)
    PROVE  Transcoded[b] = IF Next(b, 0).rc # 1 THEN <<>>
                           ELSE EncElement(Next(b, 0).el) \o Transcoded[From(b, Next(b, 0).pos)]
  <1> DEFINE D    == Seq(Byte)
             size == [x \in D |-> Len(x)]
             stop == [x \in D |-> Next(x, 0).rc # 1]
             base == [x \in D |-> <<>>]
             head == [x \in D |-> EncElement(Next(x, 0).el)]
             rest == [x \in D |-> From(x, Next(x, 0).pos)]
  <1>1. size \in [D -> Nat]
    BY LenProperties
  <1>2. ASSUME NEW x \in D
        PROVE  /\ size[x] = Len(x)
               /\ stop[x] <=> Next(x, 0).rc # 1
               /\ base[x] = <<>>
               /\ head[x] = EncElement(Next(x, 0).el)
               /\ rest[x] = From(x, Next(x, 0).pos)
    BY Zenon
  <1> HIDE DEF size, stop, base, head, rest
  <1>3. ASSUME NEW x \in D, ~stop[x]
        PROVE  rest[x] \in D /\ size[rest[x]] < size[x]
    <2> DEFINE e == Next(x, 0).pos
    <2>1. Next(x, 0).rc = 1
      BY <1>2, <1>3, Zenon
    <2>2. e \in 1..Len(x) /\ Len(x) \in Nat /\ e \in 0..Len(x)
      <3>1. Len(x) \in Nat /\ 0 \in 0..Len(x)
        BY LenProperties
      <3>2. ~(0 >= Len(x))
        BY <2>1 DEF Next
      <3>3. Advances(Next(x, 0), 0 + 1, x)
        BY <3>1, <3>2, NextAdvances
      <3>4. QED
        BY <3>1, <3>3 DEF Advances
    <2>3. From(x, e) \in D /\ Len(From(x, e)) = Len(x) - e
      BY <2>2, FromProperties
    <2>4. rest[x] = From(x, e)
      BY <1>2
    <2>5. size[x] = Len(x) /\ size[rest[x]] = Len(From(x, e))
      BY <1>2, <2>3, <2>4
    <2> HIDE DEF e
    <2>6. QED
      BY <2>2, <2>3, <2>4, <2>5
  <1>4. Shrinks(D, size, stop, rest)
    BY <1>1, <1>3, Zenon DEF Shrinks
  <1>5. PICK f : IsWalk(f, D, stop, base, head, rest)
    BY <1>4, WalkExists
  <1>6. ASSUME NEW x \in D
        PROVE  (IF stop[x] THEN base[x] ELSE head[x] \o f[rest[x]])
                 = IF Next(x, 0).rc # 1 THEN <<>>
                   ELSE EncElement(Next(x, 0).el) \o f[SubSeq(x, Next(x, 0).pos + 1, Len(x))]
    BY <1>2, Zenon DEF From
  <1>7. f = [x \in D |-> IF Next(x, 0).rc # 1 THEN <<>>
                         ELSE EncElement(Next(x, 0).el) \o f[SubSeq(x, Next(x, 0).pos + 1, Len(x))]]
    BY <1>5, <1>6, Zenon DEF IsWalk
  <1>8. \E g : g = [x \in Seq(Byte) |->
                      LET r == Next(x, 0)
                      IN  IF r.rc # 1 THEN <<>>
                          ELSE EncElement(r.el) \o g[SubSeq(x, r.pos + 1, Len(x))]]
    BY <1>7, Zenon
  <1>9. Transcoded = [x \in Seq(Byte) |->
                        LET r == Next(x, 0)
                        IN  IF r.rc # 1 THEN <<>>
                            ELSE EncElement(r.el) \o Transcoded[SubSeq(x, r.pos + 1, Len(x))]]
    BY <1>8, Zenon DEF Transcoded
  <1>10. QED
    BY <1>9, Zenon DEF From

LEMMA FromConcat ==
    ASSUME NEW s \in Seq(Byte), NEW d \in Seq(Byte)
    PROVE  From(s \o d, Len(s)) = d
  <1> DEFINE b == s \o d
             n == Len(s)
             w == From(b, n)
  <1>1. /\ b \in Seq(Byte) /\ Len(b) = n + Len(d)
        /\ \A i \in 1..(n + Len(d)) : b[i] = IF i <= n THEN s[i] ELSE d[i - n]
    BY ConcatProperties
  <1>2. n \in Nat /\ Len(d) \in Nat
    BY LenProperties
  <1> HIDE DEF b, n
  <1>3. n \in 0..Len(b)
    BY <1>1, <1>2
  <1>4. w \in Seq(Byte) /\ Len(w) = Len(b) - n /\ \A i \in 1..(Len(b) - n) : w[i] = b[n + i]
    <2>1. w \in Seq(Byte) /\ Len(w) = Len(b) - n /\ \A k \in (n + 1)..Len(b) : w[k - n] = b[k]
      BY <1>1, <1>3, FromProperties
    <2>2. ASSUME NEW i \in 1..(Len(b) - n)
          PROVE  w[i] = b[n + i]
      <3>1. n + i \in (n + 1)..Len(b) /\ (n + i) - n = i
        BY <1>1, <1>2
      <3>2. QED
        BY <2>1, <3>1
    <2>3. QED
      BY <2>1, <2>2
  <1> HIDE DEF w
  <1>5. ASSUME NEW i \in 1..Len(w)
        PROVE  w[i] = d[i]
    <2>1. n + i \in 1..(n + Len(d)) /\ ~(n + i <= n) /\ (n + i) - n = i /\ i \in 1..(Len(b) - n)
      BY <1>1, <1>2, <1>4
    <2>2. QED
      BY <1>1, <1>4, <2>1
  <1>6. Len(w) = Len(d)
    BY <1>1, <1>2, <1>4
  <1>7. w = d
    BY <1>4, <1>5, <1>6, SeqEqual
  <1>8. QED
    BY <1>7 DEF w, b, n

(* Decoding such bytes and appending every element gives them back.        *)
LEMMA TranscodedBack == \A c \in Canonicals : Transcoded[c] = c
  <1> DEFINE S == {n \in Nat : \A c \in Canonicals : Len(c) <= n => Transcoded[c] = c}
  <1>1. ASSUME NEW c \in Canonicals, c = <<>>
        PROVE  Transcoded[c] = c
    <2>1. c \in Seq(Byte) /\ Len(c) = 0
      BY <1>1, EmptySeq
    <2>2. Next(c, 0).rc # 1
      BY <2>1 DEF Next
    <2>3. QED
      BY <1>1, <2>1, <2>2, TranscodedUnfold
  <1>2. 0 \in S
    <2>1. ASSUME NEW c \in Canonicals, Len(c) <= 0
          PROVE  Transcoded[c] = c
      <3>1. c \in Seq(Byte)
        BY CanonicalAppend
      <3>2. Len(c) \in Nat
        BY <3>1, LenProperties
      <3>3. Len(c) = 0
        BY <2>1, <3>2
      <3>4. c = <<>>
        BY <3>1, <3>3, EmptySeq
      <3>5. QED
        BY <1>1, <3>4
    <2>2. QED
      BY <2>1
  <1>3. ASSUME NEW n \in Nat, n \in S
        PROVE  n + 1 \in S
    <2>1. ASSUME NEW c \in Canonicals, Len(c) <= n + 1, c # <<>>
          PROVE  Transcoded[c] = c
      <3> DEFINE none == <<>>
      <3>1. none \in Seq(Byte) /\ Len(none) = 0 /\ c \in Seq(Byte)
        BY CanonicalAppend, EmptySeq
      <3>2. none \o c = c /\ \A s \in StableStrings : none \o s = s
        <4>1. StableStrings \subseteq Seq(Byte)
          BY DEF StableStrings
        <4>2. QED
          BY <3>1, <4>1, ConcatEmptySeq
      <3> HIDE DEF none
      <3>3. PICK s \in StableStrings : \E d \in Canonicals :
                /\ none \o c = (none \o s) \o d
                /\ Next(none \o c, Len(none)).rc = 1
                /\ Next(none \o c, Len(none)).pos = Len(none \o s)
                /\ EncElement(Next(none \o c, Len(none)).el) = s
        BY <2>1, <3>1, CanonicalNext
      <3>4. PICK d \in Canonicals :
                c = s \o d /\ Next(c, 0).rc = 1 /\ Next(c, 0).pos = Len(s) /\ EncElement(Next(c, 0).el) = s
        BY <3>1, <3>2, <3>3
      <3>5. s \in Seq(Byte) /\ s # <<>> /\ d \in Seq(Byte)
        BY CanonicalAppend DEF StableStrings, Stable
      <3>6. From(c, Len(s)) = d
        BY <3>4, <3>5, FromConcat
      <3>7. Len(d) <= n
        <4>1. Len(c) = Len(s) + Len(d)
          BY <3>4, <3>5, ConcatProperties
        <4>2. Len(s) \in Nat \ {0} /\ Len(d) \in Nat
          BY <3>5, EmptySeq, LenProperties
        <4>3. QED
          BY <2>1, <4>1, <4>2
      <3>8. Transcoded[d] = d
        BY <1>3, <3>7
      <3>9. Transcoded[c] = EncElement(Next(c, 0).el) \o Transcoded[From(c, Next(c, 0).pos)]
        BY <3>1, <3>4, TranscodedUnfold
      <3>10. QED
        BY <3>4, <3>6, <3>8, <3>9
    <2>2. QED
      BY <1>1, <2>1
  <1> HIDE DEF S
  <1>4. \A n \in Nat : n \in S
    BY <1>2, <1>3, NatSetInduction
  <1>5. ASSUME NEW c \in Canonicals
        PROVE  Transcoded[c] = c
    <2>1. c \in Seq(Byte)
      BY CanonicalAppend
    <2>2. Len(c) \in Nat /\ Len(c) <= Len(c)
      BY <2>1, LenProperties
    <2>3. Len(c) \in S
      BY <1>4, <2>2
    <2>4. QED
      BY <2>2, <2>3 DEF S
  <1>6. QED
    BY <1>5

-----------------------------------------------------------------------------
(* What a frame holds is shorter than the frame.                           *)
LEMMA UnescapedShorter == \A s \in Seq(Byte) : Len(Unescaped(s)) <= Len(s)
  <1> DEFINE P == {s \in Seq(Byte) : Len(Unescaped(s)) <= Len(s)}
  <1>1. <<>> \in P
    <2> DEFINE none == <<>>
    <2>1. none \in Seq(Byte) /\ Len(none) = 0 /\ Unescaped(none) = none
      BY EscapedEmpty
    <2> HIDE DEF none
    <2>2. none \in P
      BY <2>1
    <2>3. QED
      BY <2>2 DEF none
  <1>2. ASSUME NEW s \in Seq(Byte), NEW x \in Byte, s \in P
        PROVE  Append(s, x) \in P
    <2> DEFINE last == IF s # <<>> /\ s[Len(s)] = 0 THEN <<>> ELSE <<x>>
    <2>1. Unescaped(Append(s, x)) = Unescaped(s) \o last
      BY UnescapedAppend
    <2>2. last \in Seq(Byte) /\ Len(last) <= 1 /\ Len(last) \in Nat
      OBVIOUS
    <2> HIDE DEF last
    <2>3. Unescaped(s) \in Seq(Byte) /\ Len(Unescaped(s)) \in Nat /\ Len(s) \in Nat
      BY UnescapedBytes, LenProperties
    <2>4. Len(Unescaped(s) \o last) = Len(Unescaped(s)) + Len(last)
      BY <2>2, <2>3, ConcatProperties
    <2>5. Append(s, x) \in Seq(Byte) /\ Len(Append(s, x)) = Len(s) + 1
      BY AppendProperties
    <2>6. Len(Unescaped(s)) <= Len(s)
      BY <1>2
    <2>7. Len(Unescaped(Append(s, x))) <= Len(Append(s, x))
      BY <2>1, <2>2, <2>3, <2>4, <2>5, <2>6
    <2>8. QED
      BY <2>5, <2>7
  <1> HIDE DEF P
  <1>3. Seq(Byte) \subseteq P
    BY <1>1, <1>2, SeqSetInduction
  <1>4. QED
    BY <1>3 DEF P

LEMMA ContentsShorter ==
    ASSUME NEW b \in Seq(Byte), NEW p \in 0..Len(b), Next(b, p).rc = 1,
           Next(b, p).el.kind \in Containers
    PROVE  /\ Next(b, p).el.data \in Seq(Byte)
           /\ Len(Next(b, p).el.data) + 2 <= Next(b, p).pos - p
  <1> DEFINE t == b[p + 1]
             q == p + 1
             S == Terminators(b, q)
             slice == SubSeq(b, q + 1, FirstOf(S) - 1)
  <1>1. ~(p >= Len(b)) /\ q \in 0..Len(b) /\ q \in Nat /\ Len(b) \in Nat
    BY LenProperties DEF Next
  <1>2. Next(b, p) = DecodeElement(b, t, q)
    BY <1>1 DEF Next
  <1>3. t \in Framed
    BY <1>2, OthersNoContainer
  <1> HIDE DEF t
  <1>4. DecodeElement(b, t, q) = ReadFramed(b, t, q)
    BY <1>3, FramedDispatch
  <1>5. ReadFramed(b, t, q).rc = 1
    BY <1>2, <1>4
  <1>6. /\ S # {} /\ ReadFramed(b, t, q).el.data = Unescaped(slice)
        /\ ReadFramed(b, t, q).pos = FirstOf(S)
    BY <1>5 DEF ReadFramed, Failed, Decoded
  <1>7. FirstOf(S) \in (q + 1)..Len(b)
    <2>1. S \in SUBSET Nat /\ \A k \in S : k \in (q + 1)..Len(b)
      BY <1>1 DEF Terminators
    <2> HIDE DEF S
    <2>2. QED
      BY <1>6, <2>1, FirstOfProperties
  <1> HIDE DEF S
  <1>8. slice \in Seq(Byte) /\ Len(slice) = FirstOf(S) - 1 - q
    <2>1. \A k \in (q + 1)..(FirstOf(S) - 1) : k \in 1..Len(b)
      BY <1>1, <1>7
    <2>2. \A k \in (q + 1)..(FirstOf(S) - 1) : b[k] \in Byte
      BY <2>1, ElementOfSeq
    <2>3. q + 1 \in Int /\ FirstOf(S) - 1 \in Int
      BY <1>1, <1>7
    <2>4. slice \in Seq(Byte) /\ Len(slice) = IF q + 1 <= FirstOf(S) - 1 THEN FirstOf(S) - 1 - (q + 1) + 1 ELSE 0
      BY <2>2, <2>3, SubSeqProperties
    <2>5. QED
      BY <1>1, <1>7, <2>4
  <1> HIDE DEF slice
  <1>9. Unescaped(slice) \in Seq(Byte) /\ Len(Unescaped(slice)) <= Len(slice) /\ Len(Unescaped(slice)) \in Nat
    BY <1>8, UnescapedBytes, UnescapedShorter, LenProperties
  <1>10. Len(Unescaped(slice)) + 2 <= FirstOf(S) - p
    BY <1>1, <1>7, <1>8, <1>9
  <1>11. QED
    BY <1>2, <1>4, <1>6, <1>9, <1>10


-----------------------------------------------------------------------------
(* The definition of Unpack, unfolded once.  It recurs into the contents   *)
(* of a container and over the rest, both shorter.                         *)
Unpacked(f, x) ==
    IF Next(x, 0).rc = 0 THEN <<>>
    ELSE IF Next(x, 0).rc = -1 THEN <<[kind |-> "error"]>>
    ELSE <<ValueOfElement(Next(x, 0).el, IF Next(x, 0).el.kind \in {"array", "set", "map"}
                                         THEN f[Next(x, 0).el.data] ELSE <<>>)>>
           \o f[From(x, Next(x, 0).pos)]

AgreeBelow(f, g, n) == \A x \in Seq(Byte) : Len(x) < n => f[x] = g[x]

LEMMA NextFacts ==
    ASSUME NEW x \in Seq(Byte)
    PROVE  /\ Next(x, 0).rc \in {-1, 0, 1}
           /\ Next(x, 0).rc = 1 => /\ Next(x, 0).pos \in 1..Len(x)
                                   /\ From(x, Next(x, 0).pos) \in Seq(Byte)
                                   /\ Len(From(x, Next(x, 0).pos)) < Len(x)
                                   /\ Next(x, 0).el.kind \in Containers =>
                                        /\ Next(x, 0).el.data \in Seq(Byte)
                                        /\ Len(Next(x, 0).el.data) < Len(x)
  <1>1. Len(x) \in Nat /\ 0 \in 0..Len(x)
    BY LenProperties
  <1>2. CASE Len(x) = 0
    BY <1>1, <1>2 DEF Next
  <1>3. CASE Len(x) # 0
    <2>1. Advances(Next(x, 0), 0 + 1, x)
      BY <1>1, <1>3, NextAdvances
    <2>2. Next(x, 0).rc \in {-1, 1} /\ Next(x, 0).pos \in 1..Len(x)
      BY <2>1 DEF Advances
    <2> DEFINE e == Next(x, 0).pos
    <2>3. From(x, e) \in Seq(Byte) /\ Len(From(x, e)) = Len(x) - e
      <3>1. e \in 0..Len(x)
        BY <2>2
      <3> HIDE DEF e
      <3>2. QED
        BY <3>1, FromProperties
    <2>4. Len(From(x, e)) < Len(x)
      BY <1>1, <2>2, <2>3
    <2>5. ASSUME Next(x, 0).rc = 1, Next(x, 0).el.kind \in Containers
          PROVE  Next(x, 0).el.data \in Seq(Byte) /\ Len(Next(x, 0).el.data) < Len(x)
      <3> DEFINE d == Next(x, 0).el.data
      <3>1. d \in Seq(Byte) /\ Len(d) + 2 <= e - 0
        BY <1>1, <2>5, ContentsShorter
      <3>2. Len(d) \in Nat
        BY <3>1, LenProperties
      <3> HIDE DEF d, e
      <3>3. QED
        BY <1>1, <2>2, <3>1, <3>2 DEF d, e
    <2>6. QED
      BY <2>2, <2>3, <2>4, <2>5
  <1>4. QED
    BY <1>2, <1>3

LEMMA UnpackedLocal ==
    ASSUME NEW x \in Seq(Byte), NEW f, NEW g, AgreeBelow(f, g, Len(x))
    PROVE  Unpacked(f, x) = Unpacked(g, x)
  <1>1. CASE Next(x, 0).rc # 1
    BY <1>1, NextFacts DEF Unpacked
  <1>2. CASE Next(x, 0).rc = 1
    <2>1. f[From(x, Next(x, 0).pos)] = g[From(x, Next(x, 0).pos)]
      BY <1>2, NextFacts DEF AgreeBelow
    <2>2. Next(x, 0).el.kind \in {"array", "set", "map"} => f[Next(x, 0).el.data] = g[Next(x, 0).el.data]
      <3>1. Next(x, 0).el.kind \in {"array", "set", "map"} => Next(x, 0).el.kind \in Containers
        BY DEF Containers
      <3>2. QED
        BY <1>2, <3>1, NextFacts DEF AgreeBelow
    <2>3. QED
      BY <1>2, <2>1, <2>2, Zenon DEF Unpacked
  <1>3. QED
    BY <1>1, <1>2

UnpacksTo(f, k) == \A x \in Seq(Byte) : Len(x) <= k => f[x] = Unpacked(f, x)

LEMMA UnpacksToExists == \A k \in Nat : \E f : UnpacksTo(f, k)
  <1> DEFINE S == {k \in Nat : \E f : UnpacksTo(f, k)}
  <1>1. ASSUME NEW k \in Nat, NEW f, \A x \in Seq(Byte) : Len(x) < k => f[x] = Unpacked(f, x)
        PROVE  \E g : UnpacksTo(g, k)
    <2> DEFINE g == [x \in Seq(Byte) |-> IF Len(x) < k THEN f[x] ELSE Unpacked(f, x)]
    <2>1. \A x \in Seq(Byte) : g[x] = IF Len(x) < k THEN f[x] ELSE Unpacked(f, x)
      BY Zenon
    <2> HIDE DEF g
    <2>2. ASSUME NEW x \in Seq(Byte), Len(x) <= k
          PROVE  g[x] = Unpacked(g, x)
      <3>1. g[x] = Unpacked(f, x)
        BY <1>1, <2>1, <2>2, Zenon
      <3>2. AgreeBelow(f, g, Len(x))
        <4>1. ASSUME NEW y \in Seq(Byte), Len(y) < Len(x)
              PROVE  f[y] = g[y]
          <5>1. Len(y) < k
            BY <2>2, <4>1, LenProperties
          <5>2. QED
            BY <2>1, <5>1
        <4>2. QED
          BY <4>1 DEF AgreeBelow
      <3>3. QED
        BY <3>1, <3>2, UnpackedLocal
    <2>3. QED
      BY <2>2 DEF UnpacksTo
  <1>2. 0 \in S
    <2>1. \A x \in Seq(Byte) : ~(Len(x) < 0)
      BY LenProperties
    <2>2. \E g : UnpacksTo(g, 0)
      <3> DEFINE f == <<>>
      <3>1. \A x \in Seq(Byte) : Len(x) < 0 => f[x] = Unpacked(f, x)
        BY <2>1, Zenon
      <3> HIDE DEF f
      <3>2. QED
        BY <1>1, <3>1
    <2>3. QED
      BY <2>2
  <1>3. ASSUME NEW k \in Nat, k \in S
        PROVE  k + 1 \in S
    <2>1. PICK f : UnpacksTo(f, k)
      BY <1>3
    <2>2. \A x \in Seq(Byte) : Len(x) < k + 1 => f[x] = Unpacked(f, x)
      <3>1. \A x \in Seq(Byte) : Len(x) < k + 1 => Len(x) <= k
        BY LenProperties
      <3>2. QED
        BY <2>1, <3>1, Zenon DEF UnpacksTo
    <2>3. QED
      BY <1>1, <2>2
  <1> HIDE DEF S
  <1>4. \A k \in Nat : k \in S
    BY <1>2, <1>3, NatSetInduction
  <1>5. QED
    BY <1>4 DEF S

LEMMA UnpacksToUnique ==
    ASSUME NEW f, NEW g, NEW k \in Nat, UnpacksTo(f, k), UnpacksTo(g, k)
    PROVE  \A x \in Seq(Byte) : Len(x) <= k => f[x] = g[x]
  <1> DEFINE S == {n \in Nat : \A x \in Seq(Byte) : Len(x) < n /\ Len(x) <= k => f[x] = g[x]}
  <1>1. 0 \in S
    BY LenProperties
  <1>2. ASSUME NEW n \in Nat, n \in S
        PROVE  n + 1 \in S
    <2>1. ASSUME NEW x \in Seq(Byte), Len(x) < n + 1, Len(x) <= k
          PROVE  f[x] = g[x]
      <3>1. ASSUME NEW y \in Seq(Byte), Len(y) < Len(x)
            PROVE  f[y] = g[y]
        <4>1. Len(y) < n /\ Len(y) <= k
          BY <2>1, <3>1, LenProperties
        <4>2. QED
          BY <1>2, <4>1
      <3>2. Unpacked(f, x) = Unpacked(g, x)
        BY <3>1, UnpackedLocal DEF AgreeBelow
      <3>3. QED
        BY <2>1, <3>2 DEF UnpacksTo
    <2>2. QED
      BY <2>1
  <1> HIDE DEF S
  <1>3. \A n \in Nat : n \in S
    BY <1>1, <1>2, NatSetInduction
  <1>4. k + 1 \in S
    BY <1>3
  <1>5. ASSUME NEW x \in Seq(Byte), Len(x) <= k
        PROVE  f[x] = g[x]
    <2>1. Len(x) < k + 1
      BY <1>5, LenProperties
    <2>2. QED
      BY <1>4, <1>5, <2>1 DEF S
  <1>6. QED
    BY <1>5

LEMMA UnpackUnfold ==
    ASSUME NEW b \in Seq(Byte)
    PROVE  Unpack[b] = Unpacked(Unpack, b)
  <1> DEFINE To(k) == CHOOSE f : UnpacksTo(f, k)
             walk  == [x \in Seq(Byte) |-> To(Len(x))[x]]
  <1>1. ASSUME NEW k \in Nat
        PROVE  UnpacksTo(To(k), k)
    <2>1. \E f : UnpacksTo(f, k)
      BY UnpacksToExists
    <2>2. QED
      BY <2>1, Zenon
  <1>2. \A x \in Seq(Byte) : walk[x] = To(Len(x))[x]
    BY Zenon
  <1> HIDE DEF To
  <1>3. walk = [x \in Seq(Byte) |-> walk[x]]
    OBVIOUS
  <1> HIDE DEF walk
  <1>4. ASSUME NEW x \in Seq(Byte)
        PROVE  walk[x] = Unpacked(walk, x)
    <2> DEFINE n == Len(x)
    <2>1. n \in Nat /\ n <= n
      BY LenProperties
    <2>2. UnpacksTo(To(n), n)
      BY <1>1, <2>1
    <2>3. To(n)[x] = Unpacked(To(n), x)
      BY <2>1, <2>2 DEF UnpacksTo
    <2>4. ASSUME NEW y \in Seq(Byte), Len(y) < n
          PROVE  To(n)[y] = walk[y]
      <3>1. Len(y) \in Nat /\ Len(y) <= Len(y)
        BY LenProperties
      <3>2. UnpacksTo(To(Len(y)), Len(y))
        BY <1>1, <3>1
      <3>3. UnpacksTo(To(n), Len(y))
        <4>1. \A z \in Seq(Byte) : Len(z) <= Len(y) => Len(z) <= n
          BY <2>1, <2>4, <3>1, LenProperties
        <4> HIDE DEF n
        <4>2. QED
          BY <2>2, <4>1, Zenon DEF UnpacksTo
      <3>4. To(n)[y] = To(Len(y))[y]
        BY <3>1, <3>2, <3>3, UnpacksToUnique
      <3>5. QED
        BY <1>2, <3>4
    <2>5. Unpacked(To(n), x) = Unpacked(walk, x)
      BY <2>4, UnpackedLocal DEF AgreeBelow
    <2>6. QED
      BY <1>2, <2>3, <2>5
  <1>5. walk = [x \in Seq(Byte) |-> Unpacked(walk, x)]
    BY <1>3, <1>4, Zenon
  <1>6. \E g : g = [x \in Seq(Byte) |->
                      LET r == Next(x, 0)
                      IN  IF r.rc = 0 THEN <<>>
                          ELSE IF r.rc = -1 THEN <<[kind |-> "error"]>>
                          ELSE <<ValueOfElement(r.el, IF r.el.kind \in {"array", "set", "map"}
                                                      THEN g[r.el.data] ELSE <<>>)>>
                                 \o g[SubSeq(x, r.pos + 1, Len(x))]]
    BY <1>5, Zenon DEF Unpacked, From
  <1>7. Unpack = [x \in Seq(Byte) |->
                      LET r == Next(x, 0)
                      IN  IF r.rc = 0 THEN <<>>
                          ELSE IF r.rc = -1 THEN <<[kind |-> "error"]>>
                          ELSE <<ValueOfElement(r.el, IF r.el.kind \in {"array", "set", "map"}
                                                      THEN Unpack[r.el.data] ELSE <<>>)>>
                                 \o Unpack[SubSeq(x, r.pos + 1, Len(x))]]
    BY <1>6, ZenonT(40) DEF Unpack
  <1>8. QED
    BY <1>7, Zenon DEF Unpacked, From

-----------------------------------------------------------------------------
(* Reading values back.  A stable string reads as one element, the same    *)
(* one wherever it stands; a concatenation of them splits into them and    *)
(* unpacks to their values.                                                *)
ElementValue(e) ==
    ValueOfElement(e, IF e.kind \in {"array", "set", "map"} THEN Unpack[e.data] ELSE <<>>)
Value(s)  == ElementValue(Next(s, 0).el)
Values(t) == [i \in 1..Len(t) |-> Value(t[i])]

LEMMA StableSame ==
    ASSUME NEW s \in StableStrings, NEW b \in Seq(Byte), NEW p \in 0..Len(b),
           At(b, p, s), Guarded(b, p + Len(s))
    PROVE  /\ Next(b, p).rc = 1 /\ Next(b, p).pos = p + Len(s)
           /\ Next(b, p).el = Next(s, 0).el
  <1> DEFINE n == Len(s)
  <1>1. s \in Seq(Byte) /\ n \in Nat /\ p \in Nat /\ Len(b) \in Nat
    BY LenProperties DEF StableStrings
  <1>2. Next(b, p).rc = 1 /\ Next(b, p).pos = p + n
    BY DEF StableStrings, Stable
  <1>3. p + n <= Len(b) /\ \A k \in 1..n : b[p + k] = s[k]
    BY DEF At
  <1> HIDE DEF n
  <1>4. Window(b, p, s, p + n)
    <2>1. (p + n) - p = Len(s)
      BY <1>1 DEF n
    <2>2. ASSUME NEW i \in (p + 1)..(p + n)
          PROVE  s[i - p] = b[i]
      <3>1. i - p \in 1..n /\ p + (i - p) = i
        BY <1>1
      <3>2. QED
        BY <1>3, <3>1
    <2>3. QED
      BY <1>1, <2>1, <2>2 DEF Window, n
  <1>5. Next(s, 0) = Decoded(Next(b, p).pos - p, Next(b, p).el)
    BY <1>1, <1>2, <1>4, NextLocal
  <1>6. Next(s, 0).el = Next(b, p).el
    BY <1>5 DEF Decoded
  <1>7. QED
    BY <1>2, <1>6 DEF n

(* The first of the strings of a concatenation.                            *)
LEMMA FirstRead ==
    ASSUME NEW s \in StableStrings, NEW d \in Canonicals
    PROVE  /\ s \o d \in Seq(Byte)
           /\ Next(s \o d, 0).rc = 1 /\ Next(s \o d, 0).pos = Len(s)
           /\ Next(s \o d, 0).el = Next(s, 0).el
           /\ From(s \o d, Len(s)) = d
  <1>1. s \in Seq(Byte) /\ d \in Seq(Byte)
    BY CanonicalAppend DEF StableStrings
  <1> DEFINE b == s \o d
             n == Len(s)
             k == Len(d)
  <1>2. /\ b \in Seq(Byte) /\ Len(b) = n + k
        /\ \A i \in 1..(n + k) : b[i] = IF i <= n THEN s[i] ELSE d[i - n]
    BY <1>1, ConcatProperties
  <1>3. n \in Nat /\ k \in Nat
    BY <1>1, LenProperties
  <1>4. From(b, n) = d
    BY <1>1, FromConcat
  <1>5. k # 0 => d[1] # 255
    BY <1>1, EmptySeq, CanonicalSplit
  <1> SUFFICES /\ b \in Seq(Byte) /\ Next(b, 0).rc = 1 /\ Next(b, 0).pos = n
               /\ Next(b, 0).el = Next(s, 0).el
    BY <1>4
  <1> HIDE DEF b, k
  <1>6. At(b, 0, s) /\ 0 \in 0..Len(b)
    BY <1>2, <1>3 DEF At
  <1>7. Guarded(b, 0 + n)
    <2>1. ASSUME n < Len(b)
          PROVE  b[n + 1] # 255
      <3>1. n + 1 \in 1..(n + k) /\ ~(n + 1 <= n) /\ (n + 1) - n = 1 /\ k # 0
        BY <1>2, <1>3, <2>1
      <3>2. b[n + 1] = d[1]
        BY <1>2, <3>1
      <3>3. QED
        BY <1>5, <3>1, <3>2
    <2>2. QED
      BY <1>3, <2>1 DEF Guarded
  <1>8. Next(b, 0).rc = 1 /\ Next(b, 0).pos = 0 + n /\ Next(b, 0).el = Next(s, 0).el
    BY <1>2, <1>6, <1>7, StableSame
  <1>9. QED
    BY <1>2, <1>3, <1>8

LEMMA EmptyUnpacked == Unpack[<<>>] = <<>> /\ Split[<<>>] = <<>>
  <1> DEFINE none == <<>>
  <1>1. none \in Seq(Byte) /\ Len(none) = 0
    OBVIOUS
  <1> HIDE DEF none
  <1>2. Next(none, 0).rc = 0 /\ ElementSpan(none, 0).rc = 0
    BY <1>1 DEF Next, ElementSpan
  <1>3. Unpack[none] = <<>>
    BY <1>1, <1>2, UnpackUnfold, Zenon DEF Unpacked
  <1>4. Split[none] = <<>>
    <2>1. Split[none] = IF ElementSpan(none, 0).rc # 1 THEN <<>>
                        ELSE <<SubSeq(none, 1, ElementSpan(none, 0).end)>> \o Split[From(none, ElementSpan(none, 0).end)]
      BY <1>1, SplitUnfold
    <2>2. ElementSpan(none, 0).rc # 1
      BY <1>2
    <2>3. QED
      BY <2>1, <2>2, Zenon
  <1>5. QED
    BY <1>3, <1>4 DEF none

LEMMA FirstUnpacked ==
    ASSUME NEW s \in StableStrings, NEW d \in Canonicals
    PROVE  Unpack[s \o d] = <<Value(s)>> \o Unpack[d]
  <1> DEFINE b == s \o d
  <1>1. /\ b \in Seq(Byte) /\ Next(b, 0).rc = 1 /\ Next(b, 0).pos = Len(s)
        /\ Next(b, 0).el = Next(s, 0).el /\ From(b, Len(s)) = d
    BY FirstRead
  <1> HIDE DEF b
  <1>2. Next(b, 0).rc # 0 /\ Next(b, 0).rc # -1
    BY <1>1
  <1>3. Unpack[b] = <<ElementValue(Next(b, 0).el)>> \o Unpack[From(b, Next(b, 0).pos)]
    BY <1>1, <1>2, UnpackUnfold, Zenon DEF Unpacked, ElementValue
  <1>4. QED
    BY <1>1, <1>3 DEF b, Value

LEMMA FirstSplit ==
    ASSUME NEW s \in StableStrings, NEW d \in Canonicals
    PROVE  Split[s \o d] = <<s>> \o Split[d]
  <1> DEFINE b == s \o d
  <1>1. /\ b \in Seq(Byte) /\ Next(b, 0).rc = 1 /\ Next(b, 0).pos = Len(s) /\ From(b, Len(s)) = d
    BY FirstRead
  <1>2. SubSeq(b, 1, Len(s)) = s
    BY CutConcat, CanonicalAppend DEF StableStrings
  <1> HIDE DEF b
  <1>3. 0 \in 0..Len(b)
    BY <1>1, LenProperties
  <1>4. ElementSpan(b, 0).rc = 1 /\ ElementSpan(b, 0).end = Len(s)
    BY <1>1, <1>3, DecodeAgrees DEF SpansTo
  <1>5. Split[b] = <<SubSeq(b, 1, ElementSpan(b, 0).end)>> \o Split[From(b, ElementSpan(b, 0).end)]
    BY <1>1, <1>4, SplitUnfold
  <1>6. QED
    BY <1>1, <1>2, <1>4, <1>5 DEF b

LEMMA ValuesOf ==
    ASSUME NEW S, NEW t \in Seq(S)
    PROVE  /\ Values(t) \in Seq({Value(x) : x \in S}) /\ Len(Values(t)) = Len(t)
           /\ \A i \in 1..Len(t) : Values(t)[i] = Value(t[i])
  <1> DEFINE V == {Value(x) : x \in S}
  <1>1. Len(t) \in Nat /\ \A i \in 1..Len(t) : t[i] \in S
    BY LenProperties, ElementOfSeq
  <1>2. \A i \in 1..Len(t) : Value(t[i]) \in V
    BY <1>1
  <1> HIDE DEF V
  <1>3. Values(t) = [i \in 1..Len(t) |-> Value(t[i])]
    BY DEF Values
  <1>4. Values(t) \in Seq(V) /\ Len(Values(t)) = Len(t) /\ \A i \in 1..Len(t) : Values(t)[i] = Value(t[i])
    BY <1>1, <1>2, <1>3, IsASeq
  <1>5. QED
    BY <1>4 DEF V

LEMMA ValuesConcat ==
    ASSUME NEW S, NEW t \in Seq(S), NEW u \in Seq(S)
    PROVE  Values(t \o u) = Values(t) \o Values(u)
  <1> DEFINE V == {Value(x) : x \in S}
             c == t \o u
             x == Values(t)
             y == Values(u)
             z == Values(c)
             w == x \o y
  <1>1. /\ c \in Seq(S) /\ Len(c) = Len(t) + Len(u)
        /\ \A i \in 1..(Len(t) + Len(u)) : c[i] = IF i <= Len(t) THEN t[i] ELSE u[i - Len(t)]
    BY ConcatProperties
  <1>2. Len(t) \in Nat /\ Len(u) \in Nat
    BY LenProperties
  <1>3. x \in Seq(V) /\ Len(x) = Len(t) /\ \A i \in 1..Len(t) : x[i] = Value(t[i])
    BY ValuesOf
  <1>4. y \in Seq(V) /\ Len(y) = Len(u) /\ \A i \in 1..Len(u) : y[i] = Value(u[i])
    BY ValuesOf
  <1>5. z \in Seq(V) /\ Len(z) = Len(c) /\ \A i \in 1..Len(c) : z[i] = Value(c[i])
    BY <1>1, ValuesOf
  <1> HIDE DEF V, c, x, y, z
  <1>6. /\ w \in Seq(V) /\ Len(w) = Len(x) + Len(y)
        /\ \A i \in 1..(Len(x) + Len(y)) : w[i] = IF i <= Len(x) THEN x[i] ELSE y[i - Len(x)]
    <2>1. x \in Seq(V) /\ y \in Seq(V)
      BY <1>3, <1>4
    <2>2. QED
      BY <2>1, ConcatProperties
  <1> HIDE DEF w
  <1>7. ASSUME NEW i \in 1..Len(w)
        PROVE  w[i] = z[i]
    <2>1. i \in 1..(Len(t) + Len(u)) /\ i \in 1..Len(c) /\ i \in 1..(Len(x) + Len(y))
      BY <1>1, <1>3, <1>4, <1>6
    <2>2. CASE i <= Len(t)
      <3>1. i \in 1..Len(t)
        BY <1>2, <2>1, <2>2
      <3>2. QED
        BY <1>1, <1>3, <1>5, <1>6, <2>1, <2>2, <3>1
    <2>3. CASE ~(i <= Len(t))
      <3>1. i - Len(t) \in 1..Len(u)
        BY <1>2, <2>1, <2>3
      <3>2. QED
        BY <1>1, <1>3, <1>4, <1>5, <1>6, <2>1, <2>3, <3>1
    <2>4. QED
      BY <2>2, <2>3
  <1>8. Len(w) = Len(z)
    BY <1>1, <1>3, <1>4, <1>5, <1>6
  <1>9. w = z
    BY <1>5, <1>6, <1>7, <1>8, SeqEqual
  <1>10. QED
    BY <1>9 DEF w, x, y, z, c

LEMMA UnpackFlat ==
    ASSUME NEW t \in Seq(StableStrings)
    PROVE  Split[FlattenSeq(t)] = t /\ Unpack[FlattenSeq(t)] = Values(t)
  <1> DEFINE Back(u) == Split[FlattenSeq(u)] = u /\ Unpack[FlattenSeq(u)] = Values(u)
             N == {n \in Nat : \A u \in Seq(StableStrings) : Len(u) = n => Back(u)}
  <1>0. StableStrings \subseteq Seq(Byte) /\ Seq(StableStrings) \subseteq Seq(Seq(Byte))
    BY DEF StableStrings
  <1>1. 0 \in N
    <2>1. ASSUME NEW u \in Seq(StableStrings), Len(u) = 0
          PROVE  Back(u)
      <3>1. u = <<>>
        BY <2>1, EmptySeq
      <3>2. Values(u) = <<>>
        <4>1. Len(Values(u)) = 0 /\ Values(u) \in Seq({Value(x) : x \in StableStrings})
          BY <2>1, ValuesOf
        <4>2. QED
          BY <4>1, EmptySeq
      <3>3. FlattenSeq(u) = <<>>
        BY <3>1, FlattenEmpty
      <3>4. QED
        BY <3>1, <3>2, <3>3, EmptyUnpacked
    <2>2. QED
      BY <2>1
  <1>2. ASSUME NEW n \in Nat, n \in N
        PROVE  n + 1 \in N
    <2>1. ASSUME NEW u \in Seq(StableStrings), Len(u) = n + 1
          PROVE  Back(u)
      <3> DEFINE h == Head(u)
                 one == <<h>>
                 r == Tail(u)
                 d == FlattenSeq(r)
      <3>1. u # <<>>
        BY <2>1
      <3>2. h \in StableStrings /\ r \in Seq(StableStrings) /\ u = one \o r
        BY <3>1, HeadTail
      <3>3. Len(r) = n
        BY <2>1, <3>1, HeadTailProperties
      <3>4. one \in Seq(StableStrings) /\ FlattenSeq(one) = h
        <4>1. h \in Seq(Byte)
          BY <1>0, <3>2
        <4> HIDE DEF h
        <4>2. QED
          BY <3>2, <4>1, FlattenOne
      <3>5. Values(one) = <<Value(h)>>
        <4> HIDE DEF h
        <4>1. Len(one) = 1 /\ one[1] = h
          OBVIOUS
        <4> HIDE DEF one
        <4>2. Values(one) = [i \in 1..1 |-> Value(one[i])]
          BY <4>1 DEF Values
        <4>3. Values(one) = [i \in 1..1 |-> Value(h)]
          BY <4>1, <4>2
        <4>4. QED
          BY <4>3
      <3>6. Back(r)
        BY <1>2, <3>2, <3>3
      <3>7. d \in Canonicals
        BY <3>2 DEF Canonicals
      <3> HIDE DEF h, r
      <3>8. FlattenSeq(u) = h \o d
        <4>1. one \in Seq(Seq(Byte)) /\ r \in Seq(Seq(Byte))
          BY <1>0, <3>2, <3>4
        <4>2. FlattenSeq(u) = FlattenSeq(one) \o FlattenSeq(r)
          BY <3>2, <4>1, FlattenConcat
        <4>3. QED
          BY <3>4, <4>2
      <3>9. Values(u) = Values(one) \o Values(r)
        BY <3>2, <3>4, ValuesConcat
      <3>10. Split[h \o d] = one \o r
        BY <3>2, <3>6, <3>7, FirstSplit
      <3>11. Unpack[h \o d] = <<Value(h)>> \o Values(r)
        BY <3>2, <3>6, <3>7, FirstUnpacked
      <3>12. QED
        BY <3>2, <3>5, <3>8, <3>9, <3>10, <3>11
    <2>2. QED
      BY <2>1
  <1> HIDE DEF N
  <1>3. \A n \in Nat : n \in N
    BY <1>1, <1>2, NatSetInduction
  <1>4. Len(t) \in N
    BY <1>3, LenProperties
  <1>5. QED
    BY <1>4 DEF N

-----------------------------------------------------------------------------
(* Encoding an element and reading the bytes gives back its value.         *)
LEMMA ElementValueForms ==
    ASSUME NEW e
    PROVE  /\ e.kind = "array" => ElementValue(e) = [kind |-> "array", items |-> Unpack[e.data]]
           /\ e.kind = "set" => ElementValue(e) = [kind |-> "set", members |-> ToSet(Unpack[e.data])]
           /\ e.kind = "map" => ElementValue(e) = [kind |-> "map", entries |-> Pairs(Unpack[e.data])]
           /\ e.kind \notin {"array", "set", "map"} => ElementValue(e) = ScalarValue(e)
  BY DEF ElementValue, ValueOfElement

LEMMA TrimmedTwice ==
    ASSUME NEW S, NEW s \in Seq(S)
    PROVE  Trimmed(Trimmed(s)) = Trimmed(s)
  <1>1. Trimmed(s) \in Seq(S) /\ (Trimmed(s) # <<>> => Trimmed(s)[1] # 0)
    BY TrimmedProperties
  <1>2. QED
    BY <1>1, TrimmedIdentity

LEMMA IntValue ==
    ASSUME NEW e, NEW el, NEW m \in Magnitude,
           e.kind \in {"int", "bigint"}, e.mag = m,
           el.kind \in {"int", "bigint"}, el.neg = (e.neg /\ Trimmed(m) # <<>>), el.mag = Trimmed(m)
    PROVE  ElementValue(el) = ElementValue(e)
  <1>1. Trimmed(Trimmed(m)) = Trimmed(m)
    BY TrimmedTwice DEF Magnitude
  <1>2. ElementValue(el) = ScalarValue(el) /\ ElementValue(e) = ScalarValue(e)
    BY ElementValueForms
  <1>3. ScalarValue(el) = [kind |-> "int", neg |-> el.neg /\ Trimmed(el.mag) # <<>>, mag |-> Trimmed(el.mag)]
    BY DEF ScalarValue
  <1>4. ScalarValue(e) = [kind |-> "int", neg |-> e.neg /\ Trimmed(e.mag) # <<>>, mag |-> Trimmed(e.mag)]
    BY DEF ScalarValue
  <1>5. (el.neg /\ Trimmed(el.mag) # <<>>) = (e.neg /\ Trimmed(e.mag) # <<>>)
    BY <1>1
  <1>6. Trimmed(el.mag) = Trimmed(e.mag)
    BY <1>1
  <1>7. QED
    BY <1>2, <1>3, <1>4, <1>5, <1>6, Zenon

LEMMA DecimalValue ==
    ASSUME NEW e, e.kind = "decimal", NEW digits \in Seq(0..9), NEW exp \in Int,
           e.digits = digits, e.exp = exp
    PROVE  ElementValue(DecimalRead(e.neg, digits, exp)) = ElementValue(e)
  <1> DEFINE sig == Trimmed(digits)
             kept == Kept(sig)
             d == DecimalRead(e.neg, digits, exp)
  <1>1. sig \in Seq(0..9) /\ Trimmed(sig) = sig /\ (sig # <<>> => sig[1] # 0) /\ Len(sig) \in Nat
    BY TrimmedProperties, TrimmedTwice
  <1>2. ElementValue(e) = ScalarValue(e)
    BY ElementValueForms
  <1>3. d.kind = "decimal"
    BY DEF DecimalRead
  <1>4. ElementValue(d) = ScalarValue(d)
    BY <1>3, ElementValueForms
  <1>5. \A x : x.kind = "decimal" =>
           /\ Trimmed(x.digits) = <<>> =>
                ScalarValue(x) = [kind |-> "decimal", neg |-> FALSE, digits |-> <<>>, adj |-> 0]
           /\ Trimmed(x.digits) # <<>> =>
                ScalarValue(x) = [kind |-> "decimal", neg |-> x.neg, digits |-> Kept(Trimmed(x.digits)),
                                  adj |-> Len(Trimmed(x.digits)) + x.exp]
    BY DEF ScalarValue, NoTrailingZeros, Kept
  <1>6. CASE sig = <<>>
    <2>1. d.digits = <<>>
      BY <1>6 DEF DecimalRead
    <2>2. Trimmed(<<>>) = <<>>
      BY <1>1, <1>6
    <2>3. QED
      BY <1>2, <1>3, <1>4, <1>5, <1>6, <2>1, <2>2
  <1>7. CASE sig # <<>>
    <2>1. /\ kept \in Seq(0..9) /\ Len(kept) \in 1..Len(sig)
          /\ kept[1] # 0 /\ kept[Len(kept)] # 0
      BY <1>1, <1>7, KeptProperties
    <2>2. kept # <<>>
      BY <2>1, EmptySeq
    <2>3. Trimmed(kept) = kept
      BY <2>1, TrimmedIdentity
    <2>4. Kept(kept) = kept
      BY <2>1, <2>2, KeptIdentity
    <2>5. d = [kind |-> "decimal", neg |-> e.neg, digits |-> kept, exp |-> (Len(sig) + exp) - Len(kept)]
      BY <1>7 DEF DecimalRead
    <2>6. Len(kept) + ((Len(sig) + exp) - Len(kept)) = Len(sig) + exp
      BY <1>1, <2>1
    <2> HIDE DEF kept, sig, d
    <2>7. d.neg = e.neg /\ d.digits = kept /\ d.exp = (Len(sig) + exp) - Len(kept)
      BY <2>5
    <2>8. ScalarValue(d) = [kind |-> "decimal", neg |-> e.neg, digits |-> kept, adj |-> Len(sig) + exp]
      BY <1>3, <1>5, <2>2, <2>3, <2>4, <2>6, <2>7
    <2>9. ScalarValue(e) = [kind |-> "decimal", neg |-> e.neg, digits |-> kept, adj |-> Len(sig) + exp]
      BY <1>5, <1>7 DEF kept, sig
    <2>10. QED
      BY <1>2, <1>4, <2>8, <2>9 DEF d
  <1>8. QED
    BY <1>6, <1>7

LEMMA FramedKinds ==
    \A k \in DOMAIN FramedCode : FramedCode[k] \in Framed /\ KindOf[FramedCode[k]] = k
  <1>1. DOMAIN FramedCode = {"string", "bytes", "array", "map", "set"}
    BY DEF FramedCode
  <1>2. \A k \in DOMAIN FramedCode : FramedCode[k] \in Framed
    BY <1>1 DEF FramedCode, Framed
  <1>3. \A k, j \in DOMAIN FramedCode : FramedCode[j] = FramedCode[k] => j = k
    BY <1>1 DEF FramedCode, STRING_CODE, BYTES, ARRAY, MAP, SET
  <1>4. ASSUME NEW k \in DOMAIN FramedCode
        PROVE  KindOf[FramedCode[k]] = k
    <2>1. KindOf[FramedCode[k]] = CHOOSE j \in DOMAIN FramedCode : FramedCode[j] = FramedCode[k]
      BY <1>2, Zenon DEF KindOf
    <2>2. QED
      BY <1>3, <2>1, Zenon
  <1>5. QED
    BY <1>2, <1>4

(* The round trip: for every argument of an append call but the integers   *)
(* of a magnitude next() loses, the bytes written stay an element wherever *)
(* they stand, and next() reads them as the value that was appended; only  *)
(* a decimal out of range is refused, and then nothing is written.         *)
THEOREM EncodedValue ==
    ASSUME NEW e \in Encodable, KeptElement(e), e.kind = "decimal" => InExpRange(e.exp)
    PROVE  IF e.kind = "decimal" /\ DecimalRejected(e.digits, e.exp) THEN EncElement(e) = <<>>
           ELSE EncElement(e) \in StableStrings /\ Value(EncElement(e)) = ElementValue(e)
  <1>1. EncElement(e) \in Seq(Byte)
    BY EncElementBytes
  <1>2. ASSUME Stable(EncElement(e)), Next(EncElement(e), 0).el = e
        PROVE  EncElement(e) \in StableStrings /\ Value(EncElement(e)) = ElementValue(e)
    BY <1>1, <1>2 DEF StableStrings, Value
  <1>3. CASE e \in [kind : {"nil", "undef"}]
    <2>1. e.kind # "decimal" /\ (e = [kind |-> "nil"] \/ e = [kind |-> "undef"])
      BY <1>3
    <2>2. QED
      BY <1>2, <2>1, BareStable
  <1>4. CASE e \in [kind : {"bool"}, val : BOOLEAN]
    <2>1. e.kind # "decimal" /\ (e = [kind |-> "bool", val |-> FALSE] \/ e = [kind |-> "bool", val |-> TRUE])
      BY <1>4
    <2>2. QED
      BY <1>2, <2>1, BareStable
  <1>5. CASE e \in [kind : {"int", "bigint"}, neg : BOOLEAN, mag : Magnitude]
    <2>1. e.kind \in {"int", "bigint"} /\ e.neg \in BOOLEAN /\ e.mag \in Magnitude
      BY <1>5
    <2>2. ~(e.neg /\ Lost(Trimmed(e.mag)))
      BY <2>1 DEF KeptElement
    <2>3. EncElement(e) = EncInt(e.neg, e.mag)
      BY <2>1, EncElementInt
    <2> DEFINE el == Next(EncElement(e), 0).el
    <2>4. /\ Stable(EncElement(e))
          /\ el.kind \in {"int", "bigint"} /\ el.neg = (e.neg /\ Trimmed(e.mag) # <<>>) /\ el.mag = Trimmed(e.mag)
      BY <2>1, <2>2, <2>3, IntStable DEF IntRead
    <2> HIDE DEF el
    <2>5. ElementValue(el) = ElementValue(e)
      BY <2>1, <2>4, IntValue
    <2>6. e.kind # "decimal"
      BY <2>1
    <2>7. QED
      BY <1>1, <2>4, <2>5, <2>6 DEF StableStrings, Value, el
  <1>6. CASE \/ e \in [kind : {"f32"}, bits : [1..F32Width -> Byte]]
             \/ e \in [kind : {"f64"}, bits : [1..F64Width -> Byte]]
             \/ e \in [kind : {"timestamp"}, data : [1..NativeWidth -> Byte]]
             \/ e \in [kind : {"uuid"}, data : [1..UuidWidth -> Byte]]
    <2>1. /\ Stable(EncElement(e))
          /\ Next(EncElement(e), 0).el =
                IF e.kind \in {"f32", "f64"} THEN [kind |-> e.kind, bits |-> CanonicalBits(e.bits)] ELSE e
      BY <1>6, FixedPayloadStable
    <2>2. e.kind # "decimal"
      BY <1>6
    <2>3. CASE e.kind \notin {"f32", "f64"}
      BY <1>2, <2>1, <2>2, <2>3
    <2>4. CASE e.kind \in {"f32", "f64"}
      <3> DEFINE el == [kind |-> e.kind, bits |-> CanonicalBits(e.bits)]
      <3>1. PICK n \in Nat \ {0} : e.bits \in [1..n -> Byte]
        BY <1>6, <2>4, WidthAssumption
      <3>2. CanonicalBits(CanonicalBits(e.bits)) = CanonicalBits(e.bits)
        BY <3>1, CanonicalTwice
      <3>3. el.kind = e.kind /\ el.bits = CanonicalBits(e.bits)
        OBVIOUS
      <3>4. Next(EncElement(e), 0).el = el
        BY <2>1, <2>4
      <3> HIDE DEF el
      <3>5. ElementValue(el) = ScalarValue(el) /\ ElementValue(e) = ScalarValue(e)
        BY <2>4, <3>3, ElementValueForms
      <3>6. \A x : x.kind \in {"f32", "f64"} => ScalarValue(x) = [kind |-> x.kind, bits |-> CanonicalBits(x.bits)]
        BY DEF ScalarValue
      <3>7. ElementValue(el) = ElementValue(e)
        BY <2>4, <3>2, <3>3, <3>5, <3>6
      <3>8. QED
        BY <1>1, <2>1, <2>2, <3>4, <3>7 DEF StableStrings, Value
    <2>5. QED
      BY <2>3, <2>4
  <1>7. CASE e \in [kind : {"decimal"}, neg : BOOLEAN, digits : Seq(0..9), exp : Int]
    <2>1. e.kind = "decimal" /\ e.neg \in BOOLEAN /\ e.digits \in Seq(0..9) /\ e.exp \in Int /\ InExpRange(e.exp)
      BY <1>7
    <2>2. WrapExp(e.exp) = e.exp
      BY <2>1, WrapExpRange
    <2>3. EncElement(e) = EncDecimal(e.neg, e.digits, e.exp)
      BY <2>1, <2>2, FramedCodes DEF EncElement
    <2>4. IF DecimalRejected(e.digits, e.exp) THEN EncElement(e) = <<>>
          ELSE /\ Stable(EncElement(e))
               /\ Next(EncElement(e), 0).el = DecimalRead(e.neg, e.digits, e.exp)
      BY <2>1, <2>3, DecimalStable
    <2>5. ElementValue(DecimalRead(e.neg, e.digits, e.exp)) = ElementValue(e)
      BY <2>1, DecimalValue
    <2>6. QED
      BY <1>1, <2>1, <2>4, <2>5 DEF StableStrings, Value
  <1>8. CASE e \in [kind : DOMAIN FramedCode, data : Seq(Byte)]
    <2>1. e.kind \in DOMAIN FramedCode /\ e.data \in Seq(Byte) /\ e = [kind |-> e.kind, data |-> e.data]
      BY <1>8
    <2>2. EncElement(e) = EncFramed(FramedCode[e.kind], e.data)
      BY <2>1, FramedCodes DEF EncElement
    <2>3. FramedCode[e.kind] \in Framed /\ KindOf[FramedCode[e.kind]] = e.kind
      BY <2>1, FramedKinds
    <2>4. Stable(EncElement(e)) /\ Next(EncElement(e), 0).el = e
      BY <2>1, <2>2, <2>3, FramedStable
    <2>5. e.kind # "decimal"
      BY <2>1 DEF FramedCode
    <2>6. QED
      BY <1>2, <2>4, <2>5
  <1>9. QED
    BY <1>3, <1>4, <1>5, <1>6, <1>7, <1>8 DEF Encodable

(* Canonical bytes read back as one value for each string.                 *)
LEMMA CanonicalValues ==
    ASSUME NEW x \in Canonicals
    PROVE  /\ Split[x] \in Seq(StableStrings) /\ x = FlattenSeq(Split[x])
           /\ Unpack[x] = Values(Split[x])
           /\ Len(Unpack[x]) = Len(Split[x])
           /\ \A i \in 1..Len(Split[x]) : Unpack[x][i] = Value(Split[x][i])
           /\ Unpack[x] \in Seq({Value(s) : s \in StableStrings})
  <1>1. PICK t \in Seq(StableStrings) : x = FlattenSeq(t)
    BY DEF Canonicals
  <1>2. Split[x] = t /\ Unpack[x] = Values(t)
    BY <1>1, UnpackFlat
  <1>3. /\ Values(t) \in Seq({Value(s) : s \in StableStrings}) /\ Len(Values(t)) = Len(t)
        /\ \A i \in 1..Len(t) : Values(t)[i] = Value(t[i])
    BY ValuesOf
  <1>4. QED
    BY <1>1, <1>2, <1>3

LEMMA UnpackConcat ==
    ASSUME NEW x \in Canonicals, NEW y \in Canonicals
    PROVE  Unpack[x \o y] = Unpack[x] \o Unpack[y]
  <1> DEFINE t == Split[x]
             u == Split[y]
  <1>1. /\ t \in Seq(StableStrings) /\ x = FlattenSeq(t) /\ Unpack[x] = Values(t)
        /\ u \in Seq(StableStrings) /\ y = FlattenSeq(u) /\ Unpack[y] = Values(u)
    BY CanonicalValues
  <1> HIDE DEF t, u
  <1>2. StableStrings \subseteq Seq(Byte)
    BY DEF StableStrings
  <1>3. t \o u \in Seq(StableStrings)
    BY <1>1, ConcatProperties
  <1>4. FlattenSeq(t \o u) = x \o y
    <2>1. t \in Seq(Seq(Byte)) /\ u \in Seq(Seq(Byte))
      BY <1>1, <1>2
    <2>2. FlattenSeq(t \o u) = FlattenSeq(t) \o FlattenSeq(u)
      BY <2>1, FlattenConcat
    <2>3. QED
      BY <1>1, <2>2
  <1>5. Unpack[FlattenSeq(t \o u)] = Values(t \o u)
    BY <1>3, UnpackFlat
  <1>6. QED
    BY <1>1, <1>4, <1>5, ValuesConcat

LEMMA UnpackOne ==
    ASSUME NEW s \in StableStrings
    PROVE  s \in Canonicals /\ Unpack[s] = <<Value(s)>>
  <1> DEFINE t == <<s>>
  <1>1. t \in Seq(StableStrings) /\ Len(t) = 1 /\ t[1] = s /\ t = Append(<<>>, s)
    OBVIOUS
  <1>2. s \in Seq(Byte) /\ <<>> \in Seq(Seq(Byte))
    BY EmptySeq DEF StableStrings
  <1> HIDE DEF t
  <1>3. FlattenSeq(t) = s
    <2>1. FlattenSeq(Append(<<>>, s)) = FlattenSeq(<<>>) \o s
      BY <1>2, FlattenAppend
    <2>2. FlattenSeq(<<>>) \o s = s
      BY <1>2, FlattenEmpty, ConcatEmptySeq
    <2>3. QED
      BY <1>1, <2>1, <2>2
  <1>4. s \in Canonicals
    BY <1>1, <1>3 DEF Canonicals
  <1>5. Unpack[s] = Values(t)
    BY <1>1, <1>3, UnpackFlat
  <1>6. Values(t) = <<Value(s)>>
    BY <1>1 DEF Values
  <1>7. QED
    BY <1>4, <1>5, <1>6

-----------------------------------------------------------------------------
(* The bytes of a number: u64_to_be gives the most significant first and   *)
(* ends with the lowest byte, and trimming does not touch the end.         *)
LEMMA ReverseFirst ==
    ASSUME NEW S, NEW x \in S, NEW s \in Seq(S)
    PROVE  Reverse(<<x>> \o s) = Append(Reverse(s), x)
  <1> DEFINE z == <<x>>
             t == z \o s
             n == Len(s)
  <1>1. z \in Seq(S) /\ Len(z) = 1 /\ z[1] = x /\ n \in Nat
    BY LenProperties
  <1> HIDE DEF z
  <1>2. t \in Seq(S) /\ Len(t) = 1 + n /\ t[1] = x /\ \A i \in 1..n : t[1 + i] = s[i]
    BY <1>1, ConcatProperties
  <1> HIDE DEF t
  <1>3. Reverse(t) \in Seq(S) /\ Len(Reverse(t)) = 1 + n
    BY <1>2, ReverseType
  <1>4. \A i \in 1..Len(t) : Reverse(t)[i] = t[(Len(t) - i) + 1]
    BY <1>2, ReverseAt
  <1>5. Reverse(s) \in Seq(S) /\ Len(Reverse(s)) = n
    BY ReverseType
  <1>6. \A i \in 1..Len(s) : Reverse(s)[i] = s[(Len(s) - i) + 1]
    BY ReverseAt
  <1> DEFINE r == Reverse(s)
             a == Append(r, x)
  <1>7. a \in Seq(S) /\ Len(a) = n + 1 /\ a[n + 1] = x /\ \A i \in 1..n : a[i] = r[i]
    BY <1>1, <1>5, AppendProperties
  <1> HIDE DEF r, a, n
  <1>8. ASSUME NEW i \in 1..(1 + n)
        PROVE  Reverse(t)[i] = a[i]
    <2>1. CASE i = 1 + n
      BY <1>1, <1>2, <1>4, <1>7, <2>1
    <2>2. CASE i # 1 + n
      <3>1. i \in 1..n /\ (Len(t) - i) + 1 = 1 + ((n - i) + 1) /\ (n - i) + 1 \in 1..n
        BY <1>1, <1>2, <2>2
      <3>2. Reverse(t)[i] = t[1 + ((n - i) + 1)] /\ t[1 + ((n - i) + 1)] = s[(n - i) + 1]
        BY <1>1, <1>2, <1>4, <3>1
      <3>3. a[i] = r[i] /\ r[i] = s[(n - i) + 1]
        BY <1>6, <1>7, <3>1 DEF r, n
      <3>4. QED
        BY <3>2, <3>3
    <2>3. QED
      BY <2>1, <2>2
  <1>9. Reverse(t) = a
    BY <1>1, <1>3, <1>7, <1>8, SeqEqual
  <1>10. QED
    BY <1>9 DEF t, z, a, r

LEMMA ToBEUnfold ==
    /\ ToBE(0) = <<>>
    /\ \A n \in Nat \ {0} : ToBE(n) = Append(ToBE(n \div 256), n % 256)
  <1>1. ToBE(0) = <<>>
    <2>1. LittleEndian[0] = <<>>
      BY LittleEndianUnfold
    <2>2. Reverse(<<>>) = <<>>
      BY ReverseType, EmptySeq
    <2>3. QED
      BY <2>1, <2>2 DEF ToBE
  <1>2. ASSUME NEW n \in Nat \ {0}
        PROVE  ToBE(n) = Append(ToBE(n \div 256), n % 256)
    <2> DEFINE q == n \div 256
               x == n % 256
    <2>1. q \in Nat /\ x \in Byte
      BY DEF Byte
    <2>2. LittleEndian[n] = <<x>> \o LittleEndian[q]
      BY <1>2, LittleEndianUnfold
    <2> HIDE DEF q, x
    <2>3. LittleEndian[q] \in Seq(Byte)
      BY <2>1, LittleEndianBytes
    <2>4. Reverse(<<x>> \o LittleEndian[q]) = Append(Reverse(LittleEndian[q]), x)
      BY <2>1, <2>3, ReverseFirst
    <2>5. QED
      BY <2>2, <2>4 DEF ToBE, q, x
  <1>3. QED
    BY <1>1, <1>2

LEMMA AppendedNumber ==
    \A q \in Nat, r \in Byte : 256 * q + r # 0 => ToBE(256 * q + r) = Append(ToBE(q), r)
  <1> TAKE q \in Nat, r \in Byte
  <1> HAVE 256 * q + r # 0
  <1> DEFINE n == 256 * q + r
  <1>1. r \in 0..255
    BY DEF Byte
  <1>2. n \in Nat \ {0} /\ n \div 256 = q /\ n % 256 = r
    BY <1>1
  <1> HIDE DEF n
  <1>3. ToBE(n) = Append(ToBE(n \div 256), n % 256)
    BY <1>2, ToBEUnfold
  <1>4. QED
    BY <1>2, <1>3 DEF n

LEMMA TrimmedAppend ==
    ASSUME NEW u \in Seq(Byte), NEW y \in Byte, y # 0 \/ Trimmed(u) # <<>>
    PROVE  Trimmed(Append(u, y)) = Append(Trimmed(u), y)
  <1> DEFINE t == Append(u, y)
             n == Len(u)
             old == {i \in DOMAIN u : u[i] # 0}
             sig == {i \in DOMAIN t : t[i] # 0}
  <1>1. /\ t \in Seq(Byte) /\ Len(t) = n + 1 /\ t[n + 1] = y /\ \A i \in 1..n : t[i] = u[i]
        /\ n \in Nat /\ DOMAIN t = 1..(n + 1) /\ DOMAIN u = 1..n
    BY AppendProperties, LenProperties
  <1> HIDE DEF t
  <1>2. old \in SUBSET Nat /\ sig \in SUBSET Nat /\ sig # {} /\ (old = {} => n + 1 \in sig)
    <2>1. old = {} => Trimmed(u) = <<>>
      BY DEF Trimmed
    <2>2. old = {} => n + 1 \in sig
      BY <1>1, <2>1
    <2>3. old \subseteq sig
      BY <1>1
    <2>4. old \in SUBSET Nat /\ sig \in SUBSET Nat
      BY <1>1
    <2> HIDE DEF old, sig
    <2>5. QED
      BY <2>2, <2>3, <2>4
  <1>3. Trimmed(t) = SubSeq(t, FirstOf(sig), n + 1)
    BY <1>1, <1>2 DEF Trimmed
  <1>4. CASE old = {}
    <2>1. \A i \in sig : n + 1 <= i
      BY <1>1, <1>4
    <2>2. FirstOf(sig) = n + 1
      BY <1>2, <1>4, <2>1, FirstOfIs
    <2>3. Trimmed(u) = <<>>
      BY <1>4 DEF Trimmed
    <2> HIDE DEF n, sig, old
    <2>4. SubSeq(t, n + 1, n + 1) = <<y>>
      <3>1. /\ SubSeq(t, n + 1, n + 1) \in Seq(Byte)
            /\ Len(SubSeq(t, n + 1, n + 1)) = 1
            /\ SubSeq(t, n + 1, n + 1)[1] = t[n + 1]
        BY <1>1
      <3>2. <<y>> \in Seq(Byte) /\ Len(<<y>>) = 1 /\ <<y>>[1] = y
        OBVIOUS
      <3> DEFINE a == SubSeq(t, n + 1, n + 1)
                 b == <<y>>
      <3>3. a \in Seq(Byte) /\ b \in Seq(Byte) /\ Len(a) = 1 /\ Len(b) = 1 /\ a[1] = b[1]
        BY <1>1, <3>1, <3>2
      <3> HIDE DEF a, b
      <3>4. a = b
        BY <3>3, SeqEqual
      <3>5. QED
        BY <3>4 DEF a, b
    <2>5. Append(<<>>, y) = <<y>>
      OBVIOUS
    <2>6. QED
      BY <1>3, <2>2, <2>3, <2>4, <2>5 DEF t
  <1>5. CASE old # {}
    <2> DEFINE f == FirstOf(old)
    <2>1. f \in old /\ \A i \in old : f <= i
      BY <1>2, <1>5, FirstOfProperties
    <2>2. f \in sig /\ \A i \in sig : f <= i
      <3>1. \A i \in sig : i = n + 1 \/ i \in old
        BY <1>1
      <3>2. f \in 1..n /\ f \in sig
        BY <1>1, <2>1
      <3>3. f <= n + 1
        BY <1>1, <3>2
      <3> HIDE DEF sig, old, f
      <3>4. QED
        BY <2>1, <3>1, <3>2, <3>3
    <2>3. FirstOf(sig) = f
      BY <1>2, <2>2, FirstOfIs
    <2>4. Trimmed(u) = SubSeq(u, f, n)
      BY <1>5 DEF Trimmed
    <2>5. f \in 1..n
      BY <1>1, <2>1
    <2> HIDE DEF f, n, sig, old
    <2> DEFINE a == SubSeq(t, f, n + 1)
               b == SubSeq(u, f, n)
               c == Append(b, y)
    <2>6. a \in Seq(Byte) /\ Len(a) = n - f + 2 /\ \A i \in 1..(n - f + 2) : a[i] = t[f + i - 1]
      BY <1>1, <2>5
    <2>7. b \in Seq(Byte) /\ Len(b) = n - f + 1 /\ \A i \in 1..(n - f + 1) : b[i] = u[f + i - 1]
      BY <1>1, <2>5 DEF n
    <2> HIDE DEF a, b
    <2>8. c \in Seq(Byte) /\ Len(c) = Len(b) + 1 /\ c[Len(b) + 1] = y /\ \A i \in 1..Len(b) : c[i] = b[i]
      BY <2>7, AppendProperties
    <2> HIDE DEF c
    <2>9. ASSUME NEW i \in 1..(n - f + 2)
          PROVE  a[i] = c[i]
      <3>1. CASE i = n - f + 2
        <4>1. a[i] = t[f + i - 1] /\ f + i - 1 = n + 1 /\ i = Len(b) + 1
          BY <1>1, <2>5, <2>6, <2>7, <3>1
        <4>2. QED
          BY <1>1, <2>8, <4>1
      <3>2. CASE i # n - f + 2
        <4>1. i \in 1..(n - f + 1) /\ f + i - 1 \in 1..n
          BY <1>1, <2>5, <3>2
        <4>2. a[i] = t[f + i - 1] /\ t[f + i - 1] = u[f + i - 1] /\ b[i] = u[f + i - 1] /\ c[i] = b[i]
          BY <1>1, <2>6, <2>7, <2>8, <4>1
        <4>3. QED
          BY <4>2
      <3>3. QED
        BY <3>1, <3>2
    <2>10. a = c
      <3>1. Len(a) = Len(c) /\ Len(a) = n - f + 2
        BY <1>1, <2>5, <2>6, <2>7, <2>8
      <3>2. QED
        BY <2>6, <2>8, <2>9, <3>1, SeqEqual
    <2>11. QED
      BY <1>3, <2>3, <2>4, <2>10 DEF a, b, c, t
  <1>6. QED
    BY <1>4, <1>5

-----------------------------------------------------------------------------
(* memcmp.  Two strings part at the first place where they hold different  *)
(* bytes, or one of them is a prefix of the other.                         *)
PartAt(u, v, i) ==
    i \in 1..Len(u) /\ i \in 1..Len(v) /\ u[i] # v[i] /\ \A j \in 1..(i - 1) : u[j] = v[j]
StartOf(u, v) == Len(u) <= Len(v) /\ \A j \in 1..Len(u) : u[j] = v[j]

LEMMA ByteInt == \A x \in Byte : x \in Int /\ x \in Nat /\ x < 256
  BY DEF Byte

LEMMA SignFacts ==
    \A x, y \in Int : /\ SignOf(x - y) \in {-1, 0, 1} /\ SignOf(y - x) = -SignOf(x - y)
                      /\ (SignOf(x - y) = 0 <=> x = y) /\ (SignOf(x - y) < 0 <=> x < y)
                      /\ SignOf(x - y) # -SignOf(x - y) \/ x = y
  BY DEF SignOf

LEMMA PartOrPrefix ==
    ASSUME NEW u \in Seq(Byte), NEW v \in Seq(Byte)
    PROVE  (\E i : PartAt(u, v, i)) \/ StartOf(u, v) \/ StartOf(v, u)
  <1> DEFINE D == {i \in 1..Len(u) : i <= Len(v) /\ u[i] # v[i]}
  <1>1. Len(u) \in Nat /\ Len(v) \in Nat
    BY LenProperties
  <1>2. CASE D = {}
    <2>1. \A i \in 1..Len(u) : i <= Len(v) => u[i] = v[i]
      BY <1>2
    <2>2. QED
      BY <1>1, <2>1 DEF StartOf
  <1>3. CASE D # {}
    <2> DEFINE i == FirstOf(D)
    <2>1. D \in SUBSET Nat
      BY <1>1
    <2>2. i \in D /\ \A j \in D : i <= j
      BY <1>3, <2>1, FirstOfProperties
    <2> HIDE DEF i
    <2>3. PartAt(u, v, i)
      BY <1>1, <2>2 DEF PartAt
    <2>4. QED
      BY <2>3
  <1>4. QED
    BY <1>2, <1>3

LEMMA CompareAt ==
    ASSUME NEW u \in Seq(Byte), NEW v \in Seq(Byte), NEW i, PartAt(u, v, i)
    PROVE  /\ Compare(u, v) = SignOf(u[i] - v[i])
           /\ u[i] \in Byte /\ v[i] \in Byte /\ u[i] # v[i] /\ Compare(u, v) # 0
           /\ PartAt(v, u, i)
  <1> DEFINE n == IF Len(u) < Len(v) THEN Len(u) ELSE Len(v)
             diff == {j \in 1..n : u[j] # v[j]}
             at == CHOOSE j \in diff : \A k \in diff : j <= k
  <1>1. Len(u) \in Nat /\ Len(v) \in Nat /\ i \in 1..Len(u) /\ i \in 1..Len(v)
    BY LenProperties DEF PartAt
  <1>2. u[i] \in Byte /\ v[i] \in Byte /\ u[i] # v[i]
    BY <1>1, ElementOfSeq DEF PartAt
  <1>3. i \in diff /\ \A k \in diff : i <= k
    BY <1>1 DEF PartAt
  <1>4. at \in diff /\ \A k \in diff : at <= k
    BY <1>3
  <1>5. at = i
    BY <1>1, <1>3, <1>4
  <1>6. Compare(u, v) = SignOf(u[i] - v[i])
    BY <1>3, <1>5 DEF Compare
  <1>7. SignOf(u[i] - v[i]) # 0
    BY <1>2, ByteInt, SignFacts
  <1>8. QED
    BY <1>1, <1>2, <1>6, <1>7 DEF PartAt

LEMMA ComparePrefix ==
    ASSUME NEW u \in Seq(Byte), NEW v \in Seq(Byte), StartOf(u, v)
    PROVE  /\ Compare(u, v) = SignOf(Len(u) - Len(v)) /\ Compare(v, u) = SignOf(Len(v) - Len(u))
           /\ (Len(u) = Len(v) => u = v)
  <1>1. Len(u) \in Nat /\ Len(v) \in Nat /\ Len(u) <= Len(v)
    BY LenProperties DEF StartOf
  <1>2. \A j \in 1..Len(u) : u[j] = v[j]
    BY DEF StartOf
  <1>3. Compare(u, v) = SignOf(Len(u) - Len(v))
    <2> DEFINE n == IF Len(u) < Len(v) THEN Len(u) ELSE Len(v)
    <2>1. n = Len(u)
      BY <1>1
    <2>2. {j \in 1..n : u[j] # v[j]} = {}
      BY <1>2, <2>1
    <2>3. QED
      BY <2>2 DEF Compare
  <1>4. Compare(v, u) = SignOf(Len(v) - Len(u))
    <2> DEFINE n == IF Len(v) < Len(u) THEN Len(v) ELSE Len(u)
    <2>1. n = Len(u)
      BY <1>1
    <2>2. {j \in 1..n : v[j] # u[j]} = {}
      BY <1>2, <2>1
    <2>3. QED
      BY <2>2 DEF Compare
  <1>5. Len(u) = Len(v) => u = v
    BY <1>2, SeqEqual
  <1>6. QED
    BY <1>3, <1>4, <1>5

(* memcmp is antisymmetric and answers 0 for equal strings only.           *)
LEMMA CompareOrder ==
    ASSUME NEW u \in Seq(Byte), NEW v \in Seq(Byte)
    PROVE  /\ Compare(u, v) \in {-1, 0, 1}
           /\ Compare(v, u) = -Compare(u, v)
           /\ Compare(u, v) = 0 <=> u = v
  <1>1. Len(u) \in Nat /\ Len(v) \in Nat
    BY LenProperties
  <1>2. ASSUME NEW i, PartAt(u, v, i)
        PROVE  Compare(u, v) \in {-1, 0, 1} /\ Compare(v, u) = -Compare(u, v) /\ Compare(u, v) # 0
    <2>1. PartAt(v, u, i)
      BY <1>2, CompareAt
    <2>2. /\ Compare(u, v) = SignOf(u[i] - v[i]) /\ Compare(v, u) = SignOf(v[i] - u[i])
          /\ u[i] \in Byte /\ v[i] \in Byte /\ u[i] # v[i]
      BY <1>2, <2>1, CompareAt
    <2>3. u[i] \in Int /\ v[i] \in Int
      BY <2>2, ByteInt
    <2>4. /\ SignOf(u[i] - v[i]) \in {-1, 0, 1} /\ SignOf(v[i] - u[i]) = -SignOf(u[i] - v[i])
          /\ (SignOf(u[i] - v[i]) = 0 <=> u[i] = v[i])
      BY <2>3, SignFacts, Zenon
    <2>5. QED
      BY <2>2, <2>4
  <1>3. ASSUME StartOf(u, v) \/ StartOf(v, u)
        PROVE  /\ Compare(u, v) \in {-1, 0, 1} /\ Compare(v, u) = -Compare(u, v)
               /\ Compare(u, v) = 0 => u = v
    <2>1. Compare(u, v) = SignOf(Len(u) - Len(v)) /\ Compare(v, u) = SignOf(Len(v) - Len(u))
          /\ (Len(u) = Len(v) => u = v)
      BY <1>3, ComparePrefix
    <2>2. QED
      BY <1>1, <2>1, SignFacts
  <1>4. Compare(u, u) = 0
    <2>1. StartOf(u, u)
      BY <1>1 DEF StartOf
    <2>2. Compare(u, u) = SignOf(Len(u) - Len(u))
      BY <2>1, ComparePrefix
    <2>3. QED
      BY <1>1, <2>2 DEF SignOf
  <1>5. (\E i : PartAt(u, v, i)) \/ StartOf(u, v) \/ StartOf(v, u)
    BY PartOrPrefix
  <1>6. CASE \E i : PartAt(u, v, i)
    <2>1. PICK i : PartAt(u, v, i)
      BY <1>6
    <2>2. Compare(u, v) \in {-1, 0, 1} /\ Compare(v, u) = -Compare(u, v) /\ Compare(u, v) # 0
      BY <1>2, <2>1
    <2>3. QED
      BY <1>4, <2>2
  <1>7. CASE StartOf(u, v) \/ StartOf(v, u)
    BY <1>3, <1>4, <1>7
  <1>8. QED
    BY <1>5, <1>6, <1>7

LEMMA CompareBack ==
    ASSUME NEW u \in Seq(Byte), NEW v \in Seq(Byte)
    PROVE  (Compare(u, v) = -1 <=> Compare(v, u) = 1) /\ (Compare(u, v) < 0 <=> Compare(v, u) > 0)
  <1> DEFINE c == Compare(u, v)
             d == Compare(v, u)
  <1>1. c \in Int /\ d \in Int /\ d = -c
    BY CompareOrder
  <1> HIDE DEF c, d
  <1>2. (c = -1 <=> d = 1) /\ (c < 0 <=> d > 0)
    BY <1>1
  <1>3. QED
    BY <1>2 DEF c, d

-----------------------------------------------------------------------------
(* Recursion in steps: where the rest of b is smaller than b, there is one *)
(* f with f[b] = base[b] at a stop and step[b, f[rest[b]]] elsewhere.      *)
StepsTo(f, k, D, size, stop, base, step, rest) ==
    \A b \in D : size[b] <= k =>
        f[b] = IF stop[b] THEN base[b] ELSE step[<<b, f[rest[b]]>>]

(* A solution up to any size, by induction on the size.                    *)
LEMMA StepsExistTo ==
    ASSUME NEW D, NEW size \in [D -> Nat], NEW stop, NEW base, NEW step, NEW rest,
           \A b \in D : ~stop[b] => rest[b] \in D /\ size[rest[b]] < size[b]
    PROVE  \A k \in Nat : \E f : StepsTo(f, k, D, size, stop, base, step, rest)
  <1> DEFINE S == {k \in Nat : \E f : StepsTo(f, k, D, size, stop, base, step, rest)}
  <1>1. 0 \in S
    <2> DEFINE f == [b \in D |-> base[b]]
    <2>1. ASSUME NEW b \in D, size[b] <= 0
          PROVE  f[b] = IF stop[b] THEN base[b] ELSE step[<<b, f[rest[b]]>>]
      <3>1. stop[b]
        <4>1. SUFFICES ASSUME ~stop[b] PROVE FALSE
          OBVIOUS
        <4>2. rest[b] \in D /\ size[rest[b]] < size[b]
          BY <4>1
        <4>3. size[rest[b]] \in Nat /\ size[b] \in Nat
          BY <4>2
        <4>4. QED
          BY <2>1, <4>2, <4>3
      <3>2. QED
        BY <3>1, Zenon
    <2> HIDE DEF f
    <2>2. StepsTo(f, 0, D, size, stop, base, step, rest)
      BY <2>1 DEF StepsTo
    <2>3. QED
      BY <2>2
  <1>2. ASSUME NEW k \in Nat, k \in S
        PROVE  k + 1 \in S
    <2>1. PICK f : StepsTo(f, k, D, size, stop, base, step, rest)
      BY <1>2
    <2> DEFINE g == [b \in D |-> IF size[b] <= k THEN f[b]
                                 ELSE IF stop[b] THEN base[b] ELSE step[<<b, f[rest[b]]>>]]
    <2>2. \A b \in D : g[b] = IF size[b] <= k THEN f[b]
                              ELSE IF stop[b] THEN base[b] ELSE step[<<b, f[rest[b]]>>]
      BY Zenon
    <2> HIDE DEF g
    <2>3. \A b \in D : size[b] <= k => f[b] = IF stop[b] THEN base[b] ELSE step[<<b, f[rest[b]]>>]
      BY <2>1 DEF StepsTo
    <2>4. \A b \in D : g[b] = IF stop[b] THEN base[b] ELSE step[<<b, f[rest[b]]>>]
      BY <2>2, <2>3, Zenon
    <2>5. ASSUME NEW b \in D, size[b] <= k + 1, ~stop[b]
          PROVE  g[rest[b]] = f[rest[b]]
      <3>1. rest[b] \in D /\ size[rest[b]] < size[b]
        BY <2>5
      <3>2. size[rest[b]] <= k
        <4>1. size[rest[b]] \in Nat /\ size[b] \in Nat
          BY <3>1
        <4>2. QED
          BY <2>5, <3>1, <4>1
      <3>3. QED
        BY <2>2, <3>1, <3>2, Zenon
    <2>6. ASSUME NEW b \in D, size[b] <= k + 1
          PROVE  g[b] = IF stop[b] THEN base[b] ELSE step[<<b, g[rest[b]]>>]
      BY <2>4, <2>5, <2>6, Zenon
    <2>7. StepsTo(g, k + 1, D, size, stop, base, step, rest)
      BY <2>6 DEF StepsTo
    <2>8. QED
      BY <2>7
  <1> HIDE DEF S
  <1>3. \A k \in Nat : k \in S
    BY <1>1, <1>2, NatSetInduction
  <1>4. QED
    BY <1>3 DEF S

(* Two solutions up to k agree up to k.                                    *)
LEMMA StepsUnique ==
    ASSUME NEW D, NEW size, NEW stop, NEW base, NEW step, NEW rest, Shrinks(D, size, stop, rest),
           NEW k \in Nat, NEW f, NEW g,
           StepsTo(f, k, D, size, stop, base, step, rest),
           StepsTo(g, k, D, size, stop, base, step, rest)
    PROVE  \A b \in D : size[b] <= k => f[b] = g[b]
  <1>0. size \in [D -> Nat] /\ \A b \in D : ~stop[b] => rest[b] \in D /\ size[rest[b]] < size[b]
    BY DEF Shrinks
  <1> DEFINE S == {n \in Nat : \A b \in D : size[b] < n /\ size[b] <= k => f[b] = g[b]}
  <1>1. 0 \in S
    <2>1. \A b \in D : ~(size[b] < 0)
      <3> TAKE b \in D
      <3>1. size[b] \in Nat
        BY <1>0
      <3>2. QED
        BY <3>1
    <2>2. QED
      BY <2>1
  <1>2. ASSUME NEW n \in Nat, n \in S
        PROVE  n + 1 \in S
    <2>1. ASSUME NEW b \in D, size[b] < n + 1, size[b] <= k
          PROVE  f[b] = g[b]
      <3>1. /\ f[b] = IF stop[b] THEN base[b] ELSE step[<<b, f[rest[b]]>>]
            /\ g[b] = IF stop[b] THEN base[b] ELSE step[<<b, g[rest[b]]>>]
        BY <2>1 DEF StepsTo
      <3>2. ~stop[b] => f[rest[b]] = g[rest[b]]
        <4> SUFFICES ASSUME ~stop[b] PROVE f[rest[b]] = g[rest[b]]
          OBVIOUS
        <4>1. rest[b] \in D /\ size[rest[b]] < size[b]
          BY <1>0
        <4>2. size[rest[b]] \in Nat /\ size[b] \in Nat
          BY <1>0, <4>1
        <4>3. size[rest[b]] < n /\ size[rest[b]] <= k
          BY <2>1, <4>1, <4>2
        <4>4. QED
          BY <1>2, <4>1, <4>3
      <3>3. QED
        BY <3>1, <3>2, Zenon
    <2>2. QED
      BY <2>1
  <1> HIDE DEF S
  <1>3. \A n \in Nat : n \in S
    BY <1>1, <1>2, NatSetInduction
  <1>4. k + 1 \in S
    BY <1>3
  <1>5. ASSUME NEW b \in D, size[b] <= k
        PROVE  f[b] = g[b]
    <2>1. size[b] \in Nat
      BY <1>0
    <2>2. size[b] < k + 1
      BY <1>5, <2>1
    <2>3. QED
      BY <1>4, <1>5, <2>2 DEF S
  <1>6. QED
    BY <1>5

(* f solves the equations.                                                 *)
IsSteps(f, D, stop, base, step, rest) ==
    f = [b \in D |-> IF stop[b] THEN base[b] ELSE step[<<b, f[rest[b]]>>]]

(* Each b takes its value from the solution up to its own size.            *)
LEMMA StepsExist ==
    ASSUME NEW D, NEW size, NEW stop, NEW base, NEW step, NEW rest, Shrinks(D, size, stop, rest)
    PROVE  \E f : IsSteps(f, D, stop, base, step, rest)
  <1>0. size \in [D -> Nat] /\ \A b \in D : ~stop[b] => rest[b] \in D /\ size[rest[b]] < size[b]
    BY DEF Shrinks
  <1> DEFINE To(k) == CHOOSE f : StepsTo(f, k, D, size, stop, base, step, rest)
             walk  == [b \in D |-> To(size[b])[b]]
  <1>1. ASSUME NEW k \in Nat
        PROVE  StepsTo(To(k), k, D, size, stop, base, step, rest)
    <2>1. \E f : StepsTo(f, k, D, size, stop, base, step, rest)
      BY <1>0, StepsExistTo
    <2>2. QED
      BY <2>1, Zenon
  <1>2. \A b \in D : walk[b] = To(size[b])[b]
    BY Zenon
  <1> HIDE DEF To
  <1>3. walk = [b \in D |-> walk[b]]
    OBVIOUS
  <1> HIDE DEF walk
  <1>4. ASSUME NEW b \in D
        PROVE  walk[b] = IF stop[b] THEN base[b] ELSE step[<<b, walk[rest[b]]>>]
    <2>1. size[b] \in Nat /\ size[b] <= size[b]
      BY <1>0
    <2>2. StepsTo(To(size[b]), size[b], D, size, stop, base, step, rest)
      BY <1>1, <2>1
    <2>3. To(size[b])[b] = IF stop[b] THEN base[b] ELSE step[<<b, To(size[b])[rest[b]]>>]
      BY <2>1, <2>2 DEF StepsTo
    <2>4. ~stop[b] => To(size[b])[rest[b]] = walk[rest[b]]
      <3> SUFFICES ASSUME ~stop[b] PROVE To(size[b])[rest[b]] = walk[rest[b]]
        OBVIOUS
      <3> DEFINE n == size[rest[b]]
      <3>1. rest[b] \in D /\ n < size[b]
        BY <1>0
      <3>2. n \in Nat /\ n <= n
        BY <1>0, <3>1
      <3>3. StepsTo(To(n), n, D, size, stop, base, step, rest)
        BY <1>1, <3>2
      <3>4. StepsTo(To(size[b]), n, D, size, stop, base, step, rest)
        <4>1. ASSUME NEW x \in D, size[x] <= n
              PROVE  size[x] <= size[b]
          <5>1. size[x] \in Nat
            BY <1>0
          <5>2. QED
            BY <2>1, <3>1, <3>2, <4>1, <5>1
        <4>2. QED
          BY <2>2, <4>1 DEF StepsTo
      <3>5. To(size[b])[rest[b]] = To(n)[rest[b]]
        BY <3>1, <3>2, <3>3, <3>4, StepsUnique
      <3>6. QED
        BY <1>2, <3>1, <3>5
    <2>5. QED
      BY <1>2, <2>3, <2>4, Zenon
  <1>5. walk = [b \in D |-> IF stop[b] THEN base[b] ELSE step[<<b, walk[rest[b]]>>]]
    BY <1>3, <1>4, Zenon
  <1>6. QED
    BY <1>5 DEF IsSteps

(* What holds at every stop, and of b where it holds of the rest of b.      *)
LEMMA SizeInduction ==
    ASSUME NEW D, NEW size, NEW stop, NEW rest, Shrinks(D, size, stop, rest), NEW P,
           \A b \in D : stop[b] \/ rest[b] \in P => b \in P
    PROVE  D \subseteq P
  <1>1. size \in [D -> Nat] /\ \A b \in D : ~stop[b] => rest[b] \in D /\ size[rest[b]] < size[b]
    BY DEF Shrinks
  <1> DEFINE S == {k \in Nat : \A b \in D : size[b] < k => b \in P}
  <1>2. 0 \in S
    <2>1. \A b \in D : ~(size[b] < 0)
      <3> TAKE b \in D
      <3>1. size[b] \in Nat
        BY <1>1
      <3>2. QED
        BY <3>1
    <2>2. QED
      BY <2>1
  <1>3. ASSUME NEW k \in Nat, k \in S
        PROVE  k + 1 \in S
    <2>1. ASSUME NEW b \in D, size[b] < k + 1
          PROVE  b \in P
      <3>1. CASE stop[b]
        BY <3>1
      <3>2. CASE ~stop[b]
        <4>1. rest[b] \in D /\ size[rest[b]] < size[b] /\ size[rest[b]] \in Nat /\ size[b] \in Nat
          BY <1>1, <3>2
        <4>2. rest[b] \in P
          BY <1>3, <2>1, <4>1
        <4>3. QED
          BY <4>2
      <3>3. QED
        BY <3>1, <3>2
    <2>2. QED
      BY <2>1
  <1> HIDE DEF S
  <1>4. \A k \in Nat : k \in S
    BY <1>2, <1>3, NatSetInduction
  <1>5. ASSUME NEW b \in D
        PROVE  b \in P
    <2>1. size[b] \in Nat /\ size[b] + 1 \in Nat /\ size[b] < size[b] + 1
      BY <1>1
    <2>2. size[b] + 1 \in S
      BY <1>4, <2>1
    <2>3. QED
      BY <2>1, <2>2 DEF S
  <1>6. QED
    BY <1>5

(* With values of one type.                                                *)
Typed(D, V, base, step) == base \in [D -> V] /\ step \in [D \X V -> V]

(* A solution of equations typed in V has its values there.                *)
LEMMA StepsTyped ==
    ASSUME NEW D, NEW V, NEW size, NEW stop, NEW rest, NEW base, NEW step,
           Shrinks(D, size, stop, rest), Typed(D, V, base, step),
           NEW f, IsSteps(f, D, stop, base, step, rest)
    PROVE  f \in [D -> V] /\ \A b \in D : f[b] = IF stop[b] THEN base[b] ELSE step[<<b, f[rest[b]]>>]
  <1>1. base \in [D -> V] /\ step \in [D \X V -> V]
    BY DEF Typed
  <1>2. f = [b \in D |-> IF stop[b] THEN base[b] ELSE step[<<b, f[rest[b]]>>]]
    BY DEF IsSteps
  <1>3. \A b \in D : f[b] = IF stop[b] THEN base[b] ELSE step[<<b, f[rest[b]]>>]
    BY <1>2, Zenon
  <1> DEFINE P == {b \in D : f[b] \in V}
  <1>4. ASSUME NEW b \in D, stop[b] \/ rest[b] \in P
        PROVE  f[b] \in V
    <2>1. CASE stop[b]
      BY <1>1, <1>3, <2>1
    <2>2. CASE ~stop[b]
      <3>1. <<b, f[rest[b]]>> \in D \X V
        BY <1>4, <2>2
      <3>2. QED
        BY <1>1, <1>3, <2>2, <3>1
    <2>3. QED
      BY <2>1, <2>2
  <1>5. \A b \in D : stop[b] \/ rest[b] \in P => b \in P
    BY <1>4
  <1> HIDE DEF P
  <1>6. D \subseteq P
    BY <1>5, SizeInduction
  <1>7. \A b \in D : f[b] \in V
    BY <1>6 DEF P
  <1>8. f \in [D -> V]
    BY <1>2, <1>7
  <1>9. QED
    BY <1>3, <1>8

(* A function from D to V solves equations typed in V.                     *)
LEMMA Recursion ==
    ASSUME NEW D, NEW V, NEW size, NEW stop, NEW rest, NEW base, NEW step,
           Shrinks(D, size, stop, rest), Typed(D, V, base, step)
    PROVE  \E f \in [D -> V] : IsSteps(f, D, stop, base, step, rest)
  <1>1. PICK f : IsSteps(f, D, stop, base, step, rest)
    BY StepsExist
  <1>2. f \in [D -> V]
    BY <1>1, StepsTyped
  <1>3. QED
    BY <1>1, <1>2
=============================================================================
