-------------------------- MODULE StrupleJsonProofs --------------------------
(***************************************************************************)
(* Proofs about the memory of struple_json_parse, for every text and every *)
(* limit of nesting: a block is allocated for a position no other block    *)
(* was allocated for, and from then on exactly one activation, key or node *)
(* holds it until it is freed; and that parser and renderer stay within    *)
(* the limit.                                                              *)
(***************************************************************************)
EXTENDS StrupleJson, StrupleCodecProofs, FiniteSetTheorems

-----------------------------------------------------------------------------
(* A sequence that lists each member of R once.                            *)
Once(s)       == \A i, j \in DOMAIN s : s[i] = s[j] => i = j
Lists(s, R)   == Once(s) /\ ToSet(s) = R
Apart(s, t)   == ToSet(s) \cap ToSet(t) = {}

LEMMA OnceCounts ==
    ASSUME NEW S, NEW s \in Seq(S), Once(s)
    PROVE  Cardinality(ToSet(s)) = Len(s)
  <1>1. Len(s) \in Nat /\ DOMAIN s = 1..Len(s) /\ s \in [1..Len(s) -> S]
    BY LenProperties
  <1>2. IsFiniteSet(1..Len(s)) /\ Cardinality(1..Len(s)) = Len(s)
    BY <1>1, FS_Interval
  <1>3. s \in Bijection(1..Len(s), ToSet(s))
    <2>1. s \in [1..Len(s) -> ToSet(s)]
      BY <1>1 DEF ToSet
    <2>2. \A a, b \in 1..Len(s) : s[a] = s[b] => a = b
      BY <1>1 DEF Once
    <2>3. \A t \in ToSet(s) : \E a \in 1..Len(s) : s[a] = t
      BY <1>1 DEF ToSet
    <2>4. QED
      BY <2>1, <2>2, <2>3 DEF Bijection, Injection, Surjection, IsInjective
  <1>4. QED
    BY <1>2, <1>3, FS_Bijection DEF ExistsBijection

LEMMA ConcatOnce ==
    ASSUME NEW S, NEW s \in Seq(S), NEW t \in Seq(S)
    PROVE  /\ Once(s \o t) <=> Once(s) /\ Once(t) /\ Apart(s, t)
           /\ ToSet(s \o t) = ToSet(s) \cup ToSet(t)
  <1> DEFINE u == s \o t
             m == Len(s)
             n == Len(t)
  <1>1. /\ m \in Nat /\ n \in Nat /\ DOMAIN s = 1..m /\ DOMAIN t = 1..n /\ DOMAIN u = 1..(m + n)
        /\ \A i \in 1..(m + n) : u[i] = IF i <= m THEN s[i] ELSE t[i - m]
    BY ConcatProperties, LenProperties
  <1> SUFFICES /\ Once(u) <=> Once(s) /\ Once(t) /\ Apart(s, t)
               /\ ToSet(u) = ToSet(s) \cup ToSet(t)
    OBVIOUS
  <1> HIDE DEF u, m, n
  <1>2. /\ \A i \in 1..m : i \in 1..(m + n) /\ u[i] = s[i]
        /\ \A i \in 1..n : m + i \in 1..(m + n) /\ u[m + i] = t[i]
    BY <1>1
  <1>3. \A i \in 1..(m + n) : i \in 1..m \/ \E j \in 1..n : i = m + j
    <2> TAKE i \in 1..(m + n)
    <2>1. i \notin 1..m => i - m \in 1..n /\ i = m + (i - m)
      BY <1>1
    <2>2. QED
      BY <2>1
  <1>4. ToSet(u) = ToSet(s) \cup ToSet(t)
    <2>1. \A x : x \in ToSet(u) <=> \E i \in 1..(m + n) : u[i] = x
      BY <1>1 DEF ToSet
    <2>2. \A x : x \in ToSet(s) <=> \E i \in 1..m : s[i] = x
      BY <1>1 DEF ToSet
    <2>3. \A x : x \in ToSet(t) <=> \E i \in 1..n : t[i] = x
      BY <1>1 DEF ToSet
    <2>4. ASSUME NEW x, x \in ToSet(u)
          PROVE  x \in ToSet(s) \/ x \in ToSet(t)
      <3>1. PICK i \in 1..(m + n) : u[i] = x
        BY <2>1, <2>4
      <3>2. QED
        BY <1>2, <1>3, <2>2, <2>3, <3>1
    <2>5. ASSUME NEW x, x \in ToSet(s)
          PROVE  x \in ToSet(u)
      BY <1>2, <2>1, <2>2, <2>5
    <2>6. ASSUME NEW x, x \in ToSet(t)
          PROVE  x \in ToSet(u)
      BY <1>2, <2>1, <2>3, <2>6
    <2>7. QED
      BY <2>4, <2>5, <2>6
  <1>5. ASSUME Once(u)
        PROVE  Once(s) /\ Once(t) /\ Apart(s, t)
    <2>1. Once(s)
      BY <1>1, <1>2, <1>5 DEF Once
    <2>2. Once(t)
      <3>1. ASSUME NEW i \in 1..n, NEW j \in 1..n, t[i] = t[j]
            PROVE  i = j
        <4>1. m + i = m + j
          BY <1>1, <1>2, <1>5, <3>1 DEF Once
        <4>2. QED
          BY <1>1, <4>1
      <3>2. QED
        BY <1>1, <3>1 DEF Once
    <2>3. Apart(s, t)
      <3>1. ASSUME NEW i \in 1..m, NEW j \in 1..n, s[i] = t[j]
            PROVE  FALSE
        <4>1. i = m + j
          BY <1>1, <1>2, <1>5, <3>1 DEF Once
        <4>2. QED
          BY <1>1, <4>1
      <3>2. QED
        BY <1>1, <3>1 DEF Apart, ToSet
    <2>4. QED
      BY <2>1, <2>2, <2>3
  <1>6. ASSUME Once(s), Once(t), Apart(s, t)
        PROVE  Once(u)
    <2>1. \A i \in 1..m, j \in 1..n : s[i] # t[j]
      BY <1>1, <1>6 DEF Apart, ToSet
    <2>2. ASSUME NEW i \in 1..(m + n), NEW j \in 1..(m + n), u[i] = u[j]
          PROVE  i = j
      <3>1. CASE i \in 1..m /\ j \in 1..m
        BY <1>1, <1>2, <1>6, <2>2, <3>1 DEF Once
      <3>2. CASE i \in 1..m /\ j \notin 1..m
        BY <1>2, <1>3, <2>1, <2>2, <3>2
      <3>3. CASE i \notin 1..m /\ j \in 1..m
        BY <1>2, <1>3, <2>1, <2>2, <3>3
      <3>4. CASE i \notin 1..m /\ j \notin 1..m
        <4>1. PICK k \in 1..n : i = m + k
          BY <1>3, <3>4
        <4>2. PICK l \in 1..n : j = m + l
          BY <1>3, <3>4
        <4>3. t[k] = t[l]
          BY <1>2, <2>2, <4>1, <4>2
        <4>4. k = l
          BY <1>1, <1>6, <4>3 DEF Once
        <4>5. QED
          BY <4>1, <4>2, <4>4
      <3>5. QED
        BY <3>1, <3>2, <3>3, <3>4
    <2>3. QED
      BY <1>1, <2>2 DEF Once
  <1>7. QED
    BY <1>4, <1>5, <1>6

-----------------------------------------------------------------------------
(* What nodes, keys and activations hold.                                  *)
Blocks == {"node", "str", "items", "keys", "vals"} \X Nat

NodesOK(ns) == \E N : ns \in Seq(N) /\ \A v \in N : v.owns \in Seq(Blocks)
KeysOK(ks)  == \E N : ks \in Seq(N) /\ \A v \in N : v.owns \in Blocks

ArrayFrame(f) ==
    /\ f = [kind |-> "array", items |-> f.items, owns |-> f.owns]
    /\ NodesOK(f.items) /\ f.owns \in Seq(Blocks)

ObjectFrame(f) ==
    /\ f = [kind |-> "object", keys |-> f.keys, vals |-> f.vals, key |-> f.key, owns |-> f.owns]
    /\ KeysOK(f.keys) /\ KeysOK(f.key) /\ NodesOK(f.vals) /\ f.owns \in Seq(Blocks)

FrameOK(f)  == ArrayFrame(f) \/ ObjectFrame(f)
StackOK(st) == \E F : st \in Seq(F) /\ \A f \in F : FrameOK(f)

(* The activations' blocks, those of the innermost last.                   *)
Holdings(st) == FlattenSeq([i \in DOMAIN st |-> HeldBy(st[i])])

LEMMA BlocksOf ==
    ASSUME NEW N, NEW T, \A v \in N : v.owns \in T, NEW s \in Seq(N)
    PROVE  /\ KeyBlocks(s) \in Seq(T)
           /\ \A v \in N : KeyBlocks(Append(s, v)) = Append(KeyBlocks(s), v.owns)
           /\ \A t \in Seq(N) : KeyBlocks(s \o t) = KeyBlocks(s) \o KeyBlocks(t)
  <1>1. ASSUME NEW t \in Seq(N)
        PROVE  KeyBlocks(t) \in Seq(T) /\ Len(KeyBlocks(t)) = Len(t) /\ \A i \in 1..Len(t) : KeyBlocks(t)[i] = t[i].owns
    <2>1. Len(t) \in Nat /\ DOMAIN t = 1..Len(t) /\ \A i \in 1..Len(t) : t[i] \in N
      BY LenProperties, ElementOfSeq
    <2>2. KeyBlocks(t) \in [1..Len(t) -> T]
      BY <2>1 DEF KeyBlocks
    <2>3. KeyBlocks(t) \in Seq(T)
      BY <2>1, <2>2
    <2>4. Len(KeyBlocks(t)) = Len(t)
      <3>1. DOMAIN KeyBlocks(t) = 1..Len(t)
        BY <2>2
      <3>2. DOMAIN KeyBlocks(t) = 1..Len(KeyBlocks(t)) /\ Len(KeyBlocks(t)) \in Nat
        BY <2>3, LenProperties
      <3>3. QED
        BY <2>1, <3>1, <3>2
    <2>5. QED
      BY <2>1, <2>3, <2>4 DEF KeyBlocks
  <1>2. ASSUME NEW t \in Seq(N)
        PROVE  KeyBlocks(s \o t) = KeyBlocks(s) \o KeyBlocks(t)
    <2> DEFINE a == KeyBlocks(s)
               b == KeyBlocks(t)
               u == KeyBlocks(s \o t)
    <2>1. /\ s \o t \in Seq(N) /\ Len(s \o t) = Len(s) + Len(t) /\ Len(s) \in Nat /\ Len(t) \in Nat
          /\ \A i \in 1..(Len(s) + Len(t)) : (s \o t)[i] = IF i <= Len(s) THEN s[i] ELSE t[i - Len(s)]
      BY ConcatProperties, LenProperties
    <2>2. a \in Seq(T) /\ Len(a) = Len(s) /\ \A i \in 1..Len(s) : a[i] = s[i].owns
      BY <1>1
    <2>3. b \in Seq(T) /\ Len(b) = Len(t) /\ \A i \in 1..Len(t) : b[i] = t[i].owns
      BY <1>1
    <2>4. /\ u \in Seq(T) /\ Len(u) = Len(s) + Len(t)
          /\ \A i \in 1..(Len(s) + Len(t)) : u[i] = (s \o t)[i].owns
      BY <1>1, <2>1
    <2> HIDE DEF a, b, u
    <2>5. /\ a \o b \in Seq(T) /\ Len(a \o b) = Len(s) + Len(t)
          /\ \A i \in 1..(Len(s) + Len(t)) : (a \o b)[i] = IF i <= Len(s) THEN a[i] ELSE b[i - Len(s)]
      <3>1. /\ a \o b \in Seq(T) /\ Len(a \o b) = Len(a) + Len(b)
            /\ \A i \in 1..(Len(a) + Len(b)) : (a \o b)[i] = IF i <= Len(a) THEN a[i] ELSE b[i - Len(a)]
        <4>1. a \in Seq(T) /\ b \in Seq(T)
          BY <2>2, <2>3
        <4>2. QED
          BY <4>1, ConcatProperties
      <3>2. QED
        BY <2>2, <2>3, <3>1
    <2>6. ASSUME NEW i \in 1..(Len(s) + Len(t))
          PROVE  u[i] = (a \o b)[i]
      <3>1. CASE i <= Len(s)
        <4>1. i \in 1..Len(s)
          BY <2>1, <3>1
        <4>2. QED
          BY <2>1, <2>2, <2>4, <2>5, <3>1, <4>1
      <3>2. CASE ~(i <= Len(s))
        <4>1. i - Len(s) \in 1..Len(t)
          BY <2>1, <3>2
        <4>2. QED
          BY <2>1, <2>3, <2>4, <2>5, <3>2, <4>1
      <3>3. QED
        BY <3>1, <3>2
    <2>7. u = a \o b
      BY <2>4, <2>5, <2>6, SeqEqual
    <2>8. QED
      BY <2>7 DEF a, b, u
  <1>3. ASSUME NEW v \in N
        PROVE  KeyBlocks(Append(s, v)) = Append(KeyBlocks(s), v.owns)
    <2>1. <<v>> \in Seq(N) /\ Append(s, v) = s \o <<v>>
      BY AppendIsConcat
    <2>2. KeyBlocks(<<v>>) = <<v.owns>>
      <3>1. DOMAIN <<v>> = 1..1 /\ <<v>>[1] = v
        OBVIOUS
      <3>2. QED
        BY <3>1 DEF KeyBlocks
    <2>3. Append(KeyBlocks(s), v.owns) = KeyBlocks(s) \o <<v.owns>>
      BY <1>1, AppendIsConcat
    <2>4. QED
      BY <1>2, <2>1, <2>2, <2>3
  <1>4. QED
    BY <1>1, <1>2, <1>3

LEMMA NoBlocks == KeyBlocks(<<>>) = <<>> /\ OwnedBy(<<>>) = <<>>
  <1>1. KeyBlocks(<<>>) = <<>>
    BY DEF KeyBlocks
  <1>2. OwnedBy(<<>>) = FlattenSeq(KeyBlocks(<<>>))
    BY DEF OwnedBy, KeyBlocks
  <1>3. QED
    BY <1>1, <1>2, FlattenEmpty

LEMMA OwnedByNodes ==
    ASSUME NEW ns, NodesOK(ns)
    PROVE  /\ OwnedBy(ns) \in Seq(Blocks)
           /\ \A v : v.owns \in Seq(Blocks) =>
                 NodesOK(Append(ns, v)) /\ OwnedBy(Append(ns, v)) = OwnedBy(ns) \o v.owns
  <1>1. PICK N : ns \in Seq(N) /\ \A v \in N : v.owns \in Seq(Blocks)
    BY DEF NodesOK
  <1>2. \A s : OwnedBy(s) = FlattenSeq(KeyBlocks(s))
    BY DEF OwnedBy, KeyBlocks
  <1>3. KeyBlocks(ns) \in Seq(Seq(Blocks))
    BY <1>1, BlocksOf
  <1>4. OwnedBy(ns) \in Seq(Blocks)
    BY <1>2, <1>3, FlattenType
  <1>5. ASSUME NEW v, v.owns \in Seq(Blocks)
        PROVE  NodesOK(Append(ns, v)) /\ OwnedBy(Append(ns, v)) = OwnedBy(ns) \o v.owns
    <2> DEFINE M == N \cup {v}
    <2>1. (\A x \in M : x.owns \in Seq(Blocks)) /\ v \in M /\ N \subseteq M
      BY <1>1, <1>5
    <2> HIDE DEF M
    <2>2. ns \in Seq(M)
      BY <1>1, <2>1, SeqMonotonic
    <2>3. Append(ns, v) \in Seq(M)
      BY <2>1, <2>2, AppendProperties
    <2>4. KeyBlocks(Append(ns, v)) = Append(KeyBlocks(ns), v.owns)
      BY <2>1, <2>2, BlocksOf
    <2>5. FlattenSeq(Append(KeyBlocks(ns), v.owns)) = FlattenSeq(KeyBlocks(ns)) \o v.owns
      BY <1>3, <1>5, FlattenAppend
    <2>6. QED
      BY <1>2, <2>1, <2>3, <2>4, <2>5 DEF NodesOK
  <1>6. QED
    BY <1>4, <1>5

LEMMA KeyBlocksKeys ==
    ASSUME NEW ks, KeysOK(ks), NEW k, KeysOK(k)
    PROVE  /\ KeyBlocks(ks) \in Seq(Blocks)
           /\ KeysOK(ks \o k)
           /\ KeyBlocks(ks \o k) = KeyBlocks(ks) \o KeyBlocks(k)
           /\ k # <<>> => ks \o k # <<>>
  <1>1. PICK N : ks \in Seq(N) /\ \A v \in N : v.owns \in Blocks
    BY DEF KeysOK
  <1>2. PICK M : k \in Seq(M) /\ \A v \in M : v.owns \in Blocks
    BY DEF KeysOK
  <1> DEFINE U == N \cup M
  <1>3. (\A v \in U : v.owns \in Blocks) /\ N \subseteq U /\ M \subseteq U
    BY <1>1, <1>2
  <1> HIDE DEF U
  <1>4. ks \in Seq(U) /\ k \in Seq(U)
    BY <1>1, <1>2, <1>3, SeqMonotonic
  <1>5. ks \o k \in Seq(U) /\ (ks \o k = <<>> => k = <<>>)
    BY <1>4, ConcatProperties, ConcatEqualIffEmpty
  <1>6. KeyBlocks(ks) \in Seq(Blocks) /\ KeyBlocks(ks \o k) = KeyBlocks(ks) \o KeyBlocks(k)
    BY <1>3, <1>4, BlocksOf
  <1>7. QED
    BY <1>3, <1>5, <1>6 DEF KeysOK

LEMMA HeldByType ==
    ASSUME NEW f, FrameOK(f)
    PROVE  HeldBy(f) \in Seq(Blocks)
  <1>1. CASE ArrayFrame(f)
    <2>1. f.kind = "array" /\ NodesOK(f.items) /\ f.owns \in Seq(Blocks)
      BY <1>1 DEF ArrayFrame
    <2>2. OwnedBy(f.items) \in Seq(Blocks) /\ <<>> \in Seq(Blocks)
      BY <2>1, OwnedByNodes, EmptySeq
    <2>3. HeldBy(f) = <<>> \o OwnedBy(f.items) \o f.owns
      BY <2>1 DEF HeldBy, Parts
    <2>4. QED
      BY <2>1, <2>2, <2>3, ConcatProperties
  <1>2. CASE ObjectFrame(f)
    <2>1. /\ f.kind = "object" /\ KeysOK(f.keys) /\ KeysOK(f.key) /\ NodesOK(f.vals)
          /\ f.owns \in Seq(Blocks)
      BY <1>2 DEF ObjectFrame
    <2>2. /\ OwnedBy(f.vals) \in Seq(Blocks) /\ KeyBlocks(f.keys) \in Seq(Blocks)
          /\ KeyBlocks(f.key) \in Seq(Blocks)
      BY <2>1, OwnedByNodes, KeyBlocksKeys
    <2>3. HeldBy(f) = KeyBlocks(f.key) \o (KeyBlocks(f.keys) \o OwnedBy(f.vals)) \o f.owns
      BY <2>1 DEF HeldBy, Parts
    <2>4. QED
      BY <2>1, <2>2, <2>3, ConcatProperties
  <1>3. QED
    BY <1>1, <1>2 DEF FrameOK

-----------------------------------------------------------------------------
(* Pushing and popping an activation.                                      *)
LEMMA HoldingsMap ==
    ASSUME NEW F, NEW st \in Seq(F), \A f \in F : FrameOK(f)
    PROVE  /\ [i \in DOMAIN st |-> HeldBy(st[i])] \in Seq(Seq(Blocks))
           /\ \A f \in F : [i \in DOMAIN Append(st, f) |-> HeldBy(Append(st, f)[i])]
                             = Append([i \in DOMAIN st |-> HeldBy(st[i])], HeldBy(f))
  <1> DEFINE h(s) == [i \in DOMAIN s |-> HeldBy(s[i])]
  <1>1. ASSUME NEW s \in Seq(F)
        PROVE  /\ h(s) \in Seq(Seq(Blocks)) /\ Len(h(s)) = Len(s) /\ Len(s) \in Nat
               /\ \A i \in 1..Len(s) : h(s)[i] = HeldBy(s[i])
    <2>1. Len(s) \in Nat /\ DOMAIN s = 1..Len(s) /\ \A i \in 1..Len(s) : s[i] \in F
      BY LenProperties, ElementOfSeq
    <2>2. \A i \in 1..Len(s) : HeldBy(s[i]) \in Seq(Blocks)
      BY <2>1, HeldByType
    <2>3. h(s) \in [1..Len(s) -> Seq(Blocks)]
      BY <2>1, <2>2
    <2>4. h(s) \in Seq(Seq(Blocks))
      BY <2>1, <2>3
    <2>5. Len(h(s)) = Len(s)
      <3>1. DOMAIN h(s) = 1..Len(s)
        BY <2>3
      <3>2. DOMAIN h(s) = 1..Len(h(s)) /\ Len(h(s)) \in Nat
        BY <2>4, LenProperties
      <3> HIDE DEF h
      <3>3. QED
        BY <2>1, <3>1, <3>2
    <2>6. QED
      BY <2>1, <2>4, <2>5
  <1>2. ASSUME NEW f \in F
        PROVE  h(Append(st, f)) = Append(h(st), HeldBy(f))
    <2> DEFINE t == Append(st, f)
               a == h(t)
               b == Append(h(st), HeldBy(f))
    <2>1. /\ t \in Seq(F) /\ Len(t) = Len(st) + 1 /\ Len(st) \in Nat
          /\ \A i \in 1..Len(st) : t[i] = st[i]
          /\ t[Len(st) + 1] = f
      BY AppendProperties, LenProperties
    <2>2. HeldBy(f) \in Seq(Blocks)
      BY HeldByType
    <2>3. /\ h(st) \in Seq(Seq(Blocks)) /\ Len(h(st)) = Len(st)
          /\ \A i \in 1..Len(st) : h(st)[i] = HeldBy(st[i])
      BY <1>1
    <2>4. /\ a \in Seq(Seq(Blocks)) /\ Len(a) = Len(t)
          /\ \A i \in 1..Len(t) : a[i] = HeldBy(t[i])
      BY <1>1, <2>1
    <2> HIDE DEF h, t, a
    <2>5. /\ b \in Seq(Seq(Blocks)) /\ Len(b) = Len(h(st)) + 1
          /\ \A i \in 1..Len(h(st)) : b[i] = h(st)[i]
          /\ b[Len(h(st)) + 1] = HeldBy(f)
      BY <2>2, <2>3, AppendProperties
    <2> HIDE DEF b
    <2>6. ASSUME NEW i \in 1..Len(t) PROVE a[i] = b[i]
      <3>1. i \in 1..Len(st) \/ i = Len(st) + 1
        BY <2>1
      <3>2. QED
        BY <2>1, <2>3, <2>4, <2>5, <3>1
    <2>7. Len(a) = Len(b)
      BY <2>1, <2>3, <2>4, <2>5
    <2>8. a = b
      BY <2>4, <2>5, <2>6, <2>7, SeqEqual
    <2>9. QED
      BY <2>8 DEF a, b, t
  <1>3. QED
    BY <1>1, <1>2

LEMMA StackPush ==
    ASSUME NEW st, StackOK(st), NEW f, FrameOK(f)
    PROVE  /\ StackOK(Append(st, f))
           /\ Holdings(st) \in Seq(Blocks)
           /\ Holdings(Append(st, f)) = Holdings(st) \o HeldBy(f)
           /\ Len(st) \in Nat
           /\ Len(Append(st, f)) = Len(st) + 1
           /\ \A i \in 1..Len(st) : Append(st, f)[i] = st[i]
           /\ Append(st, f)[Len(st) + 1] = f
           /\ Front(Append(st, f)) = st
  <1>1. PICK G : st \in Seq(G) /\ \A g \in G : FrameOK(g)
    BY DEF StackOK
  <1> DEFINE F == G \cup {f}
  <1>2. (\A g \in F : FrameOK(g)) /\ f \in F /\ G \subseteq F
    BY <1>1
  <1> HIDE DEF F
  <1>3. st \in Seq(F)
    BY <1>1, <1>2, SeqMonotonic
  <1>4. /\ Append(st, f) \in Seq(F) /\ Len(Append(st, f)) = Len(st) + 1 /\ Len(st) \in Nat
        /\ \A i \in 1..Len(st) : Append(st, f)[i] = st[i]
        /\ Append(st, f)[Len(st) + 1] = f
    BY <1>2, <1>3, AppendProperties, LenProperties
  <1>5. StackOK(Append(st, f))
    BY <1>2, <1>4 DEF StackOK
  <1>6. /\ [i \in DOMAIN st |-> HeldBy(st[i])] \in Seq(Seq(Blocks))
        /\ [i \in DOMAIN Append(st, f) |-> HeldBy(Append(st, f)[i])]
             = Append([i \in DOMAIN st |-> HeldBy(st[i])], HeldBy(f))
    BY <1>2, <1>3, HoldingsMap
  <1>7. HeldBy(f) \in Seq(Blocks)
    BY HeldByType
  <1>8. Holdings(Append(st, f)) = Holdings(st) \o HeldBy(f) /\ Holdings(st) \in Seq(Blocks)
    BY <1>6, <1>7, FlattenAppend, FlattenType DEF Holdings
  <1>9. Front(Append(st, f)) = st
    <2> DEFINE u == Append(st, f)
    <2>1. u \in Seq(F) /\ Len(u) = Len(st) + 1 /\ Len(st) \in Nat /\ \A i \in 1..Len(st) : u[i] = st[i]
      BY <1>4
    <2> HIDE DEF u
    <2>2. SubSeq(u, 1, Len(st)) \in Seq(F) /\ Len(SubSeq(u, 1, Len(st))) = Len(st)
      <3>1. Len(st) \in 0..Len(u)
        BY <2>1
      <3>2. QED
        BY <2>1, <3>1, CutAt
    <2>3. \A i \in 1..Len(st) : SubSeq(u, 1, Len(st))[i] = u[i]
      <3>1. \A i \in 1..Len(st) : u[i] \in F
        BY <1>3, <2>1, ElementOfSeq
      <3>2. 1 \in Int /\ Len(st) \in Int
        BY <2>1
      <3>3. \A i \in 1..(Len(st) - 1 + 1) : SubSeq(u, 1, Len(st))[i] = u[1 + i - 1]
        BY <3>1, <3>2, SubSeqProperties
      <3>4. QED
        BY <2>1, <3>3
    <2>4. SubSeq(u, 1, Len(st)) = st
      BY <1>3, <2>1, <2>2, <2>3, SeqEqual
    <2>5. Front(u) = SubSeq(u, 1, Len(u) - 1) /\ Len(u) - 1 = Len(st)
      BY <2>1 DEF Front
    <2>6. QED
      BY <2>4, <2>5 DEF u
  <1>10. QED
    BY <1>4, <1>5, <1>8, <1>9

LEMMA StackPop ==
    ASSUME NEW st, StackOK(st), st # <<>>
    PROVE  /\ StackOK(Front(st)) /\ FrameOK(st[Len(st)])
           /\ Holdings(Front(st)) \in Seq(Blocks)
           /\ Holdings(st) = Holdings(Front(st)) \o HeldBy(st[Len(st)])
           /\ Len(st) \in Nat \ {0}
           /\ Len(Front(st)) = Len(st) - 1
           /\ \A i \in 1..(Len(st) - 1) : Front(st)[i] = st[i]
  <1>1. PICK F : st \in Seq(F) /\ \A f \in F : FrameOK(f)
    BY DEF StackOK
  <1>2. PICK r \in Seq(F) : \E x \in F : st = Append(r, x)
    BY <1>1, SequenceEmptyOrAppend
  <1>3. PICK f \in F : st = Append(r, f)
    BY <1>2
  <1>4. StackOK(r) /\ FrameOK(f)
    BY <1>1, <1>2, <1>3 DEF StackOK
  <1>5. /\ Holdings(r) \in Seq(Blocks)
        /\ Holdings(st) = Holdings(r) \o HeldBy(f)
        /\ Len(r) \in Nat
        /\ Len(st) = Len(r) + 1
        /\ \A i \in 1..Len(r) : st[i] = r[i]
        /\ st[Len(r) + 1] = f
        /\ Front(st) = r
    BY <1>3, <1>4, StackPush
  <1>6. Len(st) - 1 = Len(r) /\ Len(st) \in Nat \ {0}
    BY <1>5
  <1>7. QED
    BY <1>4, <1>5, <1>6

LEMMA NoStack == StackOK(<<>>) /\ Holdings(<<>>) = <<>>
  <1>1. StackOK(<<>>)
    <2> DEFINE F == {}
    <2>1. <<>> \in Seq(F) /\ \A f \in F : FrameOK(f)
      BY EmptySeq
    <2> HIDE DEF F
    <2>2. QED
      BY <2>1 DEF StackOK
  <1>2. [i \in DOMAIN <<>> |-> HeldBy(<<>>[i])] = <<>>
    OBVIOUS
  <1>3. QED
    BY <1>1, <1>2, FlattenEmpty DEF Holdings

-----------------------------------------------------------------------------
(* Positions in the text.                                                  *)
LEMMA SkipWsStops ==
    ASSUME Len(text) \in Nat, NEW p \in 0..Len(text)
    PROVE  SkipWs(p) \in p..Len(text)
  <1> DEFINE n == Len(text)
             S == {q \in p..n : q = n \/ text[q + 1].t # "ws"}
             first == FirstOf(S)
  <1>1. n \in Nat /\ p \in 0..n
    OBVIOUS
  <1>2. n \in S /\ S \in SUBSET Nat
    BY <1>1
  <1> SUFFICES SkipWs(p) \in p..n
    OBVIOUS
  <1>3. first \in S /\ \A q \in S : first <= q
    <2> HIDE DEF S
    <2>1. QED
      BY <1>2, FirstOfProperties
  <1>4. first \in p..n /\ (first = n \/ text[first + 1].t # "ws")
    BY <1>3
  <1>5. ASSUME NEW i \in (p + 1)..first
        PROVE  text[i].t = "ws"
    <2>1. i - 1 \in p..n /\ i - 1 < first /\ i - 1 # n /\ (i - 1) + 1 = i
      BY <1>1, <1>4
    <2>2. i - 1 \notin S
      BY <1>1, <1>3, <1>4, <2>1
    <2>3. QED
      BY <2>1, <2>2
  <1> HIDE DEF S, first
  <1>6. \E q \in p..n : /\ \A i \in (p + 1)..q : text[i].t = "ws"
                        /\ q = n \/ text[q + 1].t # "ws"
    BY <1>4, <1>5
  <1>7. QED
    BY <1>6, Zenon DEF SkipWs

(* A token that is there is followed by a position of the text.            *)
LEMMA TokenAhead ==
    ASSUME Len(text) \in Nat, NEW p \in 0..Len(text), Token(p).t # "end"
    PROVE  p + 1 \in 0..Len(text)
  <1>1. ~(p >= Len(text))
    BY DEF Token
  <1>2. QED
    BY <1>1

-----------------------------------------------------------------------------
(* The inductive invariant.  Besides what each activation holds, it says   *)
(* that a block's position lies behind the cursor, so that a position is   *)
(* never used twice; that an object waiting for a value holds its key; and *)
(* that an object without a key yet has no blocks, so that the arrays      *)
(* allocated with the first key replace nothing.                           *)
Pending == IF parser \in {"got", "parsed"} THEN value.owns ELSE <<>>
Root    == IF parser \in {"idle", "rejected"} THEN <<>> ELSE <<ROOT>>

Owned == ~misfreed /\ Lists(Holdings(stack) \o Pending \o Root, live)

Behind == \A b \in live : b = ROOT \/ b[2] < at

HoldsKey(f) == f.kind = "object" => f.key # <<>>

ExpectsKey(f) ==
    /\ f.kind = "object" /\ f.key = <<>>
    /\ f.keys = <<>> => f.owns = <<>>

Waiting(st) == \A i \in 1..Len(st) : HoldsKey(st[i])

Activations ==
    CASE parser \in {"value", "got"} -> Waiting(stack)
      [] parser = "key" -> stack # <<>> /\ ExpectsKey(Inner) /\ Waiting(Front(stack))
      [] parser = "failed" -> TRUE
      [] OTHER -> stack = <<>>

IsText(s) == \E S : s \in Seq(S)

ParseInv ==
    /\ IsText(text)
    /\ at \in 0..Len(text)
    /\ StackOK(stack)
    /\ value.owns \in Seq(Blocks)
    /\ Activations
    /\ Behind
    /\ Owned

(* Three lists that together list a set.                                   *)
ThreeParts(h, p, r, R) ==
    /\ Once(h) /\ Once(p) /\ Once(r)
    /\ Apart(h, p) /\ Apart(h, r) /\ Apart(p, r)
    /\ R = ToSet(h) \cup ToSet(p) \cup ToSet(r)

LEMMA ListsParts ==
    ASSUME NEW h \in Seq(Blocks), NEW p \in Seq(Blocks), NEW r \in Seq(Blocks), NEW R
    PROVE  Lists(h \o p \o r, R) <=> ThreeParts(h, p, r, R)
  <1>1. h \o p \in Seq(Blocks)
    BY ConcatProperties
  <1>2. /\ Once(h \o p) <=> Once(h) /\ Once(p) /\ Apart(h, p)
        /\ ToSet(h \o p) = ToSet(h) \cup ToSet(p)
    BY ConcatOnce
  <1>3. /\ Once(h \o p \o r) <=> Once(h \o p) /\ Once(r) /\ Apart(h \o p, r)
        /\ ToSet(h \o p \o r) = ToSet(h \o p) \cup ToSet(r)
    BY <1>1, ConcatOnce, ZenonT(40)
  <1>4. Apart(h \o p, r) <=> Apart(h, r) /\ Apart(p, r)
    BY <1>2 DEF Apart
  <1>5. QED
    BY <1>2, <1>3, <1>4 DEF Lists, ThreeParts

LEMMA SmallLists ==
    /\ Once(<<>>) /\ ToSet(<<>>) = {} /\ <<>> \in Seq(Blocks)
    /\ \A b \in Blocks : Once(<<b>>) /\ ToSet(<<b>>) = {b} /\ <<b>> \in Seq(Blocks)
    /\ ROOT \in Blocks
  <1>1. Once(<<>>) /\ ToSet(<<>>) = {} /\ <<>> \in Seq(Blocks)
    BY EmptySeq DEF Once, ToSet
  <1>2. ASSUME NEW b \in Blocks
        PROVE  Once(<<b>>) /\ ToSet(<<b>>) = {b} /\ <<b>> \in Seq(Blocks)
    <2>1. DOMAIN <<b>> = {1} /\ <<b>>[1] = b /\ <<b>> \in Seq(Blocks)
      OBVIOUS
    <2>2. QED
      BY <2>1 DEF Once, ToSet
  <1>3. ROOT \in Blocks
    BY DEF ROOT, Blocks
  <1>4. QED
    BY <1>1, <1>2, <1>3

LEMMA ConcatBlocks ==
    \A s, t \in Seq(Blocks) :
        /\ s \o t \in Seq(Blocks)
        /\ Once(s \o t) <=> Once(s) /\ Once(t) /\ Apart(s, t)
        /\ ToSet(s \o t) = ToSet(s) \cup ToSet(t)
  BY ConcatOnce, ConcatProperties

LEMMA HoldingsType ==
    ASSUME NEW st, StackOK(st)
    PROVE  Holdings(st) \in Seq(Blocks) /\ Len(st) \in Nat
  <1>1. CASE st = <<>>
    BY <1>1, NoStack, SmallLists
  <1>2. CASE st # <<>>
    <2>1. /\ FrameOK(st[Len(st)]) /\ Holdings(Front(st)) \in Seq(Blocks) /\ Len(st) \in Nat
          /\ Holdings(st) = Holdings(Front(st)) \o HeldBy(st[Len(st)])
      BY <1>2, StackPop
    <2>2. HeldBy(st[Len(st)]) \in Seq(Blocks)
      BY <2>1, HeldByType
    <2>3. QED
      BY <2>1, <2>2, ConcatProperties
  <1>3. QED
    BY <1>1, <1>2

(* What the invariant gives a step to start from.                          *)
LEMMA Start ==
    ASSUME ParseInv
    PROVE  /\ ~misfreed
           /\ ThreeParts(Holdings(stack), Pending, Root, live)
           /\ Holdings(stack) \in Seq(Blocks) /\ Pending \in Seq(Blocks) /\ Root \in Seq(Blocks)
           /\ Len(text) \in Nat /\ at \in Nat
           /\ Here \in at..Len(text) /\ Here \in 0..Len(text)
           /\ Token(Here).t # "end" => Here + 1 \in 0..Len(text)
           /\ \A w \in {"str", "items", "keys", "vals"} :
                 /\ Block(w, Here) \in Blocks /\ Block(w, Here) \notin live
                 /\ Block(w, Here) # ROOT /\ Block(w, Here)[2] = Here
  <1>1. Holdings(stack) \in Seq(Blocks)
    BY HoldingsType DEF ParseInv
  <1>2. Pending \in Seq(Blocks) /\ Root \in Seq(Blocks)
    BY SmallLists DEF Pending, Root, ParseInv
  <1>3. ~misfreed /\ ThreeParts(Holdings(stack), Pending, Root, live)
    BY <1>1, <1>2, ListsParts DEF ParseInv, Owned
  <1>4. Len(text) \in Nat /\ at \in Nat /\ at \in 0..Len(text)
    <2>1. PICK S : text \in Seq(S)
      BY DEF ParseInv, IsText
    <2>2. Len(text) \in Nat
      BY <2>1, LenProperties
    <2>3. QED
      BY <2>2 DEF ParseInv
  <1>5. Here \in at..Len(text)
    BY <1>4, SkipWsStops DEF Here
  <1>6. Here \in 0..Len(text) /\ Here \in Nat
    <2> HIDE DEF Here
    <2>1. QED
      BY <1>4, <1>5
  <1>7. Token(Here).t # "end" => Here + 1 \in 0..Len(text)
    BY <1>4, <1>6, TokenAhead
  <1>8. ASSUME NEW w \in {"str", "items", "keys", "vals"}
        PROVE  /\ Block(w, Here) \in Blocks /\ Block(w, Here) \notin live
               /\ Block(w, Here) # ROOT /\ Block(w, Here)[2] = Here
    <2> DEFINE b == Block(w, Here)
    <2>1. b = <<w, Here>> /\ b[2] = Here /\ b[1] = w
      BY DEF Block
    <2>2. b \in Blocks
      BY <1>6, <2>1 DEF Blocks
    <2>3. b # ROOT
      BY <2>1 DEF ROOT
    <2> HIDE DEF b
    <2>4. b \notin live
      BY <1>4, <1>5, <2>1, <2>3 DEF ParseInv, Behind
    <2>5. QED
      BY <2>1, <2>2, <2>3, <2>4 DEF b
  <1>9. QED
    BY <1>1, <1>2, <1>3, <1>4, <1>5, <1>6, <1>7, <1>8

(* Positions only grow, so what lies behind the cursor stays behind it.    *)
LEMMA StillBehind ==
    ASSUME ParseInv, NEW p \in Nat, p >= at, NEW R,
           \A b \in R : b \in live \/ b = ROOT \/ b[2] < p
    PROVE  \A b \in R : b = ROOT \/ b[2] < p
  <1>1. live = ToSet(Holdings(stack)) \cup ToSet(Pending) \cup ToSet(Root)
    BY Start DEF ThreeParts
  <1>2. \A s \in Seq(Blocks) : ToSet(s) \subseteq Blocks
    BY LenProperties, ElementOfSeq DEF ToSet
  <1>3. live \subseteq Blocks
    BY <1>1, <1>2, Start
  <1>4. \A b \in live : b[2] \in Nat
    BY <1>3 DEF Blocks
  <1>5. at \in Nat
    BY Start
  <1>6. \A b \in live : b = ROOT \/ b[2] < p
    BY <1>4, <1>5 DEF ParseInv, Behind
  <1>7. QED
    BY <1>6

(* The step allocates s and returns a node that owns it.                   *)
LEMMA Returned ==
    ASSUME NEW h \in Seq(Blocks), NEW r \in Seq(Blocks), NEW s \in Seq(Blocks), NEW R,
           ThreeParts(h, <<>>, r, R), Once(s), ToSet(s) \cap R = {}
    PROVE  ThreeParts(h, s, r, R \cup ToSet(s))
  BY SmallLists DEF ThreeParts, Apart

(* The step allocates s and adds it to what the activations hold.          *)
LEMMA Held ==
    ASSUME NEW h \in Seq(Blocks), NEW r \in Seq(Blocks), NEW s \in Seq(Blocks), NEW R,
           ThreeParts(h, <<>>, r, R), Once(s), ToSet(s) \cap R = {}
    PROVE  ThreeParts(h \o s, <<>>, r, R \cup ToSet(s))
  <1>1. /\ Once(h \o s) <=> Once(h) /\ Once(s) /\ Apart(h, s)
        /\ ToSet(h \o s) = ToSet(h) \cup ToSet(s)
    BY ConcatOnce
  <1>2. QED
    BY <1>1, SmallLists DEF ThreeParts, Apart

(* To re-establish Owned after a step.                                     *)
LEMMA OwnedAfter ==
    ASSUME NEW st, StackOK(st), NEW p \in Seq(Blocks), NEW r \in Seq(Blocks), NEW R,
           ThreeParts(Holdings(st), p, r, R)
    PROVE  Lists(Holdings(st) \o p \o r, R)
  BY HoldingsType, ListsParts

-----------------------------------------------------------------------------
(* Every step of the parser keeps the invariant.                           *)
LEMMA ParseLiteralStep == ASSUME ParseInv, ParseLiteral PROVE ParseInv'
  <1>1. parser = "value" /\ parser' = "got" /\ Token(Here).t # "end"
    BY DEF ParseLiteral, Return
  <1>2. value'.owns = <<>> /\ at' = Here + 1 /\ text' = text /\ stack' = stack /\ live' = live /\ misfreed' = misfreed
    BY DEF ParseLiteral, Return
  <1>3. at' \in 0..Len(text) /\ at' \in Nat /\ at' >= at
    <2>1. Here \in at..Len(text) /\ at \in Nat /\ Here + 1 \in 0..Len(text)
      BY <1>1, Start
    <2> HIDE DEF Here
    <2>2. QED
      BY <1>2, <2>1
  <1>4. Behind'
    <2>1. \A b \in live : b = ROOT \/ b[2] < at'
      BY <1>3, StillBehind
    <2>2. QED
      BY <1>2, <2>1 DEF Behind
  <1>5. Pending = <<>> /\ Pending' = <<>> /\ Root = Root'
    BY <1>1, <1>2 DEF Pending, Root
  <1>6. Owned'
    BY <1>2, <1>5 DEF ParseInv, Owned
  <1>7. Activations'
    BY <1>1, <1>2 DEF ParseInv, Activations
  <1>8. QED
    BY <1>2, <1>3, <1>4, <1>6, <1>7, SmallLists DEF ParseInv

LEMMA ParseStringStep == ASSUME ParseInv, ParseString PROVE ParseInv'
  <1> DEFINE b == Block("str", Here)
  <1>1. parser = "value" /\ parser' = "got"
    BY DEF ParseString, Return
  <1>2. /\ value'.owns = <<b>> /\ at' = Here + 1 /\ text' = text /\ stack' = stack
        /\ live' = live \cup ToSet(<<b>>) /\ misfreed' = misfreed
    BY DEF ParseString, Return, Allocate
  <1>3. Token(Here).t # "end"
    BY DEF ParseString, StringOK
  <1>4. b \in Blocks /\ b \notin live /\ b # ROOT /\ b[2] = Here
    BY Start
  <1>5. Here \in at..Len(text) /\ at \in Nat /\ Here + 1 \in 0..Len(text)
    BY <1>3, Start
  <1> HIDE DEF b, Here
  <1>6. at' \in 0..Len(text) /\ at' \in Nat /\ at' >= at /\ b[2] < at'
    BY <1>2, <1>4, <1>5
  <1>7. Once(<<b>>) /\ ToSet(<<b>>) = {b} /\ <<b>> \in Seq(Blocks)
    BY <1>4, SmallLists
  <1>8. Behind'
    <2>1. \A x \in live' : x \in live \/ x = ROOT \/ x[2] < at'
      BY <1>2, <1>6, <1>7
    <2>2. \A x \in live' : x = ROOT \/ x[2] < at'
      BY <1>6, <2>1, StillBehind
    <2>3. QED
      BY <2>2 DEF Behind
  <1>9. Pending = <<>> /\ Pending' = <<b>> /\ Root = Root'
    BY <1>1, <1>2 DEF Pending, Root
  <1>10. Owned'
    <2>1. ThreeParts(Holdings(stack), <<>>, Root, live) /\ Holdings(stack) \in Seq(Blocks) /\ Root \in Seq(Blocks)
      BY <1>9, Start
    <2>2. ToSet(<<b>>) \cap live = {}
      BY <1>4, <1>7
    <2>3. ThreeParts(Holdings(stack), <<b>>, Root, live \cup ToSet(<<b>>))
      BY <1>7, <2>1, <2>2, Returned
    <2>4. StackOK(stack)
      BY DEF ParseInv
    <2>5. Lists(Holdings(stack) \o <<b>> \o Root, live \cup ToSet(<<b>>))
      BY <1>7, <2>1, <2>3, <2>4, OwnedAfter
    <2>6. ~misfreed
      BY Start
    <2>7. QED
      BY <1>2, <1>9, <2>5, <2>6 DEF Owned
  <1>11. Activations'
    BY <1>1, <1>2 DEF ParseInv, Activations
  <1>12. QED
    BY <1>2, <1>6, <1>7, <1>8, <1>10, <1>11 DEF ParseInv

(* A parse that fails here changes nothing else.                           *)
LEMMA FailStep ==
    ASSUME ParseInv, parser \in {"value", "key"}, parser' = "failed",
           UNCHANGED <<text, at, stack, value, live, misfreed>>
    PROVE  ParseInv'
  <1>1. Pending = <<>> /\ Pending' = <<>> /\ Root = Root'
    BY DEF Pending, Root
  <1>2. Owned' /\ Behind'
    BY <1>1 DEF ParseInv, Owned, Behind
  <1>3. Activations'
    BY DEF Activations
  <1>4. QED
    BY <1>2, <1>3 DEF ParseInv

LEMMA ParseNumberStep == ASSUME ParseInv, ParseNumber PROVE ParseInv'
  <1>1. PICK v \in {NumberValue(Token(Here).chars)} :
          IF Overflows(v)
          THEN /\ parser' = "failed"
               /\ UNCHANGED <<at, value, live, misfreed>>
          ELSE \E owned \in {IF v.kind = "int" THEN <<Block("str", Here)>> ELSE <<>>} :
                  /\ Return([kind |-> v.kind, number |-> v.number, owns |-> owned], Here + 1)
                  /\ Allocate(owned)
    BY DEF ParseNumber
  <1>2. parser = "value" /\ Token(Here).t # "end" /\ text' = text /\ stack' = stack
    BY DEF ParseNumber
  <1>3. CASE Overflows(v)
    BY <1>1, <1>2, <1>3, FailStep
  <1>4. CASE ~Overflows(v)
    <2> DEFINE b     == Block("str", Here)
               owned == IF v.kind = "int" THEN <<Block("str", Here)>> ELSE <<>>
    <2>1. /\ Return([kind |-> v.kind, number |-> v.number, owns |-> owned], Here + 1)
          /\ Allocate(owned)
      BY <1>1, <1>4
    <2>2. b \in Blocks /\ b \notin live /\ b # ROOT /\ b[2] = Here
      BY Start
    <2>3. Here \in at..Len(text) /\ at \in Nat /\ Here + 1 \in 0..Len(text)
      BY <1>2, Start
    <2>4. owned = <<b>> \/ owned = <<>>
      OBVIOUS
    <2> HIDE DEF b, owned, Here
    <2>5. Once(owned) /\ ToSet(owned) \subseteq {b} /\ owned \in Seq(Blocks)
      BY <2>2, <2>4, SmallLists
    <2>6. /\ parser' = "got" /\ value'.owns = owned /\ at' = Here + 1
          /\ live' = live \cup ToSet(owned) /\ misfreed' = misfreed
      BY <2>1 DEF Return, Allocate
    <2>7. at' \in 0..Len(text) /\ at' \in Nat /\ at' >= at /\ b[2] < at'
      BY <2>2, <2>3, <2>6
    <2>8. Behind'
      <3>1. \A x \in live' : x \in live \/ x = ROOT \/ x[2] < at'
        BY <2>5, <2>6, <2>7
      <3>2. \A x \in live' : x = ROOT \/ x[2] < at'
        BY <2>7, <3>1, StillBehind
      <3>3. QED
        BY <3>2 DEF Behind
    <2>9. Pending = <<>> /\ Pending' = owned /\ Root = Root'
      BY <1>2, <2>6 DEF Pending, Root
    <2>10. Owned'
      <3>1. ThreeParts(Holdings(stack), <<>>, Root, live) /\ Holdings(stack) \in Seq(Blocks) /\ Root \in Seq(Blocks)
        BY <2>9, Start
      <3>2. ToSet(owned) \cap live = {}
        BY <2>2, <2>5
      <3>3. ThreeParts(Holdings(stack), owned, Root, live \cup ToSet(owned))
        BY <2>5, <3>1, <3>2, Returned
      <3>4. StackOK(stack)
        BY DEF ParseInv
      <3>5. Lists(Holdings(stack) \o owned \o Root, live \cup ToSet(owned))
        BY <2>5, <3>1, <3>3, <3>4, OwnedAfter
      <3>6. ~misfreed
        BY Start
      <3>7. QED
        BY <1>2, <2>6, <2>9, <3>5, <3>6 DEF Owned
    <2>11. Activations'
      BY <1>2, <2>6 DEF ParseInv, Activations
    <2>12. QED
      BY <1>2, <2>5, <2>6, <2>7, <2>8, <2>10, <2>11 DEF ParseInv
  <1>5. QED
    BY <1>3, <1>4

LEMMA ParseNothingStep == ASSUME ParseInv, ParseNothing PROVE ParseInv'
  BY FailStep DEF ParseNothing

LEMMA NoKeyStep == ASSUME ParseInv, NoKey PROVE ParseInv'
  BY FailStep DEF NoKey

-----------------------------------------------------------------------------
(* The activations of parse_array and parse_object.                        *)
LEMMA ArrayHolds ==
    ASSUME NEW f, ArrayFrame(f)
    PROVE  /\ f.kind = "array" /\ f.owns \in Seq(Blocks) /\ OwnedBy(f.items) \in Seq(Blocks)
           /\ Parts(f) = OwnedBy(f.items)
           /\ HeldBy(f) = OwnedBy(f.items) \o f.owns
  <1>1. f.kind = "array" /\ f.owns \in Seq(Blocks) /\ NodesOK(f.items)
    BY DEF ArrayFrame
  <1>2. OwnedBy(f.items) \in Seq(Blocks)
    BY <1>1, OwnedByNodes
  <1>3. HeldBy(f) = <<>> \o OwnedBy(f.items) \o f.owns
    BY <1>1 DEF HeldBy, Parts
  <1>4. <<>> \o OwnedBy(f.items) = OwnedBy(f.items)
    BY <1>2, ConcatEmptySeq
  <1>5. QED
    BY <1>1, <1>2, <1>3, <1>4 DEF Parts

LEMMA ObjectHolds ==
    ASSUME NEW f, ObjectFrame(f)
    PROVE  /\ f.kind = "object" /\ f.owns \in Seq(Blocks) /\ OwnedBy(f.vals) \in Seq(Blocks)
           /\ KeyBlocks(f.keys) \in Seq(Blocks) /\ KeyBlocks(f.key) \in Seq(Blocks)
           /\ Parts(f) = KeyBlocks(f.keys) \o OwnedBy(f.vals)
           /\ HeldBy(f) = KeyBlocks(f.key) \o (KeyBlocks(f.keys) \o OwnedBy(f.vals)) \o f.owns
  <1>1. /\ f.kind = "object" /\ KeysOK(f.keys) /\ KeysOK(f.key) /\ NodesOK(f.vals)
        /\ f.owns \in Seq(Blocks)
    BY DEF ObjectFrame
  <1>2. /\ OwnedBy(f.vals) \in Seq(Blocks) /\ KeyBlocks(f.keys) \in Seq(Blocks)
        /\ KeyBlocks(f.key) \in Seq(Blocks)
    BY <1>1, OwnedByNodes, KeyBlocksKeys
  <1>3. QED
    BY <1>1, <1>2 DEF HeldBy, Parts

LEMMA NothingOK == NodesOK(<<>>) /\ KeysOK(<<>>)
  <1> DEFINE N == {}
  <1>1. /\ <<>> \in Seq(N) /\ \A v \in N : v.owns \in Seq(Blocks)
        /\ \A v \in N : v.owns \in Blocks
    BY EmptySeq
  <1> HIDE DEF N
  <1>2. QED
    BY <1>1 DEF NodesOK, KeysOK

LEMMA NewArray ==
    ASSUME NEW b \in Blocks, NEW g, g = [kind |-> "array", items |-> <<>>, owns |-> <<b>>]
    PROVE  FrameOK(g) /\ HeldBy(g) = <<b>>
  <1>1. ArrayFrame(g)
    BY NothingOK, SmallLists DEF ArrayFrame
  <1>2. HeldBy(g) = <<>> \o <<b>>
    <2>1. g.items = <<>> /\ g.owns = <<b>>
      OBVIOUS
    <2>2. QED
      BY <1>1, <2>1, ArrayHolds, NoBlocks
  <1>3. <<>> \o <<b>> = <<b>>
    BY SmallLists, ConcatEmptySeq
  <1>4. QED
    BY <1>1, <1>2, <1>3 DEF FrameOK

LEMMA NewObject ==
    ASSUME NEW g, g = [kind |-> "object", keys |-> <<>>, vals |-> <<>>, key |-> <<>>, owns |-> <<>>]
    PROVE  FrameOK(g) /\ HeldBy(g) = <<>> /\ ExpectsKey(g)
  <1>1. ObjectFrame(g) /\ ExpectsKey(g)
    BY NothingOK, SmallLists DEF ObjectFrame, ExpectsKey
  <1>2. HeldBy(g) = <<>> \o (<<>> \o <<>>) \o <<>>
    <2>1. g.key = <<>> /\ g.keys = <<>> /\ g.vals = <<>> /\ g.owns = <<>>
      OBVIOUS
    <2>2. QED
      BY <1>1, <2>1, ObjectHolds, NoBlocks
  <1>3. <<>> \o <<>> = <<>>
    BY SmallLists, ConcatEmptySeq
  <1>4. QED
    BY <1>1, <1>2, <1>3 DEF FrameOK

(* Parsing an empty container, or the first activation of it.              *)
LEMMA EmptyContainerStep ==
    ASSUME ParseInv, parser = "value", Token(Here).t # "end",
           NEW p, p = SkipWs(Here + 1), Token(p).t # "end", NEW v, v.owns = <<>>, Return(v, p + 1),
           UNCHANGED <<text, stack, live, misfreed>>
    PROVE  ParseInv'
  <1>1. Here + 1 \in 0..Len(text) /\ Len(text) \in Nat /\ Here \in at..Len(text) /\ at \in Nat
    BY Start
  <1>2. p \in (Here + 1)..Len(text)
    BY <1>1, SkipWsStops
  <1> HIDE DEF Here
  <1>3. p \in 0..Len(text)
    BY <1>1, <1>2
  <1>4. p + 1 \in 0..Len(text)
    BY <1>1, <1>3, TokenAhead
  <1>5. parser' = "got" /\ value'.owns = <<>> /\ at' = p + 1
    BY DEF Return
  <1>6. at' \in 0..Len(text) /\ at' \in Nat /\ at' >= at
    BY <1>1, <1>2, <1>4, <1>5
  <1>7. Behind'
    <2>1. \A b \in live : b = ROOT \/ b[2] < at'
      BY <1>6, StillBehind
    <2>2. QED
      BY <2>1 DEF Behind
  <1>8. Pending = <<>> /\ Pending' = <<>> /\ Root = Root'
    BY <1>5 DEF Pending, Root
  <1>9. Owned'
    BY <1>8 DEF ParseInv, Owned
  <1>10. Activations'
    BY <1>5 DEF ParseInv, Activations
  <1>11. QED
    BY <1>5, <1>6, <1>7, <1>9, <1>10, SmallLists DEF ParseInv

LEMMA PushStep ==
    ASSUME ParseInv, parser = "value", Token(Here).t # "end",
           NEW p, p = SkipWs(Here + 1), at' = p,
           NEW g, FrameOK(g), stack' = Append(stack, g),
           HeldBy(g) = <<>> \/ \E w \in {"str", "items", "keys", "vals"} : HeldBy(g) = <<Block(w, Here)>>,
           live' = live \cup ToSet(HeldBy(g)), misfreed' = misfreed,
           \/ parser' = "value" /\ HoldsKey(g)
           \/ parser' = "key" /\ ExpectsKey(g),
           UNCHANGED <<text, value>>
    PROVE  ParseInv'
  <1>1. /\ Here + 1 \in 0..Len(text) /\ Len(text) \in Nat /\ Here \in at..Len(text) /\ at \in Nat
        /\ \A w \in {"str", "items", "keys", "vals"} :
             Block(w, Here) \in Blocks /\ Block(w, Here) \notin live /\ Block(w, Here)[2] = Here
    BY Start
  <1>2. p \in (Here + 1)..Len(text)
    BY <1>1, SkipWsStops
  <1> HIDE DEF Here
  <1>3. at' \in 0..Len(text) /\ at' \in Nat /\ at' >= at /\ Here < at'
    BY <1>1, <1>2
  <1>4. /\ Once(HeldBy(g)) /\ ToSet(HeldBy(g)) \cap live = {} /\ HeldBy(g) \in Seq(Blocks)
        /\ \A b \in ToSet(HeldBy(g)) : b[2] = Here
    <2>1. CASE HeldBy(g) = <<>>
      BY <2>1, SmallLists
    <2>2. ASSUME NEW w \in {"str", "items", "keys", "vals"}, HeldBy(g) = <<Block(w, Here)>>
          PROVE  /\ Once(HeldBy(g)) /\ ToSet(HeldBy(g)) \cap live = {} /\ HeldBy(g) \in Seq(Blocks)
                 /\ \A b \in ToSet(HeldBy(g)) : b[2] = Here
      <3> DEFINE b == Block(w, Here)
      <3>1. b \in Blocks /\ b \notin live /\ b[2] = Here
        BY <1>1
      <3> HIDE DEF b
      <3>2. Once(<<b>>) /\ ToSet(<<b>>) = {b} /\ <<b>> \in Seq(Blocks)
        BY <3>1, SmallLists
      <3>3. HeldBy(g) = <<b>>
        BY <2>2 DEF b
      <3>4. QED
        BY <3>1, <3>2, <3>3
    <2>3. QED
      BY <2>1, <2>2
  <1>5. Behind'
    <2>1. \A x \in live' : x \in live \/ x = ROOT \/ x[2] < at'
      BY <1>3, <1>4
    <2>2. \A x \in live' : x = ROOT \/ x[2] < at'
      BY <1>3, <2>1, StillBehind
    <2>3. QED
      BY <2>2 DEF Behind
  <1>6. Pending = <<>> /\ Pending' = <<>> /\ Root = Root'
    BY DEF Pending, Root
  <1>7. /\ StackOK(stack') /\ Holdings(stack') = Holdings(stack) \o HeldBy(g)
        /\ Len(stack) \in Nat /\ Len(stack') = Len(stack) + 1
        /\ \A i \in 1..Len(stack) : stack'[i] = stack[i]
        /\ stack'[Len(stack) + 1] = g
        /\ Front(stack') = stack
    BY StackPush, SMTT(30) DEF ParseInv
  <1>8. Owned'
    <2>1. ThreeParts(Holdings(stack), <<>>, Root, live) /\ Holdings(stack) \in Seq(Blocks) /\ Root \in Seq(Blocks)
      BY <1>6, Start
    <2>2. ThreeParts(Holdings(stack'), <<>>, Root, live')
      BY <1>4, <1>7, <2>1, Held
    <2>3. Lists(Holdings(stack') \o <<>> \o Root, live')
      BY <1>7, <2>1, <2>2, SmallLists, OwnedAfter
    <2>4. ~misfreed
      BY Start
    <2>5. QED
      BY <1>6, <2>3, <2>4 DEF Owned
  <1>9. Waiting(stack)
    BY DEF ParseInv, Activations
  <1>10. Activations'
    <2>1. CASE parser' = "value" /\ HoldsKey(g)
      <3>1. \A i \in 1..Len(stack') : i \in 1..Len(stack) \/ i = Len(stack) + 1
        BY <1>7
      <3>2. Waiting(stack')
        BY <1>7, <1>9, <2>1, <3>1 DEF Waiting
      <3>3. QED
        BY <2>1, <3>2 DEF Activations
    <2>2. CASE parser' = "key" /\ ExpectsKey(g)
      <3>1. stack' # <<>> /\ Inner' = g
        BY <1>7, EmptySeq DEF Inner
      <3>2. QED
        BY <1>7, <1>9, <2>2, <3>1 DEF Activations
    <2>3. QED
      BY <2>1, <2>2
  <1>11. QED
    BY <1>3, <1>5, <1>7, <1>8, <1>10 DEF ParseInv

LEMMA OpenArrayStep == ASSUME ParseInv, OpenArray PROVE ParseInv'
  <1> DEFINE b == Block("items", Here)
             g == [kind |-> "array", items |-> <<>>, owns |-> <<b>>]
             p == SkipWs(Here + 1)
             v == [kind |-> "array", items |-> <<>>, owns |-> <<>>]
  <1>1. parser = "value" /\ Token(Here).t = "[" /\ text' = text
    BY DEF OpenArray, BeginArray
  <1>2. \/ parser' = "failed" /\ UNCHANGED <<at, stack, value, live, misfreed>>
        \/ Token(p).t = "]" /\ Return(v, p + 1) /\ UNCHANGED <<stack, live, misfreed>>
        \/ /\ stack' = Append(stack, g) /\ Allocate(<<b>>)
           /\ parser' = "value" /\ at' = p /\ UNCHANGED value
    BY Zenon DEF OpenArray, BeginArray
  <1>3. Token(Here).t # "end" /\ v.owns = <<>> /\ p = SkipWs(Here + 1)
    BY <1>1
  <1>4. b \in Blocks
    BY Start
  <1>5. FrameOK(g) /\ HeldBy(g) = <<b>> /\ HoldsKey(g)
    <2>1. FrameOK(g) /\ HeldBy(g) = <<b>>
      <3> HIDE DEF b
      <3>1. QED
        BY <1>4, NewArray
    <2>2. HoldsKey(g)
      BY DEF HoldsKey
    <2>3. QED
      BY <2>1, <2>2
  <1> HIDE DEF g, p, v
  <1>6. CASE parser' = "failed" /\ UNCHANGED <<at, stack, value, live, misfreed>>
    BY <1>1, <1>6, FailStep
  <1>7. CASE Token(p).t = "]" /\ Return(v, p + 1) /\ UNCHANGED <<stack, live, misfreed>>
    <2>1. Token(p).t # "end"
      BY <1>7
    <2>2. QED
      BY <1>1, <1>3, <1>7, <2>1, EmptyContainerStep
  <1>8. CASE /\ stack' = Append(stack, g) /\ Allocate(<<b>>)
             /\ parser' = "value" /\ at' = p /\ UNCHANGED value
    <2>1. live' = live \cup ToSet(HeldBy(g)) /\ misfreed' = misfreed
      BY <1>5, <1>8 DEF Allocate
    <2>2. \E w \in {"str", "items", "keys", "vals"} : HeldBy(g) = <<Block(w, Here)>>
      BY <1>5 DEF b
    <2> HIDE DEF b
    <2>3. QED
      BY <1>1, <1>3, <1>5, <1>8, <2>1, <2>2, PushStep
  <1>9. QED
    BY <1>2, <1>6, <1>7, <1>8

LEMMA OpenObjectStep == ASSUME ParseInv, OpenObject PROVE ParseInv'
  <1> DEFINE g == [kind |-> "object", keys |-> <<>>, vals |-> <<>>, key |-> <<>>, owns |-> <<>>]
             p == SkipWs(Here + 1)
             v == [kind |-> "object", keys |-> <<>>, vals |-> <<>>, owns |-> <<>>]
  <1>1. parser = "value" /\ Token(Here).t = "{" /\ UNCHANGED <<text, live, misfreed>>
    BY DEF OpenObject
  <1>2. \/ parser' = "failed" /\ UNCHANGED <<at, stack, value>>
        \/ Token(p).t = "}" /\ Return(v, p + 1) /\ UNCHANGED stack
        \/ /\ stack' = Append(stack, g)
           /\ parser' = "key" /\ at' = p /\ UNCHANGED value
    BY Zenon DEF OpenObject
  <1>3. Token(Here).t # "end" /\ v.owns = <<>> /\ p = SkipWs(Here + 1)
    BY <1>1
  <1>4. FrameOK(g) /\ HeldBy(g) = <<>> /\ ExpectsKey(g)
    BY NewObject
  <1> HIDE DEF g, p, v
  <1>5. CASE parser' = "failed" /\ UNCHANGED <<at, stack, value>>
    BY <1>1, <1>5, FailStep
  <1>6. CASE Token(p).t = "}" /\ Return(v, p + 1) /\ UNCHANGED stack
    <2>1. Token(p).t # "end"
      BY <1>6
    <2>2. QED
      BY <1>1, <1>3, <1>6, <2>1, EmptyContainerStep
  <1>7. CASE /\ stack' = Append(stack, g)
             /\ parser' = "key" /\ at' = p /\ UNCHANGED value
    <2>1. live' = live \cup ToSet(HeldBy(g)) /\ misfreed' = misfreed
      BY <1>1, <1>4, SmallLists
    <2>2. QED
      BY <1>1, <1>3, <1>4, <1>7, <2>1, PushStep
  <1>8. QED
    BY <1>2, <1>5, <1>6, <1>7

-----------------------------------------------------------------------------
(* A key: its string, and the arrays if it is the first.                   *)
LEMMA KeyHeld ==
    ASSUME NEW F \in Seq(Blocks), NEW c \in Seq(Blocks), NEW o \in Seq(Blocks), NEW a \in Seq(Blocks),
           NEW r \in Seq(Blocks), NEW s \in Blocks, NEW R,
           ThreeParts(F \o ((<<>> \o c) \o o), <<>>, r, R), s \notin R,
           a = o \/ (o = <<>> /\ Once(a) /\ ToSet(a) \cap R = {} /\ s \notin ToSet(a))
    PROVE  ThreeParts(F \o ((<<s>> \o c) \o a), <<>>, r, R \cup ToSet(a \o <<s>>))
  <1>1. /\ Once(<<s>>) /\ ToSet(<<s>>) = {s} /\ <<s>> \in Seq(Blocks)
        /\ Once(<<>>) /\ ToSet(<<>>) = {} /\ <<>> \in Seq(Blocks)
    BY SmallLists
  <1>2. <<>> \o c = c
    BY ConcatEmptySeq
  <1>3. /\ c \o o \in Seq(Blocks)
        /\ Once(c \o o) <=> Once(c) /\ Once(o) /\ Apart(c, o)
        /\ ToSet(c \o o) = ToSet(c) \cup ToSet(o)
    BY ConcatBlocks
  <1>4. /\ Once(F \o (c \o o)) <=> Once(F) /\ Once(c \o o) /\ Apart(F, c \o o)
        /\ ToSet(F \o (c \o o)) = ToSet(F) \cup ToSet(c \o o)
    BY <1>3, ConcatBlocks
  <1> DEFINE sc  == <<s>> \o c
             sca == sc \o a
             all == F \o sca
             as  == a \o <<s>>
  <1>5. sc \in Seq(Blocks) /\ (Once(sc) <=> Once(<<s>>) /\ Once(c) /\ Apart(<<s>>, c)) /\ ToSet(sc) = ToSet(<<s>>) \cup ToSet(c)
    BY <1>1, ConcatBlocks
  <1> HIDE DEF sc
  <1>6. sca \in Seq(Blocks) /\ (Once(sca) <=> Once(sc) /\ Once(a) /\ Apart(sc, a)) /\ ToSet(sca) = ToSet(sc) \cup ToSet(a)
    BY <1>5, ConcatBlocks
  <1> HIDE DEF sca
  <1>7. (Once(all) <=> Once(F) /\ Once(sca) /\ Apart(F, sca)) /\ ToSet(all) = ToSet(F) \cup ToSet(sca)
    BY <1>6, ConcatBlocks
  <1>8. ToSet(as) = ToSet(a) \cup ToSet(<<s>>)
    BY <1>1, ConcatBlocks
  <1> HIDE DEF all, as
  <1>9. /\ Once(F) /\ Once(c) /\ Once(o) /\ Apart(c, o) /\ Once(r)
        /\ ToSet(F) \cap (ToSet(c) \cup ToSet(o)) = {}
        /\ (ToSet(F) \cup ToSet(c) \cup ToSet(o)) \cap ToSet(r) = {}
        /\ R = ToSet(F) \cup ToSet(c) \cup ToSet(o) \cup ToSet(r)
    BY <1>1, <1>2, <1>3, <1>4 DEF ThreeParts, Apart
  <1>10. /\ Once(a) /\ s \notin ToSet(a) /\ ToSet(a) \cap (ToSet(F) \cup ToSet(c) \cup ToSet(r)) = {}
         /\ R \cup ToSet(a) = ToSet(F) \cup ToSet(c) \cup ToSet(a) \cup ToSet(r)
    <2>1. CASE a = o
      BY <1>9, <2>1 DEF Apart
    <2>2. CASE o = <<>> /\ Once(a) /\ ToSet(a) \cap R = {} /\ s \notin ToSet(a)
      BY <1>1, <1>9, <2>2
    <2>3. QED
      BY <2>1, <2>2
  <1>11. s \notin ToSet(F) /\ s \notin ToSet(c) /\ s \notin ToSet(r)
    BY <1>9
  <1>12. Once(sc) /\ ToSet(sc) = {s} \cup ToSet(c)
    BY <1>1, <1>5, <1>9, <1>11 DEF Apart
  <1>13. Once(sca) /\ ToSet(sca) = {s} \cup ToSet(c) \cup ToSet(a)
    BY <1>6, <1>10, <1>12 DEF Apart
  <1>14. Once(all) /\ ToSet(all) = ToSet(F) \cup {s} \cup ToSet(c) \cup ToSet(a)
    BY <1>7, <1>9, <1>10, <1>11, <1>13 DEF Apart
  <1>15. ToSet(all) \cap ToSet(r) = {} /\ R \cup ToSet(as) = ToSet(all) \cup ToSet(r)
    BY <1>1, <1>8, <1>9, <1>10, <1>11, <1>14
  <1>16. ThreeParts(all, <<>>, r, R \cup ToSet(as))
    BY <1>1, <1>9, <1>14, <1>15 DEF ThreeParts, Apart
  <1>17. QED
    BY <1>16 DEF all, sca, sc, as

(* The innermost activation, rewritten in place.                           *)
LEMMA ReplaceTop ==
    ASSUME NEW st, StackOK(st), st # <<>>, NEW g, FrameOK(g)
    PROVE  [st EXCEPT ![Len(st)] = g] = Append(Front(st), g)
  <1>1. PICK G : st \in Seq(G) /\ \A x \in G : FrameOK(x)
    BY DEF StackOK
  <1> DEFINE F == G \cup {g}
             n == Len(st)
             u == [st EXCEPT ![n] = g]
             w == Append(Front(st), g)
  <1>2. st \in Seq(F) /\ g \in F
    <2>1. G \subseteq F /\ g \in F
      OBVIOUS
    <2> HIDE DEF F
    <2>2. QED
      BY <1>1, <2>1, SeqMonotonic
  <1> HIDE DEF F
  <1>3. n \in Nat \ {0} /\ n \in 1..n /\ Len(Front(st)) = n - 1 /\ \A i \in 1..(n - 1) : Front(st)[i] = st[i]
    BY StackPop
  <1>4. u \in Seq(F) /\ Len(u) = n /\ \A i \in 1..n : u[i] = IF i = n THEN g ELSE st[i]
    BY <1>2, <1>3, ExceptSeq
  <1>5. Front(st) \in Seq(F)
    <2>1. Front(st) = SubSeq(st, 1, n - 1) /\ n - 1 \in 0..Len(st)
      BY <1>3 DEF Front
    <2>2. QED
      BY <1>2, <2>1, CutAt
  <1>6. /\ w \in Seq(F) /\ Len(w) = (n - 1) + 1 /\ \A i \in 1..(n - 1) : w[i] = Front(st)[i]
        /\ w[(n - 1) + 1] = g
    BY <1>2, <1>3, <1>5, AppendProperties
  <1> SUFFICES u = w
    OBVIOUS
  <1> HIDE DEF u, w, n
  <1>7. ASSUME NEW i \in 1..n PROVE u[i] = w[i]
    <2>1. (i = n /\ (n - 1) + 1 = n) \/ (i \in 1..(n - 1) /\ i # n)
      BY <1>3
    <2>2. QED
      BY <1>3, <1>4, <1>6, <2>1
  <1>8. Len(w) = n
    BY <1>3, <1>6
  <1>9. QED
    BY <1>4, <1>6, <1>7, <1>8, SeqEqual

LEMMA ParseKeyStep == ASSUME ParseInv, ParseKey PROVE ParseInv'
  <1> DEFINE f      == Inner
             d      == StringBytes(Token(Here).units)
             s      == Block("str", Here)
             b1     == Block("keys", Here)
             b2     == Block("vals", Here)
             k      == <<[data |-> d, owns |-> s]>>
             arrays == IF f.keys = <<>> THEN <<b1, b2>> ELSE f.owns
             g      == [f EXCEPT !.owns = arrays, !.key = k]
             q      == SkipWs(Here + 1)
  <1>1. parser = "key" /\ parser' = "value" /\ text' = text /\ value' = value /\ at' = q + 1
    BY DEF ParseKey
  <1>2. /\ stack' = [stack EXCEPT ![Len(stack)].owns = arrays, ![Len(stack)].key = k]
        /\ live' = live \cup ToSet(arrays \o <<s>>) /\ misfreed' = misfreed
    BY DEF ParseKey, Allocate
  <1>3. Token(Here).t # "end" /\ Token(q).t # "end"
    BY DEF ParseKey, KeyAhead, StringOK
  <1>4. /\ Here + 1 \in 0..Len(text) /\ Len(text) \in Nat /\ Here \in at..Len(text) /\ at \in Nat
        /\ s \in Blocks /\ s \notin live /\ s[2] = Here
        /\ b1 \in Blocks /\ b1 \notin live /\ b1[2] = Here
        /\ b2 \in Blocks /\ b2 \notin live /\ b2[2] = Here
    BY <1>3, Start
  <1>5. s # b1 /\ s # b2 /\ b1 # b2
    BY DEF Block
  <1>6. q \in (Here + 1)..Len(text)
    BY <1>4, SkipWsStops
  <1>7. q + 1 \in 0..Len(text) /\ q \in Nat
    <2>1. q \in 0..Len(text)
      <3> HIDE DEF q, Here
      <3>1. QED
        BY <1>4, <1>6
    <2>2. QED
      BY <1>3, <1>4, <2>1, TokenAhead
  <1>8. at' \in 0..Len(text) /\ at' \in Nat /\ at' >= at /\ Here < at'
    <2> HIDE DEF q, Here
    <2>1. QED
      BY <1>1, <1>4, <1>6, <1>7
  <1>9. stack # <<>> /\ ExpectsKey(f) /\ Waiting(Front(stack)) /\ StackOK(stack)
    BY <1>1 DEF ParseInv, Activations
  <1>10. /\ StackOK(Front(stack)) /\ FrameOK(f)
         /\ Holdings(Front(stack)) \in Seq(Blocks)
         /\ Holdings(stack) = Holdings(Front(stack)) \o HeldBy(f)
         /\ Len(stack) \in Nat \ {0} /\ Len(Front(stack)) = Len(stack) - 1
    BY <1>9, StackPop DEF Inner
  <1>11. ObjectFrame(f)
    BY <1>9, <1>10 DEF FrameOK, ArrayFrame, ExpectsKey
  <1> HIDE DEF s, b1, b2, Here, q, d
  <1>12. arrays \in Seq(Blocks)
    <2>1. <<b1, b2>> \in Seq(Blocks)
      BY <1>4
    <2>2. QED
      BY <1>11, <2>1 DEF ObjectFrame
  <1>13. /\ g = [kind |-> "object", keys |-> f.keys, vals |-> f.vals, key |-> k, owns |-> arrays]
         /\ stack' = [stack EXCEPT ![Len(stack)] = g]
    <2>1. f = [kind |-> "object", keys |-> f.keys, vals |-> f.vals, key |-> f.key, owns |-> f.owns]
      BY <1>11 DEF ObjectFrame
    <2>2. stack[Len(stack)] = f
      BY DEF Inner
    <2>3. Len(stack) \in DOMAIN stack
      <3>1. PICK G : stack \in Seq(G)
        BY <1>9 DEF StackOK
      <3>2. QED
        BY <1>10, <3>1, LenProperties
    <2>4. g = [kind |-> "object", keys |-> f.keys, vals |-> f.vals, key |-> k, owns |-> arrays]
      <3> HIDE DEF f, arrays, k
      <3>1. [f EXCEPT !.owns = arrays]
              = [kind |-> "object", keys |-> f.keys, vals |-> f.vals, key |-> f.key, owns |-> arrays]
        BY <2>1
      <3>2. \A h : h = [kind |-> "object", keys |-> f.keys, vals |-> f.vals, key |-> f.key, owns |-> arrays]
              => [h EXCEPT !.key = k]
                   = [kind |-> "object", keys |-> f.keys, vals |-> f.vals, key |-> k, owns |-> arrays]
        OBVIOUS
      <3>3. g = [[f EXCEPT !.owns = arrays] EXCEPT !.key = k]
        OBVIOUS
      <3> HIDE DEF g
      <3>4. QED
        BY <3>1, <3>2, <3>3, Zenon
    <2>5. stack' = [stack EXCEPT ![Len(stack)] = [stack[Len(stack)] EXCEPT !.owns = arrays, !.key = k]]
      <3> HIDE DEF f, arrays, k
      <3>1. QED
        BY <1>2, <2>3
    <2>6. QED
      BY <2>2, <2>4, <2>5
  <1> HIDE DEF g, arrays
  <1>14. KeysOK(k) /\ KeyBlocks(k) = <<s>> /\ k # <<>>
    <2> DEFINE N == {[data |-> d, owns |-> s]}
    <2>1. k \in Seq(N) /\ \A v \in N : v.owns \in Blocks
      BY <1>4
    <2>2. KeyBlocks(k) = <<s>>
      BY DEF KeyBlocks
    <2>3. KeysOK(k)
      <3> HIDE DEF N, k
      <3>1. QED
        BY <2>1 DEF KeysOK
    <2>4. QED
      BY <2>2, <2>3
  <1> HIDE DEF k
  <1>15. ObjectFrame(g) /\ g.keys = f.keys /\ g.vals = f.vals /\ g.key = k /\ g.owns = arrays
    <2>1. g.kind = "object" /\ g.keys = f.keys /\ g.vals = f.vals /\ g.key = k /\ g.owns = arrays
      BY <1>13
    <2>2. KeysOK(f.keys) /\ NodesOK(f.vals)
      BY <1>11 DEF ObjectFrame
    <2> HIDE DEF f
    <2>3. QED
      BY <1>12, <1>13, <1>14, <2>1, <2>2 DEF ObjectFrame
  <1>16. FrameOK(g) /\ HoldsKey(g)
    BY <1>14, <1>15 DEF FrameOK, HoldsKey
  <1> DEFINE c == KeyBlocks(f.keys) \o OwnedBy(f.vals)
             F == Holdings(Front(stack))
  <1>17. HeldBy(f) = (<<>> \o c) \o f.owns /\ HeldBy(g) = (<<s>> \o c) \o arrays
    <2>1. f.key = <<>>
      BY <1>9 DEF ExpectsKey
    <2>2. QED
      BY <1>11, <1>14, <1>15, <2>1, ObjectHolds, NoBlocks
  <1>18. c \in Seq(Blocks) /\ f.owns \in Seq(Blocks) /\ F \in Seq(Blocks)
    BY <1>10, <1>11, ObjectHolds, ConcatProperties
  <1>19. /\ StackOK(stack') /\ Holdings(stack') = F \o HeldBy(g)
         /\ Len(stack') = Len(stack)
         /\ \A i \in 1..(Len(stack) - 1) : stack'[i] = Front(stack)[i]
         /\ stack'[Len(stack)] = g
    <2>1. stack' = Append(Front(stack), g)
      BY <1>9, <1>13, <1>16, ReplaceTop
    <2>2. /\ StackOK(Append(Front(stack), g))
          /\ Holdings(Append(Front(stack), g)) = F \o HeldBy(g)
          /\ Len(Append(Front(stack), g)) = Len(Front(stack)) + 1
          /\ \A i \in 1..Len(Front(stack)) : Append(Front(stack), g)[i] = Front(stack)[i]
          /\ Append(Front(stack), g)[Len(Front(stack)) + 1] = g
      <3>1. StackOK(Front(stack)) /\ FrameOK(g)
        BY <1>10, <1>16
      <3>2. QED
        BY <3>1, StackPush, SMTT(30)
    <2>3. (Len(stack) - 1) + 1 = Len(stack)
      BY <1>10
    <2>4. QED
      BY <1>10, <2>1, <2>2, <2>3
  <1>20. Pending = <<>> /\ Pending' = <<>> /\ Root = Root'
    BY <1>1 DEF Pending, Root
  <1>21. \/ arrays = f.owns
         \/ f.owns = <<>> /\ Once(arrays) /\ ToSet(arrays) = {b1, b2}
    <2>1. CASE f.keys = <<>>
      <3>1. f.owns = <<>> /\ arrays = <<b1, b2>>
        BY <1>9, <2>1 DEF ExpectsKey, arrays
      <3>2. DOMAIN <<b1, b2>> = {1, 2} /\ <<b1, b2>>[1] = b1 /\ <<b1, b2>>[2] = b2
        OBVIOUS
      <3>3. Once(<<b1, b2>>) /\ ToSet(<<b1, b2>>) = {b1, b2}
        BY <1>5, <3>2 DEF Once, ToSet
      <3>4. QED
        BY <3>1, <3>3
    <2>2. CASE f.keys # <<>>
      BY <2>2 DEF arrays
    <2>3. QED
      BY <2>1, <2>2
  <1>22. ThreeParts(Holdings(stack), <<>>, Root, live) /\ Root \in Seq(Blocks) /\ ~misfreed
    BY <1>20, Start
  <1>23. ThreeParts(Holdings(stack'), <<>>, Root, live')
    <2> DEFINE o == f.owns
    <2>1. ThreeParts(F \o ((<<>> \o c) \o o), <<>>, Root, live)
      BY <1>10, <1>17, <1>22
    <2>2. arrays = o \/ (o = <<>> /\ Once(arrays) /\ ToSet(arrays) \cap live = {} /\ s \notin ToSet(arrays))
      BY <1>4, <1>5, <1>21
    <2>3. o \in Seq(Blocks)
      BY <1>18
    <2> HIDE DEF F, c, o
    <2>4. ThreeParts(F \o ((<<s>> \o c) \o arrays), <<>>, Root, live \cup ToSet(arrays \o <<s>>))
      BY <1>4, <1>12, <1>18, <1>22, <2>1, <2>2, <2>3, KeyHeld
    <2>5. QED
      BY <1>2, <1>17, <1>19, <2>4
  <1>24. Owned'
    <2>1. Lists(Holdings(stack') \o <<>> \o Root, live')
      BY <1>19, <1>22, <1>23, SmallLists, OwnedAfter
    <2>2. QED
      BY <1>2, <1>20, <1>22, <2>1 DEF Owned
  <1>25. Behind'
    <2>1. ToSet(arrays \o <<s>>) = ToSet(arrays) \cup {s}
      BY <1>4, <1>12, ConcatBlocks, SmallLists
    <2>2. ToSet(arrays) \subseteq live \cup {b1, b2}
      <3>1. CASE arrays = f.owns
        <4>1. ToSet(HeldBy(f)) \subseteq live
          <5>1. HeldBy(f) \in Seq(Blocks)
            BY <1>10, HeldByType
          <5>2. ToSet(Holdings(stack)) = ToSet(F) \cup ToSet(HeldBy(f))
            BY <1>10, <1>18, <5>1, ConcatBlocks
          <5>3. QED
            BY <1>22, <5>2 DEF ThreeParts
        <4>2. <<>> \o c = c
          BY <1>18, ConcatEmptySeq
        <4>3. ToSet(HeldBy(f)) = ToSet(c) \cup ToSet(f.owns)
          BY <1>17, <1>18, <4>2, ConcatBlocks, ZenonT(40)
        <4>4. QED
          BY <3>1, <4>1, <4>3
      <3>2. CASE ToSet(arrays) = {b1, b2}
        BY <3>2
      <3>3. QED
        BY <1>21, <3>1, <3>2
    <2>3. \A x \in live' : x \in live \/ x = ROOT \/ x[2] < at'
      BY <1>2, <1>4, <1>8, <2>1, <2>2
    <2>4. \A x \in live' : x = ROOT \/ x[2] < at'
      BY <1>8, <2>3, StillBehind
    <2>5. QED
      BY <2>4 DEF Behind
  <1>26. Activations'
    <2>1. \A i \in 1..Len(stack) : i \in 1..(Len(stack) - 1) \/ i = Len(stack)
      BY <1>10
    <2>2. Waiting(stack')
      BY <1>9, <1>10, <1>16, <1>19, <2>1 DEF Waiting
    <2>3. QED
      BY <1>1, <2>2 DEF Activations
  <1>27. QED
    BY <1>1, <1>8, <1>19, <1>24, <1>25, <1>26 DEF ParseInv

-----------------------------------------------------------------------------
(* A container takes the element that was parsed for it.                   *)
Rearranged(s, t) == ToSet(s) = ToSet(t) /\ (Once(s) <=> Once(t))

LEMMA ArrayElementHolds ==
    ASSUME NEW f, ArrayFrame(f), value.owns \in Seq(Blocks), NEW g, g = WithElement(f)
    PROVE  /\ ArrayFrame(g)
           /\ Rearranged(HeldBy(g), HeldBy(f) \o value.owns)
  <1>1. f = [kind |-> "array", items |-> f.items, owns |-> f.owns] /\ NodesOK(f.items) /\ f.owns \in Seq(Blocks)
    BY DEF ArrayFrame
  <1>2. g = [kind |-> "array", items |-> Append(f.items, value), owns |-> f.owns]
    <2>1. f.kind = "array"
      BY <1>1
    <2>2. g = [f EXCEPT !.items = Append(f.items, value)]
      BY <2>1 DEF WithElement
    <2>3. \A x : [f EXCEPT !.items = x] = [kind |-> "array", items |-> x, owns |-> f.owns]
      BY <1>1
    <2>4. QED
      BY <2>2, <2>3, Zenon
  <1>3. NodesOK(Append(f.items, value)) /\ OwnedBy(Append(f.items, value)) = OwnedBy(f.items) \o value.owns
    BY <1>1, OwnedByNodes
  <1>4. g.items = Append(f.items, value) /\ g.owns = f.owns
    BY <1>2
  <1>5. ArrayFrame(g)
    BY <1>1, <1>2, <1>3, <1>4 DEF ArrayFrame
  <1> DEFINE a == OwnedBy(f.items)
             v == value.owns
             o == f.owns
  <1>6. HeldBy(f) = a \o o /\ HeldBy(g) = (a \o v) \o o /\ a \in Seq(Blocks) /\ v \in Seq(Blocks) /\ o \in Seq(Blocks)
    BY <1>3, <1>4, <1>5, ArrayHolds
  <1> SUFFICES Rearranged(HeldBy(g), HeldBy(f) \o v)
    BY <1>5
  <1> HIDE DEF a, v, o
  <1>7. /\ a \o o \in Seq(Blocks) /\ (Once(a \o o) <=> Once(a) /\ Once(o) /\ Apart(a, o))
        /\ ToSet(a \o o) = ToSet(a) \cup ToSet(o)
    BY <1>6, ConcatBlocks
  <1>8. /\ (Once(a \o o \o v) <=> Once(a \o o) /\ Once(v) /\ Apart(a \o o, v))
        /\ ToSet(a \o o \o v) = ToSet(a \o o) \cup ToSet(v)
    BY <1>6, <1>7, ConcatBlocks
  <1>9. /\ a \o v \in Seq(Blocks) /\ (Once(a \o v) <=> Once(a) /\ Once(v) /\ Apart(a, v))
        /\ ToSet(a \o v) = ToSet(a) \cup ToSet(v)
    BY <1>6, ConcatBlocks
  <1>10. /\ (Once(a \o v \o o) <=> Once(a \o v) /\ Once(o) /\ Apart(a \o v, o))
         /\ ToSet(a \o v \o o) = ToSet(a \o v) \cup ToSet(o)
    BY <1>6, <1>9, ConcatBlocks
  <1>11. Rearranged(a \o v \o o, a \o o \o v)
    BY <1>7, <1>8, <1>9, <1>10 DEF Rearranged, Apart
  <1>12. QED
    BY <1>6, <1>11

(* An object's pending key becomes one of its keys.                        *)
LEMMA ObjectElementHolds ==
    ASSUME NEW f, ObjectFrame(f), f.key # <<>>, value.owns \in Seq(Blocks), NEW g, g = WithElement(f)
    PROVE  /\ ObjectFrame(g) /\ ExpectsKey(g)
           /\ Rearranged(HeldBy(g), HeldBy(f) \o value.owns)
  <1>1. /\ f = [kind |-> "object", keys |-> f.keys, vals |-> f.vals, key |-> f.key, owns |-> f.owns]
        /\ KeysOK(f.keys) /\ KeysOK(f.key) /\ NodesOK(f.vals) /\ f.owns \in Seq(Blocks)
    BY DEF ObjectFrame
  <1>2. g = [kind |-> "object", keys |-> f.keys \o f.key, vals |-> Append(f.vals, value), key |-> <<>>,
             owns |-> f.owns]
    <2>1. f.kind = "object"
      BY <1>1
    <2>2. g = [[[f EXCEPT !.keys = f.keys \o f.key] EXCEPT !.vals = Append(f.vals, value)] EXCEPT !.key = <<>>]
      BY <2>1 DEF WithElement
    <2>3. \A x : [f EXCEPT !.keys = x]
                   = [kind |-> "object", keys |-> x, vals |-> f.vals, key |-> f.key, owns |-> f.owns]
      BY <1>1
    <2>4. \A h, x, y : h = [kind |-> "object", keys |-> x, vals |-> f.vals, key |-> f.key, owns |-> f.owns]
            => [h EXCEPT !.vals = y]
                 = [kind |-> "object", keys |-> x, vals |-> y, key |-> f.key, owns |-> f.owns]
      OBVIOUS
    <2>5. \A h, x, y : h = [kind |-> "object", keys |-> x, vals |-> y, key |-> f.key, owns |-> f.owns]
            => [h EXCEPT !.key = <<>>]
                 = [kind |-> "object", keys |-> x, vals |-> y, key |-> <<>>, owns |-> f.owns]
      OBVIOUS
    <2>6. QED
      BY <2>2, <2>3, <2>4, <2>5, Zenon
  <1>3. NodesOK(Append(f.vals, value)) /\ OwnedBy(Append(f.vals, value)) = OwnedBy(f.vals) \o value.owns
    BY <1>1, OwnedByNodes
  <1>4. /\ KeysOK(f.keys \o f.key) /\ KeyBlocks(f.keys \o f.key) = KeyBlocks(f.keys) \o KeyBlocks(f.key)
        /\ f.keys \o f.key # <<>>
    BY <1>1, KeyBlocksKeys
  <1>5. /\ g.kind = "object" /\ g.keys = f.keys \o f.key /\ g.vals = Append(f.vals, value)
        /\ g.key = <<>> /\ g.owns = f.owns
    <2>1. \A x, y, o : g = [kind |-> "object", keys |-> x, vals |-> y, key |-> <<>>, owns |-> o]
            => g.kind = "object" /\ g.keys = x /\ g.vals = y /\ g.key = <<>> /\ g.owns = o
      OBVIOUS
    <2>2. QED
      BY <1>2, <2>1, Zenon
  <1>6. ObjectFrame(g) /\ ExpectsKey(g)
    BY <1>1, <1>2, <1>3, <1>4, <1>5, NothingOK DEF ObjectFrame, ExpectsKey
  <1> DEFINE c  == KeyBlocks(f.key)
             ks == KeyBlocks(f.keys)
             vs == OwnedBy(f.vals)
             v  == value.owns
             o  == f.owns
  <1>7. HeldBy(f) = c \o (ks \o vs) \o o /\ HeldBy(g) = <<>> \o ((ks \o c) \o (vs \o v)) \o o
    BY <1>3, <1>4, <1>5, <1>6, ObjectHolds, NoBlocks
  <1>8. c \in Seq(Blocks) /\ ks \in Seq(Blocks) /\ vs \in Seq(Blocks) /\ v \in Seq(Blocks) /\ o \in Seq(Blocks)
    BY ObjectHolds
  <1> SUFFICES Rearranged(HeldBy(g), HeldBy(f) \o v)
    BY <1>6
  <1> HIDE DEF c, ks, vs, v, o
  <1>9. /\ ks \o vs \in Seq(Blocks) /\ (Once(ks \o vs) <=> Once(ks) /\ Once(vs) /\ Apart(ks, vs))
        /\ ToSet(ks \o vs) = ToSet(ks) \cup ToSet(vs)
    BY <1>8, ConcatBlocks
  <1> DEFINE kv == ks \o vs
             p  == c \o kv
             h  == p \o o
  <1>10. /\ p \in Seq(Blocks) /\ (Once(p) <=> Once(c) /\ Once(kv) /\ Apart(c, kv))
         /\ ToSet(p) = ToSet(c) \cup ToSet(kv)
    <2> HIDE DEF kv
    <2>1. kv \in Seq(Blocks)
      BY <1>9 DEF kv
    <2>2. QED
      BY <1>8, <2>1, ConcatBlocks
  <1>11. /\ h \in Seq(Blocks) /\ (Once(h) <=> Once(p) /\ Once(o) /\ Apart(p, o))
         /\ ToSet(h) = ToSet(p) \cup ToSet(o)
    <2> HIDE DEF p
    <2>1. QED
      BY <1>8, <1>10, ConcatBlocks
  <1>12. /\ (Once(h \o v) <=> Once(h) /\ Once(v) /\ Apart(h, v))
         /\ ToSet(h \o v) = ToSet(h) \cup ToSet(v)
    <2> HIDE DEF h
    <2>1. QED
      BY <1>8, <1>11, ConcatBlocks
  <1> DEFINE kc == ks \o c
             vv == vs \o v
             q  == kc \o vv
  <1>13. /\ kc \in Seq(Blocks) /\ (Once(kc) <=> Once(ks) /\ Once(c) /\ Apart(ks, c))
         /\ ToSet(kc) = ToSet(ks) \cup ToSet(c)
    BY <1>8, ConcatBlocks
  <1>14. /\ vv \in Seq(Blocks) /\ (Once(vv) <=> Once(vs) /\ Once(v) /\ Apart(vs, v))
         /\ ToSet(vv) = ToSet(vs) \cup ToSet(v)
    BY <1>8, ConcatBlocks
  <1>15. /\ q \in Seq(Blocks) /\ (Once(q) <=> Once(kc) /\ Once(vv) /\ Apart(kc, vv))
         /\ ToSet(q) = ToSet(kc) \cup ToSet(vv)
    <2> HIDE DEF kc, vv
    <2>1. QED
      BY <1>13, <1>14, ConcatBlocks
  <1>16. <<>> \o q = q
    <2> HIDE DEF q
    <2>1. QED
      BY <1>15, ConcatEmptySeq
  <1>17. /\ (Once(q \o o) <=> Once(q) /\ Once(o) /\ Apart(q, o))
         /\ ToSet(q \o o) = ToSet(q) \cup ToSet(o)
    <2> HIDE DEF q
    <2>1. QED
      BY <1>8, <1>15, ConcatBlocks
  <1>18. HeldBy(f) \o v = h \o v /\ HeldBy(g) = q \o o
    BY <1>7, <1>16
  <1>19. (Once(kv) <=> Once(ks) /\ Once(vs) /\ Apart(ks, vs)) /\ ToSet(kv) = ToSet(ks) \cup ToSet(vs)
    BY <1>9
  <1> HIDE DEF kv, p, h, kc, vv, q
  <1>20. ToSet(q \o o) = ToSet(h \o v)
    BY <1>10, <1>11, <1>12, <1>13, <1>14, <1>15, <1>17, <1>19
  <1>21. Once(q \o o) <=> Once(h \o v)
    BY <1>10, <1>11, <1>12, <1>13, <1>14, <1>15, <1>17, <1>19 DEF Apart
  <1>22. QED
    BY <1>18, <1>20, <1>21 DEF Rearranged

LEMMA Regrouped ==
    ASSUME NEW F \in Seq(Blocks), NEW h \in Seq(Blocks), NEW v \in Seq(Blocks), NEW r \in Seq(Blocks),
           NEW g \in Seq(Blocks), NEW R, Rearranged(g, h \o v), ThreeParts(F \o h, v, r, R)
    PROVE  ThreeParts(F \o g, <<>>, r, R) /\ ThreeParts(F, g, r, R)
  <1>1. /\ (Once(F \o h) <=> Once(F) /\ Once(h) /\ Apart(F, h))
        /\ ToSet(F \o h) = ToSet(F) \cup ToSet(h)
    BY ConcatBlocks
  <1>2. /\ (Once(F \o g) <=> Once(F) /\ Once(g) /\ Apart(F, g))
        /\ ToSet(F \o g) = ToSet(F) \cup ToSet(g)
    BY ConcatBlocks
  <1>3. /\ (Once(h \o v) <=> Once(h) /\ Once(v) /\ Apart(h, v))
        /\ ToSet(h \o v) = ToSet(h) \cup ToSet(v)
    BY ConcatBlocks
  <1>4. Once(g) /\ ToSet(g) = ToSet(h) \cup ToSet(v)
    BY <1>1, <1>3 DEF ThreeParts, Rearranged, Apart
  <1>5. QED
    BY <1>1, <1>2, <1>4, SmallLists DEF ThreeParts, Apart

LEMMA GotElementStep == ASSUME ParseInv, GotElement PROVE ParseInv'
  <1> DEFINE f == Inner
             g == WithElement(f)
             F == Holdings(Front(stack))
             v == value.owns
  <1>1. parser = "got" /\ stack # <<>> /\ UNCHANGED <<text, live, misfreed>>
    BY DEF GotElement
  <1>2. \/ /\ Token(Here).t = "," /\ stack' = Append(Front(stack), g)
           /\ parser' = IF g.kind = "array" THEN "value" ELSE "key"
           /\ at' = Here + 1 /\ UNCHANGED value
        \/ /\ Token(Here).t = Closing(g) /\ stack' = Front(stack) /\ Return(NodeOf(g), Here + 1)
        \/ /\ stack' = Append(Front(stack), g) /\ parser' = "failed" /\ UNCHANGED <<at, value>>
    BY Zenon DEF GotElement
  <1>3. /\ StackOK(Front(stack)) /\ FrameOK(f) /\ F \in Seq(Blocks)
        /\ Holdings(stack) = F \o HeldBy(f)
        /\ Len(stack) \in Nat \ {0} /\ Len(Front(stack)) = Len(stack) - 1
        /\ \A i \in 1..(Len(stack) - 1) : Front(stack)[i] = stack[i]
    BY <1>1, StackPop DEF ParseInv, Inner
  <1>4. v \in Seq(Blocks) /\ Waiting(stack)
    BY <1>1 DEF ParseInv, Activations
  <1>5. HoldsKey(f) /\ Waiting(Front(stack))
    <2>1. Len(stack) \in 1..Len(stack) /\ \A i \in 1..(Len(stack) - 1) : i \in 1..Len(stack)
      BY <1>3
    <2>2. QED
      BY <1>3, <1>4, <2>1 DEF Waiting, Inner
  <1>6. /\ FrameOK(g) /\ Rearranged(HeldBy(g), HeldBy(f) \o v)
        /\ \/ ArrayFrame(g) /\ HoldsKey(g)
           \/ ObjectFrame(g) /\ ExpectsKey(g)
    <2>1. CASE ArrayFrame(f)
      <3>1. ArrayFrame(g) /\ Rearranged(HeldBy(g), HeldBy(f) \o v)
        <4> HIDE DEF f
        <4>1. QED
          BY <1>4, <2>1, ArrayElementHolds
      <3>2. HoldsKey(g)
        BY <3>1, ArrayHolds DEF HoldsKey
      <3>3. QED
        BY <3>1, <3>2 DEF FrameOK
    <2>2. CASE ObjectFrame(f)
      <3>1. f.key # <<>>
        BY <1>5, <2>2, ObjectHolds DEF HoldsKey
      <3>2. ObjectFrame(g) /\ ExpectsKey(g) /\ Rearranged(HeldBy(g), HeldBy(f) \o v)
        <4> HIDE DEF f
        <4>1. QED
          BY <1>4, <2>2, <3>1, ObjectElementHolds
      <3>3. QED
        BY <3>2 DEF FrameOK
    <2>3. QED
      BY <1>3, <2>1, <2>2 DEF FrameOK
  <1>7. g.kind \in {"array", "object"} /\ (g.kind = "array" <=> ArrayFrame(g)) /\ (g.kind = "object" <=> ObjectFrame(g))
    BY <1>6, ArrayHolds, ObjectHolds
  <1>8. HeldBy(f) \in Seq(Blocks) /\ HeldBy(g) \in Seq(Blocks)
    BY <1>3, <1>6, HeldByType
  <1>9. Pending = v /\ Root' = <<ROOT>> /\ Root = <<ROOT>>
    BY <1>1, <1>2 DEF Pending, Root, Return
  <1>10. /\ ThreeParts(F \o HeldBy(g), <<>>, Root, live)
         /\ ThreeParts(F, HeldBy(g), Root, live)
    <2>1. ThreeParts(F \o HeldBy(f), v, Root, live) /\ Root \in Seq(Blocks)
      BY <1>3, <1>9, Start
    <2> DEFINE hf == HeldBy(f)
               hg == HeldBy(g)
    <2>2. Rearranged(hg, hf \o v) /\ hf \in Seq(Blocks) /\ hg \in Seq(Blocks)
      BY <1>6, <1>8
    <2> HIDE DEF F, hf, hg, v
    <2>3. QED
      BY <1>3, <1>4, <2>1, <2>2, Regrouped DEF hf, hg
  <1>11. at \in Nat /\ at \in 0..Len(text) /\ Here \in at..Len(text) /\ ~misfreed /\ Root \in Seq(Blocks)
    BY Start DEF ParseInv
  <1>12. /\ Here + 1 \in 0..Len(text) /\ Here + 1 \in Nat /\ Here + 1 >= at
         \/ Token(Here).t = "end"
    <2>1. Here + 1 \in 0..Len(text) \/ Token(Here).t = "end"
      BY Start
    <2> HIDE DEF Here
    <2>2. QED
      BY <1>11, <2>1
  <1> HIDE DEF f, g, F, v
  <1>13. Closing(g) # "end"
    BY DEF Closing
  <1>14. at' \in 0..Len(text) /\ at' \in Nat /\ at' >= at
    <2>1. at' = at \/ (at' = Here + 1 /\ Token(Here).t # "end")
      BY <1>2, <1>13 DEF Return
    <2> HIDE DEF Here
    <2>2. QED
      BY <1>11, <1>12, <2>1
  <1>15. Behind'
    <2>1. \A b \in live : b = ROOT \/ b[2] < at'
      BY <1>14, StillBehind
    <2>2. QED
      BY <1>1, <2>1 DEF Behind
  <1> DEFINE pushed == Append(Front(stack), g)
  <1>16. /\ StackOK(pushed) /\ Holdings(pushed) = F \o HeldBy(g)
         /\ Len(pushed) = Len(stack)
         /\ \A i \in 1..(Len(stack) - 1) : pushed[i] = Front(stack)[i]
         /\ pushed[Len(stack)] = g
         /\ Front(pushed) = Front(stack)
    <2>1. /\ StackOK(Append(Front(stack), g))
          /\ Holdings(Append(Front(stack), g)) = F \o HeldBy(g)
          /\ Len(Append(Front(stack), g)) = Len(Front(stack)) + 1
          /\ \A i \in 1..Len(Front(stack)) : Append(Front(stack), g)[i] = Front(stack)[i]
          /\ Append(Front(stack), g)[Len(Front(stack)) + 1] = g
          /\ Front(Append(Front(stack), g)) = Front(stack)
      <3>1. StackOK(Front(stack)) /\ FrameOK(g)
        BY <1>3, <1>6
      <3>2. QED
        BY <3>1, StackPush DEF F
    <2>2. (Len(stack) - 1) + 1 = Len(stack)
      BY <1>3
    <2>3. QED
      BY <1>3, <2>1, <2>2
  <1> HIDE DEF pushed
  <1>17. CASE stack' = pushed /\ value' = value /\ parser' \in {"value", "key", "failed"}
    <2>1. Pending' = <<>>
      BY <1>17 DEF Pending
    <2>2. Owned'
      <3>1. ThreeParts(Holdings(pushed), <<>>, Root, live)
        BY <1>10, <1>16
      <3>2. Lists(Holdings(pushed) \o <<>> \o Root, live)
        BY <1>11, <1>16, <3>1, SmallLists, OwnedAfter
      <3>3. QED
        BY <1>1, <1>9, <1>11, <1>17, <2>1, <3>2 DEF Owned
    <2>3. ASSUME parser' = "value", g.kind = "array"
          PROVE  Waiting(stack')
      <3>1. \A i \in 1..Len(stack) : i \in 1..(Len(stack) - 1) \/ i = Len(stack)
        BY <1>3
      <3>2. HoldsKey(g)
        BY <2>3 DEF HoldsKey
      <3>3. QED
        BY <1>3, <1>5, <1>16, <1>17, <3>1, <3>2 DEF Waiting
    <2>4. ASSUME parser' = "key", g.kind = "object"
          PROVE  stack' # <<>> /\ ExpectsKey(Inner') /\ Waiting(Front(stack'))
      <3>1. Inner' = g
        BY <1>16, <1>17 DEF Inner
      <3>2. ExpectsKey(g)
        BY <1>6, <1>7, <2>4, ArrayHolds
      <3>3. stack' # <<>>
        BY <1>3, <1>16, <1>17, EmptySeq
      <3>4. QED
        BY <1>5, <1>16, <1>17, <3>1, <3>2, <3>3
    <2>5. \/ parser' = "failed"
          \/ parser' = "value" /\ g.kind = "array"
          \/ parser' = "key" /\ g.kind = "object"
      BY <1>2, <1>7, <1>17 DEF Return
    <2>6. Activations'
      BY <2>3, <2>4, <2>5 DEF Activations
    <2>7. QED
      BY <1>1, <1>4, <1>14, <1>15, <1>16, <1>17, <2>2, <2>6 DEF ParseInv, v
  <1>18. CASE stack' = Front(stack) /\ Return(NodeOf(g), Here + 1)
    <2>1. parser' = "got" /\ value' = NodeOf(g)
      BY <1>18 DEF Return
    <2>2. NodeOf(g).owns = HeldBy(g)
      <3>1. CASE ArrayFrame(g)
        BY <3>1, ArrayHolds DEF NodeOf
      <3>2. CASE ObjectFrame(g)
        <4>1. ExpectsKey(g) /\ g.kind = "object"
          BY <1>6, <3>2, ArrayHolds, ObjectHolds
        <4>2. KeyBlocks(g.key) = <<>>
          BY <4>1, NoBlocks DEF ExpectsKey
        <4>3. HeldBy(g) = <<>> \o Parts(g) \o g.owns
          BY <4>1, <4>2 DEF HeldBy
        <4>4. Parts(g) \in Seq(Blocks)
          <5>1. KeyBlocks(g.keys) \in Seq(Blocks) /\ OwnedBy(g.vals) \in Seq(Blocks)
                /\ Parts(g) = KeyBlocks(g.keys) \o OwnedBy(g.vals)
            BY <3>2, ObjectHolds
          <5>2. QED
            BY <5>1, ConcatBlocks
        <4>5. <<>> \o Parts(g) = Parts(g)
          BY <4>4, ConcatEmptySeq
        <4>6. QED
          BY <4>1, <4>3, <4>5 DEF NodeOf
      <3>3. QED
        BY <1>6, <3>1, <3>2
    <2>3. Pending' = HeldBy(g) /\ value'.owns \in Seq(Blocks)
      BY <1>8, <2>1, <2>2 DEF Pending
    <2>4. Owned'
      <3>1. Lists(F \o HeldBy(g) \o Root, live)
        BY <1>3, <1>8, <1>10, <1>11, OwnedAfter DEF F
      <3>2. QED
        BY <1>1, <1>9, <1>11, <1>18, <2>3, <3>1 DEF Owned, F
    <2>5. Activations'
      BY <1>5, <1>18, <2>1 DEF Activations
    <2>6. QED
      BY <1>1, <1>3, <1>14, <1>15, <1>18, <2>3, <2>4, <2>5 DEF ParseInv
  <1>19. QED
    <2>1. \/ stack' = pushed /\ value' = value /\ parser' \in {"value", "key", "failed"}
          \/ stack' = Front(stack) /\ Return(NodeOf(g), Here + 1)
      BY <1>2, <1>7 DEF pushed
    <2>2. QED
      BY <1>17, <1>18, <2>1

-----------------------------------------------------------------------------
(* Freeing.                                                                *)
LEMMA Freed ==
    ASSUME NEW s \in Seq(Blocks), Once(s), ToSet(s) \subseteq live, ~misfreed, Free(s)
    PROVE  ~misfreed' /\ live' = live \ ToSet(s)
  <1>1. Cardinality(ToSet(s)) = Len(s) /\ Len(s) \in Nat
    BY OnceCounts, LenProperties
  <1>2. ~(Cardinality(ToSet(s)) < Len(s))
    BY <1>1
  <1>3. QED
    BY <1>2, Zenon DEF Free

LEMMA UnwindStep == ASSUME ParseInv, Unwind PROVE ParseInv'
  <1> DEFINE f == Inner
             F == Holdings(Front(stack))
             h == HeldBy(f)
  <1>1. parser = "failed" /\ parser' = "failed" /\ stack # <<>> /\ stack' = Front(stack)
        /\ UNCHANGED <<text, at, value>>
    BY DEF Unwind
  <1>2. Free(h)
    BY Zenon DEF Unwind, HeldBy
  <1>3. /\ StackOK(Front(stack)) /\ FrameOK(f) /\ F \in Seq(Blocks) /\ Holdings(stack) = F \o h
    BY <1>1, StackPop DEF ParseInv, Inner
  <1>4. h \in Seq(Blocks)
    BY <1>3, HeldByType
  <1>5. Pending = <<>> /\ Pending' = <<>> /\ Root' = Root
    BY <1>1 DEF Pending, Root
  <1>6. ThreeParts(F \o h, <<>>, Root, live) /\ ~misfreed /\ Root \in Seq(Blocks)
    BY <1>3, <1>5, Start
  <1> HIDE DEF f, F, h
  <1>7. /\ (Once(F \o h) <=> Once(F) /\ Once(h) /\ Apart(F, h))
        /\ ToSet(F \o h) = ToSet(F) \cup ToSet(h)
    BY <1>3, <1>4, ConcatBlocks
  <1>8. Once(h) /\ ToSet(h) \subseteq live
    BY <1>6, <1>7 DEF ThreeParts
  <1>9. ~misfreed' /\ live' = live \ ToSet(h)
    BY <1>2, <1>4, <1>6, <1>8, Freed
  <1>10. ThreeParts(F, <<>>, Root, live')
    BY <1>6, <1>7, <1>9, SmallLists DEF ThreeParts, Apart
  <1>11. Owned'
    <2>1. Lists(F \o <<>> \o Root, live')
      BY <1>3, <1>6, <1>10, SmallLists, OwnedAfter DEF F
    <2>2. QED
      BY <1>1, <1>5, <1>9, <2>1 DEF Owned, F
  <1>12. Behind'
    BY <1>1, <1>9 DEF ParseInv, Behind
  <1>13. QED
    BY <1>1, <1>3, <1>11, <1>12 DEF ParseInv, Activations

(* struple_json_parse gives up, or its caller frees the tree.              *)
LEMMA AllFreed ==
    ASSUME ParseInv, stack = <<>>, stack' = <<>>, Free(Pending \o Root),
           parser' \in {"idle", "rejected"}, value' = NoNode, text' = text,
           at' \in 0..Len(text), at' >= at
    PROVE  ParseInv'
  <1>1. ThreeParts(<<>>, Pending, Root, live) /\ Pending \in Seq(Blocks) /\ Root \in Seq(Blocks) /\ ~misfreed
    BY NoStack, Start
  <1>2. /\ Pending \o Root \in Seq(Blocks)
        /\ (Once(Pending \o Root) <=> Once(Pending) /\ Once(Root) /\ Apart(Pending, Root))
        /\ ToSet(Pending \o Root) = ToSet(Pending) \cup ToSet(Root)
    BY <1>1, ConcatBlocks
  <1>3. Once(Pending \o Root) /\ ToSet(Pending \o Root) = live
    BY <1>1, <1>2, SmallLists DEF ThreeParts
  <1>4. ~misfreed' /\ live' = {}
    BY <1>1, <1>2, <1>3, Freed
  <1>5. Pending' = <<>> /\ Root' = <<>>
    BY DEF Pending, Root
  <1>6. ThreeParts(<<>>, <<>>, <<>>, {}) /\ StackOK(<<>>)
    BY SmallLists, NoStack DEF ThreeParts, Apart
  <1>7. Lists(<<>> \o <<>> \o <<>>, {})
    BY <1>6, SmallLists, NoStack, ListsParts
  <1>8. Owned' /\ Behind'
    BY <1>4, <1>5, <1>7, NoStack DEF Owned, Behind
  <1>9. value'.owns \in Seq(Blocks)
    BY SmallLists DEF NoNode
  <1>10. QED
    BY <1>6, <1>8, <1>9 DEF ParseInv, Activations

LEMMA ParseReturnsStep == ASSUME ParseInv, ParseReturns PROVE ParseInv'
  <1>1. parser = "got" /\ stack = <<>> /\ stack' = <<>> /\ text' = text /\ at' = Here
    BY DEF ParseReturns
  <1>2. Here \in 0..Len(text) /\ Here >= at /\ at \in Nat /\ Here \in Nat
    <2>1. Here \in at..Len(text) /\ at \in Nat /\ Here \in 0..Len(text) /\ Len(text) \in Nat
      BY Start
    <2> HIDE DEF Here
    <2>2. QED
      BY <2>1
  <1>3. Pending = value.owns /\ Root = <<ROOT>>
    BY <1>1 DEF Pending, Root
  <1>4. CASE parser' = "parsed" /\ UNCHANGED <<value, live, misfreed>>
    <2>1. Pending' = value.owns /\ Root' = <<ROOT>>
      BY <1>4 DEF Pending, Root
    <2>2. Owned'
      BY <1>1, <1>3, <1>4, <2>1 DEF ParseInv, Owned
    <2>3. Behind'
      <3>1. \A b \in live : b = ROOT \/ b[2] < Here
        <4> HIDE DEF Here
        <4>1. QED
          BY <1>2, StillBehind
      <3>2. QED
        BY <1>1, <1>4, <3>1 DEF Behind
    <2>4. QED
      BY <1>1, <1>2, <1>4, <2>2, <2>3 DEF ParseInv, Activations
  <1>5. CASE parser' = "rejected" /\ value' = NoNode /\ Free(value.owns \o <<ROOT>>)
    BY <1>1, <1>2, <1>3, <1>5, AllFreed
  <1>6. QED
    BY <1>4, <1>5 DEF ParseReturns

LEMMA ParseFailsStep == ASSUME ParseInv, ParseFails PROVE ParseInv'
  <1>1. /\ parser = "failed" /\ stack = <<>> /\ stack' = <<>> /\ parser' = "rejected" /\ value' = NoNode
        /\ text' = text /\ at' = at /\ Free(<<ROOT>>)
    BY DEF ParseFails
  <1>2. Pending \o Root = <<ROOT>>
    <2>1. Pending = <<>> /\ Root = <<ROOT>>
      BY <1>1 DEF Pending, Root
    <2>2. <<>> \o <<ROOT>> = <<ROOT>>
      BY SmallLists, ConcatEmptySeq
    <2>3. QED
      BY <2>1, <2>2
  <1>3. at \in 0..Len(text) /\ at \in Nat
    BY Start DEF ParseInv
  <1>4. QED
    BY <1>1, <1>2, <1>3, AllFreed

LEMMA ParserStep == ASSUME ParseInv, ParseStep PROVE ParseInv'
  BY ParseLiteralStep, ParseStringStep, ParseNumberStep, ParseNothingStep, OpenArrayStep, OpenObjectStep,
     NoKeyStep, ParseKeyStep, GotElementStep, UnwindStep, ParseReturnsStep, ParseFailsStep
     DEF ParseStep

LEMMA FromJsonStep == ASSUME ParseInv, FromJson PROVE ParseInv'
  <1>1. /\ parser = "parsed" /\ parser' = "idle" /\ value' = NoNode /\ UNCHANGED <<text, at, stack>>
        /\ Free(value.owns \o <<ROOT>>)
    BY DEF FromJson
  <1>2. Pending = value.owns /\ Root = <<ROOT>> /\ stack = <<>>
    BY <1>1 DEF Pending, Root, ParseInv, Activations
  <1>3. at \in 0..Len(text) /\ at \in Nat
    BY Start DEF ParseInv
  <1>4. QED
    BY <1>1, <1>2, <1>3, AllFreed

-----------------------------------------------------------------------------
(* Rendering leaves the parser alone, but what it writes is the text that  *)
(* is parsed next: there is one from the first call of render on, though   *)
(* texts of keys come and go.                                              *)
LEMMA NextReturns == \A buf, p : Next(buf, p).rc \in {-1, 0, 1}
  <1> DEFINE RcOK(r) == r.rc \in {-1, 1}
  <1>1. \A p, el : RcOK(Failed(p)) /\ RcOK(Decoded(p, el))
    BY DEF Failed, Decoded
  <1> HIDE DEF RcOK
  <1>2. \A buf, t, q : RcOK(ReadFixedInt(buf, t, q))
    BY <1>1 DEF ReadFixedInt
  <1>3. \A buf, t, q : RcOK(ReadBigInt(buf, t, q))
    <2> TAKE buf, t, q
    <2> DEFINE m   == LenBytes(buf, t = INT_NEG_BIG, q)
               n   == FirstOf(MagLens(buf, t = INT_NEG_BIG, q))
               mag == Signed(t = INT_NEG_BIG, Bytes(buf, q + 1 + m, n))
               el  == [kind |-> "bigint", neg |-> t = INT_NEG_BIG, mag |-> mag]
               r   == ReadBigInt(buf, t, q)
    <2>1. \/ r = Failed(q) \/ r = Failed(q + 1) \/ r = Failed(q + 1 + m) \/ r = Failed(q + 1 + m + n)
          \/ r = Decoded(q + 1 + m + n, el)
      BY Zenon DEF ReadBigInt
    <2> HIDE DEF m, n, mag, el, r
    <2>2. RcOK(r)
      BY <1>1, <2>1
    <2>3. QED
      BY <2>2 DEF r
  <1>4. \A buf, q, n, el : RcOK(ReadPayload(buf, q, n, el))
    BY <1>1, Zenon DEF ReadPayload
  <1>5. \A buf, negative, exponent, p, end : RcOK(ReadDigits(buf, negative, exponent, p, end))
    BY <1>1, ZenonT(40) DEF ReadDigits
  <1>6. \A buf, negative, e : RcOK(DecimalAfter(buf, negative, e))
    BY <1>1, <1>5, Zenon DEF DecimalAfter
  <1>7. \A buf, q : RcOK(ReadDecimal(buf, q))
    BY <1>1, <1>6, Zenon DEF ReadDecimal
  <1>8. \A buf, t, q : RcOK(ReadFramed(buf, t, q))
    BY <1>1, Zenon DEF ReadFramed
  <1>9. ASSUME NEW buf, NEW t, NEW q
        PROVE  RcOK(DecodeElement(buf, t, q))
    <2>1. /\ \A el : RcOK(Failed(q)) /\ RcOK(Decoded(q, el))
          /\ RcOK(ReadFixedInt(buf, t, q)) /\ RcOK(ReadBigInt(buf, t, q))
          /\ \A n, el : RcOK(ReadPayload(buf, q, n, el))
          /\ RcOK(ReadDecimal(buf, q)) /\ RcOK(ReadFramed(buf, t, q))
      BY <1>1, <1>2, <1>3, <1>4, <1>7, <1>8
    <2>2. QED
      BY <2>1, ZenonT(60) DEF DecodeElement
  <1>10. ASSUME NEW buf, NEW p
         PROVE  Next(buf, p).rc \in {-1, 0, 1}
    <2>1. CASE p >= Len(buf)
      BY <2>1 DEF Next
    <2>2. CASE ~(p >= Len(buf))
      <3>1. Next(buf, p) = DecodeElement(buf, buf[p + 1], p + 1)
        BY <2>2 DEF Next
      <3>2. QED
        BY <1>9, <3>1 DEF RcOK
    <2>3. QED
      BY <2>1, <2>2
  <1>11. QED
    BY <1>10

LEMMA FrontOf ==
    ASSUME NEW S, NEW s \in Seq(S), s # <<>>
    PROVE  /\ Front(s) \in Seq(S) /\ Len(s) \in Nat \ {0} /\ Len(Front(s)) = Len(s) - 1
           /\ Len(s) \in 1..Len(s)
           /\ \A i \in 1..(Len(s) - 1) : Front(s)[i] = s[i]
  <1>1. Len(s) \in Nat \ {0}
    BY LenProperties, EmptySeq
  <1>2. Len(s) - 1 \in 0..Len(s) /\ Front(s) = SubSeq(s, 1, Len(s) - 1) /\ Len(s) - 1 \in Nat
    BY <1>1 DEF Front
  <1>3. Front(s) \in Seq(S) /\ Len(Front(s)) = Len(s) - 1
    BY <1>2, CutAt, ZenonT(40)
  <1>4. \A i \in 1..(Len(s) - 1) : Front(s)[i] = s[i]
    <2>1. \A i \in 1..Len(s) : s[i] \in S
      BY ElementOfSeq
    <2>2. \A i \in 1..(Len(s) - 1) : s[i] \in S
      BY <1>1, <2>1
    <2> DEFINE m == Len(s) - 1
    <2>3. 1 \in Int /\ m \in Int /\ \A i \in 1..m : s[i] \in S
      BY <1>1, <2>2
    <2> HIDE DEF m
    <2>4. \A i \in 1..(m - 1 + 1) : SubSeq(s, 1, m)[i] = s[1 + i - 1]
      BY <2>3, SubSeqProperties
    <2>5. \A i \in 1..m : SubSeq(s, 1, m)[i] = s[i]
      BY <2>3, <2>4
    <2>6. QED
      BY <1>2, <2>5 DEF m
  <1>5. QED
    BY <1>1, <1>3, <1>4

OutsOK(os) == \E S : os \in Seq(Seq(S))

LEMMA OneOut ==
    /\ OutsOK(<<>>) /\ OutsOK(<< <<>> >>) /\ Len(<< <<>> >>) = 1
    /\ \A t : OutsOK(<< <<t>> >>) /\ Len(<< <<t>> >>) = 1
  <1>1. OutsOK(<<>>) /\ OutsOK(<< <<>> >>)
    <2> DEFINE S == {}
    <2>1. <<>> \in Seq(Seq(S)) /\ << <<>> >> \in Seq(Seq(S))
      BY EmptySeq
    <2> HIDE DEF S
    <2>2. QED
      BY <2>1 DEF OutsOK
  <1>2. ASSUME NEW t PROVE OutsOK(<< <<t>> >>)
    <2> DEFINE S == {t}
    <2>1. << <<t>> >> \in Seq(Seq(S))
      <3>1. t \in S
        OBVIOUS
      <3> HIDE DEF S
      <3>2. <<t>> \in Seq(S)
        BY <3>1
      <3>3. QED
        BY <3>2
    <2> HIDE DEF S
    <2>2. QED
      BY <2>1 DEF OutsOK
  <1>3. QED
    BY <1>1, <1>2

(* The texts after writing to the innermost one.                           *)
LEMMA WrittenOK ==
    ASSUME NEW o, OutsOK(o), o # <<>>, NEW T, NEW tokens \in Seq(T)
    PROVE  /\ OutsOK(Written(o, tokens)) /\ Len(Written(o, tokens)) = Len(o)
           /\ Written(o, tokens) # <<>> /\ Len(o) \in Nat \ {0}
  <1>1. PICK S : o \in Seq(Seq(S))
    BY DEF OutsOK
  <1> DEFINE U == S \cup T
             new == Last(o) \o tokens
  <1>2. S \subseteq U /\ T \subseteq U
    OBVIOUS
  <1> HIDE DEF U
  <1>3. tokens \in Seq(U) /\ \A x \in Seq(S) : x \in Seq(U)
    BY <1>2, SeqMonotonic
  <1>4. o \in Seq(Seq(U))
    <2>1. Seq(S) \subseteq Seq(U)
      BY <1>3
    <2>2. QED
      BY <1>1, <2>1, SeqMonotonic
  <1>5. Front(o) \in Seq(Seq(U)) /\ Len(o) \in Nat \ {0} /\ Len(Front(o)) = Len(o) - 1 /\ Len(o) \in 1..Len(o)
    BY <1>4, FrontOf
  <1>6. Last(o) \in Seq(U)
    BY <1>4, <1>5, ElementOfSeq DEF Last
  <1>7. new \in Seq(U)
    BY <1>3, <1>6, ConcatProperties
  <1> HIDE DEF new
  <1>8. <<new>> \in Seq(Seq(U)) /\ Len(<<new>>) = 1
    BY <1>7
  <1> DEFINE w == Front(o) \o <<new>>
  <1>9. w \in Seq(Seq(U)) /\ Len(w) = Len(Front(o)) + Len(<<new>>)
    BY <1>5, <1>8, ConcatProperties
  <1>10. w = Written(o, tokens)
    BY DEF Written, new
  <1> HIDE DEF w
  <1>11. Len(w) = Len(o) /\ w # <<>>
    BY <1>5, <1>8, <1>9, EmptySeq
  <1>12. QED
    BY <1>5, <1>9, <1>10, <1>11 DEF OutsOK

(* The frames: each is a reader, and the ones in the middle of a key that  *)
(* is not a string have a temporary text each.                             *)
ReaderFrame(f) ==
    /\ f = [kind |-> f.kind, pos |-> f.pos, scratch |-> f.scratch, empty |-> f.empty, key |-> f.key]
    /\ f.key \in BOOLEAN

ReadersOK(rs) == \E F : rs \in Seq(F) /\ \A f \in F : ReaderFrame(f)

KeysOpen(rs) == {i \in 1..Len(rs) : rs[i].key = TRUE}

RenderInv ==
    /\ OutsOK(outs)
    /\ ReadersOK(readers)
    /\ renderer \in {"render", "loop", "back"} =>
          readers # <<>> /\ Len(outs) = Cardinality(KeysOpen(readers)) + 1
    /\ renderer = "loop" => Len(readers) > 1 /\ Top.key = FALSE
    /\ renderer \in {"abort", "rendered"} => outs # <<>>

LEMMA FrameKeeps ==
    ASSUME NEW f, ReaderFrame(f)
    PROVE  /\ \A x : ReaderFrame([f EXCEPT !.pos = x]) /\ [f EXCEPT !.pos = x].key = f.key
           /\ \A x : ReaderFrame([f EXCEPT !.scratch = x]) /\ [f EXCEPT !.scratch = x].key = f.key
                     /\ [f EXCEPT !.scratch = x].scratch = x
           /\ \A x : ReaderFrame([f EXCEPT !.empty = x]) /\ [f EXCEPT !.empty = x].key = f.key
           /\ \A x \in BOOLEAN : ReaderFrame([f EXCEPT !.key = x]) /\ [f EXCEPT !.key = x].key = x
           /\ \A x : [f EXCEPT !.pos = x].scratch = f.scratch
  <1>1. f = [kind |-> f.kind, pos |-> f.pos, scratch |-> f.scratch, empty |-> f.empty, key |-> f.key]
        /\ f.key \in BOOLEAN
    BY DEF ReaderFrame
  <1>2. \A g, a, b, c, d, e : g = [kind |-> a, pos |-> b, scratch |-> c, empty |-> d, key |-> e]
          => /\ g.key = e /\ g.scratch = c
             /\ g = [kind |-> g.kind, pos |-> g.pos, scratch |-> g.scratch, empty |-> g.empty, key |-> g.key]
    OBVIOUS
  <1>3. ASSUME NEW x
        PROVE  /\ [f EXCEPT !.pos = x]
                    = [kind |-> f.kind, pos |-> x, scratch |-> f.scratch, empty |-> f.empty, key |-> f.key]
               /\ [f EXCEPT !.scratch = x]
                    = [kind |-> f.kind, pos |-> f.pos, scratch |-> x, empty |-> f.empty, key |-> f.key]
               /\ [f EXCEPT !.empty = x]
                    = [kind |-> f.kind, pos |-> f.pos, scratch |-> f.scratch, empty |-> x, key |-> f.key]
               /\ [f EXCEPT !.key = x]
                    = [kind |-> f.kind, pos |-> f.pos, scratch |-> f.scratch, empty |-> f.empty, key |-> x]
    BY <1>1
  <1>4. QED
    BY <1>1, <1>2, <1>3, Zenon DEF ReaderFrame

LEMMA ReaderRead ==
    ASSUME NEW f, ReaderFrame(f), NEW r
    PROVE  ReaderFrame(After(f, r)) /\ After(f, r).key = f.key
  <1> DEFINE s == IF r.el.kind \in DOMAIN FramedCode THEN r.el.data ELSE f.scratch
             h == [f EXCEPT !.pos = r.pos]
  <1>1. ReaderFrame(h) /\ h.key = f.key /\ h.scratch = f.scratch
    <2>1. \A x : /\ ReaderFrame([f EXCEPT !.pos = x]) /\ [f EXCEPT !.pos = x].key = f.key
                /\ [f EXCEPT !.pos = x].scratch = f.scratch
      BY FrameKeeps
    <2>2. QED
      BY <2>1
  <1>2. After(f, r) = [h EXCEPT !.scratch = s]
    BY DEF After
  <1> HIDE DEF h, s
  <1>3. ReaderFrame([h EXCEPT !.scratch = s]) /\ [h EXCEPT !.scratch = s].key = h.key
    <2>1. \A x : ReaderFrame([h EXCEPT !.scratch = x]) /\ [h EXCEPT !.scratch = x].key = h.key
      BY <1>1, FrameKeeps
    <2>2. QED
      BY <2>1
  <1>4. QED
    BY <1>1, <1>2, <1>3

LEMMA NewReader == \A k : ReaderFrame(ReaderOf(k)) /\ ReaderOf(k).key = FALSE
  <1> TAKE k
  <1> DEFINE g == ReaderOf(k)
  <1>1. g = [kind |-> k, pos |-> 0, scratch |-> <<>>, empty |-> TRUE, key |-> FALSE]
    BY DEF ReaderOf
  <1> HIDE DEF g
  <1>2. QED
    BY <1>1 DEF ReaderFrame, g

(* Replacing, adding and dropping the innermost frame.                     *)
LEMMA OpenKeys ==
    ASSUME NEW rs, ReadersOK(rs)
    PROVE  /\ KeysOpen(rs) \subseteq 1..Len(rs)
           /\ Len(rs) \in Nat /\ IsFiniteSet(KeysOpen(rs)) /\ Cardinality(KeysOpen(rs)) \in Nat
  <1>1. Len(rs) \in Nat
    BY LenProperties DEF ReadersOK
  <1>2. KeysOpen(rs) \subseteq 1..Len(rs) /\ IsFiniteSet(1..Len(rs))
    BY <1>1, FS_Interval DEF KeysOpen
  <1>3. QED
    BY <1>1, <1>2, FS_Subset, FS_CardinalityType

LEMMA TopReplaced ==
    ASSUME NEW rs, ReadersOK(rs), rs # <<>>, NEW g, ReaderFrame(g), NEW w, w = Front(rs) \o <<g>>
    PROVE  /\ ReadersOK(w) /\ w # <<>> /\ Len(w) = Len(rs) /\ w[Len(w)] = g
           /\ g.key = TRUE /\ rs[Len(rs)].key = FALSE =>
                 Cardinality(KeysOpen(w)) = Cardinality(KeysOpen(rs)) + 1
           /\ g.key = FALSE /\ rs[Len(rs)].key = FALSE =>
                 Cardinality(KeysOpen(w)) = Cardinality(KeysOpen(rs))
           /\ g.key = FALSE /\ rs[Len(rs)].key = TRUE =>
                 Cardinality(KeysOpen(w)) = Cardinality(KeysOpen(rs)) - 1 /\ Cardinality(KeysOpen(rs)) > 0
  <1>1. PICK G : rs \in Seq(G) /\ \A f \in G : ReaderFrame(f)
    BY DEF ReadersOK
  <1> DEFINE F == G \cup {g}
             n == Len(rs)
  <1>2. (\A f \in F : ReaderFrame(f)) /\ G \subseteq F /\ g \in F
    BY <1>1
  <1> HIDE DEF F
  <1>3. rs \in Seq(F)
    BY <1>1, <1>2, SeqMonotonic
  <1>4. /\ Front(rs) \in Seq(F) /\ n \in Nat \ {0} /\ Len(Front(rs)) = n - 1 /\ n \in 1..n
        /\ \A i \in 1..(n - 1) : Front(rs)[i] = rs[i]
    BY <1>3, FrontOf
  <1>5. <<g>> \in Seq(F) /\ Len(<<g>>) = 1 /\ <<g>>[1] = g
    BY <1>2
  <1> HIDE DEF n
  <1>6. /\ w \in Seq(F) /\ Len(w) = Len(Front(rs)) + Len(<<g>>)
        /\ \A i \in 1..(Len(Front(rs)) + Len(<<g>>)) :
              w[i] = IF i <= Len(Front(rs)) THEN Front(rs)[i] ELSE <<g>>[i - Len(Front(rs))]
    <2>1. Front(rs) \in Seq(F) /\ <<g>> \in Seq(F)
      BY <1>4, <1>5
    <2>2. QED
      BY <2>1, ConcatProperties
  <1>7. Len(w) = n /\ w[n] = g /\ \A i \in 1..(n - 1) : w[i] = rs[i]
    <2>1. (n - 1) + 1 = n /\ n - (n - 1) = 1 /\ ~(n <= n - 1)
      BY <1>4
    <2>2. \A i \in 1..n : w[i] = IF i <= n - 1 THEN Front(rs)[i] ELSE <<g>>[i - (n - 1)]
      BY <1>4, <1>5, <1>6, <2>1
    <2>3. w[n] = g
      <3>1. w[n] = <<g>>[n - (n - 1)]
        BY <1>4, <2>1, <2>2
      <3>2. QED
        BY <1>5, <2>1, <3>1
    <2>4. \A i \in 1..(n - 1) : i \in 1..n /\ i <= n - 1
      BY <1>4
    <2>5. QED
      BY <1>4, <1>5, <1>6, <2>1, <2>2, <2>3, <2>4
  <1>8. ReadersOK(w) /\ w # <<>>
    BY <1>2, <1>4, <1>6, <1>7, EmptySeq DEF ReadersOK
  <1> DEFINE K == KeysOpen(rs)
             L == KeysOpen(w)
  <1>9. IsFiniteSet(K) /\ Cardinality(K) \in Nat
    BY OpenKeys
  <1>10. \A i : i \in K <=> i \in 1..n /\ rs[i].key = TRUE
    BY DEF KeysOpen, n
  <1>11. \A i : i \in L <=> i \in 1..n /\ w[i].key = TRUE
    BY <1>7 DEF KeysOpen
  <1>12. \A i \in 1..n : i \in 1..(n - 1) \/ i = n
    BY <1>4
  <1> HIDE DEF K, L
  <1>13. \A i \in 1..(n - 1) : i # n /\ i \in 1..n
    BY <1>4
  <1>14. g.key = TRUE /\ rs[n].key = FALSE => n \notin K /\ L = K \cup {n}
    <2> HAVE g.key = TRUE /\ rs[n].key = FALSE
    <2>1. n \notin K /\ n \in L
      BY <1>4, <1>7, <1>10, <1>11
    <2>2. \A i : i # n => (i \in L <=> i \in K)
      BY <1>7, <1>10, <1>11, <1>12
    <2>3. QED
      BY <2>1, <2>2
  <1>15. g.key = FALSE /\ rs[n].key = FALSE => L = K
    BY <1>4, <1>7, <1>10, <1>11, <1>12, <1>13
  <1>16. g.key = FALSE /\ rs[n].key = TRUE => n \in K /\ L = K \ {n}
    BY <1>4, <1>7, <1>10, <1>11, <1>12, <1>13
  <1>17. /\ Cardinality(K \cup {n}) = IF n \in K THEN Cardinality(K) ELSE Cardinality(K) + 1
         /\ Cardinality(K \ {n}) = IF n \in K THEN Cardinality(K) - 1 ELSE Cardinality(K)
         /\ Cardinality(K) = 0 => K = {}
    BY <1>9, FS_AddElement, FS_RemoveElement, FS_EmptySet
  <1>18. /\ g.key = TRUE /\ rs[n].key = FALSE => Cardinality(L) = Cardinality(K) + 1
         /\ g.key = FALSE /\ rs[n].key = FALSE => Cardinality(L) = Cardinality(K)
         /\ g.key = FALSE /\ rs[n].key = TRUE => Cardinality(L) = Cardinality(K) - 1 /\ Cardinality(K) > 0
    <2>1. ASSUME n \notin K, L = K \cup {n}
          PROVE  Cardinality(L) = Cardinality(K) + 1
      BY <1>17, <2>1
    <2>2. ASSUME n \in K, L = K \ {n}
          PROVE  Cardinality(L) = Cardinality(K) - 1 /\ Cardinality(K) > 0
      <3>1. Cardinality(K) # 0
        BY <1>17, <2>2
      <3>2. QED
        BY <1>9, <1>17, <2>2, <3>1
    <2>3. QED
      BY <1>14, <1>15, <1>16, <2>1, <2>2
  <1>19. ReadersOK(w) /\ w # <<>> /\ Len(w) = n /\ w[Len(w)] = g
    BY <1>7, <1>8
  <1>20. QED
    BY <1>18, <1>19 DEF n, K, L

LEMMA FramePushed ==
    ASSUME NEW rs, ReadersOK(rs), NEW g, ReaderFrame(g), g.key = FALSE, NEW w, w = Append(rs, g)
    PROVE  /\ ReadersOK(w) /\ Len(w) = Len(rs) + 1 /\ w # <<>> /\ w[Len(w)] = g
           /\ KeysOpen(w) = KeysOpen(rs)
  <1>1. PICK G : rs \in Seq(G) /\ \A f \in G : ReaderFrame(f)
    BY DEF ReadersOK
  <1> DEFINE F == G \cup {g}
  <1>2. (\A f \in F : ReaderFrame(f)) /\ G \subseteq F /\ g \in F
    BY <1>1
  <1> HIDE DEF F
  <1>3. rs \in Seq(F)
    BY <1>1, <1>2, SeqMonotonic
  <1>4. /\ w \in Seq(F) /\ Len(w) = Len(rs) + 1 /\ Len(rs) \in Nat
        /\ \A i \in 1..Len(rs) : w[i] = rs[i]
        /\ w[Len(rs) + 1] = g
    BY <1>2, <1>3, AppendProperties, LenProperties
  <1>5. ReadersOK(w) /\ w # <<>>
    BY <1>2, <1>4, EmptySeq DEF ReadersOK
  <1>6. KeysOpen(w) = KeysOpen(rs)
    <2>1. \A i \in 1..(Len(rs) + 1) : i \in 1..Len(rs) \/ i = Len(rs) + 1
      BY <1>4
    <2>2. \A i \in 1..Len(rs) : i \in 1..(Len(rs) + 1)
      BY <1>4
    <2>3. QED
      BY <1>4, <2>1, <2>2 DEF KeysOpen
  <1>7. QED
    BY <1>4, <1>5, <1>6

LEMMA FramePopped ==
    ASSUME NEW rs, ReadersOK(rs), Len(rs) > 1, rs[Len(rs)].key = FALSE
    PROVE  /\ ReadersOK(Front(rs)) /\ Front(rs) # <<>> /\ KeysOpen(Front(rs)) = KeysOpen(rs)
  <1>1. PICK F : rs \in Seq(F) /\ \A f \in F : ReaderFrame(f)
    BY DEF ReadersOK
  <1> DEFINE n == Len(rs)
  <1>2. rs # <<>>
    BY EmptySeq
  <1>3. /\ Front(rs) \in Seq(F) /\ n \in Nat \ {0} /\ Len(Front(rs)) = n - 1
        /\ \A i \in 1..(n - 1) : Front(rs)[i] = rs[i]
    BY <1>1, <1>2, FrontOf
  <1>4. ReadersOK(Front(rs)) /\ Front(rs) # <<>>
    BY <1>1, <1>3, EmptySeq DEF ReadersOK
  <1>5. KeysOpen(Front(rs)) = KeysOpen(rs)
    <2>1. \A i \in 1..n : i \in 1..(n - 1) \/ i = n
      BY <1>3
    <2>2. \A i \in 1..(n - 1) : i \in 1..n
      BY <1>3
    <2>3. QED
      BY <1>3, <2>1, <2>2 DEF KeysOpen
  <1>6. QED
    BY <1>4, <1>5

-----------------------------------------------------------------------------
(* Every step of the renderer keeps its invariant.                         *)
LEMMA Wrote ==
    \A o, tokens : OutsOK(o) /\ o # <<>> /\ IsText(tokens) =>
        /\ OutsOK(Written(o, tokens)) /\ Len(Written(o, tokens)) = Len(o)
        /\ Written(o, tokens) # <<>> /\ Len(o) \in Nat \ {0}
  <1> TAKE o, tokens
  <1> HAVE OutsOK(o) /\ o # <<>> /\ IsText(tokens)
  <1>1. PICK T : tokens \in Seq(T)
    BY DEF IsText
  <1>2. QED
    BY <1>1, WrittenOK

LEMMA Tokens ==
    /\ \A t : IsText(<<t>>)
    /\ \A f : IsText(Comma(f)) /\ \A t : IsText(Comma(f) \o <<t>>)
  <1>1. ASSUME NEW t PROVE IsText(<<t>>)
    <2> DEFINE S == {t}
    <2>1. t \in S
      OBVIOUS
    <2> HIDE DEF S
    <2>2. <<t>> \in Seq(S)
      BY <2>1
    <2>3. QED
      BY <2>2 DEF IsText
  <1>2. ASSUME NEW f, NEW t PROVE IsText(Comma(f)) /\ IsText(Comma(f) \o <<t>>)
    <2> DEFINE c == Symbol(",")
               S == {c, t}
    <2>1. c \in S /\ t \in S
      OBVIOUS
    <2>2. Comma(f) = <<>> \/ Comma(f) = <<c>>
      BY DEF Comma
    <2> HIDE DEF c, S
    <2>3. <<c>> \in Seq(S) /\ <<t>> \in Seq(S) /\ <<>> \in Seq(S)
      BY <2>1, EmptySeq
    <2>4. Comma(f) \in Seq(S)
      BY <2>2, <2>3
    <2>5. Comma(f) \o <<t>> \in Seq(S)
      BY <2>3, <2>4, ConcatProperties
    <2>6. QED
      BY <2>4, <2>5 DEF IsText
  <1>3. QED
    BY <1>1, <1>2

LEMMA Rendered ==
    ASSUME RenderInv
    PROVE  /\ OutsOK(outs) /\ ReadersOK(readers) /\ Len(readers) \in Nat
           /\ Cardinality(KeysOpen(readers)) \in Nat
           /\ renderer \in {"render", "loop", "back"} =>
                 /\ readers # <<>> /\ outs # <<>> /\ ReaderFrame(Top) /\ Top.key \in BOOLEAN
                 /\ Len(outs) = Cardinality(KeysOpen(readers)) + 1
  <1>1. OutsOK(outs) /\ ReadersOK(readers)
    BY DEF RenderInv
  <1>2. Len(readers) \in Nat /\ Cardinality(KeysOpen(readers)) \in Nat
    BY <1>1, OpenKeys
  <1>3. ASSUME renderer \in {"render", "loop", "back"}
        PROVE  /\ readers # <<>> /\ outs # <<>> /\ ReaderFrame(Top) /\ Top.key \in BOOLEAN
               /\ Len(outs) = Cardinality(KeysOpen(readers)) + 1
    <2>1. readers # <<>> /\ Len(outs) = Cardinality(KeysOpen(readers)) + 1
      BY <1>3 DEF RenderInv
    <2>2. outs # <<>>
      BY <1>2, <2>1, EmptySeq
    <2>3. PICK F : readers \in Seq(F) /\ \A f \in F : ReaderFrame(f)
      BY <1>1 DEF ReadersOK
    <2>4. Top \in F
      BY <2>1, <2>3, FrontOf, ElementOfSeq DEF Top
    <2>5. QED
      BY <2>1, <2>2, <2>3, <2>4 DEF ReaderFrame
  <1>4. QED
    BY <1>1, <1>2, <1>3

LEMMA ReadValueStep ==
    ASSUME ReadersOK(readers), readers # <<>>, Top.key \in BOOLEAN,
           NEW f, ReaderFrame(f), NEW o, OutsOK(o), o # <<>>,
           Top.key = FALSE => Len(o) = Cardinality(KeysOpen(readers)) + 1,
           Top.key = TRUE  => Len(o) = Cardinality(KeysOpen(readers)),
           ReadValue(f, o)
    PROVE  RenderInv'
  <1>1. PICK r \in {Next(Source, f.pos)} :
          /\ outs' = Written(o, <<Symbol(":")>>)
          /\ IF r.rc = 1
             THEN /\ readers' = SetTop([After(f, r) EXCEPT !.key = FALSE, !.empty = FALSE])
                  /\ element' = r.el
                  /\ renderer' = "render"
             ELSE /\ renderer' = "abort"
                  /\ UNCHANGED <<readers, element>>
    BY DEF ReadValue
  <1>2. OutsOK(outs') /\ Len(outs') = Len(o) /\ outs' # <<>>
    BY <1>1, Wrote, Tokens
  <1>3. CASE renderer' = "abort" /\ readers' = readers
    BY <1>2, <1>3 DEF RenderInv
  <1>4. CASE readers' = SetTop([After(f, r) EXCEPT !.key = FALSE, !.empty = FALSE]) /\ renderer' = "render"
    <2> DEFINE a == After(f, r)
               h == [a EXCEPT !.key = FALSE]
               g == [a EXCEPT !.key = FALSE, !.empty = FALSE]
    <2>1. ReaderFrame(a)
      BY ReaderRead
    <2>2. g = [h EXCEPT !.empty = FALSE]
      OBVIOUS
    <2>3. readers' = Front(readers) \o <<g>>
      BY <1>4 DEF SetTop
    <2> HIDE DEF a, g
    <2>4. ReaderFrame(h) /\ h.key = FALSE
      BY <2>1, FrameKeeps
    <2> HIDE DEF h
    <2>5. ReaderFrame(g) /\ g.key = FALSE
      BY <2>2, <2>4, FrameKeeps
    <2>6. /\ ReadersOK(readers') /\ readers' # <<>>
          /\ Top.key = FALSE => Cardinality(KeysOpen(readers')) = Cardinality(KeysOpen(readers))
          /\ Top.key = TRUE  => Cardinality(KeysOpen(readers')) = Cardinality(KeysOpen(readers)) - 1
      BY <2>3, <2>5, TopReplaced DEF Top
    <2>7. Cardinality(KeysOpen(readers)) \in Nat
      BY OpenKeys
    <2>8. Len(outs') = Cardinality(KeysOpen(readers')) + 1
      BY <1>2, <2>6, <2>7
    <2>9. QED
      BY <1>2, <1>4, <2>6, <2>8 DEF RenderInv
  <1>5. QED
    BY <1>1, <1>3, <1>4

LEMMA ReadFirstStep == ASSUME RenderInv, ReadFirst PROVE RenderInv'
  <1>1. PICK r \in {Next(buffer, 0)} :
          /\ readers' = IF r.rc = 1 THEN <<After(ReaderOf("root"), r)>> ELSE <<>>
          /\ element' = r.el
          /\ renderer' = CASE r.rc = 1 -> "render" [] r.rc = 0 -> "rendered" [] r.rc = -1 -> "refused"
          /\ outs' = IF r.rc = 0 THEN << <<Symbol("null")>> >> ELSE << <<>> >>
    BY DEF ReadFirst
  <1>2. r.rc \in {-1, 0, 1}
    BY <1>1, NextReturns
  <1>3. OutsOK(outs') /\ Len(outs') = 1 /\ outs' # <<>>
    <2>1. OutsOK(outs') /\ Len(outs') = 1
      BY <1>1, OneOut
    <2>2. QED
      BY <2>1, EmptySeq
  <1>4. ReadersOK(<<>>)
    <2> DEFINE F == {}
    <2>1. <<>> \in Seq(F) /\ \A f \in F : ReaderFrame(f)
      BY EmptySeq
    <2> HIDE DEF F
    <2>2. QED
      BY <2>1 DEF ReadersOK
  <1>5. CASE r.rc = 1
    <2> DEFINE g == After(ReaderOf("root"), r)
               e == <<>>
    <2>1. readers' = Append(e, g) /\ renderer' = "render"
      BY <1>1, <1>5
    <2>2. ReaderFrame(g) /\ g.key = FALSE
      BY NewReader, ReaderRead
    <2>3. ReadersOK(e) /\ KeysOpen(e) = {}
      BY <1>4 DEF KeysOpen
    <2> HIDE DEF g, e
    <2>4. ReadersOK(readers') /\ readers' # <<>> /\ KeysOpen(readers') = {}
      BY <2>1, <2>2, <2>3, FramePushed
    <2>5. Cardinality(KeysOpen(readers')) = 0
      BY <2>4, FS_EmptySet
    <2>6. QED
      BY <1>3, <2>1, <2>4, <2>5 DEF RenderInv
  <1>6. CASE r.rc # 1
    <2>1. readers' = <<>> /\ renderer' \in {"rendered", "refused"}
      BY <1>1, <1>2, <1>6
    <2>2. QED
      BY <1>3, <1>4, <2>1 DEF RenderInv
  <1>7. QED
    BY <1>5, <1>6

LEMMA ContainerStep == ASSUME RenderInv, RenderContainer PROVE RenderInv'
  <1> DEFINE g == ReaderOf(IF element.kind = "map" THEN "map" ELSE "array")
             t == Symbol(IF element.kind = "map" THEN "{" ELSE "[")
  <1>1. renderer = "render" /\ outs' = Written(outs, <<t>>) /\ readers' = Append(readers, g) /\ renderer' = "loop"
    BY DEF RenderContainer
  <1>2. ReaderFrame(g) /\ g.key = FALSE
    BY NewReader
  <1> HIDE DEF g, t
  <1>3. readers # <<>> /\ outs # <<>> /\ Len(outs) = Cardinality(KeysOpen(readers)) + 1 /\ OutsOK(outs)
        /\ ReadersOK(readers) /\ Len(readers) \in Nat
    BY <1>1, Rendered
  <1>4. /\ ReadersOK(readers') /\ Len(readers') = Len(readers) + 1 /\ readers' # <<>>
        /\ readers'[Len(readers')] = g /\ KeysOpen(readers') = KeysOpen(readers)
    BY <1>1, <1>2, <1>3, FramePushed
  <1>5. Len(readers) > 0
    BY <1>3, EmptySeq DEF ReadersOK
  <1>6. Len(readers') > 1 /\ Top'.key = FALSE
    BY <1>2, <1>3, <1>4, <1>5 DEF Top
  <1>7. OutsOK(outs') /\ Len(outs') = Len(outs) /\ outs' # <<>>
    BY <1>1, <1>3, Wrote, Tokens
  <1>8. QED
    BY <1>1, <1>3, <1>4, <1>6, <1>7 DEF RenderInv

(* Steps that touch no frame.                                              *)
LEMMA PlainStep ==
    ASSUME RenderInv, ToJsonReturns \/ Abort \/ RenderTooDeep \/ RenderScalar \/ MalformedInside \/ ReadOn
    PROVE  RenderInv'
  <1>1. CASE ToJsonReturns
    <2>1. renderer = "back" /\ renderer' = "rendered" /\ readers' = <<>> /\ outs' = outs
      BY <1>1 DEF ToJsonReturns
    <2>2. ReadersOK(<<>>)
      <3> DEFINE F == {}
      <3>1. <<>> \in Seq(F) /\ \A f \in F : ReaderFrame(f)
        BY EmptySeq
      <3> HIDE DEF F
      <3>2. QED
        BY <3>1 DEF ReadersOK
    <2>3. QED
      BY <2>1, <2>2, Rendered DEF RenderInv
  <1>2. CASE Abort
    <2>1. renderer = "abort" /\ renderer' = "refused" /\ readers' = <<>> /\ outs' = <<outs[1]>>
      BY <1>2 DEF Abort
    <2>2. ReadersOK(<<>>)
      <3> DEFINE F == {}
      <3>1. <<>> \in Seq(F) /\ \A f \in F : ReaderFrame(f)
        BY EmptySeq
      <3> HIDE DEF F
      <3>2. QED
        BY <3>1 DEF ReadersOK
    <2>3. PICK S : outs \in Seq(Seq(S)) /\ outs # <<>>
      BY <2>1 DEF RenderInv, OutsOK
    <2>4. outs[1] \in Seq(S)
      <3>1. Len(outs) \in Nat \ {0}
        BY <2>3, LenProperties, EmptySeq
      <3>2. 1 \in 1..Len(outs)
        BY <3>1
      <3>3. QED
        BY <2>3, <3>2, ElementOfSeq
    <2>5. <<outs[1]>> \in Seq(Seq(S))
      BY <2>4
    <2>6. OutsOK(outs')
      BY <2>1, <2>5 DEF OutsOK
    <2>7. QED
      BY <2>1, <2>2, <2>6 DEF RenderInv
  <1>3. CASE RenderTooDeep
    <2>1. renderer = "render" /\ renderer' = "abort" /\ readers' = readers /\ outs' = outs
      BY <1>3 DEF RenderTooDeep
    <2>2. QED
      BY <2>1, Rendered DEF RenderInv
  <1>4. CASE RenderScalar
    <2> DEFINE t == ScalarToken(element)
    <2>1. /\ renderer = "render" /\ renderer' = "back" /\ readers' = readers
          /\ outs' = Written(outs, <<t>>)
      BY <1>4 DEF RenderScalar
    <2> HIDE DEF t
    <2>2. /\ readers # <<>> /\ outs # <<>> /\ Len(outs) = Cardinality(KeysOpen(readers)) + 1
          /\ OutsOK(outs) /\ ReadersOK(readers)
      BY <2>1, Rendered
    <2>3. OutsOK(outs') /\ Len(outs') = Len(outs)
      BY <2>1, <2>2, Wrote, Tokens
    <2>4. QED
      BY <2>1, <2>2, <2>3 DEF RenderInv
  <1>5. CASE MalformedInside
    <2>1. renderer = "loop" /\ renderer' = "abort" /\ readers' = readers /\ outs' = outs
      BY <1>5 DEF MalformedInside
    <2>2. QED
      BY <2>1, Rendered DEF RenderInv
  <1>6. CASE ReadOn
    <2>1. /\ renderer = "back" /\ renderer' = "loop" /\ readers' = readers /\ outs' = outs
          /\ Len(readers) > 1 /\ ~Top.key
      BY <1>6 DEF ReadOn
    <2>2. /\ readers # <<>> /\ Len(outs) = Cardinality(KeysOpen(readers)) + 1
          /\ OutsOK(outs) /\ ReadersOK(readers) /\ Top.key \in BOOLEAN
      BY <2>1, Rendered
    <2>3. Top.key = FALSE /\ Top' = Top
      BY <2>1, <2>2 DEF Top
    <2>4. QED
      BY <2>1, <2>2, <2>3 DEF RenderInv
  <1>7. QED
    BY <1>1, <1>2, <1>3, <1>4, <1>5, <1>6

LEMMA ArrayTurn == ASSUME RenderInv, ArrayElement PROVE RenderInv'
  <1>1. PICK r \in {Next(Source, Top.pos)} :
          /\ outs' = Written(outs, Comma(Top))
          /\ readers' = SetTop([After(Top, r) EXCEPT !.empty = FALSE])
    BY DEF ArrayElement
  <1>2. renderer = "loop" /\ renderer' = "render" /\ Top.key = FALSE
    BY DEF ArrayElement, RenderInv
  <1>3. /\ readers # <<>> /\ outs # <<>> /\ Len(outs) = Cardinality(KeysOpen(readers)) + 1
        /\ OutsOK(outs) /\ ReadersOK(readers) /\ ReaderFrame(Top)
    BY <1>2, Rendered
  <1> DEFINE a == After(Top, r)
             g == [a EXCEPT !.empty = FALSE]
  <1>4. ReaderFrame(a) /\ a.key = FALSE
    BY <1>2, <1>3, ReaderRead
  <1>5. readers' = Front(readers) \o <<g>>
    BY <1>1 DEF SetTop
  <1> HIDE DEF a
  <1>6. ReaderFrame(g) /\ g.key = FALSE
    BY <1>4, FrameKeeps
  <1> HIDE DEF g
  <1>7. /\ ReadersOK(readers') /\ readers' # <<>>
        /\ Cardinality(KeysOpen(readers')) = Cardinality(KeysOpen(readers))
    BY <1>2, <1>3, <1>5, <1>6, TopReplaced DEF Top
  <1>8. OutsOK(outs') /\ Len(outs') = Len(outs)
    BY <1>1, <1>3, Wrote, Tokens
  <1>9. QED
    BY <1>2, <1>3, <1>7, <1>8 DEF RenderInv

LEMMA CloseStep == ASSUME RenderInv, Close PROVE RenderInv'
  <1> DEFINE t == Symbol(IF Top.kind = "map" THEN "}" ELSE "]")
  <1>1. /\ renderer = "loop" /\ renderer' = "back" /\ outs' = Written(outs, <<t>>)
        /\ readers' = Front(readers)
    BY DEF Close
  <1> HIDE DEF t
  <1>2. Len(readers) > 1 /\ Top.key = FALSE
    BY <1>1 DEF RenderInv
  <1>3. /\ outs # <<>> /\ Len(outs) = Cardinality(KeysOpen(readers)) + 1
        /\ OutsOK(outs) /\ ReadersOK(readers)
    BY <1>1, Rendered
  <1>4. ReadersOK(readers') /\ readers' # <<>> /\ KeysOpen(readers') = KeysOpen(readers)
    BY <1>1, <1>2, <1>3, FramePopped DEF Top
  <1>5. OutsOK(outs') /\ Len(outs') = Len(outs)
    BY <1>1, <1>3, Wrote, Tokens
  <1>6. QED
    BY <1>1, <1>3, <1>4, <1>5 DEF RenderInv

LEMMA StringKeyStep == ASSUME RenderInv, StringKey PROVE RenderInv'
  <1>1. PICK r \in {Next(Source, Top.pos)} :
          ReadValue(After(Top, r), Written(outs, Comma(Top) \o <<StringOf(RenderUnits(r.el.data))>>))
    BY DEF StringKey
  <1>2. renderer = "loop" /\ Top.key = FALSE
    BY DEF StringKey, RenderInv
  <1>3. /\ readers # <<>> /\ outs # <<>> /\ Len(outs) = Cardinality(KeysOpen(readers)) + 1
        /\ OutsOK(outs) /\ ReadersOK(readers) /\ ReaderFrame(Top)
    BY <1>2, Rendered
  <1> DEFINE f == After(Top, r)
             o == Written(outs, Comma(Top) \o <<StringOf(RenderUnits(r.el.data))>>)
  <1>4. ReaderFrame(f)
    BY <1>3, ReaderRead
  <1>5. OutsOK(o) /\ o # <<>> /\ Len(o) = Len(outs)
    BY <1>3, Wrote, Tokens
  <1>6. ReadValue(f, o)
    BY <1>1
  <1> HIDE DEF f, o
  <1>7. QED
    BY <1>2, <1>3, <1>4, <1>5, <1>6, ReadValueStep

LEMMA OtherKeyStep == ASSUME RenderInv, OtherKey PROVE RenderInv'
  <1>1. PICK r \in {Next(Source, Top.pos)} :
          /\ outs' = Append(Written(outs, Comma(Top)), <<>>)
          /\ readers' = SetTop([After(Top, r) EXCEPT !.key = TRUE])
    BY DEF OtherKey
  <1>2. renderer = "loop" /\ renderer' = "render" /\ Top.key = FALSE
    BY DEF OtherKey, RenderInv
  <1>3. /\ readers # <<>> /\ outs # <<>> /\ Len(outs) = Cardinality(KeysOpen(readers)) + 1
        /\ OutsOK(outs) /\ ReadersOK(readers) /\ ReaderFrame(Top)
    BY <1>2, Rendered
  <1> DEFINE a == After(Top, r)
             g == [a EXCEPT !.key = TRUE]
             o == Written(outs, Comma(Top))
  <1>4. ReaderFrame(a)
    BY <1>3, ReaderRead
  <1>5. readers' = Front(readers) \o <<g>> /\ outs' = Append(o, <<>>)
    BY <1>1 DEF SetTop
  <1>6. OutsOK(o) /\ Len(o) = Len(outs)
    BY <1>3, Wrote, Tokens
  <1> HIDE DEF a
  <1>7. ReaderFrame(g) /\ g.key = TRUE
    BY <1>4, FrameKeeps
  <1> HIDE DEF g, o
  <1>8. /\ ReadersOK(readers') /\ readers' # <<>>
        /\ Cardinality(KeysOpen(readers')) = Cardinality(KeysOpen(readers)) + 1
    BY <1>2, <1>3, <1>5, <1>7, TopReplaced DEF Top
  <1>9. OutsOK(outs') /\ Len(outs') = Len(o) + 1
    <2>1. PICK S : o \in Seq(Seq(S))
      BY <1>6 DEF OutsOK
    <2> DEFINE T == Seq(S)
    <2>2. <<>> \in T
      BY EmptySeq
    <2>3. o \in Seq(T)
      BY <2>1
    <2> HIDE DEF T
    <2>4. Append(o, <<>>) \in Seq(T) /\ Len(Append(o, <<>>)) = Len(o) + 1
      BY <2>2, <2>3, AppendProperties
    <2>5. QED
      BY <1>5, <2>4 DEF OutsOK, T
  <1>10. QED
    BY <1>2, <1>3, <1>6, <1>8, <1>9 DEF RenderInv

LEMMA KeyRenderedStep == ASSUME RenderInv, KeyRendered PROVE RenderInv'
  <1> DEFINE t == StringOf(RenderUnits(Spelled(Last(outs))))
             o == Written(Front(outs), <<t>>)
  <1>1. renderer = "back" /\ Top.key /\ ReadValue(Top, o)
    BY DEF KeyRendered
  <1> HIDE DEF t
  <1>2. /\ readers # <<>> /\ outs # <<>> /\ Len(outs) = Cardinality(KeysOpen(readers)) + 1
        /\ OutsOK(outs) /\ ReadersOK(readers) /\ ReaderFrame(Top) /\ Top.key \in BOOLEAN
    BY <1>1, Rendered
  <1>3. Top.key = TRUE
    BY <1>1, <1>2
  <1>4. Cardinality(KeysOpen(readers)) > 0 /\ Cardinality(KeysOpen(readers)) \in Nat
    <2>1. ReaderFrame(ReaderOf("array")) /\ ReaderOf("array").key = FALSE
      BY NewReader
    <2>2. Cardinality(KeysOpen(readers)) > 0
      BY <1>2, <1>3, <2>1, TopReplaced DEF Top
    <2>3. QED
      BY <1>2, <2>2, OpenKeys
  <1>5. PICK S : outs \in Seq(Seq(S))
    BY <1>2 DEF OutsOK
  <1>6. Front(outs) \in Seq(Seq(S)) /\ Len(Front(outs)) = Len(outs) - 1 /\ Len(outs) \in Nat
    BY <1>2, <1>5, FrontOf
  <1>7. OutsOK(Front(outs)) /\ Front(outs) # <<>> /\ Len(Front(outs)) = Cardinality(KeysOpen(readers))
    <2>1. Len(Front(outs)) = Cardinality(KeysOpen(readers))
      BY <1>2, <1>4, <1>6
    <2>2. QED
      BY <1>4, <1>6, <2>1, EmptySeq DEF OutsOK
  <1>8. OutsOK(o) /\ o # <<>> /\ Len(o) = Cardinality(KeysOpen(readers))
    BY <1>7, Wrote, Tokens
  <1> HIDE DEF o
  <1>9. QED
    BY <1>1, <1>2, <1>3, <1>8, ReadValueStep

LEMMA RendererStep == ASSUME RenderInv, RenderStep PROVE RenderInv'
  BY PlainStep, ReadFirstStep, ContainerStep, ArrayTurn, CloseStep, StringKeyStep, OtherKeyStep,
     KeyRenderedStep DEF RenderStep

-----------------------------------------------------------------------------
(* The whole system.                                                       *)
MemoryInv == ParseInv /\ RenderInv

LEMMA JsonStarts == JsonInit => MemoryInv
  <1> SUFFICES ASSUME JsonInit PROVE MemoryInv
    OBVIOUS
  <1>1. ReadersOK(<<>>)
    <2> DEFINE F == {}
    <2>1. <<>> \in Seq(F) /\ \A f \in F : ReaderFrame(f)
      BY EmptySeq
    <2> HIDE DEF F
    <2>2. QED
      BY <2>1 DEF ReadersOK
  <1>2. RenderInv
    BY <1>1, OneOut DEF JsonInit, RenderIdle, RenderInv
  <1>3. IsText(text)
    <2>1. CASE text \in Texts
      BY <2>1, JsonAssumption DEF IsText
    <2>2. CASE text = <<>>
      <3> DEFINE S == {}
      <3>1. text \in Seq(S)
        BY <2>2, EmptySeq
      <3> HIDE DEF S
      <3>2. QED
        BY <3>1 DEF IsText
    <2>3. QED
      BY <2>1, <2>2 DEF JsonInit
  <1>4. /\ at = 0 /\ stack = <<>> /\ value = NoNode /\ misfreed = FALSE
        /\ \/ parser = "value" /\ live = {ROOT}
           \/ parser = "idle" /\ live = {}
    BY DEF JsonInit, ParseStart
  <1>5. at \in 0..Len(text) /\ Behind
    <2>1. Len(text) \in Nat
      BY <1>3, LenProperties DEF IsText
    <2>2. QED
      BY <1>4, <2>1 DEF Behind
  <1>6. StackOK(stack) /\ Holdings(stack) = <<>> /\ value.owns \in Seq(Blocks)
    BY <1>4, NoStack, SmallLists DEF NoNode
  <1>7. Pending = <<>> /\ Root \in Seq(Blocks) /\ Once(Root) /\ ToSet(Root) = live
    BY <1>4, SmallLists DEF Pending, Root
  <1>8. Owned
    <2>1. ThreeParts(<<>>, <<>>, Root, live)
      BY <1>7, SmallLists DEF ThreeParts, Apart
    <2>2. Lists(<<>> \o <<>> \o Root, live)
      BY <1>7, <2>1, SmallLists, ListsParts
    <2>3. QED
      BY <1>4, <1>6, <1>7, <2>2 DEF Owned
  <1>9. Activations
    <2>1. Waiting(<<>>)
      BY DEF Waiting
    <2>2. QED
      BY <1>4, <2>1 DEF Activations
  <1>10. QED
    BY <1>2, <1>3, <1>5, <1>6, <1>8, <1>9 DEF ParseInv, MemoryInv

LEMMA ReadBackStep == ASSUME MemoryInv, ReadBack PROVE MemoryInv'
  <1>1. /\ renderer = "rendered" /\ text' = outs[1] /\ at' = 0 /\ stack' = <<>> /\ parser' = "value"
        /\ live' = {ROOT} /\ outs' = <<>> /\ renderer' = "idle"
        /\ UNCHANGED <<value, misfreed, readers>>
    BY DEF ReadBack
  <1>2. RenderInv'
    BY <1>1, OneOut DEF MemoryInv, RenderInv
  <1>3. IsText(text')
    <2>1. PICK S : outs \in Seq(Seq(S)) /\ outs # <<>>
      BY <1>1 DEF MemoryInv, RenderInv, OutsOK
    <2>2. Len(outs) \in Nat \ {0}
      BY <2>1, LenProperties, EmptySeq
    <2>3. 1 \in 1..Len(outs)
      BY <2>2
    <2>4. outs[1] \in Seq(S)
      BY <2>1, <2>3, ElementOfSeq
    <2>5. QED
      BY <1>1, <2>4 DEF IsText
  <1>4. at' \in 0..Len(text') /\ Behind'
    <2>1. Len(text') \in Nat
      BY <1>3, LenProperties DEF IsText
    <2>2. QED
      BY <1>1, <2>1 DEF Behind
  <1>5. StackOK(stack') /\ Holdings(stack') = <<>> /\ value'.owns \in Seq(Blocks)
    BY <1>1, NoStack DEF MemoryInv, ParseInv
  <1>6. Owned'
    <2>1. Pending' = <<>> /\ Root' = <<ROOT>>
      BY <1>1 DEF Pending, Root
    <2>2. Once(<<ROOT>>) /\ ToSet(<<ROOT>>) = {ROOT} /\ <<ROOT>> \in Seq(Blocks)
      BY SmallLists
    <2>3. ThreeParts(<<>>, <<>>, <<ROOT>>, {ROOT})
      BY <2>2, SmallLists DEF ThreeParts, Apart
    <2>4. Lists(<<>> \o <<>> \o <<ROOT>>, {ROOT})
      BY <2>2, <2>3, SmallLists, ListsParts
    <2>5. ~misfreed
      BY DEF MemoryInv, ParseInv, Owned
    <2>6. QED
      BY <1>1, <1>5, <2>1, <2>4, <2>5 DEF Owned
  <1>7. Activations'
    <2>1. Waiting(<<>>)
      BY DEF Waiting
    <2>2. QED
      BY <1>1, <2>1 DEF Activations
  <1>8. QED
    BY <1>2, <1>3, <1>4, <1>5, <1>6, <1>7 DEF ParseInv, MemoryInv

LEMMA JsonStep == MemoryInv /\ [JsonNext]_vars => MemoryInv'
  <1> SUFFICES ASSUME MemoryInv, [JsonNext]_vars PROVE MemoryInv'
    OBVIOUS
  <1>1. ASSUME UNCHANGED parseVars PROVE ParseInv'
    BY <1>1 DEF MemoryInv, parseVars, ParseInv, Activations, Waiting, Inner, Behind, Owned, Pending, Root
  <1>2. ASSUME UNCHANGED <<readers, outs, renderer>> PROVE RenderInv'
    BY <1>2 DEF MemoryInv, RenderInv, Top
  <1>3. CASE Parsing
    <2>1. ParseStep /\ UNCHANGED <<readers, outs, renderer>>
      BY <1>3 DEF Parsing, renderVars
    <2>2. QED
      BY <1>2, <2>1, ParserStep DEF MemoryInv
  <1>4. CASE FromJson
    <2>1. UNCHANGED <<readers, outs, renderer>>
      BY <1>4 DEF FromJson
    <2>2. QED
      BY <1>2, <1>4, <2>1, FromJsonStep DEF MemoryInv
  <1>5. CASE Rendering
    <2>1. RenderStep /\ UNCHANGED parseVars
      BY <1>5 DEF Rendering
    <2>2. QED
      BY <1>1, <2>1, RendererStep DEF MemoryInv
  <1>6. CASE ReadBack
    BY <1>6, ReadBackStep
  <1>7. CASE Finished \/ UNCHANGED vars
    <2>1. UNCHANGED parseVars /\ UNCHANGED <<readers, outs, renderer>>
      BY <1>7 DEF Finished, vars, renderVars
    <2>2. QED
      BY <1>1, <1>2, <2>1 DEF MemoryInv
  <1>8. QED
    BY <1>3, <1>4, <1>5, <1>6, <1>7 DEF JsonNext

LEMMA OwnedOnce == ParseInv => EveryBlockOwned
  <1> SUFFICES ASSUME ParseInv PROVE EveryBlockOwned
    OBVIOUS
  <1> DEFINE held == Holdings(stack) \o Pending \o Root
  <1>1. Holdings(stack) \in Seq(Blocks) /\ Pending \in Seq(Blocks) /\ Root \in Seq(Blocks)
    BY Start
  <1>2. held \in Seq(Blocks)
    BY <1>1, ConcatProperties
  <1>3. ~misfreed /\ Once(held) /\ ToSet(held) = live
    BY DEF ParseInv, Owned, Lists
  <1> HIDE DEF held
  <1>4. Cardinality(ToSet(held)) = Len(held)
    BY <1>2, <1>3, OnceCounts
  <1>5. ~misfreed /\ live = ToSet(held) /\ Cardinality(live) = Len(held)
    BY <1>3, <1>4
  <1>6. QED
    BY <1>5, Zenon DEF EveryBlockOwned, held, Holdings, Pending, Root

(* struple_json.c, the fail labels of parse_array and parse_object: for    *)
(* every text, limit of nesting and rendering in between, a block that is  *)
(* allocated has exactly one owner, and nothing is freed twice or lost by  *)
(* a parse that fails.                                                     *)
THEOREM MemoryOwned == JsonSpec => []EveryBlockOwned
  <1>1. JsonInit => MemoryInv
    BY JsonStarts
  <1>2. MemoryInv /\ [JsonNext]_vars => MemoryInv'
    BY JsonStep
  <1>3. MemoryInv => EveryBlockOwned
    BY OwnedOnce DEF MemoryInv
  <1>4. QED
    BY <1>1, <1>2, <1>3, PTL DEF JsonSpec

-----------------------------------------------------------------------------
(* The limits.  The parser tests its own level before it goes down; the    *)
(* renderer tests the caller's, and the outermost reader is never in the   *)
(* middle of a key, so that there is at most one text per reader.          *)
Outermost == readers # <<>> => readers[1].key = FALSE

LimitInv == MemoryInv /\ Len(stack) <= MaxDepth /\ Outermost /\ InBounds

LEMMA Limit == MaxDepth \in Nat
  BY NotationAssumption

(* The texts of a call that goes on are one more than the keys in hand.    *)
LEMMA TextsBounded ==
    ASSUME NEW rs, ReadersOK(rs), rs # <<>>, rs[1].key = FALSE, Len(rs) <= MaxDepth + 2,
           NEW os, Len(os) = Cardinality(KeysOpen(rs)) + 1
    PROVE  Len(os) <= MaxDepth + 2
  <1> DEFINE K == KeysOpen(rs)
             n == Len(rs)
  <1>1. n \in Nat /\ Cardinality(K) \in Nat
    BY OpenKeys
  <1>2. \A i \in K : i \in 1..n /\ i # 1
    BY <1>1 DEF KeysOpen
  <1>3. n > 0
    BY <1>1, EmptySeq DEF ReadersOK
  <1> HIDE DEF K, n
  <1>4. K \subseteq 2..n
    BY <1>1, <1>2
  <1>5. IsFiniteSet(2..n) /\ Cardinality(2..n) = n - 1
    <2>1. n \in Nat /\ 2 \in Int /\ n \in Int /\ n >= 1
      BY <1>1, <1>3 DEF n
    <2>2. IsFiniteSet(2..n) /\ Cardinality(2..n) = IF 2 > n THEN 0 ELSE n - 2 + 1
      BY <2>1, FS_Interval
    <2>3. QED
      BY <2>1, <2>2
  <1>6. Cardinality(K) <= n - 1
    <2>1. Cardinality(K) <= Cardinality(2..n)
      BY <1>4, <1>5, FS_Subset
    <2>2. QED
      BY <1>5, <2>1
  <1>7. QED
    BY <1>1, <1>6, Limit DEF K, n

(* Replacing the innermost frame when it is not the outermost.             *)
LEMMA OuterKept ==
    ASSUME NEW rs, ReadersOK(rs), Len(rs) > 1
    PROVE  /\ Len(Front(rs)) = Len(rs) - 1 /\ Front(rs)[1] = rs[1]
           /\ \A g : Len(Front(rs) \o <<g>>) = Len(rs) /\ (Front(rs) \o <<g>>)[1] = rs[1]
  <1> SUFFICES ASSUME NEW g
               PROVE  /\ Len(Front(rs)) = Len(rs) - 1 /\ Front(rs)[1] = rs[1]
                      /\ Len(Front(rs) \o <<g>>) = Len(rs) /\ (Front(rs) \o <<g>>)[1] = rs[1]
    OBVIOUS
  <1>1. PICK G : rs \in Seq(G)
    BY DEF ReadersOK
  <1> DEFINE F == G \cup {g}
  <1>2. G \subseteq F /\ g \in F
    OBVIOUS
  <1> HIDE DEF F
  <1>3. rs \in Seq(F) /\ rs # <<>>
    BY <1>1, <1>2, SeqMonotonic, EmptySeq
  <1>4. /\ Front(rs) \in Seq(F) /\ Len(rs) \in Nat \ {0} /\ Len(Front(rs)) = Len(rs) - 1
        /\ \A i \in 1..(Len(rs) - 1) : Front(rs)[i] = rs[i]
    BY <1>3, FrontOf
  <1>5. 1 \in 1..(Len(rs) - 1) /\ 1 \in 1..Len(rs)
    BY <1>4
  <1>6. <<g>> \in Seq(F) /\ Len(<<g>>) = 1
    BY <1>2
  <1>7. /\ Len(Front(rs) \o <<g>>) = (Len(rs) - 1) + 1
        /\ (Front(rs) \o <<g>>)[1] = Front(rs)[1]
    BY <1>4, <1>5, <1>6, ConcatProperties
  <1>8. QED
    BY <1>4, <1>5, <1>7

(* A step of the renderer that writes, whatever it writes, adds at most a  *)
(* text for a key, and only then does the innermost frame expect its end.  *)
LEMMA ValueBounded ==
    ASSUME LimitInv, RenderInv', Len(readers) > 1,
           NEW f, ReaderFrame(f), NEW o, OutsOK(o), o # <<>>, Len(o) <= Len(outs),
           ReadValue(f, o)
    PROVE  Outermost' /\ Len(readers') <= MaxDepth + 2 /\ Len(outs') <= MaxDepth + 2
  <1>1. PICK r \in {Next(Source, f.pos)} :
          /\ outs' = Written(o, <<Symbol(":")>>)
          /\ \/ readers' = SetTop([After(f, r) EXCEPT !.key = FALSE, !.empty = FALSE])
             \/ readers' = readers
    BY DEF ReadValue
  <1> DEFINE g == [After(f, r) EXCEPT !.key = FALSE, !.empty = FALSE]
  <1>2. readers' = Front(readers) \o <<g>> \/ readers' = readers
    BY <1>1 DEF SetTop
  <1> HIDE DEF g
  <1>3. ReadersOK(readers) /\ OutsOK(outs)
    BY DEF LimitInv, MemoryInv, RenderInv
  <1>4. Len(readers') = Len(readers) /\ readers'[1] = readers[1]
    BY <1>2, <1>3, OuterKept
  <1>5. Len(readers) \in Nat /\ Len(outs) \in Nat /\ Len(o) \in Nat /\ Len(outs') = Len(o)
    <2>1. Len(outs') = Len(o) /\ Len(o) \in Nat
      BY <1>1, Wrote, Tokens
    <2>2. Len(outs) \in Nat
      BY <1>3, LenProperties DEF OutsOK
    <2>3. QED
      BY <1>3, <2>1, <2>2, OpenKeys
  <1>6. readers # <<>>
    BY EmptySeq
  <1>7. QED
    BY <1>4, <1>5, <1>6, Limit DEF LimitInv, InBounds, Outermost

LEMMA RenderBounded ==
    ASSUME LimitInv, RenderInv', RenderStep
    PROVE  Outermost' /\ Len(readers') <= MaxDepth + 2 /\ Len(outs') <= MaxDepth + 2
  <1>1. /\ RenderInv /\ Outermost /\ Len(readers) <= MaxDepth + 2 /\ Len(outs) <= MaxDepth + 2
        /\ ReadersOK(readers) /\ Len(readers) \in Nat /\ OutsOK(outs)
    BY Rendered DEF LimitInv, MemoryInv, InBounds
  <1>2. Len(<<>>) = 0 /\ \A x : Len(<<x>>) = 1 /\ <<x>>[1] = x
    OBVIOUS
  <1>3. MaxDepth \in Nat
    BY Limit
  <1>4. ASSUME UNCHANGED <<readers, outs>> PROVE Outermost' /\ Len(readers') <= MaxDepth + 2 /\ Len(outs') <= MaxDepth + 2
    BY <1>1, <1>4 DEF Outermost
  <1>5. CASE ReadFirst
    <2>1. PICK r \in {Next(buffer, 0)} :
            /\ readers' = IF r.rc = 1 THEN <<After(ReaderOf("root"), r)>> ELSE <<>>
            /\ outs' = IF r.rc = 0 THEN << <<Symbol("null")>> >> ELSE << <<>> >>
      BY <1>5 DEF ReadFirst
    <2> DEFINE g == After(ReaderOf("root"), r)
    <2>2. g.key = FALSE
      BY NewReader, ReaderRead
    <2>3. readers' = <<g>> \/ readers' = <<>>
      BY <2>1
    <2> HIDE DEF g
    <2>4. Len(outs') = 1
      BY <2>1, OneOut
    <2>5. CASE readers' = <<g>>
      <3>1. Len(readers') = 1 /\ readers'[1] = g
        BY <2>5
      <3>2. QED
        BY <1>3, <2>2, <2>4, <3>1 DEF Outermost
    <2>6. CASE readers' = <<>>
      BY <1>2, <1>3, <2>4, <2>6 DEF Outermost
    <2>7. QED
      BY <2>3, <2>5, <2>6
  <1>6. CASE ToJsonReturns
    <2>1. readers' = <<>> /\ outs' = outs
      BY <1>6 DEF ToJsonReturns
    <2>2. QED
      BY <1>1, <1>2, <1>3, <2>1 DEF Outermost
  <1>7. CASE Abort
    <2>1. readers' = <<>> /\ outs' = <<outs[1]>>
      BY <1>7 DEF Abort
    <2>2. Len(outs') = 1
      BY <1>2, <2>1
    <2>3. QED
      BY <1>2, <1>3, <2>1, <2>2 DEF Outermost
  <1>8. CASE RenderTooDeep \/ MalformedInside \/ ReadOn
    BY <1>4, <1>8 DEF RenderTooDeep, MalformedInside, ReadOn
  <1>9. ASSUME renderer' \in {"render", "loop", "back"}, Len(readers') <= MaxDepth + 2, Outermost'
        PROVE  Outermost' /\ Len(readers') <= MaxDepth + 2 /\ Len(outs') <= MaxDepth + 2
    <2>1. /\ ReadersOK(readers') /\ readers' # <<>>
          /\ Len(outs') = Cardinality(KeysOpen(readers')) + 1
      BY <1>9 DEF RenderInv
    <2>2. readers'[1].key = FALSE
      BY <1>9, <2>1 DEF Outermost
    <2>3. QED
      BY <1>9, <2>1, <2>2, TextsBounded
  <1>10. CASE RenderScalar
    <2>1. readers' = readers /\ renderer' = "back"
      BY <1>10 DEF RenderScalar
    <2>2. QED
      BY <1>1, <1>9, <2>1 DEF Outermost
  <1>11. CASE RenderContainer
    <2> DEFINE g == ReaderOf(IF element.kind = "map" THEN "map" ELSE "array")
    <2>1. /\ renderer = "render" /\ readers' = Append(readers, g) /\ renderer' = "loop"
          /\ Len(readers) - 1 <= MaxDepth
      BY <1>11 DEF RenderContainer, Nested
    <2>2. ReaderFrame(g) /\ g.key = FALSE
      BY NewReader
    <2> HIDE DEF g
    <2>3. readers # <<>> /\ Len(readers') = Len(readers) + 1
      BY <1>1, <2>1, <2>2, Rendered, FramePushed
    <2>4. Len(readers') <= MaxDepth + 2
      BY <1>1, <1>3, <2>1, <2>3
    <2>5. readers'[1] = readers[1]
      <3>1. PICK F : readers \in Seq(F)
        BY <1>1 DEF ReadersOK
      <3>2. 1 \in 1..Len(readers)
        BY <1>1, <2>3, <3>1, EmptySeq
      <3> DEFINE G == F \cup {g}
      <3>3. F \subseteq G /\ g \in G
        OBVIOUS
      <3> HIDE DEF G
      <3>4. readers \in Seq(G)
        BY <3>1, <3>3, SeqMonotonic
      <3>5. QED
        BY <2>1, <3>2, <3>3, <3>4, AppendProperties
    <2>6. QED
      BY <1>1, <1>9, <2>1, <2>3, <2>4, <2>5 DEF Outermost
  <1>12. CASE ArrayElement \/ OtherKey
    <2>1. /\ renderer = "loop" /\ renderer' = "render"
          /\ \E g : readers' = Front(readers) \o <<g>>
      BY <1>12 DEF ArrayElement, OtherKey, SetTop
    <2>2. Len(readers) > 1
      BY <1>1, <2>1 DEF RenderInv
    <2>3. Len(readers') = Len(readers) /\ readers'[1] = readers[1] /\ readers # <<>>
      BY <1>1, <2>1, <2>2, OuterKept, EmptySeq
    <2>4. QED
      BY <1>1, <1>9, <2>1, <2>3 DEF Outermost
  <1>13. CASE Close
    <2>1. renderer = "loop" /\ renderer' = "back" /\ readers' = Front(readers)
      BY <1>13 DEF Close
    <2>2. Len(readers) > 1
      BY <1>1, <2>1 DEF RenderInv
    <2>3. Len(readers') = Len(readers) - 1 /\ readers'[1] = readers[1] /\ readers # <<>>
      BY <1>1, <2>1, <2>2, OuterKept, EmptySeq
    <2>4. Len(readers') <= MaxDepth + 2
      BY <1>1, <1>3, <2>3
    <2>5. QED
      BY <1>1, <1>9, <2>1, <2>3, <2>4 DEF Outermost
  <1>14. CASE StringKey
    <2>1. PICK r \in {Next(Source, Top.pos)} :
            ReadValue(After(Top, r), Written(outs, Comma(Top) \o <<StringOf(RenderUnits(r.el.data))>>))
      BY <1>14 DEF StringKey
    <2>2. renderer = "loop" /\ Len(readers) > 1
      BY <1>1, <1>14 DEF StringKey, RenderInv
    <2> DEFINE f == After(Top, r)
               o == Written(outs, Comma(Top) \o <<StringOf(RenderUnits(r.el.data))>>)
    <2>3. ReaderFrame(f)
      BY <1>1, <2>2, Rendered, ReaderRead
    <2>4. OutsOK(o) /\ o # <<>> /\ Len(o) = Len(outs) /\ Len(outs) \in Nat
      BY <1>1, <2>2, Rendered, Wrote, Tokens
    <2>5. ReadValue(f, o)
      BY <2>1
    <2> HIDE DEF f, o
    <2>6. Len(o) <= Len(outs)
      BY <2>4
    <2>7. QED
      BY <2>2, <2>3, <2>4, <2>5, <2>6, ValueBounded
  <1>15. CASE KeyRendered
    <2> DEFINE t == StringOf(RenderUnits(Spelled(Last(outs))))
               o == Written(Front(outs), <<t>>)
    <2>1. renderer = "back" /\ Len(readers) > 1 /\ Top.key /\ ReadValue(Top, o)
      BY <1>15 DEF KeyRendered
    <2> HIDE DEF t
    <2>2. /\ readers # <<>> /\ outs # <<>> /\ ReaderFrame(Top) /\ Top.key = TRUE
          /\ Len(outs) = Cardinality(KeysOpen(readers)) + 1 /\ Cardinality(KeysOpen(readers)) \in Nat
      BY <1>1, <2>1, Rendered
    <2>3. PICK S : outs \in Seq(Seq(S))
      BY <1>1 DEF OutsOK
    <2>4. Front(outs) \in Seq(Seq(S)) /\ Len(Front(outs)) = Len(outs) - 1 /\ Len(outs) \in Nat
      BY <2>2, <2>3, FrontOf
    <2>5. Cardinality(KeysOpen(readers)) > 0
      <3>1. ReaderFrame(ReaderOf("array")) /\ ReaderOf("array").key = FALSE
        BY NewReader
      <3>2. QED
        BY <1>1, <2>2, <3>1, TopReplaced DEF Top
    <2>6. OutsOK(Front(outs)) /\ Front(outs) # <<>>
      BY <2>2, <2>4, <2>5, EmptySeq DEF OutsOK
    <2>7. OutsOK(o) /\ o # <<>> /\ Len(o) = Len(outs) - 1
      BY <2>4, <2>6, Wrote, Tokens
    <2> HIDE DEF o
    <2>8. Len(o) <= Len(outs)
      BY <2>4, <2>7
    <2>9. QED
      BY <2>1, <2>2, <2>7, <2>8, ValueBounded
  <1>16. QED
    BY <1>5, <1>6, <1>7, <1>8, <1>10, <1>11, <1>12, <1>13, <1>14, <1>15 DEF RenderStep

LEMMA ParseBounded ==
    ASSUME ParseInv, ParseInv', ParseStep, Len(stack) <= MaxDepth
    PROVE  Len(stack') <= MaxDepth
  <1>1. MaxDepth \in Nat /\ Len(stack) \in Nat /\ StackOK(stack)
    BY Limit, HoldingsType DEF ParseInv
  <1>2. PICK F : stack \in Seq(F)
    BY <1>1 DEF StackOK
  <1>3. ASSUME NEW g PROVE Len(Append(stack, g)) = Len(stack) + 1
    <2> DEFINE G == F \cup {g}
    <2>1. F \subseteq G /\ g \in G
      OBVIOUS
    <2> HIDE DEF G
    <2>2. stack \in Seq(G)
      BY <1>2, <2>1, SeqMonotonic
    <2>3. QED
      BY <2>1, <2>2, AppendProperties
  <1>4. ASSUME stack # <<>>
        PROVE  Len(Front(stack)) = Len(stack) - 1 /\ \A g : Len(Append(Front(stack), g)) = Len(stack)
    <2>1. Front(stack) \in Seq(F) /\ Len(Front(stack)) = Len(stack) - 1
      BY <1>2, <1>4, FrontOf
    <2>2. ASSUME NEW g PROVE Len(Append(Front(stack), g)) = Len(stack)
      <3> DEFINE G == F \cup {g}
      <3>1. F \subseteq G /\ g \in G
        OBVIOUS
      <3> HIDE DEF G
      <3>2. Front(stack) \in Seq(G)
        BY <2>1, <3>1, SeqMonotonic
      <3>3. Len(Append(Front(stack), g)) = Len(Front(stack)) + 1
        BY <3>1, <3>2, AppendProperties
      <3>4. QED
        BY <1>1, <2>1, <3>3
    <2>3. QED
      BY <2>1, <2>2
  <1>5. ASSUME UNCHANGED stack PROVE Len(stack') <= MaxDepth
    BY <1>5
  <1>6. CASE ParseLiteral \/ ParseString \/ ParseNumber \/ ParseNothing \/ NoKey \/ ParseReturns \/ ParseFails
    BY <1>5, <1>6, Zenon DEF ParseLiteral, ParseString, ParseNumber, ParseNothing, NoKey, ParseReturns, ParseFails
  <1>7. CASE OpenArray
    <2>1. \/ UNCHANGED stack
          \/ ~(Len(stack) + 1 > MaxDepth) /\ \E g : stack' = Append(stack, g)
      BY <1>7, Zenon DEF OpenArray, BeginArray
    <2>2. QED
      BY <1>1, <1>3, <1>5, <2>1
  <1>8. CASE OpenObject
    <2>1. \/ UNCHANGED stack
          \/ ~(Len(stack) + 1 > MaxDepth) /\ \E g : stack' = Append(stack, g)
      BY <1>8, Zenon DEF OpenObject
    <2>2. QED
      BY <1>1, <1>3, <1>5, <2>1
  <1>9. CASE ParseKey
    <2>1. \E arrays, k : stack' = [stack EXCEPT ![Len(stack)].owns = arrays, ![Len(stack)].key = k]
      BY <1>9 DEF ParseKey
    <2>2. DOMAIN stack' = DOMAIN stack
      BY <2>1
    <2>3. /\ Len(stack) \in Nat /\ DOMAIN stack = 1..Len(stack)
          /\ Len(stack') \in Nat /\ DOMAIN stack' = 1..Len(stack')
      <3>1. PICK G : stack' \in Seq(G)
        BY DEF ParseInv, StackOK
      <3>2. QED
        BY <1>2, <3>1, LenProperties
    <2> DEFINE m == Len(stack)
               n == Len(stack')
    <2>4. m \in Nat /\ n \in Nat /\ 1..n = 1..m
      BY <2>2, <2>3
    <2> HIDE DEF m, n
    <2>5. n <= m
      BY <2>4
    <2>6. QED
      BY <1>1, <2>4, <2>5 DEF m, n
  <1>10. CASE GotElement
    <2>1. stack # <<>> /\ (stack' = Front(stack) \/ \E f : stack' = Append(Front(stack), f))
      BY <1>10 DEF GotElement
    <2>2. QED
      BY <1>1, <1>4, <2>1
  <1>11. CASE Unwind
    <2>1. stack # <<>> /\ stack' = Front(stack)
      BY <1>11 DEF Unwind
    <2>2. QED
      BY <1>1, <1>4, <2>1
  <1>12. QED
    BY <1>6, <1>7, <1>8, <1>9, <1>10, <1>11 DEF ParseStep

LEMMA LimitStep == LimitInv /\ [JsonNext]_vars => LimitInv'
  <1> SUFFICES ASSUME LimitInv, [JsonNext]_vars PROVE LimitInv'
    OBVIOUS
  <1>1. MemoryInv'
    BY JsonStep DEF LimitInv
  <1>2. at' \in 0..Len(text')
    BY <1>1 DEF MemoryInv, ParseInv
  <1>3. MaxDepth \in Nat /\ Len(stack) \in Nat /\ Len(stack) <= MaxDepth
    BY Limit, HoldingsType DEF LimitInv, MemoryInv, ParseInv
  <1>4. /\ UNCHANGED stack => Len(stack') <= MaxDepth
        /\ UNCHANGED <<readers, outs>> =>
              Outermost' /\ Len(readers') <= MaxDepth + 2 /\ Len(outs') <= MaxDepth + 2
    BY <1>3 DEF LimitInv, InBounds, Outermost
  <1>5. CASE Parsing
    <2>1. ParseStep /\ UNCHANGED <<readers, outs>>
      BY <1>5 DEF Parsing, renderVars
    <2>2. Len(stack') <= MaxDepth
      BY <1>1, <1>3, <2>1, ParseBounded DEF LimitInv, MemoryInv
    <2>3. QED
      BY <1>1, <1>2, <1>4, <2>1, <2>2 DEF LimitInv, InBounds
  <1>6. CASE FromJson \/ Finished \/ UNCHANGED vars
    <2>1. UNCHANGED <<stack, readers, outs>>
      BY <1>6 DEF FromJson, Finished, vars, parseVars, renderVars
    <2>2. QED
      BY <1>1, <1>2, <1>4, <2>1 DEF LimitInv, InBounds
  <1>7. CASE Rendering
    <2>1. RenderStep /\ UNCHANGED stack
      BY <1>7 DEF Rendering, parseVars
    <2>2. Outermost' /\ Len(readers') <= MaxDepth + 2 /\ Len(outs') <= MaxDepth + 2
      BY <1>1, <2>1, RenderBounded DEF MemoryInv
    <2>3. QED
      BY <1>1, <1>2, <1>4, <2>1, <2>2 DEF LimitInv, InBounds
  <1>8. CASE ReadBack
    <2>1. stack' = <<>> /\ outs' = <<>> /\ readers' = readers /\ Len(<<>>) = 0
      BY <1>8 DEF ReadBack
    <2>2. Len(stack') <= MaxDepth /\ Len(outs') <= MaxDepth + 2
      BY <1>3, <2>1
    <2>3. Outermost' /\ Len(readers') <= MaxDepth + 2
      BY <2>1 DEF LimitInv, InBounds, Outermost
    <2>4. QED
      BY <1>1, <1>2, <2>2, <2>3 DEF LimitInv, InBounds
  <1>9. QED
    BY <1>5, <1>6, <1>7, <1>8 DEF JsonNext

(* struple_json.c, the depth tests of parse_array, parse_object and        *)
(* render: for every text, every bytes and every limit, the C stack and    *)
(* the temporary texts stay within the limit, and the cursor within the    *)
(* text.                                                                   *)
THEOREM NestingBounded == JsonSpec => []InBounds
  <1>1. JsonInit => LimitInv
    <2> SUFFICES ASSUME JsonInit PROVE LimitInv
      OBVIOUS
    <2>1. MemoryInv
      BY JsonStarts
    <2>2. at \in 0..Len(text)
      BY <2>1 DEF MemoryInv, ParseInv
    <2>3. stack = <<>> /\ readers = <<>> /\ outs = <<>> /\ Len(<<>>) = 0
      BY DEF JsonInit, ParseStart, RenderIdle
    <2>4. QED
      BY <2>1, <2>2, <2>3, Limit DEF LimitInv, InBounds, Outermost
  <1>2. LimitInv /\ [JsonNext]_vars => LimitInv'
    BY LimitStep
  <1>3. LimitInv => InBounds
    BY DEF LimitInv
  <1>4. QED
    BY <1>1, <1>2, <1>3, PTL DEF JsonSpec
=============================================================================
