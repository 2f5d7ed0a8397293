----------------------- MODULE StrupleTranscodeProofs ------------------------
(***************************************************************************)
(* struple_transcode, for every input: what it keeps true of the reader it *)
(* drives and of the bytes it has written, that a second call copies what  *)
(* the first one wrote, and that no value is lost on the way.              *)
(***************************************************************************)
EXTENDS StrupleTranscode, StrupleCodecProofs

(* A decoding step of a typed state, whatever it returns.                  *)
LEMMA StepTyped ==
    ASSUME NEW b \in Seq(Byte), NEW p \in 0..Len(b)
    PROVE  /\ Next(b, p).pos \in p..Len(b) /\ Next(b, p).rc \in {-1, 0, 1}
           /\ Next(b, p).rc = 1 => /\ Next(b, p).pos \in (p + 1)..Len(b)
                                   /\ EncElement(Next(b, p).el) \in Seq(Byte)
  <1>1. Len(b) \in Nat
    BY LenProperties
  <1>2. /\ p = Len(b) => Next(b, p).pos = p /\ Next(b, p).rc = 0
        /\ p # Len(b) => Next(b, p).pos \in (p + 1)..Len(b) /\ Next(b, p).rc \in {-1, 1}
    BY NextAdvances DEF Advances
  <1>3. Next(b, p).rc = 1 => EncElement(Next(b, p).el) \in Seq(Byte)
    BY NextEncodable, EncElementBytes
  <1>4. QED
    BY <1>1, <1>2, <1>3

LEMMA InitTyped == Init => TypeOK
  <1> SUFFICES ASSUME Init PROVE TypeOK
    OBVIOUS
  <1>1. buf \in Seq(Byte) /\ pos = 0 /\ out = <<>> /\ pc = "loop" /\ rc = 0 /\ pass = 1 /\ narrowed = FALSE
    BY BufferAssumption DEF Init
  <1>2. out \in Seq(Byte)
    BY <1>1
  <1>3. pos \in 0..Len(buf)
    BY <1>1, LenProperties
  <1>4. QED
    BY <1>1, <1>2, <1>3 DEF TypeOK

LEMMA ElementTyped == TypeOK /\ Element => TypeOK'
  <1> SUFFICES ASSUME TypeOK, Element PROVE TypeOK'
    OBVIOUS
  <1> DEFINE r == Next(buf, pos)
  <1>1. /\ buf \in Seq(Byte) /\ pos \in 0..Len(buf) /\ out \in Seq(Byte)
        /\ pc \in {"loop", "done"} /\ rc \in {-1, 0} /\ pass \in {1, 2} /\ narrowed \in BOOLEAN
    BY DEF TypeOK
  <1>2. /\ r.rc = 1 /\ out' = out \o EncElement(r.el) /\ pos' = r.pos
        /\ narrowed' = (narrowed \/ (r.el.kind = "decimal" /\ ~InExpRange(r.el.exp)))
        /\ buf' = buf /\ pc' = pc /\ rc' = rc /\ pass' = pass
    BY Zenon DEF Element
  <1>3. r.pos \in (pos + 1)..Len(buf) /\ EncElement(r.el) \in Seq(Byte)
    BY <1>1, <1>2, StepTyped
  <1>4. Len(buf) \in Nat
    BY <1>1, LenProperties
  <1>5. narrowed' \in BOOLEAN
    BY <1>2
  <1> HIDE DEF r
  <1>6. out' \in Seq(Byte)
    BY <1>1, <1>2, <1>3, ConcatProperties
  <1>7. pos' \in 0..Len(buf')
    BY <1>1, <1>2, <1>3, <1>4
  <1>8. QED
    BY <1>1, <1>2, <1>5, <1>6, <1>7 DEF TypeOK

LEMMA ReturnTyped == TypeOK /\ Return => TypeOK'
  <1> SUFFICES ASSUME TypeOK, Return PROVE TypeOK'
    OBVIOUS
  <1> DEFINE r == Next(buf, pos)
  <1>1. /\ buf \in Seq(Byte) /\ pos \in 0..Len(buf) /\ out \in Seq(Byte)
        /\ pc \in {"loop", "done"} /\ rc \in {-1, 0} /\ pass \in {1, 2} /\ narrowed \in BOOLEAN
    BY DEF TypeOK
  <1>2. /\ r.rc # 1 /\ rc' = r.rc /\ pos' = r.pos /\ pc' = "done"
        /\ buf' = buf /\ out' = out /\ pass' = pass /\ narrowed' = narrowed
    BY Zenon DEF Return
  <1>3. r.pos \in pos..Len(buf) /\ r.rc \in {-1, 0, 1}
    BY <1>1, StepTyped
  <1>4. Len(buf) \in Nat
    BY <1>1, LenProperties
  <1> HIDE DEF r
  <1>5. QED
    BY <1>1, <1>2, <1>3, <1>4 DEF TypeOK

LEMMA AgainTyped == TypeOK /\ Again => TypeOK'
  <1> SUFFICES ASSUME TypeOK, Again PROVE TypeOK'
    OBVIOUS
  <1>1. /\ buf' = out /\ pos' = 0 /\ out' = <<>> /\ pc' = "loop" /\ pass' = 2
        /\ rc' = rc /\ narrowed' = narrowed
    BY DEF Again
  <1>2. out \in Seq(Byte) /\ rc \in {-1, 0} /\ narrowed \in BOOLEAN
    BY DEF TypeOK
  <1>3. out' \in Seq(Byte)
    BY <1>1
  <1>4. pos' \in 0..Len(buf')
    BY <1>1, <1>2, LenProperties
  <1>5. QED
    BY <1>1, <1>2, <1>3, <1>4 DEF TypeOK

(* However often the loop turns and whatever bytes it is fed, the reader   *)
(* stays inside its input and every element struple_transcode passes to    *)
(* append_element is one it can encode: only bytes are written.            *)
THEOREM TranscodeTyped == Spec => []TypeOK
  <1>1. Init => TypeOK
    BY InitTyped
  <1>2. TypeOK /\ [TranscodeNext]_vars => TypeOK'
    <2> SUFFICES ASSUME TypeOK, [TranscodeNext]_vars PROVE TypeOK'
      OBVIOUS
    <2>1. CASE Element
      BY <2>1, ElementTyped
    <2>2. CASE Return
      BY <2>2, ReturnTyped
    <2>3. CASE Again
      BY <2>3, AgainTyped
    <2>4. CASE UNCHANGED vars
      BY <2>4 DEF TypeOK, vars
    <2>5. QED
      BY <2>1, <2>2, <2>3, <2>4 DEF TranscodeNext
  <1>3. QED
    BY <1>1, <1>2, PTL DEF Spec

-----------------------------------------------------------------------------
(* Why a second call copies its input: what the first one has written is   *)
(* a concatenation of strings that next() reads and append_element writes  *)
(* back, so that the second always has such strings ahead of it and what   *)
(* it has written behind it.                                               *)
FirstCall  == pass = 1 => out \in Canonicals
SecondCall ==
    pass = 2 => \E rest \in Canonicals : /\ buf = out \o rest
                                         /\ pos = Len(out)
                                         /\ pc = "done" => rc = 0

Copying == TypeOK /\ FirstCall /\ SecondCall

LEMMA InitCopying == Init => Copying
  <1> SUFFICES ASSUME Init PROVE Copying
    OBVIOUS
  <1>1. out = <<>> /\ pass = 1 /\ TypeOK
    BY InitTyped DEF Init
  <1>2. QED
    BY <1>1, CanonicalAppend DEF Copying, FirstCall, SecondCall

LEMMA ElementCopying == Copying /\ Element => Copying'
  <1> SUFFICES ASSUME Copying, Element PROVE Copying'
    OBVIOUS
  <1> DEFINE r == Next(buf, pos)
             w == EncElement(r.el)
  <1>1. TypeOK /\ TypeOK'
    BY ElementTyped DEF Copying
  <1>2. buf \in Seq(Byte) /\ pos \in 0..Len(buf) /\ out \in Seq(Byte) /\ pass \in {1, 2}
    BY <1>1 DEF TypeOK
  <1>3. /\ r.rc = 1 /\ out' = out \o w /\ pos' = r.pos
        /\ buf' = buf /\ pc' = pc /\ rc' = rc /\ pass' = pass /\ pc = "loop"
    BY Zenon DEF Element
  <1>4. r.pos \in (pos + 1)..Len(buf) /\ w \in Seq(Byte)
    BY <1>2, <1>3, StepTyped
  <1>5. w = <<>> \/ Stable(w)
    BY <1>2, <1>3, NextStable
  <1> HIDE DEF r, w
  <1>6. CASE pass = 1
    <2>1. out \in Canonicals
      BY <1>6 DEF Copying, FirstCall
    <2>2. out' \in Canonicals
      <3>1. CASE w = <<>>
        <4>1. out \o <<>> = out
          BY <1>2, ConcatEmptySeq
        <4>2. QED
          BY <1>3, <2>1, <3>1, <4>1
      <3>2. CASE Stable(w)
        <4>1. w \in StableStrings
          BY <1>4, <3>2 DEF StableStrings
        <4>2. QED
          BY <1>3, <2>1, <4>1, CanonicalAppend
      <3>3. QED
        BY <1>5, <3>1, <3>2
    <2>3. pass' = 1
      BY <1>3, <1>6
    <2>4. QED
      BY <1>1, <2>2, <2>3 DEF Copying, FirstCall, SecondCall
  <1>7. CASE pass = 2
    <2>1. PICK rest \in Canonicals : buf = out \o rest /\ pos = Len(out)
      BY <1>7 DEF Copying, SecondCall
    <2>2. rest \in Seq(Byte)
      BY CanonicalAppend
    <2>3. rest # <<>>
      <3>1. CASE rest = <<>>
        <4>1. buf = out
          BY <1>2, <2>1, <3>1, ConcatEmptySeq
        <4>2. Len(buf) \in Nat /\ pos = Len(buf)
          BY <1>2, <2>1, <4>1, LenProperties
        <4>3. QED
          BY <1>4, <4>2
      <3>2. QED
        BY <3>1
    <2>4. PICK s \in StableStrings : \E d \in Canonicals :
                /\ out \o rest = (out \o s) \o d
                /\ Next(out \o rest, Len(out)).rc = 1
                /\ Next(out \o rest, Len(out)).pos = Len(out \o s)
                /\ EncElement(Next(out \o rest, Len(out)).el) = s
      BY <1>2, <2>3, CanonicalNext
    <2>5. PICK d \in Canonicals :
                /\ out \o rest = (out \o s) \o d
                /\ Next(out \o rest, Len(out)).rc = 1
                /\ Next(out \o rest, Len(out)).pos = Len(out \o s)
                /\ EncElement(Next(out \o rest, Len(out)).el) = s
      BY <2>4
    <2>6. w = s /\ r.pos = Len(out \o s) /\ buf = (out \o s) \o d
      BY <2>1, <2>5 DEF r, w
    <2>7. buf' = out' \o d /\ pos' = Len(out') /\ pc' # "done" /\ pass' = 2
      BY <1>3, <1>7, <2>6
    <2>8. QED
      BY <1>1, <2>7 DEF Copying, FirstCall, SecondCall
  <1>8. QED
    BY <1>2, <1>6, <1>7

LEMMA ReturnCopying == Copying /\ Return => Copying'
  <1> SUFFICES ASSUME Copying, Return PROVE Copying'
    OBVIOUS
  <1> DEFINE r == Next(buf, pos)
  <1>1. TypeOK /\ TypeOK'
    BY ReturnTyped DEF Copying
  <1>2. buf \in Seq(Byte) /\ pos \in 0..Len(buf) /\ out \in Seq(Byte) /\ pass \in {1, 2}
    BY <1>1 DEF TypeOK
  <1>3. /\ r.rc # 1 /\ rc' = r.rc /\ pos' = r.pos
        /\ buf' = buf /\ out' = out /\ pass' = pass
    BY Zenon DEF Return
  <1>4. CASE pass = 1
    BY <1>1, <1>3, <1>4 DEF Copying, FirstCall, SecondCall
  <1>5. CASE pass = 2
    <2>1. PICK rest \in Canonicals : buf = out \o rest /\ pos = Len(out)
      BY <1>5 DEF Copying, SecondCall
    <2>2. rest = <<>>
      <3>1. ASSUME rest # <<>>
            PROVE  Next(out \o rest, Len(out)).rc = 1
        BY <1>2, <3>1, CanonicalNext
      <3>2. QED
        BY <1>3, <2>1, <3>1
    <2>3. buf = out /\ Len(buf) \in Nat
      BY <1>2, <2>1, <2>2, ConcatEmptySeq, LenProperties
    <2>4. r.rc = 0 /\ r.pos = pos
      <3>1. pos >= Len(buf)
        BY <2>1, <2>3
      <3>2. QED
        BY <3>1 DEF Next
    <2> HIDE DEF r
    <2>5. rc' = 0 /\ pos' = Len(out') /\ buf' = out' \o rest /\ pass' = 2
      BY <1>3, <1>5, <2>1, <2>4
    <2>6. QED
      BY <1>1, <2>5 DEF Copying, FirstCall, SecondCall
  <1>6. QED
    BY <1>2, <1>4, <1>5

LEMMA AgainCopying == Copying /\ Again => Copying'
  <1> SUFFICES ASSUME Copying, Again PROVE Copying'
    OBVIOUS
  <1>1. TypeOK' /\ out \in Seq(Byte)
    BY AgainTyped DEF Copying, TypeOK
  <1>2. pass = 1 /\ buf' = out /\ pos' = 0 /\ out' = <<>> /\ pc' = "loop" /\ pass' = 2
    BY DEF Again
  <1>3. out \in Canonicals
    BY <1>2 DEF Copying, FirstCall
  <1>4. buf' = out' \o out /\ pos' = Len(out') /\ pc' # "done"
    <2>1. <<>> \o out = out /\ Len(<<>>) = 0
      BY <1>1, ConcatEmptySeq, EmptySeq
    <2>2. QED
      BY <1>2, <2>1
  <1>5. QED
    BY <1>1, <1>2, <1>3, <1>4 DEF Copying, FirstCall, SecondCall

LEMMA CopyingIdempotent == Copying => Idempotent
  <1> SUFFICES ASSUME Copying, pass = 2
               PROVE  SubSeq(buf, 1, pos) = out /\ (pc = "done" => rc = 0)
    BY DEF Idempotent
  <1>1. PICK rest \in Canonicals : buf = out \o rest /\ pos = Len(out) /\ (pc = "done" => rc = 0)
    BY DEF Copying, SecondCall
  <1>2. out \in Seq(Byte) /\ rest \in Seq(Byte) /\ buf \in Seq(Byte)
    BY CanonicalAppend DEF Copying, TypeOK
  <1> DEFINE w == SubSeq(buf, 1, pos)
             n == Len(rest)
  <1>3. pos \in Nat /\ n \in Nat
    BY <1>1, <1>2, LenProperties
  <1>4. Len(buf) = pos + n /\ \A i \in 1..(pos + n) : buf[i] = IF i <= pos THEN out[i] ELSE rest[i - pos]
    BY <1>1, <1>2, ConcatProperties
  <1> HIDE DEF n
  <1>5. \A i \in 1..pos : buf[i] \in Byte /\ buf[i] = out[i]
    <2>1. \A i \in 1..pos : i \in 1..(pos + n) /\ i <= pos
      BY <1>3
    <2>2. \A i \in 1..pos : buf[i] = out[i] /\ out[i] \in Byte
      BY <1>1, <1>2, <1>4, <2>1, ElementOfSeq
    <2>3. QED
      BY <2>2
  <1>6. /\ w \in Seq(Byte)
        /\ Len(w) = IF 1 <= pos THEN pos - 1 + 1 ELSE 0
        /\ \A i \in 1..(pos - 1 + 1) : w[i] = buf[1 + i - 1]
    BY <1>3, <1>5, SubSeqProperties
  <1> HIDE DEF w
  <1>7. Len(w) = Len(out) /\ \A i \in 1..Len(w) : w[i] = out[i]
    BY <1>1, <1>3, <1>5, <1>6
  <1>8. w = out
    BY <1>2, <1>6, <1>7, SeqEqual
  <1>9. QED
    BY <1>1, <1>8 DEF w

(* One call makes any input canonical: whatever bytes a first call         *)
(* accepted, however little canonical, a second call on its output accepts *)
(* all of it and at every moment has copied exactly what it has read.      *)
THEOREM TranscodeIdempotent == Spec => []Idempotent
  <1>1. Init => Copying
    BY InitCopying
  <1>2. Copying /\ [TranscodeNext]_vars => Copying'
    <2> SUFFICES ASSUME Copying, [TranscodeNext]_vars PROVE Copying'
      OBVIOUS
    <2>1. CASE Element
      BY <2>1, ElementCopying
    <2>2. CASE Return
      BY <2>2, ReturnCopying
    <2>3. CASE Again
      BY <2>3, AgainCopying
    <2>4. CASE UNCHANGED vars
      BY <2>4 DEF Copying, TypeOK, FirstCall, SecondCall, vars
    <2>5. QED
      BY <2>1, <2>2, <2>3, <2>4 DEF TranscodeNext
  <1>3. Copying => Idempotent
    BY CopyingIdempotent
  <1>4. QED
    BY <1>1, <1>2, <1>3, PTL DEF Spec

-----------------------------------------------------------------------------
(* Whatever a buffer holds, it unpacks to a sequence.                      *)
LEMMA UnpackIsSeq == \A b \in Seq(Byte) : \E V : Unpack[b] \in Seq(V)
  <1> DEFINE S == {k \in Nat : \A b \in Seq(Byte) : Len(b) <= k => \E V : Unpack[b] \in Seq(V)}
  <1>1. ASSUME NEW b \in Seq(Byte), \A c \in Seq(Byte) : Len(c) < Len(b) => \E V : Unpack[c] \in Seq(V)
        PROVE  \E V : Unpack[b] \in Seq(V)
    <2> DEFINE r == Next(b, 0)
               rest == From(b, r.pos)
    <2>1. /\ r.rc \in {-1, 0, 1}
          /\ r.rc = 1 => rest \in Seq(Byte) /\ Len(rest) < Len(b)
      BY NextFacts
    <2>2. /\ r.rc = 0 => Unpack[b] = <<>>
          /\ r.rc = -1 => Unpack[b] = <<[kind |-> "error"]>>
          /\ r.rc = 1 => Unpack[b] = <<ElementValue(r.el)>> \o Unpack[rest]
      <3>1. Unpack[b] = Unpacked(Unpack, b)
        BY UnpackUnfold
      <3>2. r.rc = 0 => Unpacked(Unpack, b) = <<>>
        BY Zenon DEF Unpacked
      <3>3. r.rc = -1 => Unpacked(Unpack, b) = <<[kind |-> "error"]>>
        <4>1. r.rc = -1 => r.rc # 0
          OBVIOUS
        <4>2. QED
          BY <4>1, Zenon DEF Unpacked
      <3>4. r.rc = 1 => Unpacked(Unpack, b) = <<ElementValue(r.el)>> \o Unpack[rest]
        <4>1. r.rc = 1 => r.rc # 0 /\ r.rc # -1
          OBVIOUS
        <4>2. QED
          BY <4>1, Zenon DEF Unpacked, ElementValue
      <3>5. QED
        BY <3>1, <3>2, <3>3, <3>4
    <2> HIDE DEF r, rest
    <2>3. CASE r.rc = 0
      BY <2>2, <2>3, EmptySeq
    <2>4. CASE r.rc = -1
      <3>1. <<[kind |-> "error"]>> \in Seq({[kind |-> "error"]})
        OBVIOUS
      <3>2. QED
        BY <2>2, <2>4, <3>1
    <2>5. CASE r.rc = 1
      <3>1. PICK V : Unpack[rest] \in Seq(V)
        BY <1>1, <2>1, <2>5
      <3> DEFINE v == ElementValue(r.el)
                 u == Unpack[rest]
                 W == V \cup {v}
      <3>2. u \in Seq(W)
        BY <3>1
      <3>3. <<v>> \in Seq(W)
        OBVIOUS
      <3>4. <<v>> \o u \in Seq(W)
        BY <3>2, <3>3, ConcatProperties
      <3>5. QED
        BY <2>2, <2>5, <3>4
    <2>6. QED
      BY <2>1, <2>3, <2>4, <2>5
  <1>2. 0 \in S
    <2>1. ASSUME NEW b \in Seq(Byte), Len(b) <= 0
          PROVE  \E V : Unpack[b] \in Seq(V)
      <3>1. \A c \in Seq(Byte) : ~(Len(c) < Len(b))
        BY <2>1, LenProperties
      <3>2. QED
        BY <1>1, <3>1
    <2>2. QED
      BY <2>1
  <1>3. ASSUME NEW k \in Nat, k \in S
        PROVE  k + 1 \in S
    <2>1. ASSUME NEW b \in Seq(Byte), Len(b) <= k + 1
          PROVE  \E V : Unpack[b] \in Seq(V)
      <3>1. ASSUME NEW c \in Seq(Byte), Len(c) < Len(b)
            PROVE  \E V : Unpack[c] \in Seq(V)
        <4>1. Len(c) \in Nat /\ Len(b) \in Nat
          BY LenProperties
        <4>2. Len(c) <= k
          BY <2>1, <3>1, <4>1
        <4>3. QED
          BY <1>3, <4>2
      <3>2. QED
        BY <1>1, <3>1
    <2>2. QED
      BY <2>1
  <1> HIDE DEF S
  <1>4. \A k \in Nat : k \in S
    BY <1>2, <1>3, NatSetInduction
  <1>5. QED
    BY <1>4, LenProperties DEF S

LEMMA ConcatAcross ==
    ASSUME NEW S, NEW s \in Seq(S), NEW T, NEW t \in Seq(T), NEW U, NEW u \in Seq(U)
    PROVE  (s \o t) \o u = s \o (t \o u)
  <1> DEFINE W == S \cup T \cup U
  <1>1. s \in Seq(W) /\ t \in Seq(W) /\ u \in Seq(W)
    OBVIOUS
  <1> HIDE DEF W
  <1>2. QED
    BY <1>1

(* What follows an element cannot be taken for an escape.                  *)
Opens(y) == y \in Seq(Byte) /\ (Len(y) > 0 => y[1] # 255)

(* An element that next() reads, cut out of its buffer, is read wherever   *)
(* it stands.                                                              *)
LEMMA ElementAlone ==
    ASSUME NEW b \in Seq(Byte), NEW p \in 0..Len(b), Next(b, p).rc = 1
    PROVE  LET s == SubSeq(b, p + 1, Next(b, p).pos)
           IN  /\ Opens(s) /\ Len(s) > 0
               /\ \A y : Opens(y) => /\ s \o y \in Seq(Byte)
                                     /\ Unpack[s \o y] = <<ElementValue(Next(b, p).el)>> \o Unpack[y]
  <1> DEFINE e == Next(b, p).pos
             n == e - p
             s == SubSeq(b, p + 1, e)
             v == Next(b, p).el
  <1>1. Len(b) \in Nat /\ e \in (p + 1)..Len(b) /\ n \in Nat /\ n > 0 /\ p + n = e
    <2>1. Len(b) \in Nat /\ e \in (p + 1)..Len(b)
      BY LenProperties, StepTyped
    <2> HIDE DEF e
    <2>2. QED
      BY <2>1
  <1> HIDE DEF e
  <1>2. CanTake(b, p, n) /\ Bytes(b, p, n) = s
    BY <1>1 DEF CanTake, Bytes
  <1>3. s \in Seq(Byte) /\ Len(s) = n /\ \A k \in 1..n : s[k] = b[p + k]
    BY <1>1, <1>2, BytesProperties
  <1> HIDE DEF s, n
  <1>4. s[1] # 255
    <2>1. ASSUME b[p + 1] = 255
          PROVE  FALSE
      <3>1. 255 \notin OtherCodes \cup FixedNeg \cup FixedPos
        <4>1. 255 \notin FixedNeg \cup FixedPos
          BY FixedCodes
        <4>2. QED
          BY <4>1 DEF OtherCodes, Bare, Framed, NIL, UNDEF, BOOL_FALSE, BOOL_TRUE, INT_ZERO, INT_NEG_BIG, INT_POS_BIG,
                      FLOAT32, FLOAT64, DECIMAL, TIMESTAMP, UUID, STRING_CODE, BYTES, ARRAY, MAP, SET
      <3>2. DecodeElement(b, 255, p + 1) = Failed(p + 1)
        BY <3>1, NoCodeDispatch
      <3>3. ~(p >= Len(b))
        BY <1>1
      <3>4. Next(b, p) = Failed(p + 1)
        BY <2>1, <3>2, <3>3 DEF Next
      <3>5. QED
        BY <3>4 DEF Failed
    <2>2. 1 \in 1..n
      BY <1>1
    <2>3. QED
      BY <1>3, <2>1, <2>2
  <1>5. ASSUME NEW y, Opens(y)
        PROVE  /\ s \o y \in Seq(Byte)
               /\ Unpack[s \o y] = <<ElementValue(v)>> \o Unpack[y]
    <2> DEFINE w == s \o y
    <2>1. y \in Seq(Byte) /\ Len(y) \in Nat /\ (Len(y) > 0 => y[1] # 255)
      BY <1>5, LenProperties DEF Opens
    <2>2. /\ w \in Seq(Byte) /\ Len(w) = n + Len(y)
          /\ \A i \in 1..(n + Len(y)) : w[i] = IF i <= n THEN s[i] ELSE y[i - n]
      <3>1. /\ w \in Seq(Byte) /\ Len(w) = Len(s) + Len(y)
            /\ \A i \in 1..(Len(s) + Len(y)) : w[i] = IF i <= Len(s) THEN s[i] ELSE y[i - Len(s)]
        <4>1. s \in Seq(Byte) /\ y \in Seq(Byte)
          BY <1>3, <2>1
        <4>2. QED
          BY <4>1, ConcatProperties
      <3>2. QED
        BY <1>3, <3>1
    <2>3. From(w, n) = y
      BY <1>3, <2>1, FromConcat
    <2> HIDE DEF w
    <2>4. Window(b, p, w, e)
      <3>1. e - p <= Len(w)
        BY <1>1, <2>1, <2>2
      <3>2. ASSUME NEW i \in (p + 1)..e
            PROVE  w[i - p] = b[i]
        <4>1. i - p \in 1..n /\ p + (i - p) = i /\ i - p \in 1..(n + Len(y)) /\ i - p <= n
          BY <1>1, <2>1
        <4>2. QED
          BY <1>3, <2>2, <4>1
      <3>3. ASSUME e - p < Len(w)
            PROVE  w[e - p + 1] # 255
        <4>1. e - p + 1 = n + 1 /\ n + 1 \in 1..(n + Len(y)) /\ ~(n + 1 <= n) /\ (n + 1) - n = 1 /\ Len(y) > 0
          BY <1>1, <2>1, <2>2, <3>3
        <4>2. w[n + 1] = y[1]
          BY <2>2, <4>1
        <4>3. QED
          BY <2>1, <4>1, <4>2
      <3>4. QED
        BY <3>1, <3>2, <3>3 DEF Window
    <2>5. Next(w, 0) = Decoded(n, v)
      <3>1. Next(w, 0) = Decoded(e - p, v)
        BY <2>2, <2>4, NextLocal DEF e
      <3>2. QED
        BY <3>1 DEF n
    <2>6. Next(w, 0).rc = 1 /\ Next(w, 0).pos = n /\ Next(w, 0).el = v
      BY <2>5 DEF Decoded
    <2> HIDE DEF v
    <2>7. Next(w, 0).rc # 0 /\ Next(w, 0).rc # -1
      BY <2>6
    <2>8. Unpack[w] = <<ElementValue(Next(w, 0).el)>> \o Unpack[From(w, Next(w, 0).pos)]
      BY <2>2, <2>7, UnpackUnfold, Zenon DEF Unpacked, ElementValue
    <2>9. QED
      BY <2>2, <2>3, <2>6, <2>8 DEF w
  <1>6. Opens(s) /\ Len(s) > 0
    BY <1>1, <1>3, <1>4 DEF Opens
  <1>7. QED
    BY <1>5, <1>6 DEF s, v, e

-----------------------------------------------------------------------------
(* Why the output holds the values read: the part of the input that has    *)
(* been read is whole elements, and the one that next() reads after it     *)
(* adds its value to those of both sides.                                  *)
Whole(x) == /\ x \in Seq(Byte)
            /\ \A y : Opens(y) => Unpack[x \o y] = Unpack[x] \o Unpack[y]

LEMMA EmptyWhole == Whole(<<>>)
  <1> DEFINE x == <<>>
  <1>1. x \in Seq(Byte)
    OBVIOUS
  <1>2. ASSUME NEW y, Opens(y)
        PROVE  Unpack[x \o y] = Unpack[x] \o Unpack[y]
    <2>1. y \in Seq(Byte)
      BY <1>2 DEF Opens
    <2>2. x \o y = y
      BY <2>1, ConcatEmptySeq
    <2>3. Unpack[x] = <<>>
      BY EmptyUnpacked
    <2>4. PICK V : Unpack[y] \in Seq(V)
      BY <2>1, UnpackIsSeq
    <2>5. <<>> \o Unpack[y] = Unpack[y]
      BY <2>4, ConcatEmptySeq
    <2>6. QED
      BY <2>2, <2>3, <2>5
  <1>3. QED
    BY <1>1, <1>2 DEF Whole

LEMMA WholeElement ==
    ASSUME NEW b \in Seq(Byte), NEW p \in 0..Len(b), Next(b, p).rc = 1, Whole(SubSeq(b, 1, p))
    PROVE  /\ Whole(SubSeq(b, 1, Next(b, p).pos))
           /\ Unpack[SubSeq(b, 1, Next(b, p).pos)] =
                Unpack[SubSeq(b, 1, p)] \o <<ElementValue(Next(b, p).el)>>
  <1> DEFINE e == Next(b, p).pos
             s == SubSeq(b, p + 1, e)
             x == SubSeq(b, 1, p)
             z == SubSeq(b, 1, e)
             v == ElementValue(Next(b, p).el)
  <1>1. /\ Opens(s) /\ Len(s) > 0
        /\ \A y : Opens(y) => s \o y \in Seq(Byte) /\ Unpack[s \o y] = <<v>> \o Unpack[y]
    BY ElementAlone
  <1>2. Len(b) \in Nat /\ e \in (p + 1)..Len(b)
    BY LenProperties, StepTyped
  <1>3. Whole(x) /\ x \in Seq(Byte)
    BY DEF Whole
  <1>4. z = x \o s /\ z \in Seq(Byte)
    <2> HIDE DEF e
    <2>1. e \in 0..Len(b)
      BY <1>2
    <2>2. z \in Seq(Byte) /\ Len(z) = e
      BY <2>1, CutAt
    <2>3. p \in 0..Len(z)
      BY <1>2, <2>2
    <2>4. z = SubSeq(z, 1, p) \o SubSeq(z, p + 1, Len(z))
      BY <2>2, <2>3, CutAt
    <2>5. \A k \in 1..e : z[k] = b[k]
      BY <1>2
    <2>6. SubSeq(z, 1, p) = x /\ SubSeq(z, p + 1, Len(z)) = s
      BY <1>2, <2>2
    <2>7. QED
      BY <2>2, <2>4, <2>6
  <1> HIDE DEF s, x, z, v, e
  <1>5. s \in Seq(Byte)
    BY <1>1 DEF Opens
  <1>6. ASSUME NEW y, Opens(y)
        PROVE  /\ Opens(s \o y) /\ z \o y = x \o (s \o y)
               /\ Unpack[z \o y] = (Unpack[x] \o <<v>>) \o Unpack[y]
    <2>1. y \in Seq(Byte)
      BY <1>6 DEF Opens
    <2>2. z \o y = x \o (s \o y)
      BY SMTT(30), <1>3, <1>4, <1>5, <2>1, ConcatAcross
    <2>3. Opens(s \o y)
      <3>1. /\ s \o y \in Seq(Byte)
            /\ \A i \in 1..(Len(s) + Len(y)) : (s \o y)[i] = IF i <= Len(s) THEN s[i] ELSE y[i - Len(s)]
        BY <1>5, <2>1, ConcatProperties
      <3>2. Len(s) \in Nat /\ Len(y) \in Nat
        BY <1>5, <2>1, LenProperties
      <3>3. 1 \in 1..(Len(s) + Len(y)) /\ 1 <= Len(s)
        BY <1>1, <3>2
      <3>4. (s \o y)[1] = s[1]
        BY <3>1, <3>3
      <3>5. QED
        BY <1>1, <3>1, <3>4 DEF Opens
    <2>4. Unpack[x \o (s \o y)] = Unpack[x] \o Unpack[s \o y]
      BY <1>3, <2>3 DEF Whole
    <2>5. Unpack[s \o y] = <<v>> \o Unpack[y]
      BY <1>1, <1>6
    <2>6. PICK V : Unpack[x] \in Seq(V)
      BY <1>3, UnpackIsSeq
    <2>7. PICK W : Unpack[y] \in Seq(W)
      BY <2>1, UnpackIsSeq
    <2>8. <<v>> \in Seq({v})
      OBVIOUS
    <2>9. Unpack[x] \o (<<v>> \o Unpack[y]) = (Unpack[x] \o <<v>>) \o Unpack[y]
      <3> DEFINE ux == Unpack[x]
                 uy == Unpack[y]
                 vs == <<v>>
      <3>1. ux \in Seq(V) /\ uy \in Seq(W) /\ vs \in Seq({v})
        BY <2>6, <2>7, <2>8
      <3> HIDE DEF ux, uy, vs
      <3>2. ux \o (vs \o uy) = (ux \o vs) \o uy
        BY SMTT(60), <3>1, ConcatAcross
      <3>3. QED
        BY <3>2 DEF ux, uy, vs
    <2>10. QED
      BY <2>2, <2>3, <2>4, <2>5, <2>9
  <1>7. Unpack[z] = Unpack[x] \o <<v>>
    <2> DEFINE none == <<>>
    <2>1. Opens(none) /\ none = <<>>
      BY EmptySeq DEF Opens
    <2> HIDE DEF none
    <2>2. Unpack[z \o none] = (Unpack[x] \o <<v>>) \o Unpack[none]
      BY <1>6, <2>1
    <2>3. z \o none = z /\ Unpack[none] = <<>>
      BY <1>4, <2>1, ConcatEmptySeq, EmptyUnpacked
    <2>4. PICK V : Unpack[x] \in Seq(V)
      BY <1>3, UnpackIsSeq
    <2>5. Unpack[x] \o <<v>> \in Seq(V \cup {v})
      <3>1. Unpack[x] \in Seq(V \cup {v}) /\ <<v>> \in Seq(V \cup {v})
        BY <2>4
      <3>2. QED
        BY <3>1, ConcatProperties
    <2>6. (Unpack[x] \o <<v>>) \o <<>> = Unpack[x] \o <<v>>
      BY <2>5, ConcatEmptySeq
    <2>7. QED
      BY <2>2, <2>3, <2>6
  <1>8. Whole(z)
    BY <1>4, <1>6, <1>7 DEF Whole
  <1>9. QED
    BY <1>7, <1>8 DEF z, x, v, e

(* The exponent stored in a decimal is in range.                           *)
LEMMA ExponentBounded ==
    ASSUME NEW b, NEW negative, NEW q, ReadExponent(b, negative, q).rc = 1
    PROVE  ReadExponent(b, negative, q).el \in Int /\ ReadExponent(b, negative, q).el <= MaxExp
  <1> DEFINE t == Signed(negative, Bytes(b, q, 1))[1]
             n == SlotWidth(t)
             p == Signed(negative, Bytes(b, q + 1, n))
             r == ReadExponent(b, negative, q)
             S == ExpValues(t, p)
             x == FirstOf(S)
  <1>1. \/ r \in {Failed(q), Failed(q + 1), Failed(q + 1 + n), Decoded(q + 1, 0)}
        \/ S # {} /\ r = Decoded(q + 1 + n, x)
    BY Zenon DEF ReadExponent
  <1>2. MaxExp \in Nat
    BY WidthAssumption
  <1>3. ASSUME S # {}
        PROVE  x <= MaxExp
    <2> DEFINE E == DecodedIn(SlotMagnitude(p), 1..(MaxExp + 1))
    <2>1. x \in S
      BY <1>3, ExpValuesInts
    <2>2. DecodedIn(p, 0..MaxExp) \in SUBSET (0..MaxExp) /\ E \in SUBSET (1..(MaxExp + 1))
      BY DEF DecodedIn
    <2>3. S = DecodedIn(p, 0..MaxExp) \/ S = {0} \/ S = {-e : e \in E}
      BY DEF ExpValues
    <2> HIDE DEF E, S, x
    <2>4. CASE S = DecodedIn(p, 0..MaxExp)
      BY <1>2, <2>1, <2>2, <2>4
    <2>5. CASE S = {0}
      BY <1>2, <2>1, <2>5
    <2>6. CASE S = {-e : e \in E}
      <3>1. PICK e \in E : x = -e
        BY <2>1, <2>6
      <3>2. e \in 1..(MaxExp + 1)
        BY <2>2, <3>1
      <3>3. QED
        BY <1>2, <3>1, <3>2
    <2>7. QED
      BY <2>3, <2>4, <2>5, <2>6
  <1>4. r.el \in Int
    BY ExponentInt
  <1>5. r.rc = 1
    OBVIOUS
  <1> SUFFICES r.el <= MaxExp
    BY <1>4
  <1> HIDE DEF r, S, x, n, p, t
  <1>6. QED
    BY <1>1, <1>2, <1>3, <1>5 DEF Failed, Decoded

InScale(r) == r.rc = 1 /\ r.el.kind = "decimal" => r.el.exp + Len(r.el.digits) <= MaxExp

LEMMA DecimalInScale ==
    ASSUME NEW b \in Seq(Byte), NEW q \in 0..Len(b)
    PROVE  InScale(ReadDecimal(b, q))
  <1> DEFINE negative == b[q + 1] = DEC_SIGN_NEG
             e     == ReadExponent(b, negative, q + 1)
             ends  == {i \in (e.pos + 1)..Len(b) : b[i] = IF negative THEN 255 ELSE 0}
             end   == FirstOf(ends)
             pairs == Signed(negative, SubSeq(b, e.pos + 1, end - 1))
             ds    == Digits(pairs)
             zero  == [kind |-> "decimal", neg |-> FALSE, digits |-> <<>>, exp |-> 0]
             some  == [kind |-> "decimal", neg |-> negative, digits |-> ds, exp |-> e.el - Len(ds)]
             r     == ReadDecimal(b, q)
  <1>1. \/ r \in {Failed(q), Failed(q + 1), Decoded(q + 1, zero)}
        \/ CanTake(b, q, 1) /\ r = DecimalAfter(b, negative, e)
    BY Zenon DEF ReadDecimal
  <1>2. \/ DecimalAfter(b, negative, e) \in {Failed(e.pos), Failed(end)}
        \/ e.rc = 1 /\ DecimalAfter(b, negative, e) = Decoded(end, some)
    BY Zenon DEF DecimalAfter, ReadDigits
  <1>3. e.rc = 1 => e.el \in Int /\ e.el <= MaxExp
    BY ExponentBounded
  <1>4. r.rc = 1 => r.el \in Encodable
    BY DecimalEncodable
  <1>5. \A k : InScale(Failed(k))
    BY DEF InScale, Failed
  <1>6. InScale(Decoded(q + 1, zero))
    <2>1. zero.exp = 0 /\ zero.digits = <<>> /\ Len(<<>>) = 0
      BY EmptySeq
    <2>2. 0 + 0 <= MaxExp
      BY WidthAssumption
    <2> HIDE DEF zero
    <2>3. QED
      BY <2>1, <2>2 DEF InScale, Decoded
  <1>7. ASSUME e.rc = 1, r = Decoded(end, some)
        PROVE  InScale(r)
    <2>1. some.kind = "decimal" /\ some.digits = ds /\ some.exp = e.el - Len(ds)
      OBVIOUS
    <2> HIDE DEF some, ds, r, e
    <2>2. r.rc = 1 /\ r.el = some
      BY <1>7 DEF Decoded
    <2>3. ds \in Seq(0..9)
      BY <1>4, <2>1, <2>2, FramedCodes DEF Encodable
    <2>4. Len(ds) \in Nat /\ e.el \in Int /\ e.el <= MaxExp /\ MaxExp \in Nat
      BY <1>3, <1>7, <2>3, LenProperties, WidthAssumption
    <2>5. (e.el - Len(ds)) + Len(ds) <= MaxExp
      BY <2>4
    <2>6. QED
      BY <2>1, <2>2, <2>5 DEF InScale
  <1> SUFFICES InScale(r)
    OBVIOUS
  <1> HIDE DEF r, e, end, some, zero, negative, InScale
  <1>8. QED
    BY <1>1, <1>2, <1>5, <1>6, <1>7

LEMMA ElementInScale ==
    ASSUME NEW b \in Seq(Byte), NEW t, NEW q \in 0..Len(b)
    PROVE  InScale(DecodeElement(b, t, q))
  <1>1. \A k : InScale(Failed(k))
    BY DEF InScale, Failed
  <1>2. \A k, e : e.kind # "decimal" => InScale(Decoded(k, e))
    BY DEF InScale, Decoded
  <1>3. \A n, negative, mag : IntElement(n, negative, mag).kind # "decimal"
    BY DEF IntElement
  <1>4. \A n, e : e.kind # "decimal" => InScale(ReadPayload(b, q, n, e))
    BY <1>1, <1>2, Zenon DEF ReadPayload
  <1>5. t \in Framed => InScale(ReadFramed(b, t, q))
    <2>1. t \in Framed => KindOf[t] # "decimal"
      BY KindOfFramed, FramedCodes
    <2>2. \A k, d : t \in Framed => InScale(Decoded(k, [kind |-> KindOf[t], data |-> d]))
      BY <2>1, <1>2
    <2>3. QED
      BY <1>1, <2>2, Zenon DEF ReadFramed
  <1>6. InScale(ReadDecimal(b, q))
    BY DecimalInScale
  <1>7. InScale(ReadFixedInt(b, t, q))
    <2>1. \A k, n, negative, mag : InScale(Decoded(k, IntElement(n, negative, mag)))
      BY <1>2, <1>3, Zenon
    <2>2. QED
      BY <1>1, <2>1, Zenon DEF ReadFixedInt
  <1>8. InScale(ReadBigInt(b, t, q))
    <2>1. \A k, negative, mag : InScale(Decoded(k, [kind |-> "bigint", neg |-> negative, mag |-> mag]))
      BY <1>2
    <2>2. QED
      BY <1>1, <2>1, Zenon DEF ReadBigInt
  <1>9. /\ InScale(Decoded(q, [kind |-> "nil"])) /\ InScale(Decoded(q, [kind |-> "undef"]))
        /\ InScale(Decoded(q, [kind |-> "bool", val |-> FALSE]))
        /\ InScale(Decoded(q, [kind |-> "bool", val |-> TRUE]))
        /\ InScale(Decoded(q, IntElement(0, FALSE, <<>>)))
    BY <1>2, <1>3
  <1>10. /\ InScale(ReadPayload(b, q, F32Width, [kind |-> "f32", bits |-> DecFloatBits(Bytes(b, q, F32Width))]))
         /\ InScale(ReadPayload(b, q, F64Width, [kind |-> "f64", bits |-> DecFloatBits(Bytes(b, q, F64Width))]))
         /\ InScale(ReadPayload(b, q, NativeWidth,
                                [kind |-> "timestamp", data |-> FlipSign(Bytes(b, q, NativeWidth))]))
         /\ InScale(ReadPayload(b, q, UuidWidth, [kind |-> "uuid", data |-> Bytes(b, q, UuidWidth)]))
    BY <1>4
  <1> HIDE DEF InScale
  <1>11. QED
    BY <1>1, <1>5, <1>6, <1>7, <1>8, <1>9, <1>10 DEF DecodeElement

(* A decimal that next() reads, and whose exponent the cast keeps, is one  *)
(* that the encoder takes: leading zeros in its digits only lower its      *)
(* scale, and not below its exponent.                                      *)
LEMMA DecimalTaken ==
    ASSUME NEW b \in Seq(Byte), NEW p \in 0..Len(b), Next(b, p).rc = 1,
           Next(b, p).el.kind = "decimal", InExpRange(Next(b, p).el.exp)
    PROVE  ~DecimalRejected(Next(b, p).el.digits, Next(b, p).el.exp)
  <1> DEFINE el == Next(b, p).el
             sig == Trimmed(el.digits)
  <1>1. el.digits \in Seq(0..9) /\ el.exp \in Int
    BY NextEncodable, FramedCodes DEF Encodable
  <1>2. el.exp + Len(el.digits) <= MaxExp
    <2>1. ~(p >= Len(b)) /\ p + 1 \in 0..Len(b)
      BY LenProperties DEF Next
    <2>2. InScale(DecodeElement(b, b[p + 1], p + 1))
      BY <2>1, ElementInScale
    <2>3. Next(b, p) = DecodeElement(b, b[p + 1], p + 1)
      BY <2>1 DEF Next
    <2>4. QED
      BY <2>2, <2>3 DEF InScale
  <1>3. Len(sig) \in Nat /\ Len(sig) <= Len(el.digits) /\ Len(el.digits) \in Nat
    BY <1>1, TrimmedProperties, LenProperties
  <1>4. -(MaxExp + 1) <= el.exp /\ MaxExp \in Nat
    BY WidthAssumption DEF InExpRange
  <1> HIDE DEF el
  <1>5. InExpRange(Len(sig) + el.exp)
    BY <1>1, <1>2, <1>3, <1>4 DEF InExpRange
  <1>6. QED
    BY <1>5 DEF DecimalRejected, el

(* What the two sides hold during a first call.                            *)
SidesAgree ==
    pass = 1 =>
        /\ pc = "loop" => rc = 0 /\ Whole(SubSeq(buf, 1, pos))
        /\ rc = 0 /\ ~narrowed => Unpack[out] = Unpack[SubSeq(buf, 1, pos)]

Keeping == Copying /\ SidesAgree

LEMMA InitKeeping == Init => Keeping
  <1> SUFFICES ASSUME Init PROVE Keeping
    OBVIOUS
  <1>1. Copying /\ out = <<>> /\ pos = 0 /\ buf \in Seq(Byte)
    BY InitCopying, BufferAssumption DEF Init
  <1>2. SubSeq(buf, 1, pos) = <<>>
    BY <1>1
  <1>3. Whole(SubSeq(buf, 1, pos)) /\ rc = 0 /\ out = SubSeq(buf, 1, pos)
    BY <1>1, <1>2, EmptyWhole DEF Init
  <1>4. QED
    BY <1>1, <1>3 DEF Keeping, SidesAgree

LEMMA ElementKeeping == Keeping /\ Element => Keeping'
  <1> SUFFICES ASSUME Keeping, Element PROVE Keeping'
    OBVIOUS
  <1>1. Copying' /\ Copying /\ TypeOK
    BY ElementCopying DEF Keeping, Copying
  <1> SUFFICES ASSUME pass' = 1 PROVE SidesAgree'
    BY <1>1 DEF Keeping, SidesAgree
  <1> DEFINE r == Next(buf, pos)
             w == EncElement(r.el)
             x == SubSeq(buf, 1, pos)
             z == SubSeq(buf, 1, r.pos)
             v == ElementValue(r.el)
             fits == r.el.kind = "decimal" => InExpRange(r.el.exp)
  <1>2. /\ r.rc = 1 /\ out' = out \o w /\ pos' = r.pos
        /\ narrowed' = (narrowed \/ (r.el.kind = "decimal" /\ ~InExpRange(r.el.exp)))
        /\ buf' = buf /\ pc' = pc /\ rc' = rc /\ pass' = pass /\ pc = "loop"
    BY Zenon DEF Element
  <1>3. buf \in Seq(Byte) /\ pos \in 0..Len(buf) /\ out \in Seq(Byte)
    BY <1>1 DEF TypeOK
  <1>4. pass = 1
    BY <1>2
  <1>5. out \in Canonicals
    BY <1>1, <1>4 DEF Copying, FirstCall
  <1>6. rc = 0 /\ Whole(x) /\ (rc = 0 /\ ~narrowed => Unpack[out] = Unpack[x])
    BY <1>2, <1>4 DEF Keeping, SidesAgree
  <1>7. Whole(z) /\ Unpack[z] = Unpack[x] \o <<v>>
    BY <1>2, <1>3, <1>6, WholeElement
  <1>8. ASSUME fits
        PROVE  w \in StableStrings /\ Value(w) = v
    <2>1. r.el \in Encodable /\ KeptElement(r.el)
      BY <1>2, <1>3, NextEncodable, NegativeKept DEF KeptElement, Integers
    <2>2. ~(r.el.kind = "decimal" /\ DecimalRejected(r.el.digits, r.el.exp))
      BY <1>2, <1>3, <1>8, DecimalTaken
    <2>3. QED
      BY <1>8, <2>1, <2>2, EncodedValue
  <1>9. ~narrowed' => ~narrowed /\ fits
    BY <1>2
  <1>10. z = SubSeq(buf', 1, pos')
    BY <1>2
  <1> HIDE DEF r, w, x, z, v, fits
  <1>11. ASSUME rc' = 0, ~narrowed'
         PROVE  Unpack[out'] = Unpack[z]
    <2>1. w \in StableStrings /\ Value(w) = v
      BY <1>8, <1>9, <1>11
    <2>2. w \in Canonicals /\ Unpack[w] = <<v>>
      BY <2>1, UnpackOne
    <2>3. Unpack[out \o w] = Unpack[out] \o Unpack[w]
      BY <1>5, <2>2, UnpackConcat
    <2>4. Unpack[out] = Unpack[x]
      BY <1>2, <1>6, <1>9, <1>11
    <2>5. QED
      BY <1>2, <1>7, <2>2, <2>3, <2>4
  <1>12. rc' = 0
    BY <1>2, <1>6
  <1>13. QED
    BY <1>7, <1>10, <1>11, <1>12 DEF SidesAgree

LEMMA ReturnKeeping == Keeping /\ Return => Keeping'
  <1> SUFFICES ASSUME Keeping, Return PROVE Keeping'
    OBVIOUS
  <1>1. Copying' /\ Copying /\ TypeOK
    BY ReturnCopying DEF Keeping, Copying
  <1> SUFFICES ASSUME pass' = 1, rc' = 0, ~narrowed'
               PROVE  pc' = "done" /\ Unpack[out'] = Unpack[SubSeq(buf', 1, pos')]
    <2>1. pc' = "done"
      BY DEF Return
    <2>2. QED
      BY <1>1, <2>1 DEF Keeping, SidesAgree
  <1> DEFINE r == Next(buf, pos)
  <1>2. /\ r.rc # 1 /\ rc' = r.rc /\ pos' = r.pos /\ pc' = "done" /\ pc = "loop"
        /\ buf' = buf /\ out' = out /\ pass' = pass /\ narrowed' = narrowed
    BY Zenon DEF Return
  <1>3. buf \in Seq(Byte) /\ pos \in 0..Len(buf) /\ rc \in {-1, 0}
    BY <1>1 DEF TypeOK
  <1>4. r.pos = pos
    <2>1. pos = Len(buf) => r.pos = pos
      BY <1>3, NextAdvances
    <2>2. pos # Len(buf) => r.rc \in {-1, 1}
      BY <1>3, NextAdvances DEF Advances
    <2>3. QED
      BY <1>2, <2>1, <2>2
  <1>5. rc = 0
    BY <1>2 DEF Keeping, SidesAgree
  <1>6. QED
    BY <1>2, <1>4, <1>5 DEF Keeping, SidesAgree

(* The output always holds the values read so far: at every moment of      *)
(* either call, for every input, what has been written unpacks to the same *)
(* values as what has been read, unless the cast changed an exponent.      *)
THEOREM TranscodeKeepsValues == Spec => []ValuesKept
  <1>1. Init => Keeping
    BY InitKeeping
  <1>2. Keeping /\ [TranscodeNext]_vars => Keeping'
    <2> SUFFICES ASSUME Keeping, [TranscodeNext]_vars PROVE Keeping'
      OBVIOUS
    <2>1. CASE Element
      BY <2>1, ElementKeeping
    <2>2. CASE Return
      BY <2>2, ReturnKeeping
    <2>3. CASE Again
      <3>1. Copying'
        BY <2>3, AgainCopying DEF Keeping
      <3>2. pass' = 2
        BY <2>3 DEF Again
      <3>3. QED
        BY <3>1, <3>2 DEF Keeping, SidesAgree
    <2>4. CASE UNCHANGED vars
      BY <2>4 DEF Keeping, SidesAgree, Copying, TypeOK, FirstCall, SecondCall, vars
    <2>5. QED
      BY <2>1, <2>2, <2>3, <2>4 DEF TranscodeNext
  <1>3. Keeping => ValuesKept
    <2> SUFFICES ASSUME Keeping PROVE ValuesKept
      OBVIOUS
    <2>1. pass = 2 => SubSeq(buf, 1, pos) = out
      BY CopyingIdempotent DEF Keeping, Idempotent
    <2>2. pass \in {1, 2}
      BY DEF Keeping, Copying, TypeOK
    <2>3. pass = 1 => ValuesKept
      BY DEF Keeping, SidesAgree, ValuesKept
    <2>4. QED
      BY <2>1, <2>2, <2>3 DEF ValuesKept
  <1>4. QED
    BY <1>1, <1>2, <1>3, PTL DEF Spec
=============================================================================
