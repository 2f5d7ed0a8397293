---------------------------- MODULE StrupleDecode ----------------------------
(***************************************************************************)
(* The decoder: struple_reader_next and element_span as operators of a     *)
(* buffer and an offset (the number of bytes already consumed).            *)
(*                                                                         *)
(* Every decoding step yields [rc, pos, el]: the C return code, the        *)
(* reader's position afterwards (on an error, wherever the last successful *)
(* take left it) and the decoded element.                                  *)
(***************************************************************************)
EXTENDS StrupleEncode

NoElement == [kind |-> "none"]

Failed(p)      == [rc |-> -1, pos |-> p, el |-> NoElement]
Decoded(p, el) == [rc |->  1, pos |-> p, el |-> el]

(* take(r, n): the remaining-bytes check, and the bytes taken. *)
CanTake(buf, p, n) == n <= Len(buf) - p
Bytes(buf, p, n)   == SubSeq(buf, p + 1, p + n)

(* The integer of an n-byte slot: native when the slot and value fit. *)
IntElement(n, negative, mag) ==
    [kind |-> IF n <= NativeWidth /\ FitsSigned(negative, mag, NativeWidth)
              THEN "int" ELSE "bigint",
     neg |-> negative, mag |-> mag]

-----------------------------------------------------------------------------
(* The magnitude of a negative excess-form payload.  The native-width slot *)
(* has the carry out of its top byte special-cased; in the wider slots the *)
(* byte loop drops it and one byte of magnitude always remains.            *)
ExcessMagnitude(p) ==
    LET m == Trimmed(Negated(p))
    IN  IF Len(p) <= NativeWidth
        THEN IF m = <<>> THEN <<1>> \o p ELSE m
        ELSE IF m = <<>> THEN <<0>> ELSE m

(* Variants with a bug: a minimal slot rejected, an over-wide value passed. *)
OneIsLeadingZero(positive, p) ==
    \/ IF positive THEN p[1] <= 1 ELSE p[1] = 255 /\ Len(p) > 1
    \/ Len(p) = FixedWidth /\ (positive <=> p[1] >= 128)
WidestSlotUnchecked(positive, p) ==
    IF positive THEN p[1] = 0 ELSE p[1] = 255 /\ Len(p) > 1

(* Strict decode rejects a slot no canonical encoder would have chosen. *)
NonMinimalSlot(positive, p) ==
    \/ IF positive THEN p[1] = 0 ELSE p[1] = 255 /\ Len(p) > 1
    \/ Len(p) = FixedWidth /\ (positive <=> p[1] >= 128)

ReadFixedInt(buf, t, q) ==
    LET n        == SlotWidth(t)
        p        == Bytes(buf, q, n)
        positive == t > INT_ZERO
    IN  IF ~CanTake(buf, q, n) THEN Failed(q)
        ELSE IF NonMinimalSlot(positive, p) THEN Failed(q + n)
        ELSE Decoded(q + n,
                     IF positive THEN IntElement(n, FALSE, p)
                     ELSE IntElement(n, TRUE, ExcessMagnitude(p)))

(* The header of a big-int at q: the length bytes and the magnitude length *)
(* they give, provided that many bytes follow them.                        *)
LenBytes(buf, negative, q) == Signed(negative, Bytes(buf, q, 1))[1]
MagLens(buf, negative, q) ==
    LET m == LenBytes(buf, negative, q)
    IN  DecodedIn(Signed(negative, Bytes(buf, q + 1, m)), 0..(Len(buf) - (q + 1 + m)))

(* A big-int must be canonical and must not fit a fixed slot. *)
ReadBigInt(buf, t, q) ==
    LET negative == t = INT_NEG_BIG
        m    == LenBytes(buf, negative, q)
        lens == MagLens(buf, negative, q)
        n    == FirstOf(lens)
        mag  == Signed(negative, Bytes(buf, q + 1 + m, n))
    IN  IF ~CanTake(buf, q, 1) THEN Failed(q)
        ELSE IF m > LenOfLen \/ ~CanTake(buf, q + 1, m) THEN Failed(q + 1)
        ELSE IF lens = {} THEN Failed(q + 1 + m)
        ELSE IF n = 0 \/ m # ByteLen(n) \/ mag[1] = 0 \/ FitsSigned(negative, mag, FixedWidth)
        THEN Failed(q + 1 + m + n)
        ELSE Decoded(q + 1 + m + n, [kind |-> "bigint", neg |-> negative, mag |-> mag])

ReadPayload(buf, q, n, el) == IF CanTake(buf, q, n) THEN Decoded(q + n, el) ELSE Failed(q)

DecFloatBits(p) == IF p[1] >= 128 THEN FlipSign(p) ELSE Complement(p)

-----------------------------------------------------------------------------
(* The exponent embedded in a decimal: a fixed integer slot that fits the  *)
(* native width and the exponent bound; minimality is not checked.  In the *)
(* slot of the native width the magnitude of an all-zero payload (2^64)    *)
(* wraps to 0.                                                             *)
SlotMagnitude(p) == IF Trimmed(p) = <<>> THEN <<1>> \o p ELSE Trimmed(Negated(p))

ExpValues(t, p) ==
    IF t > INT_ZERO THEN DecodedIn(p, 0..MaxExp)
    ELSE IF Len(p) = NativeWidth /\ Trimmed(p) = <<>> THEN {0}
    ELSE {-e : e \in DecodedIn(SlotMagnitude(p), 1..(MaxExp + 1))}

ReadExponent(buf, negative, q) ==
    LET t == Signed(negative, Bytes(buf, q, 1))[1]
        n == SlotWidth(t)
        p == Signed(negative, Bytes(buf, q + 1, n))
    IN  IF ~CanTake(buf, q, 1) THEN Failed(q)
        ELSE IF t = INT_ZERO THEN Decoded(q + 1, 0)
        ELSE IF t \notin FixedNeg \cup FixedPos \/ ~CanTake(buf, q + 1, n) THEN Failed(q + 1)
        ELSE IF n > NativeWidth \/ ExpValues(t, p) = {} THEN Failed(q + 1 + n)
        ELSE Decoded(q + 1 + n, FirstOf(ExpValues(t, p)))

(* Base-100 bytes to digits; only the pad of an odd last pair is dropped. *)
Digits(pairs) ==
    FlattenSeq([k \in DOMAIN pairs |->
        LET pair == pairs[k] - 1
        IN  IF k = Len(pairs) /\ pair % 10 = 0 THEN <<pair \div 10>>
            ELSE <<pair \div 10, pair % 10>>])

(* The digit bytes from offset p up to the terminator at end. *)
ReadDigits(buf, negative, exponent, p, end) ==
    LET pairs  == Signed(negative, SubSeq(buf, p + 1, end - 1))
        digits == Digits(pairs)
    IN  IF end = p + 1 THEN Failed(p)
        ELSE IF \E k \in DOMAIN pairs : pairs[k] \notin 1..100 THEN Failed(end)
        ELSE Decoded(end, [kind |-> "decimal", neg |-> negative, digits |-> digits,
                           exp |-> exponent - Len(digits)])

DecimalAfter(buf, negative, e) ==
    LET ends == {i \in (e.pos + 1)..Len(buf) : buf[i] = IF negative THEN 255 ELSE 0}
    IN  IF e.rc # 1 \/ ends = {} THEN Failed(e.pos)
        ELSE ReadDigits(buf, negative, e.el, e.pos, FirstOf(ends))

ReadDecimal(buf, q) ==
    LET negative == buf[q + 1] = DEC_SIGN_NEG
    IN  IF ~CanTake(buf, q, 1) THEN Failed(q)
        ELSE IF buf[q + 1] = DEC_SIGN_ZERO
        THEN Decoded(q + 1, [kind |-> "decimal", neg |-> FALSE, digits |-> <<>>, exp |-> 0])
        ELSE IF buf[q + 1] \notin {DEC_SIGN_NEG, DEC_SIGN_POS} THEN Failed(q + 1)
        ELSE DecimalAfter(buf, negative, ReadExponent(buf, negative, q + 1))

-----------------------------------------------------------------------------
KindOf == [c \in Framed |-> CHOOSE k \in DOMAIN FramedCode : FramedCode[k] = c]

(* take_framed and unescape_to_scratch. *)
ReadFramed(buf, t, q) ==
    LET ends == Terminators(buf, q)
    IN  IF ends = {} THEN Failed(q)
        ELSE Decoded(FirstOf(ends),
                     [kind |-> KindOf[t],
                      data |-> Unescaped(SubSeq(buf, q + 1, FirstOf(ends) - 1))])

(* struple_reader_next: dispatch on the type code t, consumed before q.    *)
DecodeElement(buf, t, q) ==
    CASE t = NIL        -> Decoded(q, [kind |-> "nil"])
      [] t = UNDEF      -> Decoded(q, [kind |-> "undef"])
      [] t = BOOL_FALSE -> Decoded(q, [kind |-> "bool", val |-> FALSE])
      [] t = BOOL_TRUE  -> Decoded(q, [kind |-> "bool", val |-> TRUE])
      [] t = INT_ZERO   -> Decoded(q, IntElement(0, FALSE, <<>>))
      [] t \in FixedNeg \cup FixedPos     -> ReadFixedInt(buf, t, q)
      [] t \in {INT_NEG_BIG, INT_POS_BIG} -> ReadBigInt(buf, t, q)
      [] t = FLOAT32    -> ReadPayload(buf, q, F32Width,
                             [kind |-> "f32", bits |-> DecFloatBits(Bytes(buf, q, F32Width))])
      [] t = FLOAT64    -> ReadPayload(buf, q, F64Width,
                             [kind |-> "f64", bits |-> DecFloatBits(Bytes(buf, q, F64Width))])
      [] t = DECIMAL    -> ReadDecimal(buf, q)
      [] t = TIMESTAMP  -> ReadPayload(buf, q, NativeWidth,
                             [kind |-> "timestamp", data |-> FlipSign(Bytes(buf, q, NativeWidth))])
      [] t = UUID       -> ReadPayload(buf, q, UuidWidth,
                             [kind |-> "uuid", data |-> Bytes(buf, q, UuidWidth)])
      [] t \in Framed   -> ReadFramed(buf, t, q)
      [] OTHER          -> Failed(q)

Next(buf, p) ==
    IF p >= Len(buf) THEN [rc |-> 0, pos |-> p, el |-> NoElement]
    ELSE DecodeElement(buf, buf[p + 1], p + 1)

-----------------------------------------------------------------------------
(* element_span: the end of the element at p, found without decoding it.   *)
(* [rc, end]: end is the offset after the element.                         *)
(* Variant with a bug: off by one at the end of the buffer. *)
SpanPastEnd(buf, e) == [rc |-> IF e <= Len(buf) + 1 THEN 1 ELSE -1, end |-> e]
SpanTo(buf, e) == [rc |-> IF e <= Len(buf) THEN 1 ELSE -1, end |-> e]
NoSpan         == [rc |-> -1, end |-> 0]

BigIntSpan(buf, t, q) ==
    LET negative == t = INT_NEG_BIG
        m        == LenBytes(buf, negative, q)
        lens     == MagLens(buf, negative, q)
    IN  IF q >= Len(buf) \/ m > LenOfLen \/ ~CanTake(buf, q + 1, m) \/ lens = {} THEN NoSpan
        ELSE SpanTo(buf, q + 1 + m + FirstOf(lens))

(* Variant with a bug: the terminator of a negative decimal is complemented *)
(* like the rest, and this looks for it uncomplemented.                    *)
PlainTerminatorSpan(buf, q) ==
    LET negative == buf[q + 1] = DEC_SIGN_NEG
        t        == Signed(negative, Bytes(buf, q + 1, 1))[1]
        digits   == q + 2 + (IF t = INT_ZERO THEN 0 ELSE SlotWidth(t))
        ends     == {i \in (digits + 1)..Len(buf) : buf[i] = 0}
    IN  IF q >= Len(buf) THEN NoSpan
        ELSE IF buf[q + 1] = DEC_SIGN_ZERO THEN SpanTo(buf, q + 1)
        ELSE IF buf[q + 1] \notin {DEC_SIGN_NEG, DEC_SIGN_POS} \/ q + 1 >= Len(buf) THEN NoSpan
        ELSE IF t \notin FixedNeg \cup FixedPos \cup {INT_ZERO} \/ ends = {} THEN NoSpan
        ELSE SpanTo(buf, FirstOf(ends))

DecimalSpan(buf, q) ==
    LET negative == buf[q + 1] = DEC_SIGN_NEG
        t        == Signed(negative, Bytes(buf, q + 1, 1))[1]
        digits   == q + 2 + (IF t = INT_ZERO THEN 0 ELSE SlotWidth(t))
        ends     == {i \in (digits + 1)..Len(buf) : buf[i] = IF negative THEN 255 ELSE 0}
    IN  IF q >= Len(buf) THEN NoSpan
        ELSE IF buf[q + 1] = DEC_SIGN_ZERO THEN SpanTo(buf, q + 1)
        ELSE IF buf[q + 1] \notin {DEC_SIGN_NEG, DEC_SIGN_POS} \/ q + 1 >= Len(buf) THEN NoSpan
        ELSE IF t \notin FixedNeg \cup FixedPos \cup {INT_ZERO} \/ ends = {} THEN NoSpan
        ELSE SpanTo(buf, FirstOf(ends))

SpanAfter(buf, t, q) ==
    CASE t \in Bare -> SpanTo(buf, q)
      [] t \in FixedNeg \cup FixedPos     -> SpanTo(buf, q + SlotWidth(t))
      [] t \in {INT_NEG_BIG, INT_POS_BIG} -> BigIntSpan(buf, t, q)
      [] t = FLOAT32   -> SpanTo(buf, q + F32Width)
      [] t = FLOAT64   -> SpanTo(buf, q + F64Width)
      [] t = TIMESTAMP -> SpanTo(buf, q + NativeWidth)
      [] t = DECIMAL   -> DecimalSpan(buf, q)
      [] t = UUID      -> SpanTo(buf, q + UuidWidth)
      [] t \in Framed  -> IF Terminators(buf, q) = {} THEN NoSpan
                          ELSE SpanTo(buf, FirstOf(Terminators(buf, q)))
      [] OTHER -> NoSpan

ElementSpan(buf, p) ==
    IF p >= Len(buf) THEN [rc |-> 0, end |-> p] ELSE SpanAfter(buf, buf[p + 1], p + 1)
=============================================================================
