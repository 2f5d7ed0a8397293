------------------------------ MODULE StrupleCpp ------------------------------
(***************************************************************************)
(* The C++ port (src/cpp/include/struple.hpp): Reader::next and consume,   *)
(* the detail::append functions and transcode, as operators of a buffer    *)
(* and an offset.  A call that throws has rc -1, and pos is where pos_ was *)
(* left; std::nullopt has rc 0.                                            *)
(*                                                                         *)
(* An Element of that port holds native integers as numbers, and the bytes *)
(* of a string in str; every other payload is in data.                     *)
(***************************************************************************)
EXTENDS StrupleValues

BeToU64(p) ==
    LET v[i \in 0..Len(p)] == IF i = 0 THEN 0 ELSE 256 * v[i - 1] + p[i]
    IN  v[Len(p)]

(* 1 shifted left by n bytes. *)
Power[n \in Nat] == IF n = 0 THEN 1 ELSE 256 * Power[n - 1]

NativeTop == 128 * Power[NativeWidth - 1] - 1    \* INT64_MAX

(* An adjusted exponent, an int32_t, is an int64_t too. *)
ASSUME NativeAssumption == MaxExp <= NativeTop

Native(i)      == [kind |-> "int", integer |-> i]
Big(neg, data) == [kind |-> "bigint", negative |-> neg, data |-> data]

(* Variant with a bug: the least native integer taken for a big one. *)
LeastIsBig(positive, p) ==
    LET raw == BeToU64(p)
        m   == Power[NativeWidth] - raw
    IN  CASE positive -> IF raw <= NativeTop THEN Native(raw) ELSE Big(FALSE, p)
          [] ~positive /\ Len(p) < NativeWidth -> Native(raw - Power[Len(p)])
          [] ~positive /\ Len(p) = NativeWidth /\ raw = 0 -> Big(TRUE, <<1>> \o Zeroes(NativeWidth))
          [] OTHER -> IF m <= NativeTop THEN Native(-m) ELSE Big(TRUE, ToBE(m))

(* A slot no wider than int64; in the widest of them 0 stands for -2^64. *)
NarrowSlot(positive, p) ==
    LET raw == BeToU64(p)
        m   == Power[NativeWidth] - raw
    IN  CASE positive -> IF raw <= NativeTop THEN Native(raw) ELSE Big(FALSE, p)
          [] ~positive /\ Len(p) < NativeWidth -> Native(raw - Power[Len(p)])
          [] ~positive /\ Len(p) = NativeWidth /\ raw = 0 -> Big(TRUE, <<1>> \o Zeroes(NativeWidth))
          [] OTHER -> IF m <= NativeTop + 1 THEN Native(-m) ELSE Big(TRUE, ToBE(m))

(* A wider one is always a big integer; one byte of it always remains. *)
WideSlot(positive, p) ==
    IF positive THEN Big(FALSE, p)
    ELSE Big(TRUE, IF Trimmed(Negated(p)) = <<>> THEN <<0>> ELSE Trimmed(Negated(p)))

CppFixedInt(buf, t, q) ==
    LET n        == SlotWidth(t)
        p        == Bytes(buf, q, n)
        positive == t > INT_ZERO
    IN  IF ~CanTake(buf, q, n) THEN Failed(q)
        ELSE IF \/ positive /\ p[1] = 0
                \/ ~positive /\ p[1] = 255 /\ n > 1
                \/ n = FixedWidth /\ positive /\ p[1] >= 128
                \/ n = FixedWidth /\ ~positive /\ p[1] < 128
        THEN Failed(q + n)
        ELSE Decoded(q + n, IF n <= NativeWidth THEN NarrowSlot(positive, p) ELSE WideSlot(positive, p))

(* The length header at q: the bytes it takes and the length it gives. *)
CppLength(buf, neg, q) ==
    LET m == Signed(neg, Bytes(buf, q, 1))[1]
    IN  IF ~CanTake(buf, q, 1) THEN Failed(q)
        ELSE IF m > LenOfLen \/ ~CanTake(buf, q + 1, m) THEN Failed(q + 1)
        ELSE Decoded(q + 1 + m, BeToU64(Signed(neg, Bytes(buf, q + 1, m))))

(* The checks are made over the magnitude, after it was taken. *)
CppBigInt(buf, neg, q) ==
    LET h    == CppLength(buf, neg, q)
        n    == h.el
        data == Signed(neg, Bytes(buf, h.pos, n))
    IN  IF h.rc = -1 THEN h
        ELSE IF ~CanTake(buf, h.pos, n) THEN Failed(h.pos)
        ELSE IF n = 0 \/ h.pos - (q + 1) # ByteLen(n) \/ data[1] = 0 \/ FitsSigned(neg, data, FixedWidth)
        THEN Failed(h.pos + n)
        ELSE Decoded(h.pos + n, Big(neg, data))

-----------------------------------------------------------------------------
(* A decimal's exponent: the magnitude of a negative one is taken modulo   *)
(* 2^64 before it is compared.                                             *)
SlotValue(positive, p) ==
    LET raw == BeToU64(p)
    IN  IF positive THEN raw
        ELSE IF Len(p) = NativeWidth THEN -((Power[NativeWidth] - raw) % Power[NativeWidth])
        ELSE raw - Power[Len(p)]

CppExponent(buf, neg, q) ==
    LET t == Signed(neg, Bytes(buf, q, 1))[1]
        n == SlotWidth(t)
        v == SlotValue(t > INT_ZERO, Signed(neg, Bytes(buf, q + 1, n)))
    IN  IF ~CanTake(buf, q, 1) THEN Failed(q)
        ELSE IF t = INT_ZERO THEN Decoded(q + 1, 0)
        ELSE IF t \notin FixedNeg \cup FixedPos \/ ~CanTake(buf, q + 1, n) THEN Failed(q + 1)
        ELSE IF n > NativeWidth \/ v > NativeTop \/ v < -(NativeTop + 1) THEN Failed(q + 1 + n)
        ELSE IF ~InExpRange(v) THEN Failed(q + 1 + n)
        ELSE Decoded(q + 1 + n, v)

CppZero == [kind |-> "decimal", negative |-> FALSE, data |-> <<>>, dec_exp |-> 0]

(* The first digit terminator after offset p, where there is one. *)
DigitEnds(buf, neg, p) == {i \in (p + 1)..Len(buf) : buf[i] = IF neg THEN 255 ELSE 0}

(* What follows an exponent e read before it: any byte but the terminator  *)
(* is a pair of digits.                                                    *)
CppCoefficient(buf, neg, e) ==
    LET ends   == DigitEnds(buf, neg, e.pos)
        digits == Digits(Signed(neg, SubSeq(buf, e.pos + 1, FirstOf(ends) - 1)))
    IN  IF e.rc = -1 \/ ends = {} \/ FirstOf(ends) = e.pos + 1 THEN Failed(e.pos)
        ELSE Decoded(FirstOf(ends), [kind |-> "decimal", negative |-> neg, data |-> digits,
                                     dec_exp |-> e.el - Len(digits)])

CppDecimal(buf, q) ==
    LET sign == buf[q + 1]
        neg  == sign = DEC_SIGN_NEG
    IN  IF ~CanTake(buf, q, 1) THEN Failed(q)
        ELSE IF sign = DEC_SIGN_ZERO THEN Decoded(q + 1, CppZero)
        ELSE IF sign \notin {DEC_SIGN_NEG, DEC_SIGN_POS} THEN Failed(q + 1)
        ELSE CppCoefficient(buf, neg, CppExponent(buf, neg, q + 1))

-----------------------------------------------------------------------------
(* take_framed, and where next() puts what it returns. *)
CppFramed(buf, t, q) ==
    LET ends    == Terminators(buf, q)
        content == Unescaped(SubSeq(buf, q + 1, FirstOf(ends) - 1))
    IN  IF ends = {} THEN Failed(q)
        ELSE Decoded(FirstOf(ends),
                     IF t = STRING_CODE THEN [kind |-> "string", str |-> content, data |-> <<>>]
                     ELSE [kind |-> KindOf[t], data |-> content])

(* Reader::next, its type code t taken. *)
CppElement(buf, t, q) ==
    CASE t = NIL        -> Decoded(q, [kind |-> "nil"])
      [] t = UNDEF      -> Decoded(q, [kind |-> "undef"])
      [] t = BOOL_FALSE -> Decoded(q, [kind |-> "bool", boolean |-> FALSE])
      [] t = BOOL_TRUE  -> Decoded(q, [kind |-> "bool", boolean |-> TRUE])
      [] t = INT_ZERO   -> Decoded(q, Native(0))
      [] t \in {INT_NEG_BIG, INT_POS_BIG} -> CppBigInt(buf, t = INT_NEG_BIG, q)
      [] t = FLOAT32    -> ReadPayload(buf, q, F32Width,
                             [kind |-> "f32", bits |-> DecFloatBits(Bytes(buf, q, F32Width))])
      [] t = FLOAT64    -> ReadPayload(buf, q, F64Width,
                             [kind |-> "f64", bits |-> DecFloatBits(Bytes(buf, q, F64Width))])
      [] t = DECIMAL    -> CppDecimal(buf, q)
      [] t = TIMESTAMP  -> ReadPayload(buf, q, NativeWidth,
                             [kind    |-> "timestamp",
                              integer |-> BeToU64(Bytes(buf, q, NativeWidth)) - (NativeTop + 1)])
      [] t = UUID       -> ReadPayload(buf, q, UuidWidth,
                             [kind |-> "uuid", data |-> Bytes(buf, q, UuidWidth)])
      [] t \in Framed   -> CppFramed(buf, t, q)
      [] t \in FixedNeg \cup FixedPos -> CppFixedInt(buf, t, q)
      [] OTHER          -> Failed(q)

CppNext(buf, p) ==
    IF p >= Len(buf) THEN [rc |-> 0, pos |-> p, el |-> NoElement]
    ELSE CppElement(buf, buf[p + 1], p + 1)

-----------------------------------------------------------------------------
(* Reader::consume: past an element without decoding it, but for the       *)
(* exponent of a decimal, which it does decode.                            *)
Past(buf, q, n) == ReadPayload(buf, q, n, NoElement)

(* Variant with a bug: the magnitude is passed without being taken. *)
LengthTrusted(buf, neg, q) ==
    LET h == CppLength(buf, neg, q)
    IN  IF h.rc = -1 THEN h ELSE Decoded(h.pos + h.el, NoElement)

ConsumeBigInt(buf, neg, q) ==
    LET h == CppLength(buf, neg, q)
    IN  IF h.rc = -1 THEN h ELSE Past(buf, h.pos, h.el)

SkipDecimal(buf, q) ==
    LET sign == buf[q + 1]
        neg  == sign = DEC_SIGN_NEG
        e    == CppExponent(buf, neg, q + 1)
    IN  IF ~CanTake(buf, q, 1) THEN Failed(q)
        ELSE IF sign = DEC_SIGN_ZERO THEN Decoded(q + 1, NoElement)
        ELSE IF sign \notin {DEC_SIGN_NEG, DEC_SIGN_POS} THEN Failed(q + 1)
        ELSE IF e.rc = -1 \/ DigitEnds(buf, neg, e.pos) = {} THEN Failed(e.pos)
        ELSE Decoded(FirstOf(DigitEnds(buf, neg, e.pos)), NoElement)

ConsumeElement(buf, t, q) ==
    CASE t \in Bare -> Decoded(q, NoElement)
      [] t \in {INT_NEG_BIG, INT_POS_BIG} -> ConsumeBigInt(buf, t = INT_NEG_BIG, q)
      [] t = FLOAT32   -> Past(buf, q, F32Width)
      [] t = FLOAT64   -> Past(buf, q, F64Width)
      [] t = TIMESTAMP -> Past(buf, q, NativeWidth)
      [] t = DECIMAL   -> SkipDecimal(buf, q)
      [] t = UUID      -> Past(buf, q, UuidWidth)
      [] t \in Framed  -> IF Terminators(buf, q) = {} THEN Failed(q)
                          ELSE Decoded(FirstOf(Terminators(buf, q)), NoElement)
      [] t \in FixedNeg \cup FixedPos -> Past(buf, q, SlotWidth(t))
      [] OTHER -> Failed(q)

CppConsume(buf, p) ==
    IF p >= Len(buf) THEN [rc |-> 0, pos |-> p, el |-> NoElement]
    ELSE ConsumeElement(buf, buf[p + 1], p + 1)

-----------------------------------------------------------------------------
(* append_magnitude, on a magnitude without leading zeros. *)
CppMagnitude(neg, mag) ==
    LET low  == Trimmed(MinusOne(mag))
        slot == IF low = <<>> THEN <<0>> ELSE low
        len  == ToBE(Len(mag))
    IN  IF ~FitsSigned(neg, mag, FixedWidth)
        THEN <<IF neg THEN INT_NEG_BIG ELSE INT_POS_BIG>> \o Signed(neg, <<Len(len)>> \o len \o mag)
        ELSE IF neg THEN <<INT_ZERO - Len(slot)>> \o Complement(slot)
        ELSE <<INT_ZERO + Len(mag)>> \o mag

CppInteger(i) ==
    IF i = 0 THEN <<INT_ZERO>> ELSE CppMagnitude(i < 0, ToBE(IF i < 0 THEN -i ELSE i))

CppBig(neg, data) ==
    IF Trimmed(data) = <<>> THEN <<INT_ZERO>> ELSE CppMagnitude(neg, Trimmed(data))

(* Variant with a bug: leading zeros count towards the adjusted exponent. *)
LeadingZerosCounted(neg, digits, exp) ==
    LET sig  == Trimmed(digits)
        adj  == Len(digits) + exp
        tail == CppInteger(adj) \o DigitPairs(NoTrailingZeros(sig)) \o <<TERMINATOR>>
    IN  IF sig = <<>> THEN [rc |-> 0, out |-> <<DECIMAL, DEC_SIGN_ZERO>>]
        ELSE IF ~InExpRange(adj) THEN [rc |-> -1, out |-> <<DECIMAL>>]
        ELSE [rc |-> 0, out |-> <<DECIMAL, IF neg THEN DEC_SIGN_NEG ELSE DEC_SIGN_POS>> \o Signed(neg, tail)]

(* append_decimal: the type code is pushed first, so it is there when the  *)
(* exponent throws.                                                        *)
CppAppendDecimal(neg, digits, exp) ==
    LET sig  == Trimmed(digits)
        adj  == Len(sig) + exp
        tail == CppInteger(adj) \o DigitPairs(NoTrailingZeros(sig)) \o <<TERMINATOR>>
    IN  IF sig = <<>> THEN [rc |-> 0, out |-> <<DECIMAL, DEC_SIGN_ZERO>>]
        ELSE IF ~InExpRange(adj) THEN [rc |-> -1, out |-> <<DECIMAL>>]
        ELSE [rc |-> 0, out |-> <<DECIMAL, IF neg THEN DEC_SIGN_NEG ELSE DEC_SIGN_POS>> \o Signed(neg, tail)]

(* append_element: what a Writer's bytes grow by, and whether it threw. *)
CppAppend(e) ==
    LET bytes ==
          CASE e.kind = "nil"    -> <<NIL>>
            [] e.kind = "undef"  -> <<UNDEF>>
            [] e.kind = "bool"   -> <<IF e.boolean THEN BOOL_TRUE ELSE BOOL_FALSE>>
            [] e.kind = "int"    -> CppInteger(e.integer)
            [] e.kind = "bigint" -> CppBig(e.negative, e.data)
            [] e.kind = "f32"    -> <<FLOAT32>> \o EncFloatBits(e.bits)
            [] e.kind = "f64"    -> <<FLOAT64>> \o EncFloatBits(e.bits)
            [] e.kind = "timestamp" ->
                 LET u == ToBE(e.integer + NativeTop + 1)
                 IN  <<TIMESTAMP>> \o Zeroes(NativeWidth - Len(u)) \o u
            [] e.kind = "uuid"   -> <<UUID>> \o e.data
            [] e.kind = "string" -> EncFramed(STRING_CODE, e.str)
            [] e.kind \in {"bytes", "array", "map", "set"} -> EncFramed(FramedCode[e.kind], e.data)
    IN  IF e.kind = "decimal" THEN CppAppendDecimal(e.negative, e.data, e.dec_exp)
        ELSE [rc |-> 0, out |-> bytes]

(* What is left of b after r was read at its start. *)
Onward(b, r) == SubSeq(b, r.pos + 1, Len(b))

(* transcode: the bytes, or an exception and no bytes. *)
CppTranscode[b \in Seq(Byte)] ==
    LET r == CppNext(b, 0)
        thrown == [rc |-> -1, out |-> <<>>]
        join(first, rest) ==
            IF first.rc = -1 \/ rest.rc = -1 THEN thrown ELSE [rc |-> 0, out |-> first.out \o rest.out]
    IN  CASE r.rc = 0  -> [rc |-> 0, out |-> <<>>]
          [] r.rc = -1 -> thrown
          [] r.rc = 1  -> join(CppAppend(r.el), CppTranscode[Onward(b, r)])

-----------------------------------------------------------------------------
(* The decoded element e of the C port and x of this one are the same      *)
(* value in the two ports' representations.                                *)
SignedValue(e) == IF e.neg THEN -BeToU64(e.mag) ELSE BeToU64(e.mag)

TwosComplement(data) == BeToU64(FlipSign(data)) - (NativeTop + 1)

SameElement(e, x) ==
    /\ e.kind = x.kind
    /\ CASE e.kind \in {"nil", "undef", "none"} -> TRUE
         [] e.kind = "bool"       -> x.boolean = e.val
         [] e.kind = "int"        -> x.integer = SignedValue(e)
         [] e.kind = "bigint"     -> x.negative = e.neg /\ x.data = e.mag
         [] e.kind \in {"f32", "f64"} -> x.bits = e.bits
         [] e.kind = "decimal"    -> x.negative = e.neg /\ x.data = e.digits /\ x.dec_exp = e.exp
         [] e.kind = "timestamp"  -> x.integer = TwosComplement(e.data)
         [] e.kind = "string"     -> x.str = e.data
         [] OTHER                 -> x.data = e.data

(* A decimal whose digits are not all digits: a pair byte above 100. *)
OverfullPair(x) == x.kind = "decimal" /\ \E i \in DOMAIN x.data : x.data[i] > 9
=============================================================================
